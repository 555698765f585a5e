------------------------------ MODULE EdgeProofs ------------------------------
(***************************************************************************)
(* The safety of what stands between the network and a call: digest        *)
(* authentication (DigestSound), for every number of workers, requests and *)
(* nonces; the rendezvous of the WebRTC gateway (RendezvousSound), for     *)
(* every number of sessions, offers, SIP calls and tags; and the TURN      *)
(* server (RelaysSound), for every number of clients, peers, channels and  *)
(* requests and every lifetime.                                            *)
(*                                                                         *)
(* None of them is inductive.  DigestInv adds that a nonce has one         *)
(* entry, that an entry remembers every count its nonce was accepted with, *)
(* and that nobody presents a nonce that was not issued.  WebInv adds that *)
(* a leg is in one place at most (parked, in the hands of the leg that     *)
(* took it, or bridged) and that it is in none before its own rendezvous.  *)
(* TurnInv adds that a transaction id is used once, that nobody knows a    *)
(* nonce that was not issued, that the nonce a relay was opened with is no *)
(* pending challenge's, and that a live channel leads back to its peer.    *)
(***************************************************************************)
EXTENDS Registrar, WebRtc, Turn, FiniteSetTheorems, TLAPS

-----------------------------------------------------------------------------
\* A function on 1 .. n is a sequence.
LEMMA FunctionIsSeq ==
    ASSUME NEW S, NEW n \in Nat, NEW f \in [1 .. n -> S]
    PROVE  f \in Seq(S) /\ Len(f) = n
OBVIOUS

-----------------------------------------------------------------------------
(* Digest authentication *)

\* What a worker holds while it checks an Authorization header.
Checking == {"precheck", "lookup", "verify"}
HeaderInv ==
    /\ DOMAIN worker = Workers
    /\ \A w \in Workers : worker[w].phase \in Checking =>
        /\ "phase" \in DOMAIN worker[w] /\ "header" \in DOMAIN worker[w]
        /\ worker[w].header.nonce \in 1 .. everNonce
        /\ worker[w].header.nc \in Nat
    /\ \A w \in Workers : "phase" \in DOMAIN worker[w]

\* The table holds one entry of a nonce, and none of a nonce that was not issued.
Entries == [nonce : Nat, issued : Nat, last_nc : Nat, used_without_qop : BOOLEAN]
TableInv ==
    /\ everNonce \in Nat /\ clock \in Nat
    /\ table \subseteq Entries
    /\ \A e \in table : e.nonce <= everNonce
    /\ \A e, f \in table : e.nonce = f.nonce => e = f

\* As long as a nonce is in the table it remembers what it was accepted with.
GrantInv ==
    \A h \in granted :
        /\ h.nonce \in 1 .. everNonce /\ h.nc \in Nat
        /\ \A e \in table : e.nonce = h.nonce => Spent(e, h.nc)

DigestInv == HeaderInv /\ TableInv /\ GrantInv /\ DigestSound

LEMMA RegistrarInitInv == RegistrarInit => DigestInv
BY DEF RegistrarInit, Resting, DigestInv, HeaderInv, TableInv, GrantInv, DigestSound, Checking

\* Nonces are numbered in the order in which they are issued.
LaterNonce == everNonce \in Nat /\ everNonce' \in Nat /\ everNonce <= everNonce'

LEMMA NonceKept == everNonce \in Nat /\ UNCHANGED everNonce => LaterNonce
BY DEF LaterNonce

(* A worker that leaves its header behind, whatever it does next. *)
LEMMA WorkerLeaves ==
  ASSUME HeaderInv, NEW w \in Workers, NEW r, worker' = [worker EXCEPT ![w] = r],
         "phase" \in DOMAIN r, r.phase \notin Checking, LaterNonce
  PROVE  HeaderInv'
<1>1. /\ DOMAIN worker' = Workers /\ worker'[w] = r
      /\ \A v \in Workers : v # w => worker'[v] = worker[v]
  BY DEF HeaderInv
<1>2. \A v \in Workers : worker'[v].phase \in Checking => v # w
  BY <1>1
<1>3. \A n \in 1 .. everNonce : n \in 1 .. everNonce'
  BY DEF LaterNonce
<1> QED
  BY <1>1, <1>2, <1>3 DEF HeaderInv

(* A worker that goes on with the header it has. *)
LEMMA WorkerGoesOn ==
  ASSUME HeaderInv, NEW w \in Workers, worker[w].phase \in Checking, NEW x,
         worker' = [worker EXCEPT ![w].phase = x], UNCHANGED everNonce
  PROVE  HeaderInv'
<1>1. "phase" \in DOMAIN worker[w] /\ "header" \in DOMAIN worker[w]
  BY DEF HeaderInv
<1>2. /\ DOMAIN worker' = Workers /\ DOMAIN worker'[w] = DOMAIN worker[w]
      /\ worker'[w].header = worker[w].header
      /\ \A v \in Workers : v # w => worker'[v] = worker[v]
  BY <1>1 DEF HeaderInv
<1> QED
  BY <1>1, <1>2 DEF HeaderInv

LEMMA ChallengeStep ==
  ASSUME HeaderInv, everNonce \in Nat, NEW w \in Workers, NEW error, Challenge(w, error),
         UNCHANGED everNonce
  PROVE  HeaderInv'
<1> DEFINE r == [phase |-> "challenge", method |-> worker[w].method,
                 stale |-> error \in {"StaleNonce", "NonceReplayed"}]
<1>1. worker' = [worker EXCEPT ![w] = r]
  BY DEF Challenge
<1>2. "phase" \in DOMAIN r /\ r.phase \notin Checking
  BY DEF Checking
<1> HIDE DEF r
<1> QED
  BY <1>1, <1>2, NonceKept, WorkerLeaves

(* Nothing is granted and the table only shrinks. *)
LEMMA TableShrinks ==
  ASSUME TableInv, GrantInv, table' \subseteq table, UNCHANGED <<granted, everNonce>>, clock' \in Nat
  PROVE  TableInv' /\ GrantInv'
BY DEF TableInv, GrantInv, Spent

LEMMA ReceiveInv ==
  ASSUME DigestInv, NEW w \in Workers, NEW m, NEW x, Receive(w, m, x)
  PROVE  DigestInv'
<1>1. TableInv' /\ GrantInv' /\ DigestSound'
  BY TableShrinks DEF DigestInv, Receive, DigestSound, TableInv
<1>2. LaterNonce
  BY NonceKept DEF DigestInv, Receive, TableInv
<1>3. HeaderInv'
  <2>1. CASE worker' = [worker EXCEPT ![w] = [phase |-> "challenge", method |-> m, stale |-> FALSE]]
    <3> DEFINE r == [phase |-> "challenge", method |-> m, stale |-> FALSE]
    <3>1. "phase" \in DOMAIN r /\ r.phase \notin Checking
      BY DEF Checking
    <3> HIDE DEF r
    <3>2. worker' = [worker EXCEPT ![w] = r]
      BY <2>1 DEF r
    <3> QED
      BY <3>1, <3>2, <1>2, WorkerLeaves DEF DigestInv
  <2>2. ASSUME NEW h \in Headers,
               worker' = [worker EXCEPT ![w] = [phase |-> "precheck", method |-> m, expires |-> x,
                                                header |-> h]]
        PROVE  HeaderInv'
    <3>1. h.nonce \in 1 .. everNonce /\ h.nc \in Nat
      BY <2>2 DEF Headers, NoQop, UnreadableNc
    <3> DEFINE r == [phase |-> "precheck", method |-> m, expires |-> x, header |-> h]
    <3>2. "phase" \in DOMAIN r /\ "header" \in DOMAIN r /\ r.header = h
      OBVIOUS
    <3> HIDE DEF r
    <3>3. worker' = [worker EXCEPT ![w] = r]
      BY <2>2 DEF r
    <3>4. /\ DOMAIN worker' = Workers /\ worker'[w] = r
          /\ \A v \in Workers : v # w => worker'[v] = worker[v]
      BY <3>3 DEF DigestInv, HeaderInv
    <3>5. everNonce' = everNonce
      BY DEF Receive
    <3> QED
      BY <3>1, <3>2, <3>4, <3>5 DEF DigestInv, HeaderInv
  <2> QED
    BY <2>1, <2>2 DEF Receive
<1> QED
  BY <1>1, <1>3 DEF DigestInv

LEMMA PrecheckInv ==
  ASSUME DigestInv, NEW w \in Workers, Precheck(w)
  PROVE  DigestInv'
<1>1. TableInv' /\ GrantInv' /\ DigestSound'
  BY TableShrinks DEF DigestInv, Precheck, DigestSound, TableInv
<1>2. everNonce \in Nat /\ UNCHANGED everNonce
  BY DEF DigestInv, TableInv, Precheck, DigestSound
<1>3. HeaderInv'
  <2>1. CASE worker' = [worker EXCEPT ![w].phase = "lookup"]
    BY <1>2, <2>1, WorkerGoesOn DEF DigestInv, Precheck, Checking
  <2>2. ASSUME NEW error, Challenge(w, error)
        PROVE  HeaderInv'
    BY <1>2, <2>2, ChallengeStep DEF DigestInv
  <2>3. \/ worker' = [worker EXCEPT ![w].phase = "lookup"]
        \/ \E error : Challenge(w, error)
    BY DEF Precheck
  <2> QED
    BY <2>1, <2>2, <2>3
<1> QED
  BY <1>1, <1>3 DEF DigestInv, DigestSound

LEMMA RestingStep ==
  ASSUME HeaderInv, NEW w \in Workers, worker' = [worker EXCEPT ![w] = Resting],
         LaterNonce
  PROVE  HeaderInv'
<1>1. "phase" \in DOMAIN Resting /\ Resting.phase \notin Checking
  BY DEF Resting, Checking
<1> QED
  BY <1>1, WorkerLeaves

LEMMA LookUpInv ==
  ASSUME DigestInv, NEW w \in Workers, LookUp(w)
  PROVE  DigestInv'
<1>1. TableInv' /\ GrantInv' /\ DigestSound'
  BY TableShrinks DEF DigestInv, LookUp, DigestSound, TableInv
<1>2. everNonce \in Nat /\ UNCHANGED everNonce
  BY DEF DigestInv, TableInv, LookUp, DigestSound
<1>3. HeaderInv'
  <2>1. CASE worker' = [worker EXCEPT ![w].phase = "verify"]
    BY <1>2, <2>1, WorkerGoesOn DEF DigestInv, LookUp, Checking
  <2>2. ASSUME NEW error, Challenge(w, error)
        PROVE  HeaderInv'
    BY <1>2, <2>2, ChallengeStep DEF DigestInv
  <2>3. CASE worker' = [worker EXCEPT ![w] = Resting]
    BY <1>2, <2>3, NonceKept, RestingStep DEF DigestInv
  <2>4. \/ worker' = [worker EXCEPT ![w].phase = "verify"]
        \/ worker' = [worker EXCEPT ![w] = Resting]
        \/ \E error : Challenge(w, error)
    BY DEF LookUp
  <2> QED
    BY <2>1, <2>2, <2>3, <2>4
<1> QED
  BY <1>1, <1>3 DEF DigestInv, DigestSound

(* A claim spends the header it was made with and nothing is unspent by it. *)
LEMMA ClaimSpends ==
  ASSUME NEW e \in Entries, NEW nc \in Nat, ~Spent(e, nc)
  PROVE  /\ Claimed(e, nc) \in Entries /\ Claimed(e, nc).nonce = e.nonce
         /\ Spent(Claimed(e, nc), nc)
         /\ \A k \in Nat : Spent(e, k) => Spent(Claimed(e, nc), k)
<1>1. CASE nc = NoQop
  BY <1>1 DEF Entries, Claimed, Spent
<1>2. CASE nc # NoQop
  <2>1. /\ Claimed(e, nc) \in Entries /\ Claimed(e, nc).nonce = e.nonce
        /\ Claimed(e, nc).last_nc = nc /\ Claimed(e, nc).used_without_qop = e.used_without_qop
    BY <1>2 DEF Claimed, Entries
  <2>2. e.last_nc \in Nat /\ e.last_nc < nc
    BY <1>2 DEF Entries, Spent
  <2> QED
    BY <1>2, <2>1, <2>2 DEF Spent
<1> QED
  BY <1>1, <1>2

LEMMA GrantStep ==
  ASSUME DigestInv, NEW w \in Workers, worker[w].phase = "verify", NEW e \in table,
         e.nonce = worker[w].header.nonce, ~Spent(e, worker[w].header.nc),
         table' = (table \ {e}) \cup {Claimed(e, worker[w].header.nc)}, Grant(w),
         UNCHANGED <<clock, everNonce>>
  PROVE  DigestInv'
<1> DEFINE h == worker[w].header
           f == Claimed(e, h.nc)
<1>1. h.nonce \in 1 .. everNonce /\ h.nc \in Nat /\ e \in Entries /\ everNonce \in Nat
  BY DEF DigestInv, HeaderInv, TableInv, Checking
<1>2. /\ f \in Entries /\ f.nonce = e.nonce /\ Spent(f, h.nc)
      /\ \A k \in Nat : Spent(e, k) => Spent(f, k)
  BY <1>1, ClaimSpends
<1>3. ~Reused(h)
  <2> SUFFICES ASSUME NEW g \in granted, g.nonce = h.nonce, g.nc = NoQop <=> h.nc = NoQop, h.nc <= g.nc
               PROVE  FALSE
    BY DEF Reused
  <2>1. g.nc \in Nat /\ Spent(e, g.nc) /\ e.last_nc \in Nat /\ ~Spent(e, h.nc)
    BY <1>1 DEF DigestInv, GrantInv, Entries
  <2> QED
    BY <1>1, <2>1 DEF Spent
<1>4. HeaderInv'
  <2> DEFINE r == [phase |-> "granted", method |-> worker[w].method,
                   user |-> worker[w].header.user, expires |-> worker[w].expires]
  <2>1. "phase" \in DOMAIN r /\ r.phase \notin Checking
    BY DEF Checking
  <2>2. worker' = [worker EXCEPT ![w] = r]
    BY DEF Grant
  <2>3. LaterNonce
    BY <1>1, NonceKept
  <2> HIDE DEF r
  <2> QED
    BY <2>1, <2>2, <2>3, WorkerLeaves DEF DigestInv
<1>5. table' = (table \ {e}) \cup {f} /\ granted' = granted \cup {h}
  BY DEF Grant
<1> HIDE DEF f, h
<1>6. TableInv'
  BY <1>1, <1>2, <1>5 DEF DigestInv, TableInv
<1>7. GrantInv'
  <2> SUFFICES ASSUME NEW g \in granted'
               PROVE  /\ g.nonce \in 1 .. everNonce /\ g.nc \in Nat
                      /\ \A i \in table' : i.nonce = g.nonce => Spent(i, g.nc)
    BY DEF GrantInv, Spent
  <2>1. CASE g \in granted
    <3>1. /\ g.nonce \in 1 .. everNonce /\ g.nc \in Nat
          /\ \A i \in table : i.nonce = g.nonce => Spent(i, g.nc)
      BY <2>1 DEF DigestInv, GrantInv
    <3> QED
      BY <1>2, <1>5, <3>1
  <2>2. CASE g = h
    <3>1. \A i \in table \ {e} : i.nonce # h.nonce
      BY DEF DigestInv, TableInv, h
    <3> QED
      BY <1>1, <1>2, <1>5, <2>2, <3>1
  <2> QED
    BY <1>5, <2>1, <2>2
<1>8. DigestSound'
  BY <1>3 DEF DigestInv, DigestSound, Grant, h
<1> QED
  BY <1>4, <1>6, <1>7, <1>8 DEF DigestInv

LEMMA FinishInv ==
  ASSUME DigestInv, NEW w \in Workers, Finish(w)
  PROVE  DigestInv'
<1> DEFINE h == worker[w].header
           e == Entry(h.nonce)
<1>1. everNonce \in Nat /\ UNCHANGED <<clock, everNonce>> /\ worker[w].phase = "verify"
      /\ clock \in Nat
  BY DEF DigestInv, TableInv, Finish, DigestSound
<1>2. ASSUME NEW error, Challenge(w, error), table' \subseteq table,
             UNCHANGED <<granted, twice>>
      PROVE  DigestInv'
  <2>1. TableInv' /\ GrantInv'
    BY <1>1, <1>2, TableShrinks DEF DigestInv
  <2>2. HeaderInv'
    BY <1>1, <1>2, ChallengeStep DEF DigestInv
  <2> QED
    BY <1>2, <2>1, <2>2 DEF DigestInv, DigestSound
<1>3. Known(h.nonce) => e \in table /\ e.nonce = h.nonce
  BY DEF Known, Entry
<1>4. CASE /\ Known(h.nonce) /\ ~Spent(e, h.nc)
           /\ table' = (table \ {e}) \cup {Claimed(e, h.nc)} /\ Grant(w)
  BY <1>1, <1>3, <1>4, GrantStep
<1>5. CASE \E error : /\ Challenge(w, error)
                      /\ table' \subseteq table /\ UNCHANGED <<granted, twice>>
  BY <1>2, <1>5
<1> QED
  BY <1>4, <1>5 DEF Finish, ClaimNonce

LEMMA SweepTableInv ==
  ASSUME DigestInv, NEW w \in Workers, SweepTable(w)
  PROVE  DigestInv'
<1>1. table' \subseteq table
  BY DEF SweepTable, Swept
<1>2. TableInv' /\ GrantInv'
  BY <1>1, TableShrinks DEF DigestInv, SweepTable, TableInv
<1>3. HeaderInv'
  <2>1. /\ DOMAIN worker' = Workers /\ DOMAIN worker'[w] = DOMAIN worker[w]
        /\ worker'[w].phase = "issue"
        /\ \A v \in Workers : v # w => worker'[v] = worker[v]
    BY DEF DigestInv, HeaderInv, SweepTable
  <2> QED
    BY <2>1 DEF DigestInv, HeaderInv, SweepTable, Checking
<1> QED
  BY <1>2, <1>3 DEF DigestInv, SweepTable, DigestSound

LEMMA IssueNonceInv ==
  ASSUME DigestInv, NEW w \in Workers, IssueNonce(w)
  PROVE  DigestInv'
<1> DEFINE n == everNonce + 1
           f == [nonce |-> n, issued |-> clock, last_nc |-> 0, used_without_qop |-> FALSE]
<1>1. everNonce \in Nat /\ clock \in Nat /\ n \in Nat /\ everNonce < n /\ 0 \in Nat
  BY DEF DigestInv, TableInv
<1>2. table' = table \cup {f} /\ everNonce' = n /\ UNCHANGED <<clock, granted>>
  BY DEF IssueNonce
<1> HIDE DEF n
<1>3. f \in Entries /\ f.nonce = n
  BY <1>1 DEF Entries
<1> HIDE DEF f
<1>4. TableInv'
  BY <1>1, <1>2, <1>3 DEF DigestInv, TableInv, Entries
<1>5. GrantInv'
  BY <1>1, <1>2, <1>3 DEF DigestInv, GrantInv, Spent
<1>6. HeaderInv'
  <2>1. LaterNonce
    BY <1>1, <1>2 DEF LaterNonce
  <2> QED
    BY <2>1, RestingStep DEF DigestInv, IssueNonce
<1> QED
  BY <1>4, <1>5, <1>6 DEF DigestInv, IssueNonce, DigestSound

LEMMA PersistInv ==
  ASSUME DigestInv, NEW w \in Workers, Persist(w)
  PROVE  DigestInv'
<1>1. HeaderInv'
  <2>1. LaterNonce
    BY NonceKept DEF DigestInv, TableInv, Persist
  <2> QED
    BY <2>1, RestingStep DEF DigestInv, Persist
<1> QED
  BY <1>1, TableShrinks DEF DigestInv, Persist, DigestSound, TableInv

LEMMA ClocksInv ==
  ASSUME DigestInv, TimePasses \/ ForgetExpired \/ UNCHANGED registrarVars
  PROVE  DigestInv'
<1>1. UNCHANGED <<table, everNonce, worker, granted, twice>> /\ clock' \in Nat
  BY DEF DigestInv, TableInv, TimePasses, ForgetExpired, registrarVars
<1>2. HeaderInv'
  BY <1>1 DEF DigestInv, HeaderInv
<1> QED
  BY <1>1, <1>2, TableShrinks DEF DigestInv, DigestSound

LEMMA RegistrarStepInv == DigestInv /\ [RegistrarNext]_registrarVars => DigestInv'
BY ReceiveInv, PrecheckInv, LookUpInv, FinishInv, SweepTableInv, IssueNonceInv, PersistInv, ClocksInv
   DEF RegistrarNext, ReceiveRegister, ReceiveInvite

(* For any number of workers, users, requests and nonces and any limits of *)
(* the table, no header authenticates two requests, and the nonce-counts   *)
(* accepted for one nonce rise (auth/mod.rs: precheck, claim_nonce,        *)
(* maybe_gc).                                                              *)
THEOREM DigestIsSound == RegistrarSpec => []DigestSound
<1>1. DigestInv => DigestSound
  BY DEF DigestInv
<1> QED
  BY <1>1, RegistrarInitInv, RegistrarStepInv, PTL DEF RegistrarSpec

-----------------------------------------------------------------------------
(* The WebRTC rendezvous *)

Negotiating == {"negotiate", "ice", "dtls", "rendezvous", "park", "bridge"}

\* The fields a session and a SIP call have in each of their steps.
SessionInv ==
    /\ DOMAIN session = Sessions /\ DOMAIN sip = SipCalls
    /\ \A s \in Sessions :
        /\ "step" \in DOMAIN session[s]
        /\ session[s].step \in Negotiating \cup {"closed", "ready", "answer", "find", "unpark"}
        /\ session[s].step \notin {"closed", "unpark"} =>
             /\ {"tag", "offers"} \subseteq DOMAIN session[s]
             /\ session[s].tag \in Tags \cup {NoTag} /\ session[s].offers \in 0 .. MaxOffers
        /\ session[s].step \in Negotiating \cup {"answer"} => "mode" \in DOMAIN session[s]
        /\ session[s].step \in Negotiating => session[s].offers # 0
        /\ session[s].step \in {"park", "unpark"} => session[s].tag \in Tags
        /\ session[s].step \in {"find", "unpark"} => s \in byes
        /\ session[s].step \notin {"closed", "find", "unpark"} => s \notin byes
    /\ \A c \in SipCalls :
        /\ sip[c].step \in {"closed", "bridge", "park", "talking", "ended"}
        /\ sip[c].step = "park" => sip[c].tag \in Tags

\* The offer or INVITE a leg belongs to is past its rendezvous.
OutOf(s, n) ==
    \/ s \in byes
    \/ /\ session[s].step # "closed"
       /\ n <= session[s].offers
       /\ n = session[s].offers => session[s].step \notin Negotiating

Out(leg) ==
    \/ leg \in SipCalls \X {0} /\ sip[leg[1]].step \in {"talking", "ended"}
    \/ leg \in Sessions \X (1 .. MaxOffers) /\ OutOf(leg[1], leg[2])

\* A parked or bridged leg, or one that a leg took to bridge with, is past its own.
OutInv ==
    /\ pending \in [Tags -> Legs \cup {NoLeg}]
    /\ \A t \in Tags : pending[t] # NoLeg => Out(pending[t])
    /\ \A b \in webBridges : b \subseteq Legs /\ \A leg \in b : Out(leg)
    /\ \A s \in Sessions : session[s].step = "bridge" => session[s].partner \in Legs /\ Out(session[s].partner)
    /\ \A c \in SipCalls : sip[c].step = "bridge" => sip[c].partner \in Legs /\ Out(sip[c].partner)

\* No leg is in two places: parked, in the hands of one that bridges, or bridged.
OnceInv ==
    /\ \A t, u \in Tags : pending[t] = pending[u] => t = u \/ pending[t] = NoLeg
    /\ \A a, b \in webBridges : a = b \/ a \cap b = {}
    /\ \A b \in webBridges, t \in Tags : pending[t] \notin b
    /\ \A s \in Sessions : session[s].step = "bridge" =>
         /\ \A t \in Tags : pending[t] # session[s].partner
         /\ \A b \in webBridges : session[s].partner \notin b
         /\ \A r \in Sessions : session[r].step = "bridge" /\ session[r].partner = session[s].partner => r = s
         /\ \A c \in SipCalls : sip[c].step = "bridge" => sip[c].partner # session[s].partner
    /\ \A c \in SipCalls : sip[c].step = "bridge" =>
         /\ \A t \in Tags : pending[t] # sip[c].partner
         /\ \A b \in webBridges : sip[c].partner \notin b
         /\ \A d \in SipCalls : sip[d].step = "bridge" /\ sip[d].partner = sip[c].partner => c = d

\* A bridged leg has its endpoint unless its SIP call ended.
HasEndpoint(leg) == leg \in endpoints \/ (Owner(leg) \in SipCalls /\ sip[Owner(leg)].step = "ended")
EndpointInv == \A b \in webBridges : \A leg \in b : HasEndpoint(leg)

WebInv == SessionInv /\ OutInv /\ OnceInv /\ EndpointInv /\ AnswersPrivate

LEMMA WebRtcInitInv == WebRtcInit => WebInv
<1> SUFFICES ASSUME WebRtcInit PROVE WebInv
  OBVIOUS
<1>1. SessionInv
  BY DEF WebRtcInit, SessionInv, Silent, Negotiating
<1>2. OutInv /\ OnceInv /\ EndpointInv /\ AnswersPrivate
  BY DEF WebRtcInit, Silent, OutInv, OnceInv, EndpointInv, AnswersPrivate
<1> QED
  BY <1>1, <1>2 DEF WebInv

LEMMA InvPairs == WebInv => RendezvousSound
BY DEF WebInv, OnceInv, EndpointInv, HasEndpoint, RendezvousSound, PairedExclusively

(* A step of one session: what the others have stays. *)
Only(s) == DOMAIN session' = Sessions /\ \A v \in Sessions : v # s => session'[v] = session[v]

LEMMA SessionSet ==
  ASSUME SessionInv, NEW s \in Sessions, NEW r, session' = [session EXCEPT ![s] = r]
  PROVE  Only(s) /\ session'[s] = r
BY DEF SessionInv, Only

LEMMA SessionGoes ==
  ASSUME SessionInv, NEW s \in Sessions, NEW x, Goes(s, x)
  PROVE  /\ Only(s) /\ session'[s].step = x /\ DOMAIN session'[s] = DOMAIN session[s]
         /\ "tag" \in DOMAIN session[s] => session'[s].tag = session[s].tag
         /\ "offers" \in DOMAIN session[s] => session'[s].offers = session[s].offers
<1>1. "step" \in DOMAIN session[s] /\ DOMAIN session = Sessions
  BY DEF SessionInv
<1>2. session' = [session EXCEPT ![s] = [session[s] EXCEPT !.step = x]]
  BY DEF Goes
<1>3. Only(s) /\ session'[s] = [session[s] EXCEPT !.step = x]
  BY <1>1, <1>2 DEF Only
<1> QED
  BY <1>1, <1>3

(* A session's step keeps the fields of its record. *)
LEMMA SessionKept ==
  ASSUME SessionInv, NEW s \in Sessions, Only(s), UNCHANGED sip, byes' \in {byes, byes \cup {s}},
         NEW r, session'[s] = r, "step" \in DOMAIN r,
         /\ r.step \in Negotiating \cup {"closed", "ready", "answer", "find", "unpark"}
         /\ r.step \notin {"closed", "unpark"} =>
              /\ {"tag", "offers"} \subseteq DOMAIN r
              /\ r.tag \in Tags \cup {NoTag} /\ r.offers \in 0 .. MaxOffers
         /\ r.step \in Negotiating \cup {"answer"} => "mode" \in DOMAIN r
         /\ r.step \in Negotiating => r.offers # 0
         /\ r.step \in {"park", "unpark"} => r.tag \in Tags
         /\ r.step \in {"find", "unpark"} => s \in byes'
         /\ r.step \notin {"closed", "find", "unpark"} => s \notin byes'
  PROVE  SessionInv'
BY DEF SessionInv, Only

(* A leg that is past its rendezvous stays past it. *)
LEMMA OutStays ==
  ASSUME NEW s \in Sessions, Only(s), UNCHANGED sip, byes \subseteq byes',
         \A n \in 1 .. MaxOffers : OutOf(s, n) => OutOf(s, n)'
  PROVE  \A leg \in Legs : Out(leg) => Out(leg)'
<1> SUFFICES ASSUME NEW leg \in Legs, Out(leg) PROVE Out(leg)'
  OBVIOUS
<1>1. CASE leg \in SipCalls \X {0} /\ sip[leg[1]].step \in {"talking", "ended"}
  BY <1>1 DEF Out
<1>2. CASE leg \in Sessions \X (1 .. MaxOffers) /\ OutOf(leg[1], leg[2])
  <2>1. leg[1] \in Sessions /\ leg[2] \in 1 .. MaxOffers
    BY <1>2
  <2>2. OutOf(leg[1], leg[2])'
    BY <1>2, <2>1 DEF OutOf, Only
  <2> QED
    BY <1>2, <2>2 DEF Out
<1> QED
  BY <1>1, <1>2 DEF Out

(* A step that parks, takes and bridges nothing. *)
LEMMA NothingPlaced ==
  ASSUME OutInv, OnceInv, EndpointInv, \A leg \in Legs : Out(leg) => Out(leg)',
         pending' \in [Tags -> Legs \cup {NoLeg}], \A t \in Tags : pending'[t] \in {pending[t], NoLeg},
         webBridges' \subseteq webBridges,
         \A s \in Sessions : session'[s].step = "bridge" =>
            session[s].step = "bridge" /\ session'[s].partner = session[s].partner,
         \A c \in SipCalls : sip'[c].step = "bridge" =>
            sip[c].step = "bridge" /\ sip'[c].partner = sip[c].partner,
         \A b \in webBridges' : \A leg \in b : HasEndpoint(leg) => HasEndpoint(leg)'
  PROVE  OutInv' /\ OnceInv' /\ EndpointInv'
<1>1. OutInv'
  BY DEF OutInv
<1>2. OnceInv'
  <2>1. \A b \in webBridges : NoLeg \notin b
    BY NoLegAssumption DEF OutInv
  <2>2. \A s \in Sessions : session[s].step = "bridge" => session[s].partner # NoLeg
    BY NoLegAssumption DEF OutInv
  <2>3. \A c \in SipCalls : sip[c].step = "bridge" => sip[c].partner # NoLeg
    BY NoLegAssumption DEF OutInv
  <2> QED
    BY <2>1, <2>2, <2>3 DEF OnceInv
<1>3. EndpointInv'
  BY DEF EndpointInv
<1> QED
  BY <1>1, <1>2, <1>3

(* The leg of an offer is nowhere before its rendezvous. *)
LEMMA FreshLeg ==
  ASSUME WebInv, NEW s \in Sessions, session[s].step \in Negotiating, s \notin byes
  PROVE  Leg(s) \in Legs /\ ~Out(Leg(s))
<1>1. session[s].offers \in 1 .. MaxOffers
  BY WebRtcAssumption DEF WebInv, SessionInv, Negotiating
<1>2. Leg(s) \in Sessions \X (1 .. MaxOffers) /\ Leg(s)[1] = s /\ Leg(s)[2] = session[s].offers
  BY <1>1 DEF Leg
<1>3. Leg(s) \notin SipCalls \X {0}
  BY <1>1, <1>2
<1> QED
  BY <1>2, <1>3 DEF Out, OutOf, Legs

(* An offer goes on, or it is rejected and loses its endpoint. *)
LEMMA OfferStep ==
  ASSUME WebInv, NEW s \in Sessions, Only(s), s \notin byes,
         UNCHANGED <<sip, pending, webBridges, answers>>, byes' = byes, SessionInv',
         session'[s].step # "bridge", \A n \in 1 .. MaxOffers : OutOf(s, n) => OutOf(s, n)',
         \/ endpoints \subseteq endpoints'
         \/ session[s].step \in Negotiating /\ endpoints' = endpoints \ {Leg(s)}
  PROVE  WebInv'
<1>1. \A leg \in Legs : Out(leg) => Out(leg)'
  BY OutStays
<1>2. \A b \in webBridges : \A leg \in b : HasEndpoint(leg) => HasEndpoint(leg)'
  <2>1. CASE endpoints \subseteq endpoints'
    BY <2>1 DEF HasEndpoint
  <2>2. CASE session[s].step \in Negotiating /\ endpoints' = endpoints \ {Leg(s)}
    <3>1. ~Out(Leg(s))
      BY <2>2, FreshLeg
    <3>2. \A b \in webBridges : Leg(s) \notin b
      BY <3>1 DEF WebInv, OutInv
    <3> QED
      BY <2>2, <3>2 DEF HasEndpoint
  <2> QED
    BY <2>1, <2>2
<1>3. \A v \in Sessions : session'[v].step = "bridge" =>
          session[v].step = "bridge" /\ session'[v].partner = session[v].partner
  BY DEF Only
<1>4. OutInv /\ OnceInv /\ EndpointInv /\ pending \in [Tags -> Legs \cup {NoLeg}]
  BY DEF WebInv, OutInv
<1>5. OutInv' /\ OnceInv' /\ EndpointInv'
  BY <1>1, <1>2, <1>3, <1>4, NothingPlaced
<1> QED
  BY <1>5 DEF WebInv, AnswersPrivate

LEMMA LiveSession ==
  ASSUME WebInv, NEW s \in Sessions, session[s].step \in Negotiating \cup {"ready", "answer"}
  PROVE  /\ s \notin byes /\ {"step", "tag", "offers"} \subseteq DOMAIN session[s]
         /\ session[s].tag \in Tags \cup {NoTag} /\ session[s].offers \in 0 .. MaxOffers
         /\ session[s].step \in Negotiating => session[s].offers # 0
         /\ session[s].step # "ready" => "mode" \in DOMAIN session[s]
BY DEF WebInv, SessionInv, Negotiating

(* The steps of an offer that only move its session along. *)
LEMMA OfferGoes ==
  ASSUME WebInv, NEW s \in Sessions, NEW x, Goes(s, x), session[s].step \in Negotiating \cup {"answer"},
         session[s].step = "answer" => x = "ready", x \in Negotiating \cup {"answer", "ready"}, x # "bridge",
         x = "park" => session[s].tag \in Tags,
         UNCHANGED <<sip, pending, webBridges, byes, answers>>,
         \/ endpoints \subseteq endpoints'
         \/ session[s].step \in Negotiating /\ endpoints' = endpoints \ {Leg(s)}
  PROVE  WebInv'
<1> DEFINE r == session'[s]
<1>1. SessionInv
  BY DEF WebInv
<1>2. /\ Only(s) /\ r.step = x /\ DOMAIN r = DOMAIN session[s]
      /\ "tag" \in DOMAIN session[s] => r.tag = session[s].tag
      /\ "offers" \in DOMAIN session[s] => r.offers = session[s].offers
  BY <1>1, SessionGoes
<1>3. /\ s \notin byes /\ {"step", "tag", "offers"} \subseteq DOMAIN session[s]
      /\ session[s].tag \in Tags \cup {NoTag} /\ session[s].offers \in 0 .. MaxOffers
      /\ session[s].step \in Negotiating => session[s].offers # 0
      /\ "mode" \in DOMAIN session[s]
  BY LiveSession DEF Negotiating
<1>4. SessionInv'
  <2>1. r.tag = session[s].tag /\ r.offers = session[s].offers
    BY <1>2, <1>3
  <2>6. session'[s] = r
    OBVIOUS
  <2> HIDE DEF r
  <2>2. /\ "step" \in DOMAIN r /\ {"tag", "offers"} \subseteq DOMAIN r /\ "mode" \in DOMAIN r
        /\ r.step \in Negotiating \cup {"answer", "ready"}
        /\ r.tag \in Tags \cup {NoTag} /\ r.offers \in 0 .. MaxOffers
    BY <1>2, <1>3, <2>1
  <2>3. r.step \in Negotiating => r.offers # 0
    BY <1>2, <1>3, <2>1 DEF Negotiating
  <2>4. r.step = "park" => r.tag \in Tags
    BY <1>2, <2>1
  <2>5. r.step \notin {"closed", "find", "unpark"}
    BY <1>2 DEF Negotiating
  <2> QED
    BY <1>1, <1>2, <1>3, <2>2, <2>3, <2>4, <2>5, <2>6, SessionKept
<1>5. \A n \in 1 .. MaxOffers : OutOf(s, n) => OutOf(s, n)'
  BY <1>2, <1>3 DEF OutOf, Negotiating
<1> QED
  BY <1>2, <1>3, <1>4, <1>5, OfferStep

LEMMA NegotiateAnswerInv ==
  ASSUME WebInv, NEW s \in Sessions, NegotiateAnswer(s)
  PROVE  WebInv'
<1>1. CASE Goes(s, "ready") /\ endpoints' = endpoints \ {Leg(s)}
  BY <1>1, OfferGoes DEF NegotiateAnswer, Negotiating
<1>2. ASSUME NEW x \in {"ice", "dtls", "rendezvous"}, Goes(s, x), UNCHANGED endpoints PROVE WebInv'
  BY <1>2, OfferGoes DEF NegotiateAnswer, Negotiating
<1> QED
  BY <1>1, <1>2 DEF NegotiateAnswer, Reject

LEMMA RunIceInv ==
  ASSUME WebInv, NEW s \in Sessions, RunIce(s)
  PROVE  WebInv'
<1>1. CASE Goes(s, "ready") /\ endpoints' = endpoints \ {Leg(s)}
  BY <1>1, OfferGoes DEF RunIce, Negotiating
<1>2. ASSUME NEW x \in {"dtls", "rendezvous"}, Goes(s, x), UNCHANGED endpoints PROVE WebInv'
  BY <1>2, OfferGoes DEF RunIce, Negotiating
<1> QED
  BY <1>1, <1>2 DEF RunIce, Reject

LEMMA RunDtlsHandshakeInv ==
  ASSUME WebInv, NEW s \in Sessions, RunDtlsHandshake(s)
  PROVE  WebInv'
<1>1. CASE Goes(s, "ready") /\ endpoints' = endpoints \ {Leg(s)}
  BY <1>1, OfferGoes DEF RunDtlsHandshake, Negotiating
<1>2. CASE Goes(s, "rendezvous") /\ UNCHANGED endpoints
  BY <1>2, OfferGoes DEF RunDtlsHandshake, Negotiating
<1> QED
  BY <1>1, <1>2 DEF RunDtlsHandshake, Reject

LEMMA NoPartnerInv ==
  ASSUME WebInv, NEW s \in Sessions, NoPartner(s)
  PROVE  WebInv'
<1>1. CASE Goes(s, "answer")
  BY <1>1, OfferGoes DEF NoPartner, Negotiating
<1>2. CASE session[s].tag # NoTag /\ Goes(s, "park")
  <2>1. session[s].tag \in Tags
    BY <1>2, LiveSession DEF NoPartner, Negotiating
  <2> QED
    BY <1>2, <2>1, OfferGoes DEF NoPartner, Negotiating
<1> QED
  BY <1>1, <1>2 DEF NoPartner

LEMMA SessionInitInv ==
  ASSUME WebInv, NEW s \in Sessions, NEW tag \in Tags \cup {NoTag}, SessionInit(s, tag)
  PROVE  WebInv'
<1> DEFINE r == [step |-> "ready", tag |-> tag, offers |-> 0]
<1>1. SessionInv
  BY DEF WebInv
<1>2. session' = [session EXCEPT ![s] = r]
  BY DEF SessionInit
<1>3. /\ DOMAIN r = {"step", "tag", "offers"} /\ r.step = "ready" /\ r.tag = tag /\ r.offers = 0
  OBVIOUS
<1> HIDE DEF r
<1>4. Only(s) /\ session'[s] = r
  BY <1>1, <1>2, SessionSet
<1>5. SessionInv'
  BY <1>1, <1>3, <1>4, SessionKept, WebRtcAssumption DEF SessionInit, Negotiating
<1>6. \A n \in 1 .. MaxOffers : OutOf(s, n) => OutOf(s, n)'
  BY DEF OutOf, SessionInit
<1> QED
  BY <1>3, <1>4, <1>5, <1>6, OfferStep DEF SessionInit

LEMMA OfferInv ==
  ASSUME WebInv, NEW s \in Sessions, NEW direct, NEW dtls, NEW ice, Offer(s, direct, dtls, ice)
  PROVE  WebInv'
<1> DEFINE k == session[s].offers + 1
           r == [step |-> "negotiate", tag |-> session[s].tag, offers |-> k, mode |-> mode,
                 dtls |-> dtls, ice |-> ice /\ IceEnabled]
<1>1. SessionInv
  BY DEF WebInv
<1>2. session' = [session EXCEPT ![s] = r]
  BY DEF Offer
<1>3. /\ s \notin byes /\ session[s].tag \in Tags \cup {NoTag} /\ session[s].offers \in 0 .. MaxOffers
  BY LiveSession DEF Offer
<1>4. session[s].offers \in Nat /\ k \in 1 .. MaxOffers /\ k = session[s].offers + 1
  BY <1>3, WebRtcAssumption DEF Offer
<1> HIDE DEF k
<1>5. /\ {"step", "tag", "offers", "mode"} \subseteq DOMAIN r /\ r.step = "negotiate"
      /\ r.tag = session[s].tag /\ r.offers = k
  OBVIOUS
<1> HIDE DEF r
<1>6. Only(s) /\ session'[s] = r
  BY <1>1, <1>2, SessionSet
<1>7. SessionInv'
  BY <1>1, <1>3, <1>4, <1>5, <1>6, SessionKept, WebRtcAssumption DEF Offer, Negotiating
<1>8. \A n \in 1 .. MaxOffers : OutOf(s, n) => OutOf(s, n)'
  BY <1>3, <1>4, <1>5, <1>6 DEF OutOf, Offer
<1> QED
  BY <1>3, <1>5, <1>6, <1>7, <1>8, OfferStep DEF Offer

LEMMA AnswerInv ==
  ASSUME WebInv, NEW s \in Sessions, Answer(s)
  PROVE  WebInv'
<1> DEFINE a == [mode |-> session[s].mode, direct |-> DirectCandidates(s)]
<1>1. AnswersPrivate'
  <2>1. answers' = answers \cup {a}
    BY DEF Answer
  <2>2. session[s].mode # "open" => ~DirectCandidates(s)
    BY DEF DirectCandidates
  <2>3. a.mode # "open" => ~a.direct
    BY <2>2
  <2> HIDE DEF a
  <2> QED
    BY <2>1, <2>3 DEF WebInv, AnswersPrivate
<1>2. SessionInv /\ SessionInv'
  <2>1. SessionInv /\ Goes(s, "ready") /\ UNCHANGED <<sip, byes>> /\ session[s].step = "answer"
    BY DEF WebInv, Answer
  <2>2. /\ {"step", "tag", "offers"} \subseteq DOMAIN session[s]
        /\ session[s].tag \in Tags \cup {NoTag} /\ session[s].offers \in 0 .. MaxOffers
    BY <2>1, LiveSession
  <2>3. /\ Only(s) /\ session'[s].step = "ready" /\ DOMAIN session'[s] = DOMAIN session[s]
        /\ session'[s].tag = session[s].tag /\ session'[s].offers = session[s].offers
    BY <2>1, <2>2, SessionGoes
  <2>4. s \notin byes
    BY <2>1, LiveSession
  <2> QED
    BY <2>1, <2>2, <2>3, <2>4, SessionKept DEF Negotiating
<1>3. /\ Only(s) /\ session'[s].step = "ready" /\ session'[s].offers = session[s].offers
  BY <1>2, SessionGoes, LiveSession DEF Answer
<1>4. \A leg \in Legs : Out(leg) => Out(leg)'
  <2>1. \A n \in 1 .. MaxOffers : OutOf(s, n) => OutOf(s, n)'
    BY <1>3 DEF OutOf, Answer, Negotiating
  <2> QED
    BY <1>3, <2>1, OutStays DEF Answer
<1>5. \A v \in Sessions : session'[v].step = "bridge" =>
          session[v].step = "bridge" /\ session'[v].partner = session[v].partner
  BY <1>3 DEF Only
<1>6. OutInv /\ OnceInv /\ EndpointInv /\ pending \in [Tags -> Legs \cup {NoLeg}]
  BY DEF WebInv, OutInv
<1>7. UNCHANGED <<pending, webBridges, sip, endpoints>>
  BY DEF Answer
<1>8. \A b \in webBridges' : \A leg \in b : HasEndpoint(leg) => HasEndpoint(leg)'
  BY <1>7 DEF HasEndpoint
<1>9. OutInv' /\ OnceInv' /\ EndpointInv'
  BY <1>4, <1>5, <1>6, <1>7, <1>8, NothingPlaced
<1> QED
  BY <1>1, <1>2, <1>9 DEF WebInv

(* The steps of a bye, an eviction or the end of a SIP call: legs leave. *)
LEMMA ByeStep ==
  ASSUME WebInv, NEW s \in Sessions, Only(s), SessionInv', UNCHANGED <<sip, answers>>,
         byes \subseteq byes', s \in byes', session'[s].step # "bridge", webBridges' \subseteq webBridges,
         pending' \in [Tags -> Legs \cup {NoLeg}], \A t \in Tags : pending'[t] \in {pending[t], NoLeg},
         \A leg \in endpoints : leg \in endpoints' \/ leg = NoLeg \/ \E t \in Tags : pending[t] = leg
  PROVE  WebInv'
<1>1. \A leg \in Legs : Out(leg) => Out(leg)'
  <2>1. \A n \in 1 .. MaxOffers : OutOf(s, n)'
    BY DEF OutOf
  <2> QED
    BY <2>1, OutStays
<1>2. \A v \in Sessions : session'[v].step = "bridge" =>
          session[v].step = "bridge" /\ session'[v].partner = session[v].partner
  BY DEF Only
<1>3. OutInv /\ OnceInv /\ EndpointInv
  BY DEF WebInv
<1>4. \A b \in webBridges' : \A leg \in b : HasEndpoint(leg) => HasEndpoint(leg)'
  BY <1>3, NoLegAssumption DEF HasEndpoint, OnceInv, OutInv
<1>5. OutInv' /\ OnceInv' /\ EndpointInv'
  BY <1>1, <1>2, <1>3, <1>4, NothingPlaced
<1> QED
  BY <1>5 DEF WebInv, AnswersPrivate

LEMMA ByeInv ==
  ASSUME WebInv, NEW s \in Sessions, Bye(s)
  PROVE  WebInv'
<1>1. SessionInv /\ Goes(s, "find") /\ session[s].step = "ready" /\ byes' = byes \cup {s}
      /\ UNCHANGED <<sip, pending, endpoints, answers>> /\ webBridges' \subseteq webBridges
  BY DEF WebInv, Bye
<1>2. /\ {"step", "tag", "offers"} \subseteq DOMAIN session[s]
      /\ session[s].tag \in Tags \cup {NoTag} /\ session[s].offers \in 0 .. MaxOffers
  BY <1>1, LiveSession
<1>3. /\ Only(s) /\ session'[s].step = "find" /\ DOMAIN session'[s] = DOMAIN session[s]
      /\ session'[s].tag = session[s].tag /\ session'[s].offers = session[s].offers
  BY <1>1, <1>2, SessionGoes
<1>4. SessionInv'
  BY <1>1, <1>2, <1>3, SessionKept DEF Negotiating
<1>5. pending \in [Tags -> Legs \cup {NoLeg}]
  BY DEF WebInv, OutInv
<1> QED
  BY <1>1, <1>3, <1>4, <1>5, ByeStep

LEMMA ByeFindsInv ==
  ASSUME WebInv, NEW s \in Sessions, ByeFinds(s)
  PROVE  WebInv'
<1>1. SessionInv /\ s \in byes /\ pending \in [Tags -> Legs \cup {NoLeg}]
  BY DEF WebInv, SessionInv, OutInv, ByeFinds
<1>2. UNCHANGED <<sip, pending, endpoints, answers, webBridges, byes>>
  BY DEF ByeFinds
<1>3. ASSUME NEW r, session' = [session EXCEPT ![s] = r], "step" \in DOMAIN r,
             r.step = "closed" \/ (r.step = "unpark" /\ r.tag \in Tags)
      PROVE  WebInv'
  <2>1. Only(s) /\ session'[s] = r
    BY <1>1, <1>3, SessionSet
  <2>2. SessionInv'
    BY <1>1, <1>2, <1>3, <2>1, SessionKept DEF Negotiating
  <2> QED
    BY <1>1, <1>2, <1>3, <2>1, <2>2, ByeStep
<1>4. CASE session' = [session EXCEPT ![s] = Silent]
  <2>1. "step" \in DOMAIN Silent /\ Silent.step = "closed"
    BY DEF Silent
  <2> QED
    BY <1>3, <1>4, <2>1
<1>5. ASSUME NEW t \in Tags, session' = [session EXCEPT ![s] = [step |-> "unpark", tag |-> t]]
      PROVE  WebInv'
  <2> DEFINE r == [step |-> "unpark", tag |-> t]
  <2>1. "step" \in DOMAIN r /\ r.step = "unpark" /\ r.tag \in Tags
    OBVIOUS
  <2>2. session' = [session EXCEPT ![s] = r]
    BY <1>5
  <2> HIDE DEF r
  <2> QED
    BY <1>3, <2>1, <2>2
<1> QED
  BY <1>4, <1>5 DEF ByeFinds

LEMMA ByeUnparksInv ==
  ASSUME WebInv, NEW s \in Sessions, ByeUnparks(s)
  PROVE  WebInv'
<1> DEFINE t == session[s].tag
<1>1. SessionInv /\ s \in byes /\ pending \in [Tags -> Legs \cup {NoLeg}] /\ t \in Tags
  BY DEF WebInv, SessionInv, OutInv, ByeUnparks
<1>2. UNCHANGED <<sip, answers, webBridges, byes>> /\ session' = [session EXCEPT ![s] = Silent]
      /\ pending' = [pending EXCEPT ![t] = NoLeg] /\ endpoints' = endpoints \ {pending[t]}
  BY DEF ByeUnparks
<1>3. Only(s) /\ session'[s] = Silent
  BY <1>1, <1>2, SessionSet
<1>4. "step" \in DOMAIN Silent /\ Silent.step = "closed"
  BY DEF Silent
<1>5. SessionInv'
  BY <1>1, <1>2, <1>3, <1>4, SessionKept DEF Negotiating
<1> HIDE DEF t
<1>6. /\ pending' \in [Tags -> Legs \cup {NoLeg}] /\ \A u \in Tags : pending'[u] \in {pending[u], NoLeg}
      /\ \A leg \in endpoints : leg \in endpoints' \/ \E u \in Tags : pending[u] = leg
  BY <1>1, <1>2
<1> QED
  BY <1>1, <1>2, <1>3, <1>4, <1>5, <1>6, ByeStep

LEMMA EvictInv ==
  ASSUME WebInv, NEW leg, Evict(leg)
  PROVE  WebInv'
<1> DEFINE mine == {t \in Tags : Owner(pending[t]) = Owner(leg)}
<1>1. /\ pending' = [t \in Tags |-> IF t \in mine THEN NoLeg ELSE pending[t]]
      /\ endpoints' = endpoints \ {pending[t] : t \in mine}
      /\ UNCHANGED <<session, sip, webBridges, answers, byes>>
  BY DEF Evict
<1>2. OutInv /\ OnceInv /\ EndpointInv /\ SessionInv /\ pending \in [Tags -> Legs \cup {NoLeg}]
  BY DEF WebInv, OutInv
<1>3. mine \subseteq Tags
  OBVIOUS
<1> HIDE DEF mine
<1>4. pending' \in [Tags -> Legs \cup {NoLeg}] /\ \A t \in Tags : pending'[t] \in {pending[t], NoLeg}
  BY <1>1, <1>2
<1>5. \A l \in Legs : Out(l) => Out(l)'
  BY <1>1 DEF Out, OutOf
<1>6. \A b \in webBridges' : \A l \in b : HasEndpoint(l) => HasEndpoint(l)'
  BY <1>1, <1>2, <1>3 DEF HasEndpoint, OnceInv
<1>7. OutInv' /\ OnceInv' /\ EndpointInv'
  BY <1>1, <1>2, <1>4, <1>5, <1>6, NothingPlaced
<1>8. SessionInv'
  BY <1>1, <1>2 DEF SessionInv
<1> QED
  BY <1>1, <1>7, <1>8 DEF WebInv, AnswersPrivate

LEMMA SipEndsInv ==
  ASSUME WebInv, NEW c \in SipCalls, SipEnds(c)
  PROVE  WebInv'
<1> DEFINE r == [step |-> "ended"]
<1>1. /\ webBridges' \subseteq webBridges /\ endpoints' = endpoints \ {<<c, 0>>} /\ sip' = [sip EXCEPT ![c] = r]
      /\ UNCHANGED <<session, pending, answers, byes>>
  BY DEF SipEnds
<1>2. OutInv /\ OnceInv /\ EndpointInv /\ SessionInv /\ pending \in [Tags -> Legs \cup {NoLeg}]
  BY DEF WebInv, OutInv
<1>3. DOMAIN sip' = SipCalls /\ sip'[c].step = "ended" /\ \A d \in SipCalls : d # c => sip'[d] = sip[d]
  BY <1>1, <1>2 DEF SessionInv
<1>4. \A l \in Legs : Out(l) => Out(l)'
  BY <1>1, <1>3 DEF Out, OutOf
<1>5. \A b \in webBridges' : \A l \in b : HasEndpoint(l) => HasEndpoint(l)'
  BY <1>1, <1>3 DEF HasEndpoint, Owner
<1>6. OutInv' /\ OnceInv' /\ EndpointInv'
  BY <1>1, <1>2, <1>3, <1>4, <1>5, NothingPlaced
<1>7. SessionInv'
  BY <1>1, <1>2, <1>3 DEF SessionInv
<1> QED
  BY <1>1, <1>6, <1>7 DEF WebInv, AnswersPrivate

LEMMA ReloadPrivacyInv ==
  ASSUME WebInv, NEW to, ReloadPrivacy(to)
  PROVE  WebInv'
<1>1. UNCHANGED <<session, sip, pending, webBridges, endpoints, answers, byes>>
  BY DEF ReloadPrivacy
<1>2. SessionInv' /\ AnswersPrivate' /\ EndpointInv'
  BY <1>1, SMTT(30) DEF WebInv, SessionInv, AnswersPrivate, EndpointInv, HasEndpoint
<1>3. OutInv' /\ OnceInv'
  BY <1>1 DEF WebInv, OutInv, Out, OutOf, OnceInv
<1> QED
  BY <1>2, <1>3 DEF WebInv

LEMMA TakePartnerInv ==
  ASSUME WebInv, NEW s \in Sessions, TakePartner(s)
  PROVE  WebInv'
<1> DEFINE t == session[s].tag
           p == pending[t]
           r == [step |-> "bridge", tag |-> t, offers |-> session[s].offers,
                 mode |-> session[s].mode, partner |-> p]
<1>1. SessionInv /\ OutInv /\ OnceInv /\ EndpointInv
  BY DEF WebInv
<1>2. /\ s \notin byes /\ t \in Tags /\ session[s].offers \in 0 .. MaxOffers /\ session[s].offers # 0
  BY LiveSession DEF TakePartner, Negotiating
<1>3. /\ session[s].step = "rendezvous" /\ p # NoLeg /\ session' = [session EXCEPT ![s] = r]
      /\ pending' = [pending EXCEPT ![t] = NoLeg]
      /\ UNCHANGED <<sip, endpoints, webBridges, answers, byes>>
  BY DEF TakePartner
<1>4. p \in Legs /\ Out(p) /\ pending \in [Tags -> Legs \cup {NoLeg}]
  BY <1>1, <1>2, <1>3 DEF OutInv
<1>5. /\ {"step", "tag", "offers", "mode"} \subseteq DOMAIN r /\ r.step = "bridge" /\ r.tag = t
      /\ r.offers = session[s].offers /\ r.partner = p
  OBVIOUS
<1> HIDE DEF r, t
<1>6. Only(s) /\ session'[s] = r
  BY <1>1, <1>3, SessionSet
<1>7. SessionInv'
  BY <1>1, <1>2, <1>3, <1>5, <1>6, SessionKept DEF Negotiating
<1>8. \A leg \in Legs : Out(leg) => Out(leg)'
  <2>1. \A n \in 1 .. MaxOffers : OutOf(s, n) => OutOf(s, n)'
    BY <1>2, <1>3, <1>5, <1>6 DEF OutOf, Negotiating
  <2> QED
    BY <1>3, <1>6, <2>1, OutStays
<1>9. pending' \in [Tags -> Legs \cup {NoLeg}] /\ pending'[t] = NoLeg
      /\ \A u \in Tags : u # t => pending'[u] = pending[u] /\ pending[u] # p
  BY <1>1, <1>2, <1>3, <1>4 DEF OnceInv
<1> HIDE DEF p
<1>10. OutInv'
  <2>1. \A u \in Tags : (pending[u] # NoLeg => Out(pending[u]))'
    BY <1>1, <1>8, <1>9 DEF OutInv
  <2>2. \A v \in Sessions : (session[v].step = "bridge" =>
          session[v].partner \in Legs /\ Out(session[v].partner))'
    BY <1>1, <1>4, <1>5, <1>6, <1>8 DEF OutInv, Only
  <2> QED
    BY <1>1, <1>3, <1>8, <1>9, <2>1, <2>2 DEF OutInv
<1>11. OnceInv'
  <2>1. /\ \A b \in webBridges : p \notin b /\ NoLeg \notin b
        /\ \A v \in Sessions : session[v].step = "bridge" => session[v].partner \notin {p, NoLeg}
        /\ \A c \in SipCalls : sip[c].step = "bridge" => sip[c].partner \notin {p, NoLeg}
    BY <1>1, <1>2, <1>4, NoLegAssumption DEF OnceInv, OutInv, p
  <2>2. p # NoLeg /\ session[s].step # "bridge"
    BY <1>3
  <2>3. \A v \in Sessions : session'[v].step = "bridge" =>
          \/ v = s /\ session'[v].partner = p
          \/ v # s /\ session[v].step = "bridge" /\ session'[v].partner = session[v].partner
    BY <1>5, <1>6 DEF Only
  <2>4. \A u \in Tags : pending'[u] \in {pending[u], NoLeg} /\ pending'[u] # p
    BY <1>9, <2>2
  <2>5. \A u, v \in Tags : pending'[u] = pending'[v] => u = v \/ pending'[u] = NoLeg
    BY <1>1, <1>9 DEF OnceInv
  <2>6. \A b \in webBridges, u \in Tags : pending'[u] \notin b
    BY <1>1, <2>1, <2>4 DEF OnceInv
  <2>7. \A v \in Sessions : session'[v].step = "bridge" =>
         /\ \A u \in Tags : pending'[u] # session'[v].partner
         /\ \A b \in webBridges : session'[v].partner \notin b
    BY <1>1, <2>1, <2>3, <2>4 DEF OnceInv
  <2>8. \A v, x \in Sessions : session'[v].step = "bridge" /\ session'[x].step = "bridge" /\
          session'[x].partner = session'[v].partner => x = v
    BY <1>1, <2>1, <2>3 DEF OnceInv
  <2>9. \A v \in Sessions, c \in SipCalls : session'[v].step = "bridge" /\ sip[c].step = "bridge" =>
          sip[c].partner # session'[v].partner
    BY <1>1, <2>1, <2>3 DEF OnceInv
  <2>10. \A c \in SipCalls : sip[c].step = "bridge" =>
         /\ \A u \in Tags : pending'[u] # sip[c].partner
    BY <1>1, <2>1, <2>4 DEF OnceInv
  <2> QED
    BY <1>1, <1>3, <2>5, <2>6, <2>7, <2>8, <2>9, <2>10 DEF OnceInv
<1>12. EndpointInv' /\ AnswersPrivate'
  BY <1>1, <1>3 DEF WebInv, EndpointInv, HasEndpoint, AnswersPrivate
<1> QED
  BY <1>7, <1>10, <1>11, <1>12 DEF WebInv

(* A leg that is nowhere yet is parked under its tag. *)
LEMMA Parked ==
  ASSUME OutInv, OnceInv, NEW t \in Tags, NEW leg \in Legs, ~Out(leg), Out(leg)',
         \A l \in Legs : Out(l) => Out(l)', pending' = [pending EXCEPT ![t] = leg],
         UNCHANGED webBridges,
         \A s \in Sessions : session'[s].step = "bridge" =>
            session[s].step = "bridge" /\ session'[s].partner = session[s].partner,
         \A c \in SipCalls : sip'[c].step = "bridge" =>
            sip[c].step = "bridge" /\ sip'[c].partner = sip[c].partner
  PROVE  OutInv' /\ OnceInv'
<1>1. /\ pending' \in [Tags -> Legs \cup {NoLeg}] /\ pending'[t] = leg
      /\ \A u \in Tags : u # t => pending'[u] = pending[u]
  BY DEF OutInv
<1>2. OutInv'
  BY <1>1 DEF OutInv
<1>3. /\ \A u \in Tags : pending[u] # leg
      /\ \A b \in webBridges : leg \notin b
      /\ \A s \in Sessions : session[s].step = "bridge" => session[s].partner # leg
      /\ \A c \in SipCalls : sip[c].step = "bridge" => sip[c].partner # leg
  BY NoLegAssumption DEF OutInv
<1>4. OnceInv'
  <2>1. \A u, v \in Tags : pending'[u] = pending'[v] => u = v \/ pending'[u] = NoLeg
    BY <1>1, <1>3 DEF OnceInv
  <2>2. \A b \in webBridges, u \in Tags : pending'[u] \notin b
    BY <1>1, <1>3 DEF OnceInv
  <2>3. \A s \in Sessions : session'[s].step = "bridge" =>
         \A u \in Tags : pending'[u] # session'[s].partner
    BY <1>1, <1>3 DEF OnceInv
  <2>4. \A c \in SipCalls : sip'[c].step = "bridge" => \A u \in Tags : pending'[u] # sip'[c].partner
    BY <1>1, <1>3 DEF OnceInv
  <2> QED
    BY <2>1, <2>2, <2>3, <2>4 DEF OnceInv
<1> QED
  BY <1>2, <1>4

(* A leg that is nowhere yet is bridged with the one it took. *)
LEMMA BridgedWith ==
  ASSUME OutInv, OnceInv, EndpointInv, NEW leg \in Legs, ~Out(leg), Out(leg)', NEW p \in Legs, Out(p),
         \A l \in Legs : Out(l) => Out(l)', webBridges' = webBridges \cup {{leg, p}},
         UNCHANGED <<pending, endpoints>>, {leg, p} \subseteq endpoints,
         \A t \in Tags : pending[t] # p, \A b \in webBridges : p \notin b,
         \A s \in Sessions : session'[s].step = "bridge" =>
            session[s].step = "bridge" /\ session'[s].partner = session[s].partner /\ session[s].partner # p,
         \A c \in SipCalls : sip'[c].step = "bridge" =>
            sip[c].step = "bridge" /\ sip'[c].partner = sip[c].partner /\ sip[c].partner # p,
         \A c \in SipCalls : sip[c].step = "ended" => sip'[c].step = "ended"
  PROVE  OutInv' /\ OnceInv' /\ EndpointInv'
<1>1. OutInv'
  BY DEF OutInv
<1>2. /\ \A u \in Tags : pending[u] # leg
      /\ \A b \in webBridges : leg \notin b
      /\ \A s \in Sessions : session[s].step = "bridge" => session[s].partner # leg
      /\ \A c \in SipCalls : sip[c].step = "bridge" => sip[c].partner # leg
  BY NoLegAssumption DEF OutInv
<1>3. OnceInv'
  <2>1. \A b \in webBridges : b \cap {leg, p} = {}
    BY <1>2
  <2>2. \A a, b \in webBridges' : a = b \/ a \cap b = {}
    BY <2>1 DEF OnceInv
  <2>3. \A b \in webBridges', u \in Tags : pending[u] \notin b
    BY <1>2 DEF OnceInv
  <2>4. \A s \in Sessions : session'[s].step = "bridge" => \A b \in webBridges' : session'[s].partner \notin b
    BY <1>2 DEF OnceInv
  <2>5. \A c \in SipCalls : sip'[c].step = "bridge" => \A b \in webBridges' : sip'[c].partner \notin b
    BY <1>2 DEF OnceInv
  <2> QED
    BY <2>2, <2>3, <2>4, <2>5 DEF OnceInv
<1>4. EndpointInv'
  BY DEF EndpointInv, HasEndpoint
<1> QED
  BY <1>1, <1>3, <1>4

(* An offer is past its rendezvous. *)
LEMMA OfferDone ==
  ASSUME WebInv, NEW s \in Sessions, session[s].step \in {"park", "bridge"}, Goes(s, "answer"),
         UNCHANGED <<sip, byes>>
  PROVE  /\ SessionInv' /\ Leg(s) \in Legs /\ ~Out(Leg(s)) /\ Out(Leg(s))'
         /\ Only(s) /\ session'[s].step = "answer"
         /\ \A l \in Legs : Out(l) => Out(l)'
<1> DEFINE r == session'[s]
<1>1. SessionInv
  BY DEF WebInv
<1>2. /\ Only(s) /\ r.step = "answer" /\ DOMAIN r = DOMAIN session[s]
      /\ "tag" \in DOMAIN session[s] => r.tag = session[s].tag
      /\ "offers" \in DOMAIN session[s] => r.offers = session[s].offers
  BY <1>1, SessionGoes
<1>3. /\ s \notin byes /\ {"step", "tag", "offers"} \subseteq DOMAIN session[s]
      /\ session[s].tag \in Tags \cup {NoTag} /\ session[s].offers \in 0 .. MaxOffers
      /\ session[s].offers # 0 /\ "mode" \in DOMAIN session[s]
  BY LiveSession DEF Negotiating
<1>4. r.tag = session[s].tag /\ r.offers = session[s].offers
  BY <1>2, <1>3
<1>5. SessionInv'
  <2>2. session'[s] = r
    OBVIOUS
  <2> HIDE DEF r
  <2>1. "step" \in DOMAIN r /\ {"tag", "offers"} \subseteq DOMAIN r /\ "mode" \in DOMAIN r
    BY <1>2, <1>3
  <2> QED
    BY <1>1, <1>2, <1>3, <1>4, <2>1, <2>2, SessionKept DEF Negotiating
<1>6. \A n \in 1 .. MaxOffers : OutOf(s, n) => OutOf(s, n)'
  BY <1>2, <1>3, <1>4 DEF OutOf, Negotiating
<1>7. Leg(s) \in Legs /\ ~Out(Leg(s))
  BY <1>3, FreshLeg DEF Negotiating
<1>8. Out(Leg(s))'
  <2>1. session[s].offers \in 1 .. MaxOffers
    BY <1>3, WebRtcAssumption
  <2>2. Leg(s)' = <<s, r.offers>> /\ Leg(s) = <<s, session[s].offers>>
    BY DEF Leg
  <2>3. Leg(s) \in Sessions \X (1 .. MaxOffers) /\ Leg(s)[1] = s /\ Leg(s)[2] = session[s].offers
    BY <2>1, <2>2
  <2>4. OutOf(s, session[s].offers)'
    BY <1>2, <1>4, <2>1 DEF OutOf, Negotiating
  <2> QED
    BY <1>4, <2>2, <2>3, <2>4 DEF Out
<1> QED
  BY <1>2, <1>5, <1>6, <1>7, <1>8, OutStays

LEMMA ParkInv ==
  ASSUME WebInv, NEW s \in Sessions, Park(s)
  PROVE  WebInv'
<1>1. session[s].step = "park" /\ Goes(s, "answer") /\ session[s].tag \in Tags
      /\ pending' = [pending EXCEPT ![session[s].tag] = Leg(s)]
      /\ UNCHANGED <<sip, endpoints, webBridges, answers, byes>>
  BY DEF Park, WebInv, SessionInv
<1>2. /\ SessionInv' /\ Leg(s) \in Legs /\ ~Out(Leg(s)) /\ Out(Leg(s))'
      /\ Only(s) /\ session'[s].step = "answer"
      /\ \A l \in Legs : Out(l) => Out(l)'
  BY <1>1, OfferDone
<1>3. Leg(s)' = Leg(s)
  <2>1. "offers" \in DOMAIN session[s] /\ SessionInv
    BY <1>1, LiveSession DEF Negotiating, WebInv
  <2>2. session'[s].offers = session[s].offers
    BY <1>1, <2>1, SessionGoes
  <2> QED
    BY <2>2 DEF Leg
<1> PICK leg \in Legs : leg = Leg(s)
  BY <1>2
<1> DEFINE t == session[s].tag
<1>4. leg \in Legs /\ ~Out(leg) /\ Out(leg)' /\ pending' = [pending EXCEPT ![t] = leg] /\ t \in Tags
  BY <1>1, <1>2, <1>3
<1>5. \A v \in Sessions : session'[v].step = "bridge" =>
          session[v].step = "bridge" /\ session'[v].partner = session[v].partner
  BY <1>2 DEF Only
<1>6. OutInv' /\ OnceInv'
  BY <1>1, <1>2, <1>4, <1>5, Parked DEF WebInv
<1>7. EndpointInv' /\ AnswersPrivate'
  BY <1>1 DEF WebInv, EndpointInv, HasEndpoint, AnswersPrivate
<1> QED
  BY <1>2, <1>6, <1>7 DEF WebInv

LEMMA InstallBridgeInv ==
  ASSUME WebInv, NEW s \in Sessions, InstallBridge(s)
  PROVE  WebInv'
<1> DEFINE p == session[s].partner
<1>1. session[s].step = "bridge" /\ UNCHANGED <<sip, endpoints, pending, answers, byes>>
  BY DEF InstallBridge
<1>2. CASE Goes(s, "ready") /\ UNCHANGED webBridges
  BY <1>1, <1>2, OfferGoes DEF Negotiating
<1>3. CASE /\ {Leg(s), p} \subseteq endpoints /\ webBridges' = webBridges \cup {{Leg(s), p}}
           /\ Goes(s, "answer")
  <2>1. /\ SessionInv' /\ Leg(s) \in Legs /\ ~Out(Leg(s)) /\ Out(Leg(s))'
        /\ Only(s) /\ session'[s].step = "answer"
        /\ \A l \in Legs : Out(l) => Out(l)'
    BY <1>1, <1>3, OfferDone
  <2>2. p \in Legs /\ Out(p) /\ OutInv /\ OnceInv /\ EndpointInv
    BY <1>1 DEF WebInv, OutInv
  <2>3. /\ \A t \in Tags : pending[t] # p
        /\ \A b \in webBridges : p \notin b
        /\ \A c \in SipCalls : sip[c].step = "bridge" => sip[c].partner # p
    BY <1>1, <2>2 DEF OnceInv
  <2>4. \A v \in Sessions : session'[v].step = "bridge" =>
          session[v].step = "bridge" /\ session'[v].partner = session[v].partner /\ session[v].partner # p
    BY <1>1, <2>1, <2>2 DEF OnceInv, Only
  <2>5. Leg(s)' = Leg(s)
    <3>1. "offers" \in DOMAIN session[s] /\ SessionInv
      BY <1>1, LiveSession DEF Negotiating, WebInv
    <3>2. session'[s].offers = session[s].offers
      BY <1>3, <3>1, SessionGoes
    <3> QED
      BY <3>2 DEF Leg
  <2> PICK leg \in Legs : leg = Leg(s)
    BY <2>1
  <2>6. /\ leg \in Legs /\ ~Out(leg) /\ Out(leg)' /\ {leg, p} \subseteq endpoints
        /\ webBridges' = webBridges \cup {{leg, p}}
    BY <1>3, <2>1, <2>5
  <2> HIDE DEF p
  <2>7. OutInv' /\ OnceInv' /\ EndpointInv'
    BY <1>1, <2>1, <2>2, <2>3, <2>4, <2>6, BridgedWith
  <2> QED
    BY <1>1, <2>1, <2>7 DEF WebInv, AnswersPrivate
<1> QED
  BY <1>2, <1>3 DEF InstallBridge

(* A SIP call goes on; its leg is nowhere until it parks or is bridged. *)
LEMMA SipSet ==
  ASSUME WebInv, NEW c \in SipCalls, NEW r, sip' = [sip EXCEPT ![c] = r], UNCHANGED <<session, byes>>,
         r.step \in {"bridge", "park", "talking"}, r.step = "park" => r.tag \in Tags,
         sip[c].step \in {"closed", "bridge", "park"}
  PROVE  /\ SessionInv' /\ sip'[c] = r /\ \A d \in SipCalls : d # c => sip'[d] = sip[d]
         /\ <<c, 0>> \in Legs /\ ~Out(<<c, 0>>) /\ (r.step = "talking" => Out(<<c, 0>>)')
         /\ \A l \in Legs : Out(l) => Out(l)'
<1>1. DOMAIN sip' = SipCalls /\ sip'[c] = r /\ \A d \in SipCalls : d # c => sip'[d] = sip[d]
  BY DEF WebInv, SessionInv
<1>2. SessionInv'
  BY <1>1 DEF WebInv, SessionInv
<1>3. /\ <<c, 0>> \in SipCalls \X {0} /\ <<c, 0>>[1] = c /\ <<c, 0>>[2] = 0
      /\ <<c, 0>> \notin Sessions \X (1 .. MaxOffers)
  BY WebRtcAssumption
<1>4. <<c, 0>> \in Legs /\ ~Out(<<c, 0>>) /\ (r.step = "talking" => Out(<<c, 0>>)')
  BY <1>1, <1>3 DEF Out, Legs
<1>5. ASSUME NEW l \in Legs, Out(l) PROVE Out(l)'
  <2>1. CASE l \in SipCalls \X {0} /\ sip[l[1]].step \in {"talking", "ended"}
    <3>1. l[1] \in SipCalls /\ l[1] # c
      BY <2>1
    <3> QED
      BY <1>1, <2>1, <3>1 DEF Out
  <2>2. CASE l \in Sessions \X (1 .. MaxOffers) /\ OutOf(l[1], l[2])
    BY <2>2 DEF Out, OutOf
  <2> QED
    BY <1>5, <2>1, <2>2 DEF Out
<1> QED
  BY <1>1, <1>2, <1>4, <1>5

LEMMA SipParkInv ==
  ASSUME WebInv, NEW c \in SipCalls, SipPark(c)
  PROVE  WebInv'
<1> DEFINE r == [step |-> "talking", installed |-> FALSE]
           t == sip[c].tag
           leg == <<c, 0>>
<1>1. /\ sip[c].step = "park" /\ t \in Tags /\ pending' = [pending EXCEPT ![t] = leg]
      /\ sip' = [sip EXCEPT ![c] = r] /\ UNCHANGED <<session, endpoints, webBridges, answers, byes>>
  BY DEF SipPark, WebInv, SessionInv
<1>2. r.step = "talking"
  OBVIOUS
<1> HIDE DEF r, t
<1>3. /\ SessionInv' /\ sip'[c] = r /\ \A d \in SipCalls : d # c => sip'[d] = sip[d]
      /\ leg \in Legs /\ ~Out(leg) /\ Out(leg)'
      /\ \A l \in Legs : Out(l) => Out(l)'
  BY <1>1, <1>2, SipSet
<1>4. /\ \A d \in SipCalls : sip'[d].step = "bridge" =>
           sip[d].step = "bridge" /\ sip'[d].partner = sip[d].partner
      /\ \A d \in SipCalls : sip[d].step = "ended" => sip'[d].step = "ended"
  BY <1>1, <1>2, <1>3
<1> HIDE DEF leg
<1>5. OutInv' /\ OnceInv'
  BY <1>1, <1>3, <1>4, Parked DEF WebInv
<1>6. EndpointInv' /\ AnswersPrivate'
  BY <1>1, <1>4 DEF WebInv, EndpointInv, HasEndpoint, AnswersPrivate
<1> QED
  BY <1>3, <1>5, <1>6 DEF WebInv

LEMMA SipBridgeInv ==
  ASSUME WebInv, NEW c \in SipCalls, SipBridge(c)
  PROVE  WebInv'
<1> DEFINE leg == <<c, 0>>
           p == sip[c].partner
           ok == {leg, p} \subseteq endpoints
           r == [step |-> "talking", installed |-> ok]
<1>1. /\ sip[c].step = "bridge" /\ sip' = [sip EXCEPT ![c] = r]
      /\ webBridges' = IF ok THEN webBridges \cup {{leg, p}} ELSE webBridges
      /\ UNCHANGED <<session, endpoints, pending, answers, byes>>
  BY DEF SipBridge
<1>2. r.step = "talking"
  OBVIOUS
<1> HIDE DEF r
<1>3. /\ SessionInv' /\ sip'[c] = r /\ \A d \in SipCalls : d # c => sip'[d] = sip[d]
      /\ leg \in Legs /\ ~Out(leg) /\ Out(leg)'
      /\ \A l \in Legs : Out(l) => Out(l)'
  BY <1>1, <1>2, SipSet
<1>4. p \in Legs /\ Out(p) /\ OutInv /\ OnceInv /\ EndpointInv
  BY <1>1 DEF WebInv, OutInv
<1>5. /\ \A t \in Tags : pending[t] # p
      /\ \A b \in webBridges : p \notin b
      /\ \A s \in Sessions : session[s].step = "bridge" => session[s].partner # p
  BY <1>1, <1>4 DEF OnceInv
<1>6. /\ \A d \in SipCalls : sip'[d].step = "bridge" =>
           sip[d].step = "bridge" /\ sip'[d].partner = sip[d].partner /\ sip[d].partner # p
      /\ \A d \in SipCalls : sip[d].step = "ended" => sip'[d].step = "ended"
  BY <1>1, <1>2, <1>3, <1>4 DEF OnceInv
<1> HIDE DEF leg, p
<1>7. OutInv' /\ OnceInv' /\ EndpointInv'
  <2>1. CASE ok
    BY <1>1, <1>3, <1>4, <1>5, <1>6, <2>1, BridgedWith
  <2>2. CASE ~ok
    <3>1. UNCHANGED webBridges /\ pending \in [Tags -> Legs \cup {NoLeg}]
      BY <1>1, <1>4, <2>2 DEF OutInv
    <3>2. \A b \in webBridges' : \A l \in b : HasEndpoint(l) => HasEndpoint(l)'
      BY <1>1, <1>6 DEF HasEndpoint
    <3> QED
      BY <1>1, <1>3, <1>4, <1>6, <3>1, <3>2, NothingPlaced
  <2> QED
    BY <2>1, <2>2
<1> QED
  BY <1>1, <1>3, <1>7 DEF WebInv, AnswersPrivate

LEMMA SipInviteInv ==
  ASSUME WebInv, NEW c \in SipCalls, NEW tag \in Tags, SipInvite(c, tag)
  PROVE  WebInv'
<1> DEFINE p == pending[tag]
           r == IF p # NoLeg THEN [step |-> "bridge", partner |-> p] ELSE [step |-> "park", tag |-> tag]
<1>1. /\ sip[c].step = "closed" /\ sip' = [sip EXCEPT ![c] = r]
      /\ pending' = [pending EXCEPT ![tag] = NoLeg] /\ endpoints \subseteq endpoints'
      /\ UNCHANGED <<session, webBridges, answers, byes>>
  BY DEF SipInvite
<1>2. /\ p # NoLeg => r.step = "bridge" /\ r.partner = p
      /\ p = NoLeg => r.step = "park" /\ r.tag = tag
  OBVIOUS
<1>3. OutInv /\ OnceInv /\ EndpointInv /\ pending \in [Tags -> Legs \cup {NoLeg}]
  BY DEF WebInv, OutInv
<1> HIDE DEF r
<1>4. /\ SessionInv' /\ sip'[c] = r /\ \A d \in SipCalls : d # c => sip'[d] = sip[d]
      /\ \A l \in Legs : Out(l) => Out(l)'
  BY <1>1, <1>2, SipSet
<1>5. /\ pending' \in [Tags -> Legs \cup {NoLeg}] /\ pending'[tag] = NoLeg
      /\ \A u \in Tags : u # tag => pending'[u] = pending[u]
  BY <1>1, <1>3
<1>6. /\ \A d \in SipCalls : sip'[d].step = "bridge" =>
           \/ d = c /\ p # NoLeg /\ sip'[d].partner = p
           \/ d # c /\ sip[d].step = "bridge" /\ sip'[d].partner = sip[d].partner
      /\ \A d \in SipCalls : sip[d].step = "ended" => sip'[d].step = "ended"
  BY <1>1, <1>2, <1>4
<1>7. /\ p # NoLeg => p \in Legs /\ Out(p)
      /\ \A u \in Tags : u # tag /\ p # NoLeg => pending[u] # p
      /\ \A b \in webBridges : p \notin b /\ NoLeg \notin b
      /\ \A s \in Sessions : session[s].step = "bridge" => session[s].partner \notin {p, NoLeg}
      /\ \A d \in SipCalls : sip[d].step = "bridge" => sip[d].partner \notin {p, NoLeg}
  BY <1>3, NoLegAssumption DEF OutInv, OnceInv
<1> HIDE DEF p
<1>8. OutInv'
  BY <1>1, <1>3, <1>4, <1>5, <1>6, <1>7 DEF OutInv
<1>9. OnceInv'
  <2>1. \A u \in Tags : pending'[u] \in {pending[u], NoLeg} /\ (p # NoLeg => pending'[u] # p)
    BY <1>5, <1>7
  <2>2. \A u, v \in Tags : pending'[u] = pending'[v] => u = v \/ pending'[u] = NoLeg
    BY <1>3, <1>5 DEF OnceInv
  <2>3. \A b \in webBridges, u \in Tags : pending'[u] \notin b
    BY <1>3, <1>7, <2>1 DEF OnceInv
  <2>4. \A s \in Sessions : session[s].step = "bridge" =>
         /\ \A u \in Tags : pending'[u] # session[s].partner
         /\ \A d \in SipCalls : sip'[d].step = "bridge" => sip'[d].partner # session[s].partner
    BY <1>3, <1>6, <1>7, <2>1 DEF OnceInv
  <2>5. \A d \in SipCalls : sip'[d].step = "bridge" =>
         /\ \A u \in Tags : pending'[u] # sip'[d].partner
         /\ \A b \in webBridges : sip'[d].partner \notin b
    BY <1>3, <1>6, <1>7, <2>1 DEF OnceInv
  <2>6. \A d, e \in SipCalls : sip'[d].step = "bridge" /\ sip'[e].step = "bridge"
          /\ sip'[e].partner = sip'[d].partner => d = e
    BY <1>3, <1>6, <1>7 DEF OnceInv
  <2> QED
    BY <1>1, <1>3, <2>2, <2>3, <2>4, <2>5, <2>6 DEF OnceInv
<1>10. EndpointInv' /\ AnswersPrivate'
  BY <1>1, <1>3, <1>6 DEF WebInv, EndpointInv, HasEndpoint, AnswersPrivate
<1> QED
  BY <1>4, <1>8, <1>9, <1>10 DEF WebInv

LEMMA WebRtcStepInv == WebInv /\ [WebRtcNext]_webRtcVars => WebInv'
<1> SUFFICES ASSUME WebInv, [WebRtcNext]_webRtcVars PROVE WebInv'
  OBVIOUS
<1>1. CASE \E to \in Modes : ReloadPrivacy(to)
  BY <1>1, ReloadPrivacyInv
<1>2. CASE \E leg \in Legs : Evict(leg)
  BY <1>2, EvictInv
<1>3. CASE \E s \in Sessions :
             \/ \E tag \in Tags \cup {NoTag} : SessionInit(s, tag)
             \/ \E direct, dtls, ice \in BOOLEAN : Offer(s, direct, dtls, ice)
             \/ NegotiateAnswer(s) \/ RunIce(s) \/ RunDtlsHandshake(s)
             \/ TakePartner(s) \/ NoPartner(s) \/ Park(s) \/ InstallBridge(s) \/ Answer(s)
             \/ Bye(s) \/ ByeFinds(s) \/ ByeUnparks(s)
  BY <1>3, SessionInitInv, OfferInv, NegotiateAnswerInv, RunIceInv, RunDtlsHandshakeInv,
     TakePartnerInv, NoPartnerInv, ParkInv, InstallBridgeInv, AnswerInv, ByeInv, ByeFindsInv,
     ByeUnparksInv
<1>4. CASE \E c \in SipCalls :
             \/ \E tag \in Tags : SipInvite(c, tag)
             \/ SipBridge(c) \/ SipPark(c) \/ SipEnds(c)
  BY <1>4, SipInviteInv, SipBridgeInv, SipParkInv, SipEndsInv, SMTT(30)
<1>5. CASE UNCHANGED webRtcVars
  BY <1>5 DEF webRtcVars, WebInv, SessionInv, OutInv, OnceInv, EndpointInv, HasEndpoint,
              AnswersPrivate, Out, OutOf
<1> QED
  BY <1>1, <1>2, <1>3, <1>4, <1>5 DEF WebRtcNext

(* For any number of sessions, offers, SIP calls and tags: a leg is parked *)
(* or bridged with one partner, never both, a bridged leg keeps its        *)
(* endpoint, and no answer shows an address its privacy mode hides         *)
(* (smiths-cli webrtc.rs: handle_offer_tagged, pair_sip_leg, handle_bye).  *)
THEOREM RendezvousIsSound == WebRtcSpec => []RendezvousSound
BY WebRtcInitInv, WebRtcStepInv, InvPairs, PTL DEF WebRtcSpec

-----------------------------------------------------------------------------
(* The TURN server *)

Methods == {"none", "allocate", "refresh", "permission", "bind"}
CallSet == [method : Methods, signed : BOOLEAN, lifetime : Nat, peer : Peers \cup {NoPeer},
            channel : Channels \cup {0}]

(* A ChannelBind names a peer and a channel. *)
Aimed(k) ==
    /\ k.method \in {"permission", "bind"} => k.peer \in Peers
    /\ k.method = "bind" => k.channel \in Channels

Senders == TurnUsers \cup {CHOOSE u \in TurnUsers : TRUE}
ClientSet == [call : CallSet, tx : Nat, attempt : 0 .. 1, user : Senders, nonce : Nat, relay : Nat]
RequestSet == [tx : Nat, from : Clients, user : Senders, nonce : Nat, method : Methods,
               signed : BOOLEAN, lifetime : Nat, peer : Peers \cup {NoPeer}, channel : Channels \cup {0}]
AllocSet == [relay : Nat \ {0}, user : Senders, nonce : Nat, expires : Nat, permissions : [Ips -> Nat],
             toPeer : [Channels -> [peer : Peers \cup {NoPeer}, exp : Nat]],
             toChannel : [Peers -> Channels \cup {0}]]

(* The clients and the wire: transaction ids are used once, and nobody     *)
(* knows a nonce that was not issued.                                      *)
AskedInv ==
    /\ nonces \in Nat
    /\ tc \in [Clients -> ClientSet]
    /\ \A c \in Clients : Aimed(tc[c].call) /\ tc[c].nonce <= nonces
    /\ wire \subseteq RequestSet /\ IsFiniteSet(wire)
    /\ \A q \in wire : Aimed(q) /\ q.nonce <= nonces /\ q.tx \in 1 .. Cardinality(wire)
    /\ \A q, o \in wire : q.tx = o.tx => q = o

(* The table and the relay tasks. *)
OwnedInv ==
    /\ now \in Nat
    /\ allocs \in [Clients -> {NoAlloc} \cup AllocSet]
    /\ relays \in Seq([tx : Nat, running : BOOLEAN])
    /\ \A c \in Clients : allocs[c].relay <= Len(relays)
    /\ \A c, d \in Clients : allocs[c].relay = allocs[d].relay => c = d \/ ~Present(c)
    /\ IsFiniteSet({c \in Clients : Present(c)})
    /\ RelaysOwned

(* A channel that still stands for a peer leads back to it. *)
Leads(a, t) ==
    \A p \in Peers :
        a.toChannel[p] # 0 /\ a.toPeer[a.toChannel[p]].exp > t => a.toPeer[a.toChannel[p]].peer = p
FramesInv == \A c \in Clients : Present(c) => Leads(allocs[c], now)

(* The nonce of a request that opened a relay is no pending challenge's. *)
SpentInv ==
    /\ challenges \in [Clients -> [nonce : Nat, exp : Nat]]
    /\ \A r \in DOMAIN relays : relays[r].tx \in 1 .. Cardinality(wire)
    /\ \A r \in DOMAIN relays : \A q \in wire :
         q.tx = relays[r].tx =>
             challenges[q.from].nonce # q.nonce \/ challenges[q.from] = NoChallenge
    /\ OneRelayPerRequest

TurnInv == AskedInv /\ OwnedInv /\ FramesInv /\ SpentInv

LEMMA CallsAimed ==
    /\ NoCall \in CallSet /\ Aimed(NoCall)
    /\ \A k \in Calls : k \in CallSet /\ Aimed(k)
    /\ \A b \in BOOLEAN : AllocateCall(b) \in CallSet /\ Aimed(AllocateCall(b))
<1> DEFINE Made(m, b, t, p, ch) == [method |-> m, signed |-> b, lifetime |-> t, peer |-> p, channel |-> ch]
<1>1. NoCall = Made("none", FALSE, 0, NoPeer, 0) BY DEF NoCall
<1>2. AllocationLifetime \in Nat BY TurnAssumption
<1>3. ASSUME NEW m \in Methods \ {"permission", "bind"}, NEW b \in BOOLEAN, NEW t \in Nat
      PROVE  Made(m, b, t, NoPeer, 0) \in CallSet /\ Aimed(Made(m, b, t, NoPeer, 0))
    BY DEF CallSet, Aimed, Methods
<1>4. ASSUME NEW p \in Peers
      PROVE  Made("permission", TRUE, 0, p, 0) \in CallSet /\ Aimed(Made("permission", TRUE, 0, p, 0))
    BY DEF CallSet, Aimed, Methods
<1>5. ASSUME NEW p \in Peers, NEW ch \in Channels
      PROVE  Made("bind", TRUE, 0, p, ch) \in CallSet /\ Aimed(Made("bind", TRUE, 0, p, ch))
    BY DEF CallSet, Aimed, Methods
<1>6. ASSUME NEW k \in Calls PROVE k \in CallSet /\ Aimed(k)
  <2>1. CASE k \in {[NoCall EXCEPT !.method = "refresh", !.signed = TRUE, !.lifetime = t] :
                     t \in {0, AllocationLifetime}}
    <3>1. PICK t \in {0, AllocationLifetime} :
              k = [NoCall EXCEPT !.method = "refresh", !.signed = TRUE, !.lifetime = t]
        BY <2>1
    <3>2. k = Made("refresh", TRUE, t, NoPeer, 0) BY <1>1, <3>1
    <3>3. t \in Nat BY <1>2
    <3> HIDE DEF Made
    <3> QED BY <1>3, <3>2, <3>3 DEF Methods
  <2>2. CASE k \in {[NoCall EXCEPT !.method = "permission", !.signed = TRUE, !.peer = p] : p \in Peers}
    <3>1. PICK p \in Peers : k = [NoCall EXCEPT !.method = "permission", !.signed = TRUE, !.peer = p]
        BY <2>2
    <3>2. k = Made("permission", TRUE, 0, p, 0) BY <1>1, <3>1
    <3> HIDE DEF Made
    <3> QED BY <1>4, <3>2
  <2>3. CASE k \in {[NoCall EXCEPT !.method = "bind", !.signed = TRUE, !.peer = x[1], !.channel = x[2]] :
                     x \in Peers \X Channels}
    <3>1. PICK x \in Peers \X Channels :
              k = [NoCall EXCEPT !.method = "bind", !.signed = TRUE, !.peer = x[1], !.channel = x[2]]
        BY <2>3
    <3>2. k = Made("bind", TRUE, 0, x[1], x[2]) BY <1>1, <3>1
    <3>3. x[1] \in Peers /\ x[2] \in Channels OBVIOUS
    <3> HIDE DEF Made
    <3> QED BY <1>5, <3>2, <3>3
  <2> QED BY <1>6, <2>1, <2>2, <2>3 DEF Calls
<1>7. ASSUME NEW b \in BOOLEAN PROVE AllocateCall(b) \in CallSet /\ Aimed(AllocateCall(b))
    BY <1>2 DEF AllocateCall, NoCall, CallSet, Aimed, Methods
<1>8. NoCall \in CallSet /\ Aimed(NoCall)
  <2> HIDE DEF Made
  <2> QED BY <1>1, <1>3 DEF Methods
<1> QED BY <1>6, <1>7, <1>8

LEMMA ClientsStart == NoClient \in ClientSet /\ NoClient.call = NoCall /\ NoClient.nonce = 0
BY CallsAimed DEF NoClient, ClientSet, Senders

LEMMA TurnStarts == TurnInit => TurnInv
<1> SUFFICES ASSUME TurnInit PROVE TurnInv OBVIOUS
<1>1. AskedInv BY ClientsStart, CallsAimed, FS_EmptySet DEF TurnInit, AskedInv
<1>2. {c \in Clients : Present(c)} = {} BY DEF TurnInit, Present, NoAlloc
<1>3. OwnedInv
    BY <1>2, FS_EmptySet DEF TurnInit, OwnedInv, RelaysOwned, NoAlloc, Present
<1>4. FramesInv BY DEF TurnInit, FramesInv, Present, NoAlloc
<1>5. SpentInv BY DEF TurnInit, SpentInv, OneRelayPerRequest, NoChallenge
<1> QED BY <1>1, <1>3, <1>4, <1>5 DEF TurnInv

-----------------------------------------------------------------------------
(* Replies. *)

(* A client that changes some of its fields is a client. *)
LEMMA ClientMade ==
    ASSUME NEW k \in CallSet, NEW t \in Nat, NEW n \in 0 .. 1, NEW u \in Senders, NEW m \in Nat,
           NEW r \in Nat
    PROVE  [call |-> k, tx |-> t, attempt |-> n, user |-> u, nonce |-> m, relay |-> r] \in ClientSet
BY DEF ClientSet

LEMMA ClientFields ==
    ASSUME NEW me \in ClientSet
    PROVE  /\ me = [call |-> me.call, tx |-> me.tx, attempt |-> me.attempt, user |-> me.user,
                    nonce |-> me.nonce, relay |-> me.relay]
           /\ me.call \in CallSet /\ me.tx \in Nat /\ me.attempt \in 0 .. 1 /\ me.user \in Senders
           /\ me.nonce \in Nat /\ me.relay \in Nat
BY DEF ClientSet

LEMMA IdleKept ==
    ASSUME NEW me \in ClientSet
    PROVE  /\ Idle(me) \in ClientSet /\ Idle(me).call = NoCall /\ Idle(me).nonce = me.nonce
           /\ \A r \in Nat : /\ [Idle(me) EXCEPT !.relay = r] \in ClientSet
                             /\ [Idle(me) EXCEPT !.relay = r].call = NoCall
                             /\ [Idle(me) EXCEPT !.relay = r].nonce = me.nonce
<1>1. Idle(me) = [call |-> NoCall, tx |-> 0, attempt |-> 0, user |-> me.user, nonce |-> me.nonce,
                  relay |-> me.relay]
  <2>1. PICK k, t, n, u, m, r :
            me = [call |-> k, tx |-> t, attempt |-> n, user |-> u, nonce |-> m, relay |-> r]
    BY ClientFields
  <2>2. me.user = u /\ me.nonce = m /\ me.relay = r BY <2>1
  <2>3. Idle(me) = [[call |-> k, tx |-> t, attempt |-> n, user |-> u, nonce |-> m, relay |-> r]
                       EXCEPT !.call = NoCall, !.tx = 0, !.attempt = 0]
    BY <2>1 DEF Idle
  <2> QED BY <2>2, <2>3
<1>2. \A r \in Nat : [Idle(me) EXCEPT !.relay = r]
          = [call |-> NoCall, tx |-> 0, attempt |-> 0, user |-> me.user, nonce |-> me.nonce, relay |-> r]
    BY <1>1
<1>3. 0 \in 0 .. 1 OBVIOUS
<1> QED BY <1>1, <1>2, <1>3, ClientMade, ClientFields, CallsAimed

(* A reply changes the client it is for, and no more. *)
LEMMA AnswerKeeps ==
    ASSUME NEW q \in wire, NEW me \in ClientSet, AskedInv, Aimed(me.call), me.nonce <= nonces',
           nonces' \in Nat, nonces <= nonces', AnswerTo(q, me), UNCHANGED wire
    PROVE  AskedInv'
<1>1. q.from \in Clients BY DEF AskedInv, RequestSet
<1>2. tc' \in [Clients -> ClientSet] /\ \A c \in Clients : tc'[c] = tc[c] \/ tc'[c] = me
    BY <1>1 DEF AskedInv, AnswerTo
<1>3. \A c \in Clients : Aimed(tc'[c].call) /\ tc'[c].nonce <= nonces'
    BY <1>2 DEF AskedInv, ClientSet
<1>4. \A o \in wire : o.nonce <= nonces'
    BY DEF AskedInv, RequestSet
<1> QED BY <1>2, <1>3, <1>4 DEF AskedInv

LEMMA RefuseKeeps ==
    ASSUME NEW q \in wire, NEW code, TurnInv, Refuse(q, code)
    PROVE  TurnInv'
<1> USE DEF TurnInv
<1>1. q.from \in Clients BY DEF AskedInv, RequestSet
<1>2. /\ nonces' \in Nat /\ nonces <= nonces'
      /\ code \in {401, 438} => nonces' = nonces + 1
    BY DEF Refuse, IssueChallenge, AskedInv
<1> DEFINE me == ClientAfterError(q, code)
<1>3. me \in ClientSet /\ Aimed(me.call) /\ me.nonce <= nonces'
  <2>1. tc[q.from] \in ClientSet /\ Aimed(tc[q.from].call) /\ tc[q.from].nonce <= nonces /\ nonces \in Nat
        /\ tc[q.from].nonce \in Nat
    BY <1>1 DEF AskedInv, ClientSet
  <2>2. CASE code = 401
    <3>1. me = [tc[q.from] EXCEPT !.nonce = nonces + 1, !.tx = 0, !.call = AllocateCall(TRUE)]
        BY <2>2 DEF ClientAfterError
    <3>2. me = [call |-> AllocateCall(TRUE), tx |-> 0, attempt |-> tc[q.from].attempt,
                user |-> tc[q.from].user, nonce |-> nonces + 1, relay |-> tc[q.from].relay]
        BY <3>1, <2>1, ClientFields
    <3>3. PICK k : k = AllocateCall(TRUE) OBVIOUS
    <3>8. k \in CallSet /\ Aimed(k) BY <3>3, CallsAimed, Zenon
    <3>4. nonces + 1 \in Nat BY <2>1
    <3>5. me = [call |-> k, tx |-> 0, attempt |-> tc[q.from].attempt,
                user |-> tc[q.from].user, nonce |-> nonces + 1, relay |-> tc[q.from].relay]
        BY <3>2, <3>3, Zenon
    <3>6. me \in ClientSet BY <3>4, <3>5, <3>8, <2>1, ClientMade, ClientFields
    <3>7. me.call = k /\ me.nonce = nonces + 1 BY <3>5
    <3> QED BY <3>8, <3>6, <3>7, <2>2, <1>2
  <2>3. CASE code = 438 /\ tc[q.from].attempt = 0
    <3>1. me = [tc[q.from] EXCEPT !.nonce = nonces + 1, !.tx = 0, !.attempt = 1]
        BY <2>3 DEF ClientAfterError
    <3>2. me = [call |-> tc[q.from].call, tx |-> 0, attempt |-> 1,
                user |-> tc[q.from].user, nonce |-> nonces + 1, relay |-> tc[q.from].relay]
        BY <3>1, <2>1, ClientFields
    <3> QED BY <3>2, <2>1, <2>3, <1>2, ClientMade, ClientFields
  <2>4. CASE code # 401 /\ ~(code = 438 /\ tc[q.from].attempt = 0)
    BY <2>1, <2>4, <1>2, IdleKept, CallsAimed DEF ClientAfterError
  <2> QED BY <2>2, <2>3, <2>4
<1> HIDE DEF me
<1>4. AskedInv'
    BY <1>2, <1>3, AnswerKeeps DEF Refuse, me
<1>5. OwnedInv' /\ FramesInv'
    BY DEF Refuse, OwnedInv, FramesInv, RelaysOwned, Present
<1>6. challenges' \in [Clients -> [nonce : Nat, exp : Nat]]
      /\ \A c \in Clients : challenges'[c] = challenges[c] \/ challenges'[c].nonce = nonces + 1
  <2>1. now + ChallengeLifetime \in Nat /\ nonces + 1 \in Nat
    BY TurnAssumption DEF AskedInv, OwnedInv
  <2>2. CASE UNCHANGED challenges BY <2>2 DEF SpentInv
  <2>3. CASE IssueChallenge(q.from)
    <3> DEFINE fresh == [nonce |-> nonces + 1, exp |-> now + ChallengeLifetime]
    <3>1. fresh \in [nonce : Nat, exp : Nat] /\ fresh.nonce = nonces + 1 BY <2>1
    <3>2. challenges' = [challenges EXCEPT ![q.from] = fresh] BY <2>3 DEF IssueChallenge
    <3> HIDE DEF fresh
    <3> QED BY <1>1, <3>1, <3>2 DEF SpentInv
  <2> QED BY <2>2, <2>3 DEF Refuse
<1>7. \A o \in wire : o.from \in Clients /\ o.nonce <= nonces /\ o.nonce \in Nat /\ nonces \in Nat
    BY DEF AskedInv, RequestSet
<1>8. SpentInv'
    BY <1>6, <1>7 DEF Refuse, SpentInv, OneRelayPerRequest
<1> QED BY <1>4, <1>5, <1>8

-----------------------------------------------------------------------------
(* The table. *)

(* The holders of a relay, who are those the table names. *)
Holders == {c \in Clients : Present(c)}

LEMMA EntryUpdated ==
    ASSUME NEW c \in Clients, NEW a \in AllocSet, OwnedInv, Present(c), a.relay = allocs[c].relay,
           allocs' = [allocs EXCEPT ![c] = a], UNCHANGED <<now, relays, gauge>>
    PROVE  OwnedInv'
<1>1. allocs' \in [Clients -> {NoAlloc} \cup AllocSet] BY DEF OwnedInv
<1>2. \A d \in Clients : allocs'[d].relay = allocs[d].relay BY DEF OwnedInv
<1>3. {d \in Clients : Present(d)}' = {d \in Clients : Present(d)} BY <1>2 DEF Present
<1>4. RelaysOwned'
  <2>1. \A r \in DOMAIN relays : relays[r].running => \E d \in Clients : allocs'[d].relay = r
    BY <1>2 DEF OwnedInv, RelaysOwned
  <2>2. gauge = Cardinality({d \in Clients : Present(d)}') BY <1>3 DEF OwnedInv, RelaysOwned
  <2> QED BY <2>1, <2>2 DEF RelaysOwned
<1>5. IsFiniteSet({d \in Clients : Present(d)})' BY <1>3 DEF OwnedInv
<1> QED BY <1>1, <1>2, <1>4, <1>5 DEF OwnedInv, Present

(* The tables of the entries, and so the frames, where an entry is set. *)
LEMMA FramesSet ==
    ASSUME NEW c \in Clients, NEW a, OwnedInv, FramesInv, a.relay # 0 => Leads(a, now),
           allocs' = [allocs EXCEPT ![c] = a], UNCHANGED now
    PROVE  FramesInv'
BY DEF OwnedInv, FramesInv, Present

LEMMA SpentKept == SpentInv /\ UNCHANGED <<challenges, relays, wire>> => SpentInv'
BY DEF SpentInv, OneRelayPerRequest

(* What a request changes when it is granted on the allocation of its      *)
(* sender, other than one that gives the allocation up.                    *)
LEMMA GrantedKeeps ==
    ASSUME NEW q \in wire, NEW a \in AllocSet, TurnInv, Present(q.from), a.relay = allocs[q.from].relay,
           Leads(a, now), allocs' = [allocs EXCEPT ![q.from] = a],
           AnswerTo(q, Idle(tc[q.from])), UNCHANGED <<now, challenges, nonces, relays, gauge, wire>>
    PROVE  TurnInv'
<1> USE DEF TurnInv
<1>1. q.from \in Clients BY DEF AskedInv, RequestSet
<1>2. AskedInv'
  <2>1. PICK me : me = Idle(tc[q.from]) OBVIOUS
  <2>2. me \in ClientSet /\ Aimed(me.call) /\ me.nonce <= nonces /\ nonces \in Nat
    BY <1>1, <2>1, IdleKept, CallsAimed DEF AskedInv
  <2> QED BY <2>1, <2>2, AnswerKeeps
<1>3. OwnedInv' BY <1>1, EntryUpdated
<1>4. FramesInv' BY <1>1, FramesSet
<1> QED BY <1>2, <1>3, <1>4, SpentKept

LEMMA GrantedOn ==
    ASSUME NEW q \in wire, TurnInv, VerdictOnAllocation(q) = 200
    PROVE  /\ q.from \in Clients /\ IsLive(q.from) /\ Present(q.from)
           /\ allocs[q.from] \in AllocSet /\ Leads(allocs[q.from], now)
<1>1. q.from \in Clients BY DEF TurnInv, AskedInv, RequestSet
<1>2. IsLive(q.from)
  <2>1. Verdict(q) \in {200, 401, 438} BY DEF Verdict
  <2> QED BY <2>1 DEF VerdictOnAllocation
<1>3. Present(q.from) BY <1>2 DEF IsLive
<1> QED BY <1>1, <1>2, <1>3 DEF TurnInv, OwnedInv, FramesInv, Present, NoAlloc

LEMMA AllocFields ==
    ASSUME NEW a \in AllocSet
    PROVE  /\ a = [relay |-> a.relay, user |-> a.user, nonce |-> a.nonce, expires |-> a.expires,
                   permissions |-> a.permissions, toPeer |-> a.toPeer, toChannel |-> a.toChannel]
           /\ a.relay \in Nat \ {0} /\ a.user \in Senders /\ a.nonce \in Nat /\ a.expires \in Nat
           /\ a.permissions \in [Ips -> Nat]
           /\ a.toPeer \in [Channels -> [peer : Peers \cup {NoPeer}, exp : Nat]]
           /\ a.toChannel \in [Peers -> Channels \cup {0}]
BY DEF AllocSet

LEMMA AllocMade ==
    ASSUME NEW r \in Nat \ {0}, NEW u \in Senders, NEW n \in Nat, NEW e \in Nat,
           NEW ps \in [Ips -> Nat], NEW tp \in [Channels -> [peer : Peers \cup {NoPeer}, exp : Nat]],
           NEW ts \in [Peers -> Channels \cup {0}]
    PROVE  [relay |-> r, user |-> u, nonce |-> n, expires |-> e, permissions |-> ps, toPeer |-> tp,
            toChannel |-> ts] \in AllocSet
BY DEF AllocSet

LEMMA PeersHaveIps == \A p \in Peers : IpOf(p) \in Ips /\ p # NoPeer
<1>1. ASSUME NEW i \in Ips, NEW o \in Ports PROVE <<i, o>>[1] \in Ips /\ <<i, o>> # NoPeer
    BY TurnAssumption DEF NoPeer
<1> QED BY <1>1 DEF Peers, IpOf

LEMMA PruneKept ==
    ASSUME NEW a \in AllocSet, Leads(a, now), now \in Nat
    PROVE  /\ Prune(a) \in AllocSet /\ Prune(a).relay = a.relay
           /\ Leads(Prune(a), now)
           /\ \A ch \in Channels : Prune(a).toPeer[ch].exp > now \/ Prune(a).toPeer[ch].exp = 0
           /\ \A p \in Peers : Prune(a).toChannel[p] # 0 =>
                  Prune(a).toPeer[Prune(a).toChannel[p]].exp > now
<1> DEFINE kept == {ch \in Channels : a.toPeer[ch].exp > now}
<1> DEFINE ps == [ip \in Ips |-> IF a.permissions[ip] > now THEN a.permissions[ip] ELSE 0]
<1> DEFINE tp == [ch \in Channels |-> IF ch \in kept THEN a.toPeer[ch] ELSE [peer |-> NoPeer, exp |-> 0]]
<1> DEFINE ts == [p \in Peers |-> IF a.toChannel[p] \in kept THEN a.toChannel[p] ELSE 0]
<1>1. PICK r, u, n, e, p1, p2, p3 :
        a = [relay |-> r, user |-> u, nonce |-> n, expires |-> e, permissions |-> p1, toPeer |-> p2,
             toChannel |-> p3]
    BY AllocFields
<1>2. Prune(a) = [a EXCEPT !.permissions = ps, !.toPeer = tp, !.toChannel = ts]
    BY <1>1 DEF Prune
<1>3. /\ ps \in [Ips -> Nat]
      /\ tp \in [Channels -> [peer : Peers \cup {NoPeer}, exp : Nat]]
      /\ ts \in [Peers -> Channels \cup {0}]
    BY AllocFields
<1>4. \A ch \in Channels : tp[ch].exp > now \/ tp[ch].exp = 0
    BY AllocFields
<1>5. \A p \in Peers : ts[p] # 0 =>
          /\ ts[p] = a.toChannel[p] /\ ts[p] \in Channels
          /\ tp[ts[p]] = a.toPeer[ts[p]] /\ a.toPeer[ts[p]].exp > now
    OBVIOUS
<1> HIDE DEF ps, tp, ts
<1>6. Prune(a) = [relay |-> r, user |-> u, nonce |-> n, expires |-> e, permissions |-> ps, toPeer |-> tp,
                  toChannel |-> ts]
    BY <1>1, <1>2
<1>7. r = a.relay /\ u = a.user /\ n = a.nonce /\ e = a.expires BY <1>1
<1>8. Prune(a) \in AllocSet
  <2>1. r \in Nat \ {0} /\ u \in Senders /\ n \in Nat /\ e \in Nat BY <1>7, AllocFields
  <2> QED BY <1>3, <1>6, <2>1, AllocMade
<1>9. Prune(a).relay = r /\ Prune(a).toPeer = tp /\ Prune(a).toChannel = ts BY <1>6
<1>10. Leads(Prune(a), now) BY <1>5, <1>9 DEF Leads
<1> QED BY <1>4, <1>5, <1>7, <1>8, <1>9, <1>10

LEMMA HandlePermissionKeeps ==
    ASSUME NEW q \in wire, TurnInv, HandleCreatePermission(q)
    PROVE  TurnInv'
<1>1. CASE VerdictOnAllocation(q) # 200
  <2>1. PICK code : code = VerdictOnAllocation(q) OBVIOUS
  <2> QED BY <1>1, <2>1, RefuseKeeps DEF HandleCreatePermission
<1>2. CASE VerdictOnAllocation(q) = 200
  <2>1. /\ q.from \in Clients /\ Present(q.from)
        /\ allocs[q.from] \in AllocSet /\ Leads(allocs[q.from], now)
    BY <1>2, GrantedOn
  <2>2. q.peer \in Peers BY DEF HandleCreatePermission, TurnInv, AskedInv, Aimed
  <2>3. now + PermissionLifetime \in Nat BY TurnAssumption DEF TurnInv, OwnedInv
  <2>b. PICK b \in AllocSet : b = allocs[q.from] BY <2>1
  <2>c. PICK r, u, n, e, p1, p2, p3 :
          b = [relay |-> r, user |-> u, nonce |-> n, expires |-> e, permissions |-> p1,
               toPeer |-> p2, toChannel |-> p3]
    BY AllocFields
  <2>4. allocs[q.from] = [relay |-> r, user |-> u, nonce |-> n, expires |-> e, permissions |-> p1,
                          toPeer |-> p2, toChannel |-> p3]
    BY <2>b, <2>c
  <2>5. PICK a : a = [allocs[q.from] EXCEPT !.permissions[IpOf(q.peer)] = now + PermissionLifetime] OBVIOUS
  <2>6. a = [relay |-> r, user |-> u, nonce |-> n, expires |-> e,
             permissions |-> [p1 EXCEPT ![IpOf(q.peer)] = now + PermissionLifetime],
             toPeer |-> p2, toChannel |-> p3]
    BY <2>4, <2>5
  <2>7. /\ r \in Nat \ {0} /\ u \in Senders /\ n \in Nat /\ e \in Nat /\ p1 \in [Ips -> Nat]
        /\ p2 \in [Channels -> [peer : Peers \cup {NoPeer}, exp : Nat]]
        /\ p3 \in [Peers -> Channels \cup {0}]
    BY <2>1, <2>4 DEF AllocSet
  <2>8. a \in AllocSet BY <2>2, <2>3, <2>6, <2>7, PeersHaveIps, AllocMade
  <2>9. a.relay = allocs[q.from].relay /\ Leads(a, now) BY <2>1, <2>4, <2>6 DEF Leads
  <2>10. allocs' = [allocs EXCEPT ![q.from] = a] /\ AnswerTo(q, Idle(tc[q.from]))
         /\ UNCHANGED <<now, challenges, nonces, relays, gauge, wire>>
    BY <1>2, <2>1, <2>5 DEF HandleCreatePermission
  <2> QED BY <2>1, <2>8, <2>9, <2>10, GrantedKeeps
<1> QED BY <1>1, <1>2

LEMMA HandleBindKeeps ==
    ASSUME NEW q \in wire, TurnInv, HandleChannelBind(q)
    PROVE  TurnInv'
<1>1. CASE VerdictOnAllocation(q) # 200
  <2>1. PICK code : code = VerdictOnAllocation(q) OBVIOUS
  <2> QED BY <1>1, <2>1, RefuseKeeps DEF HandleChannelBind
<1>2. CASE VerdictOnAllocation(q) = 200
  <2>1. /\ q.from \in Clients /\ Present(q.from)
        /\ allocs[q.from] \in AllocSet /\ Leads(allocs[q.from], now) /\ now \in Nat
    BY <1>2, GrantedOn DEF TurnInv, OwnedInv
  <2>2. q.peer \in Peers /\ q.channel \in Channels
    BY DEF HandleChannelBind, TurnInv, AskedInv, Aimed
  <2>3. now + PermissionLifetime \in Nat /\ now + ChannelLifetime \in Nat
    BY TurnAssumption DEF TurnInv, OwnedInv
  <2>4. PICK b : b = Prune(allocs[q.from]) OBVIOUS
  <2>5. /\ b \in AllocSet /\ b.relay = allocs[q.from].relay /\ Leads(b, now)
        /\ \A p \in Peers : b.toChannel[p] # 0 => b.toPeer[b.toChannel[p]].exp > now
    BY <2>1, <2>4, PruneKept
  <2>6. PICK a : a = IF BindConflict(b, q.channel, q.peer) THEN b
                     ELSE [b EXCEPT
                             !.toPeer[q.channel] = [peer |-> q.peer, exp |-> now + ChannelLifetime],
                             !.toChannel[q.peer] = q.channel,
                             !.permissions[IpOf(q.peer)] = now + PermissionLifetime]
    OBVIOUS
  <2>7. allocs' = [allocs EXCEPT ![q.from] = a] /\ AnswerTo(q, Idle(tc[q.from]))
        /\ UNCHANGED <<now, challenges, nonces, relays, gauge, wire>>
    BY <1>2, <2>1, <2>4, <2>6 DEF HandleChannelBind
  <2>8. CASE BindConflict(b, q.channel, q.peer)
    BY <2>1, <2>5, <2>6, <2>7, <2>8, GrantedKeeps
  <2>9. CASE ~BindConflict(b, q.channel, q.peer)
    <3>1. PICK r, u, n, e, p1, p2, p3 :
              b = [relay |-> r, user |-> u, nonce |-> n, expires |-> e, permissions |-> p1,
                   toPeer |-> p2, toChannel |-> p3]
        BY <2>5, AllocFields
    <3>2. /\ r \in Nat \ {0} /\ u \in Senders /\ n \in Nat /\ e \in Nat /\ p1 \in [Ips -> Nat]
          /\ p2 \in [Channels -> [peer : Peers \cup {NoPeer}, exp : Nat]]
          /\ p3 \in [Peers -> Channels \cup {0}]
        BY <2>5, <3>1 DEF AllocSet
    <3> DEFINE bound == [peer |-> q.peer, exp |-> now + ChannelLifetime]
    <3>3. bound \in [peer : Peers \cup {NoPeer}, exp : Nat] /\ bound.peer = q.peer BY <2>2, <2>3
    <3> HIDE DEF bound
    <3>4. a = [relay |-> r, user |-> u, nonce |-> n, expires |-> e,
               permissions |-> [p1 EXCEPT ![IpOf(q.peer)] = now + PermissionLifetime],
               toPeer |-> [p2 EXCEPT ![q.channel] = bound], toChannel |-> [p3 EXCEPT ![q.peer] = q.channel]]
        BY <2>6, <2>9, <3>1 DEF bound
    <3>5. a \in AllocSet
      <4>1. [p1 EXCEPT ![IpOf(q.peer)] = now + PermissionLifetime] \in [Ips -> Nat]
          BY <2>3, <3>2
      <4>2. [p2 EXCEPT ![q.channel] = bound] \in [Channels -> [peer : Peers \cup {NoPeer}, exp : Nat]]
          BY <2>2, <3>2, <3>3
      <4>3. [p3 EXCEPT ![q.peer] = q.channel] \in [Peers -> Channels \cup {0}]
          BY <2>2, <3>2
      <4> QED BY <3>2, <3>4, <4>1, <4>2, <4>3, AllocMade
    <3>6. \A p \in Peers : p3[p] # 0 => p3[p] \in Channels /\ p2[p3[p]].exp > now /\ p2[p3[p]].peer = p
        BY <2>5, <3>1, <3>2 DEF Leads
    <3>7. \A p \in Peers : p3[p] = q.channel => p = q.peer
      <4> SUFFICES ASSUME NEW p \in Peers, p3[p] = q.channel, p # q.peer PROVE FALSE OBVIOUS
      <4>1. q.channel # 0 BY <2>2, TurnAssumption
      <4>2. ChannelPeer(b, q.channel) = p BY <3>1, <3>6, <4>1 DEF ChannelPeer
      <4>3. p # NoPeer BY PeersHaveIps
      <4> QED BY <2>9, <4>2, <4>3 DEF BindConflict
    <3>8. a.relay = allocs[q.from].relay BY <2>5, <3>1, <3>4
    <3>9. Leads(a, now)
      <4>1. a.toChannel = [p3 EXCEPT ![q.peer] = q.channel] /\ a.toPeer = [p2 EXCEPT ![q.channel] = bound]
          BY <3>4
      <4>2. ASSUME NEW p \in Peers, a.toChannel[p] # 0 PROVE a.toPeer[a.toChannel[p]].peer = p
        <5>1. CASE p = q.peer BY <2>2, <3>2, <3>3, <4>1, <5>1
        <5>2. CASE p # q.peer
            BY <2>2, <3>2, <3>6, <3>7, <4>1, <4>2, <5>2
        <5> QED BY <5>1, <5>2
      <4> QED BY <4>2 DEF Leads
    <3> QED BY <2>1, <2>7, <3>5, <3>8, <3>9, GrantedKeeps
  <2> QED BY <2>8, <2>9
<1> QED BY <1>1, <1>2

(* The relay of an entry that leaves the table is cancelled. *)
LEMMA CancelledKept ==
    ASSUME NEW r \in DOMAIN relays, relays \in Seq([tx : Nat, running : BOOLEAN])
    PROVE  /\ Cancelled(r) \in Seq([tx : Nat, running : BOOLEAN]) /\ Len(Cancelled(r)) = Len(relays)
           /\ \A i \in DOMAIN relays : /\ Cancelled(r)[i].tx = relays[i].tx
                                       /\ Cancelled(r)[i].running <=> i # r /\ relays[i].running
<1> DEFINE S == [tx : Nat, running : BOOLEAN]
<1>1. relays \in Seq(S) OBVIOUS
<1>2. PICK ended : ended = [relays[r] EXCEPT !.running = FALSE] OBVIOUS
<1>3. relays[r] \in S
  <2> HIDE DEF S
  <2> QED BY <1>1
<1>4. ended \in S /\ ended.tx = relays[r].tx /\ ~ended.running BY <1>2, <1>3
<1>5. Cancelled(r) = [relays EXCEPT ![r] = ended] BY <1>2 DEF Cancelled
<1> HIDE DEF S
<1>6. Cancelled(r) \in Seq(S) /\ Len(Cancelled(r)) = Len(relays) BY <1>1, <1>4, <1>5
<1>7. \A i \in DOMAIN relays : Cancelled(r)[i] = IF i = r THEN ended ELSE relays[i] BY <1>1, <1>5
<1> QED BY <1>4, <1>6, <1>7 DEF S

LEMMA HandleRefreshKeeps ==
    ASSUME NEW q \in wire, TurnInv, HandleRefresh(q)
    PROVE  TurnInv'
<1>1. CASE VerdictOnAllocation(q) # 200
  <2>1. PICK code : code = VerdictOnAllocation(q) OBVIOUS
  <2> QED BY <1>1, <2>1, RefuseKeeps DEF HandleRefresh
<1>2. CASE VerdictOnAllocation(q) = 200
  <2>1. /\ q.from \in Clients /\ Present(q.from)
        /\ allocs[q.from] \in AllocSet /\ Leads(allocs[q.from], now) /\ now \in Nat
    BY <1>2, GrantedOn DEF TurnInv, OwnedInv
  <2>2. CASE q.lifetime > 0
    <3>1. now + LifetimeGranted(q.lifetime) \in Nat
        BY <2>1, TurnAssumption DEF LifetimeGranted, TurnInv, AskedInv, RequestSet
    <3>2. PICK a : a = [allocs[q.from] EXCEPT !.expires = now + LifetimeGranted(q.lifetime)] OBVIOUS
    <3>b. PICK b \in AllocSet : b = allocs[q.from] BY <2>1
    <3>c. PICK r, u, n, e, p1, p2, p3 :
              b = [relay |-> r, user |-> u, nonce |-> n, expires |-> e, permissions |-> p1,
                   toPeer |-> p2, toChannel |-> p3]
        BY AllocFields
    <3>3. allocs[q.from] = [relay |-> r, user |-> u, nonce |-> n, expires |-> e, permissions |-> p1,
                            toPeer |-> p2, toChannel |-> p3]
        BY <3>b, <3>c
    <3>4. a = [relay |-> r, user |-> u, nonce |-> n, expires |-> now + LifetimeGranted(q.lifetime),
               permissions |-> p1, toPeer |-> p2, toChannel |-> p3]
        BY <3>2, <3>3
    <3>5. /\ r \in Nat \ {0} /\ u \in Senders /\ n \in Nat /\ e \in Nat /\ p1 \in [Ips -> Nat]
          /\ p2 \in [Channels -> [peer : Peers \cup {NoPeer}, exp : Nat]]
          /\ p3 \in [Peers -> Channels \cup {0}]
        BY <2>1, <3>3 DEF AllocSet
    <3>6. a \in AllocSet BY <3>1, <3>4, <3>5, AllocMade
    <3>7. a.relay = allocs[q.from].relay /\ Leads(a, now) BY <2>1, <3>3, <3>4 DEF Leads
    <3>8. allocs' = [allocs EXCEPT ![q.from] = a] /\ AnswerTo(q, Idle(tc[q.from]))
          /\ UNCHANGED <<now, challenges, nonces, relays, gauge, wire>>
        BY <1>2, <2>1, <2>2, <3>2 DEF HandleRefresh
    <3> QED BY <2>1, <3>6, <3>7, <3>8, GrantedKeeps
  <2>3. CASE q.lifetime = 0
    <3>1. /\ relays' = Cancelled(allocs[q.from].relay) /\ allocs' = [allocs EXCEPT ![q.from] = NoAlloc]
          /\ gauge' = gauge - 1 /\ AnswerTo(q, Idle(tc[q.from]))
          /\ UNCHANGED <<now, challenges, nonces, wire>>
        BY <1>2, <2>3 DEF HandleRefresh
    <3>2. AskedInv'
      <4>1. PICK me : me = Idle(tc[q.from]) OBVIOUS
      <4>2. me \in ClientSet /\ Aimed(me.call) /\ me.nonce <= nonces /\ nonces \in Nat
          BY <2>1, <4>1, IdleKept, CallsAimed DEF TurnInv, AskedInv
      <4> QED BY <3>1, <4>1, <4>2, AnswerKeeps DEF TurnInv
    <3>3. PICK r : r = allocs[q.from].relay OBVIOUS
    <3>4. r \in DOMAIN relays
        BY <2>1, <3>3 DEF TurnInv, OwnedInv, AllocSet
    <3>5. /\ relays' \in Seq([tx : Nat, running : BOOLEAN]) /\ Len(relays') = Len(relays)
          /\ DOMAIN relays' = DOMAIN relays
          /\ \A i \in DOMAIN relays : /\ relays'[i].tx = relays[i].tx
                                      /\ relays'[i].running <=> i # r /\ relays[i].running
      <4>1. relays \in Seq([tx : Nat, running : BOOLEAN]) BY DEF TurnInv, OwnedInv
      <4>2. relays' = Cancelled(r) BY <3>1, <3>3
      <4> QED BY <3>4, <4>1, <4>2, CancelledKept
    <3>6. allocs' \in [Clients -> {NoAlloc} \cup AllocSet] /\ allocs'[q.from].relay = 0
          /\ \A c \in Clients \ {q.from} : allocs'[c] = allocs[c]
        BY <2>1, <3>1 DEF TurnInv, OwnedInv, NoAlloc
    <3>7. Holders' = Holders \ {q.from} /\ q.from \in Holders
        BY <2>1, <3>6 DEF Holders, Present
    <3>8. IsFiniteSet(Holders') /\ gauge' = Cardinality(Holders')
      <4>1. IsFiniteSet(Holders) /\ gauge = Cardinality(Holders)
          BY DEF TurnInv, OwnedInv, RelaysOwned, Holders
      <4> QED BY <3>1, <3>7, <4>1, FS_RemoveElement
    <3>9. \A i \in DOMAIN relays' : relays'[i].running => \E c \in Clients : allocs'[c].relay = i
      <4> SUFFICES ASSUME NEW i \in DOMAIN relays
                   PROVE  relays'[i].running => \E c \in Clients : allocs'[c].relay = i
          BY <3>5
      <4>1. i \in Nat /\ i # 0 BY DEF TurnInv, OwnedInv
      <4>2. relays[i].running => \E c \in Clients : allocs[c].relay = i
          BY DEF TurnInv, OwnedInv, RelaysOwned
      <4>3. \A c \in Clients : allocs[c].relay = r => c = q.from
          BY <2>1, <3>3 DEF TurnInv, OwnedInv
      <4> QED BY <2>1, <3>3, <3>5, <3>6, <4>1, <4>2, <4>3
    <3>10. OwnedInv'
      <4>1. RelaysOwned' BY <3>8, <3>9 DEF RelaysOwned, Holders
      <4>2. IsFiniteSet({c \in Clients : Present(c)})' BY <3>8 DEF Holders
      <4>3. \A c \in Clients : allocs'[c].relay <= Len(relays')
          BY <3>5, <3>6 DEF TurnInv, OwnedInv
      <4>4. \A c, d \in Clients : allocs'[c].relay = allocs'[d].relay => c = d \/ ~Present(c)'
          BY <3>6, SMTT(30) DEF TurnInv, OwnedInv, Present
      <4> QED BY <3>1, <3>5, <3>6, <4>1, <4>2, <4>3, <4>4 DEF TurnInv, OwnedInv
    <3>11. FramesInv' BY <3>1, <3>6 DEF TurnInv, FramesInv, Present
    <3>12. SpentInv' BY <3>1, <3>5, SMTT(30) DEF TurnInv, SpentInv, OneRelayPerRequest
    <3> QED BY <3>2, <3>10, <3>11, <3>12 DEF TurnInv
  <2>4. q.lifetime \in Nat BY DEF TurnInv, AskedInv, RequestSet
  <2> QED BY <2>2, <2>3, <2>4
<1> QED BY <1>1, <1>2

(* An Allocate is only granted on a nonce that no relay was opened with. *)
LEMMA AllocateFresh ==
    ASSUME NEW q \in wire, TurnInv, Verdict(q) = 200, ~IsLive(q.from)
    PROVE  \A r \in DOMAIN relays : relays[r].tx # q.tx
<1>1. NonceValid(q.from, q.nonce) BY DEF Verdict
<1>2. challenges[q.from].nonce = q.nonce /\ challenges[q.from].exp > now
    BY <1>1 DEF NonceValid
<1>3. q.from \in Clients /\ now \in Nat BY DEF TurnInv, AskedInv, OwnedInv, RequestSet
<1>4. challenges[q.from] # NoChallenge BY <1>2, <1>3 DEF NoChallenge
<1> QED BY <1>2, <1>4 DEF TurnInv, SpentInv

LEMMA HandleAllocateKeeps ==
    ASSUME NEW q \in wire, TurnInv, HandleAllocate(q)
    PROVE  TurnInv'
<1>1. CASE \E code : Refuse(q, code) BY <1>1, RefuseKeeps
<1>2. CASE ~\E code : Refuse(q, code)
  <2> DEFINE S == [tx : Nat, running : BOOLEAN]
  <2> DEFINE empty == [relay |-> Len(relays) + 1, user |-> q.user, nonce |-> q.nonce,
                         expires |-> now + LifetimeGranted(q.lifetime),
                         permissions |-> [ip \in Ips |-> 0],
                         toPeer |-> [ch \in Channels |-> [peer |-> NoPeer, exp |-> 0]],
                         toChannel |-> [p \in Peers |-> 0]]
  <2> DEFINE opened == [tx |-> q.tx, running |-> TRUE]
  <2>1. /\ Verdict(q) = 200 /\ ~IsLive(q.from)
        /\ relays' = ClosedOld(q.from) \o <<opened>>
        /\ allocs' = [allocs EXCEPT ![q.from] = empty]
        /\ gauge' = IF allocs[q.from].relay # 0 THEN gauge ELSE gauge + 1
        /\ challenges' = ChallengeSpent(q.from)
        /\ AnswerTo(q, [Idle(tc[q.from]) EXCEPT !.relay = Len(relays) + 1])
        /\ UNCHANGED <<now, serving, nonces, wire>>
    <3>1. ~Refuse(q, Verdict(q)) /\ ~Refuse(q, 437) /\ ~Refuse(q, 508) BY <1>2
    <3> QED BY <3>1 DEF HandleAllocate
  <2> HIDE DEF empty, opened
  <2>a. AnswerTo(q, [Idle(tc[q.from]) EXCEPT !.relay = Len(relays) + 1]) /\ UNCHANGED <<nonces, wire>>
    BY <2>1
  <2> USE DEF empty, opened
  <2>2. /\ q.from \in Clients /\ now \in Nat /\ q.tx \in 1 .. Cardinality(wire) /\ q.user \in Senders
        /\ q.nonce \in Nat /\ q.lifetime \in Nat /\ Cardinality(wire) \in Nat
    BY FS_CardinalityType DEF TurnInv, AskedInv, OwnedInv, RequestSet
  <2>3. relays \in Seq(S) /\ Len(relays) \in Nat BY DEF TurnInv, OwnedInv
  <2>4. AskedInv'
    <3>1. PICK me : me = [Idle(tc[q.from]) EXCEPT !.relay = Len(relays) + 1] OBVIOUS
    <3>2. tc[q.from] \in ClientSet /\ Len(relays) + 1 \in Nat /\ tc[q.from].nonce <= nonces /\ nonces \in Nat
        BY <2>2, <2>3 DEF TurnInv, AskedInv
    <3>3. me \in ClientSet /\ Aimed(me.call) /\ me.nonce <= nonces
        BY <3>1, <3>2, IdleKept, CallsAimed
    <3>4. AnswerTo(q, me) /\ nonces' = nonces /\ UNCHANGED wire BY <2>a, <3>1
    <3>5. AskedInv BY DEF TurnInv
    <3> HIDE DEF empty, opened
    <3> QED BY <3>2, <3>3, <3>4, <3>5, AnswerKeeps
  <2>5. empty \in AllocSet /\ empty.relay = Len(relays) + 1 /\ Leads(empty, now)
    <3>1. now + LifetimeGranted(q.lifetime) \in Nat BY <2>2, TurnAssumption DEF LifetimeGranted
    <3>2. Len(relays) + 1 \in Nat \ {0} BY <2>3
    <3>3. /\ [ip \in Ips |-> 0] \in [Ips -> Nat]
          /\ [ch \in Channels |-> [peer |-> NoPeer, exp |-> 0]]
               \in [Channels -> [peer : Peers \cup {NoPeer}, exp : Nat]]
          /\ [p \in Peers |-> 0] \in [Peers -> Channels \cup {0}]
        OBVIOUS
    <3>4. empty \in AllocSet BY <2>2, <3>1, <3>2, <3>3, AllocMade
    <3> QED BY <3>4 DEF Leads
  <2>6. /\ opened \in S /\ opened.tx = q.tx /\ opened.running BY <2>2
  <2> HIDE DEF empty, opened
  <2>7. PICK before : before = ClosedOld(q.from) OBVIOUS
  <2>8. /\ before \in Seq(S) /\ Len(before) = Len(relays)
        /\ \A i \in DOMAIN relays : /\ before[i].tx = relays[i].tx
                                    /\ before[i].running <=> allocs[q.from].relay # i /\ relays[i].running
    <3>1. CASE Present(q.from)
      <4>1. PICK r : r = allocs[q.from].relay OBVIOUS
      <4>2. r \in DOMAIN relays
          BY <2>2, <2>3, <3>1, <4>1 DEF TurnInv, OwnedInv, AllocSet, Present, NoAlloc
      <4>3. before = Cancelled(r) BY <2>7, <3>1, <4>1 DEF ClosedOld
      <4> QED BY <2>3, <4>1, <4>2, <4>3, CancelledKept
    <3>2. CASE ~Present(q.from)
      <4>1. before = relays BY <2>7, <3>2 DEF ClosedOld
      <4>2. \A i \in DOMAIN relays : i # 0 BY <2>3
      <4>3. allocs[q.from].relay = 0 BY <3>2 DEF Present
      <4> QED BY <2>3, <4>1, <4>2, <4>3
    <3> QED BY <3>1, <3>2
  <2>9. /\ relays' \in Seq(S) /\ Len(relays') = Len(relays) + 1
        /\ DOMAIN relays' = 1 .. Len(relays) + 1 /\ DOMAIN relays = 1 .. Len(relays)
        /\ relays'[Len(relays) + 1] = opened
        /\ \A i \in DOMAIN relays : relays'[i] = before[i]
    <3> HIDE DEF S
    <3>1. relays' = before \o <<opened>> BY <2>1, <2>7
    <3> QED BY <2>3, <2>6, <2>8, <3>1
  <2> HIDE DEF S
  <2>10. \A i \in DOMAIN relays : relays'[i].tx = relays[i].tx BY <2>8, <2>9
  <2>16. \A i \in DOMAIN relays : relays'[i].running <=> allocs[q.from].relay # i /\ relays[i].running
    BY <2>8, <2>9
  <2>11. allocs' \in [Clients -> {NoAlloc} \cup AllocSet] /\ allocs'[q.from] = empty
         /\ \A c \in Clients \ {q.from} : allocs'[c] = allocs[c]
    BY <2>1, <2>2, <2>5 DEF TurnInv, OwnedInv
  <2>12. \A c \in Clients : allocs[c].relay \in Nat /\ allocs[c].relay <= Len(relays)
    BY DEF TurnInv, OwnedInv, AllocSet, NoAlloc
  <2>13. OwnedInv'
    <3>1. Holders' = Holders \cup {q.from}
        BY <2>2, <2>3, <2>5, <2>11 DEF Holders, Present
    <3>2. IsFiniteSet(Holders') /\ gauge' = Cardinality(Holders')
      <4>1. IsFiniteSet(Holders) /\ gauge = Cardinality(Holders)
          BY DEF TurnInv, OwnedInv, RelaysOwned, Holders
      <4>2. allocs[q.from].relay # 0 <=> q.from \in Holders BY <2>2 DEF Holders, Present
      <4> QED BY <2>1, <3>1, <4>1, <4>2, FS_AddElement, SMTT(30)
    <3>3. \A i \in DOMAIN relays' : relays'[i].running => \E c \in Clients : allocs'[c].relay = i
      <4> SUFFICES ASSUME NEW i \in DOMAIN relays'
                   PROVE  relays'[i].running => \E c \in Clients : allocs'[c].relay = i
          OBVIOUS
      <4>1. CASE i = Len(relays) + 1
          BY <2>2, <2>5, <2>6, <2>9, <2>11, <4>1
      <4>2. CASE i # Len(relays) + 1
        <5>1. i \in DOMAIN relays /\ i \in Nat /\ i # 0 BY <2>3, <2>9, <4>2
        <5>2. relays[i].running => \E c \in Clients : allocs[c].relay = i
            BY <5>1 DEF TurnInv, OwnedInv, RelaysOwned
        <5>3. \A c \in Clients : allocs[c].relay = i /\ allocs[q.from].relay = i => c = q.from
            BY <2>2, <5>1 DEF TurnInv, OwnedInv, Present
        <5>4. \A c \in Clients : allocs'[c].relay = i <=> c # q.from /\ allocs[c].relay = i
            BY <2>2, <2>5, <2>11, <4>2
        <5>5. relays'[i].running <=> allocs[q.from].relay # i /\ relays[i].running BY <2>16, <5>1
        <5> QED BY <2>2, <5>2, <5>3, <5>4, <5>5
      <4> QED BY <4>1, <4>2
    <3>4. RelaysOwned' BY <3>2, <3>3 DEF RelaysOwned, Holders
    <3>5. IsFiniteSet({c \in Clients : Present(c)})' BY <3>2 DEF Holders
    <3>6. \A c \in Clients : allocs'[c].relay <= Len(relays')
        BY <2>3, <2>5, <2>9, <2>11, <2>12
    <3>7. \A c, d \in Clients : allocs'[c].relay = allocs'[d].relay => c = d \/ ~Present(c)'
      <4>1. \A c \in Clients \ {q.from} : allocs'[c].relay # Len(relays) + 1
          BY <2>3, <2>11, <2>12
      <4>2. \A c, d \in Clients : allocs[c].relay = allocs[d].relay => c = d \/ allocs[c].relay = 0
          BY DEF TurnInv, OwnedInv, Present
      <4> QED BY <2>5, <2>11, <4>1, <4>2 DEF Present
    <3>8. now' \in Nat /\ relays' \in Seq([tx : Nat, running : BOOLEAN]) BY <2>1, <2>2, <2>9 DEF S
    <3> QED BY <2>11, <3>4, <3>5, <3>6, <3>7, <3>8 DEF OwnedInv
  <2>14. FramesInv'
    BY <2>1, <2>2, <2>5, <2>11 DEF TurnInv, FramesInv, Present
  <2>15. SpentInv'
    <3>1. challenges' \in [Clients -> [nonce : Nat, exp : Nat]]
          /\ challenges'[q.from] = NoChallenge
          /\ \A c \in Clients : challenges'[c] = challenges[c] \/ challenges'[c] = NoChallenge
      <4>1. NoChallenge \in [nonce : Nat, exp : Nat] BY DEF NoChallenge
      <4>2. challenges' = [challenges EXCEPT ![q.from] = NoChallenge] BY <2>1 DEF ChallengeSpent
      <4> QED BY <2>2, <4>1, <4>2 DEF TurnInv, SpentInv
    <3>5. \A i \in DOMAIN relays' : i \in DOMAIN relays \/ i = Len(relays) + 1 BY <2>3, <2>9
    <3>6. relays'[Len(relays) + 1].tx = q.tx BY <2>6, <2>9
    <3>7. wire' = wire BY <2>a
    <3>8. \A i \in DOMAIN relays : relays[i].tx \in 1 .. Cardinality(wire) BY DEF TurnInv, SpentInv
    <3>2. \A r \in DOMAIN relays' : relays'[r].tx \in 1 .. Cardinality(wire')
        BY <2>2, <2>10, <3>5, <3>6, <3>7, <3>8
    <3>3. ASSUME NEW r \in DOMAIN relays', NEW o \in wire', o.tx = relays'[r].tx
          PROVE  challenges'[o.from].nonce # o.nonce \/ challenges'[o.from] = NoChallenge
      <4>1. o \in wire /\ o.from \in Clients BY <2>1 DEF TurnInv, AskedInv, RequestSet
      <4>2. CASE r = Len(relays) + 1
        <5>1. o = q BY <2>6, <2>9, <3>3, <4>1, <4>2 DEF TurnInv, AskedInv
        <5> QED BY <3>1, <5>1
      <4>3. CASE r # Len(relays) + 1
        <5>1. r \in DOMAIN relays BY <2>3, <2>9, <4>3
        <5>3. o.tx = relays[r].tx BY <2>10, <3>3, <5>1
        <5>2. challenges[o.from].nonce # o.nonce \/ challenges[o.from] = NoChallenge
            BY <4>1, <5>1, <5>3 DEF TurnInv, SpentInv
        <5> QED BY <3>1, <4>1, <5>2
      <4> QED BY <4>2, <4>3
    <3>4. OneRelayPerRequest'
      <4>1. \A i \in DOMAIN relays : relays[i].tx # q.tx BY <2>1, AllocateFresh
      <4>2. \A i, j \in DOMAIN relays : relays[i].tx = relays[j].tx => i = j
          BY DEF TurnInv, SpentInv, OneRelayPerRequest
      <4>3. ASSUME NEW i \in DOMAIN relays', NEW j \in DOMAIN relays', relays'[i].tx = relays'[j].tx
            PROVE  i = j
          BY <2>10, <3>5, <3>6, <4>1, <4>2, <4>3
      <4> QED BY <4>3 DEF OneRelayPerRequest
    <3> QED BY <3>1, <3>2, <3>3, <3>4 DEF SpentInv
  <2> QED BY <2>4, <2>13, <2>14, <2>15 DEF TurnInv
<1> QED BY <1>1, <1>2

(* The sweep and the shutdown end the relays of the entries they take away. *)
LEMMA EntriesLeave ==
    ASSUME NEW gone \in SUBSET Clients, TurnInv, \A c \in gone : Present(c),
           allocs' \in [Clients -> {NoAlloc} \cup AllocSet],
           \A c \in Clients : IF c \in gone THEN allocs'[c] = NoAlloc
                              ELSE allocs'[c].relay = allocs[c].relay,
           \A c \in Clients : Present(c)' => Leads(allocs'[c], now),
           relays' = [r \in DOMAIN relays |->
                         [relays[r] EXCEPT !.running = @ /\ \A c \in gone : allocs[c].relay # r]],
           gauge' = gauge - Cardinality(gone),
           UNCHANGED <<now, nonces, wire, tc>>,
           challenges' \in [Clients -> [nonce : Nat, exp : Nat]],
           \A c \in Clients : challenges'[c] = challenges[c] \/ challenges'[c] = NoChallenge
    PROVE  TurnInv'
<1> DEFINE S == [tx : Nat, running : BOOLEAN]
<1>1. AskedInv' BY DEF TurnInv, AskedInv
<1>2. relays \in Seq(S) /\ Len(relays) \in Nat /\ DOMAIN relays = 1 .. Len(relays)
    BY DEF TurnInv, OwnedInv
<1>3. ASSUME NEW r \in DOMAIN relays
      PROVE  /\ relays'[r] \in S /\ relays'[r].tx = relays[r].tx
             /\ relays'[r].running <=> relays[r].running /\ \A c \in gone : allocs[c].relay # r
  <2>1. relays[r] \in S
    <3> HIDE DEF S
    <3> QED BY <1>2
  <2>2. relays'[r] = [relays[r] EXCEPT !.running = @ /\ \A c \in gone : allocs[c].relay # r] OBVIOUS
  <2>3. PICK out \in BOOLEAN : out <=> \A c \in gone : allocs[c].relay # r OBVIOUS
  <2>4. PICK t \in Nat, b \in BOOLEAN : relays[r] = [tx |-> t, running |-> b] BY <2>1
  <2>5. relays'[r] = [tx |-> t, running |-> b /\ out] BY <2>2, <2>3, <2>4
  <2> QED BY <2>3, <2>4, <2>5
<1>4. relays' \in Seq(S) /\ Len(relays') = Len(relays) /\ DOMAIN relays' = DOMAIN relays
  <2>1. DOMAIN relays' = DOMAIN relays /\ relays' = [r \in DOMAIN relays' |-> relays'[r]] OBVIOUS
  <2>2. \A r \in DOMAIN relays : relays'[r] \in S BY <1>3
  <2> HIDE DEF S
  <2>3. relays' \in [1 .. Len(relays) -> S] BY <1>2, <2>1, <2>2
  <2>4. relays' \in Seq(S) /\ Len(relays') = Len(relays) BY <1>2, <2>3, FunctionIsSeq
  <2> QED BY <2>1, <2>4
<1>a. \A r \in DOMAIN relays : relays'[r].tx = relays[r].tx BY <1>3
<1>b. \A r \in DOMAIN relays :
          relays'[r].running <=> relays[r].running /\ \A c \in gone : allocs[c].relay # r
    BY <1>3
<1>5. Holders' = Holders \ gone /\ Holders \cap gone = gone
    BY DEF Holders, Present, NoAlloc
<1>6. IsFiniteSet(Holders') /\ gauge' = Cardinality(Holders')
  <2>1. IsFiniteSet(Holders) /\ gauge = Cardinality(Holders)
    BY DEF TurnInv, OwnedInv, RelaysOwned, Holders
  <2> QED BY <1>5, <2>1, FS_Difference
<1>7. \A i \in DOMAIN relays' : relays'[i].running => \E c \in Clients : allocs'[c].relay = i
  <2> SUFFICES ASSUME NEW i \in DOMAIN relays
               PROVE  relays'[i].running => \E c \in Clients : allocs'[c].relay = i
    BY <1>4
  <2>1. i \in Nat /\ i # 0 BY <1>2
  <2>2. relays[i].running => \E c \in Clients : allocs[c].relay = i
    BY DEF TurnInv, OwnedInv, RelaysOwned
  <2>3. \A c, d \in Clients : allocs[c].relay = i /\ allocs[d].relay = i => c = d
    BY <2>1 DEF TurnInv, OwnedInv, Present
  <2>4. \A c \in gone : allocs'[c].relay = 0 BY DEF NoAlloc
  <2>5. \A c \in Clients : allocs'[c].relay = i <=> c \notin gone /\ allocs[c].relay = i
    BY <2>1, <2>4
  <2>6. relays'[i].running <=> relays[i].running /\ \A c \in gone : allocs[c].relay # i BY <1>b
  <2> QED BY <2>2, <2>3, <2>5, <2>6
<1>8. OwnedInv'
  <2>1. RelaysOwned' BY <1>6, <1>7 DEF RelaysOwned, Holders
  <2>2. IsFiniteSet({c \in Clients : Present(c)})' BY <1>6 DEF Holders
  <2>3. \A c \in Clients : allocs'[c].relay \in {0, allocs[c].relay} BY DEF NoAlloc
  <2>7. \A c \in Clients : allocs[c].relay <= Len(relays) BY DEF TurnInv, OwnedInv
  <2>4. \A c \in Clients : allocs'[c].relay <= Len(relays')
    BY <1>2, <1>4, <2>3, <2>7
  <2>5. \A c, d \in Clients : allocs'[c].relay = allocs'[d].relay => c = d \/ ~Present(c)'
    BY <2>3 DEF TurnInv, OwnedInv, Present
  <2>6. now' \in Nat /\ relays' \in Seq([tx : Nat, running : BOOLEAN]) BY <1>4 DEF TurnInv, OwnedInv
  <2> QED BY <2>1, <2>2, <2>4, <2>5, <2>6 DEF OwnedInv
<1>9. FramesInv' BY DEF FramesInv
<1>10. SpentInv'
  <2>1. \A r \in DOMAIN relays' : r \in DOMAIN relays /\ relays'[r].tx = relays[r].tx BY <1>a, <1>4
  <2>2. \A o \in wire : o.from \in Clients BY DEF TurnInv, AskedInv, RequestSet
  <2>3. ASSUME NEW r \in DOMAIN relays', NEW o \in wire', o.tx = relays'[r].tx
        PROVE  challenges'[o.from].nonce # o.nonce \/ challenges'[o.from] = NoChallenge
    BY <2>1, <2>2, <2>3 DEF TurnInv, SpentInv
  <2>4. OneRelayPerRequest' BY <2>1 DEF TurnInv, SpentInv, OneRelayPerRequest
  <2>5. \A r \in DOMAIN relays' : relays'[r].tx \in 1 .. Cardinality(wire')
    BY <2>1 DEF TurnInv, SpentInv
  <2> QED BY <2>3, <2>4, <2>5 DEF SpentInv
<1> QED BY <1>1, <1>8, <1>9, <1>10 DEF TurnInv

LEMMA SweepKeeps == ASSUME TurnInv, Sweep PROVE TurnInv'
<1>1. PICK gone : gone = {c \in Clients : Present(c) /\ ~IsLive(c)} OBVIOUS
<1>2. gone \in SUBSET Clients /\ \A c \in gone : Present(c) BY <1>1
<1>3. allocs' = [c \in Clients |-> IF c \in gone THEN NoAlloc
                                  ELSE IF Present(c) THEN Prune(allocs[c]) ELSE NoAlloc]
    BY <1>1 DEF Sweep
<1>4. ASSUME NEW c \in Clients
      PROVE  /\ allocs'[c] \in {NoAlloc} \cup AllocSet
             /\ IF c \in gone THEN allocs'[c] = NoAlloc ELSE allocs'[c].relay = allocs[c].relay
             /\ allocs'[c].relay # 0 => Leads(allocs'[c], now)
  <2>1. CASE c \in gone \/ ~Present(c)
    BY <1>3, <2>1 DEF Present, NoAlloc
  <2>2. CASE c \notin gone /\ Present(c)
    <3>1. PICK a : a = allocs[c] OBVIOUS
    <3>2. a \in AllocSet /\ Leads(a, now) /\ now \in Nat
        BY <2>2, <3>1 DEF TurnInv, OwnedInv, FramesInv, Present, NoAlloc
    <3>3. allocs'[c] = Prune(a) BY <1>3, <2>2, <3>1
    <3> QED BY <2>2, <3>1, <3>2, <3>3, PruneKept
  <2> QED BY <2>1, <2>2
<1>5. allocs' \in [Clients -> {NoAlloc} \cup AllocSet] BY <1>3, <1>4
<1>6. challenges' \in [Clients -> [nonce : Nat, exp : Nat]]
      /\ \A c \in Clients : challenges'[c] = challenges[c] \/ challenges'[c] = NoChallenge
  <2>1. NoChallenge \in [nonce : Nat, exp : Nat] BY DEF NoChallenge
  <2> QED BY <2>1 DEF Sweep, TurnInv, SpentInv
<1>7. /\ relays' = [r \in DOMAIN relays |->
                       [relays[r] EXCEPT !.running = @ /\ \A c \in gone : allocs[c].relay # r]]
      /\ gauge' = gauge - Cardinality(gone) /\ UNCHANGED <<now, nonces, wire, tc>>
    BY <1>1 DEF Sweep
<1>8. \A c \in Clients : Present(c)' => Leads(allocs'[c], now) BY <1>4 DEF Present
<1> QED BY <1>2, <1>4, <1>5, <1>6, <1>7, <1>8, EntriesLeave

LEMMA ShutdownKeeps == ASSUME TurnInv, Shutdown PROVE TurnInv'
<1>1. PICK gone : gone = {c \in Clients : Present(c)} OBVIOUS
<1>2. gone \in SUBSET Clients /\ \A c \in gone : Present(c) BY <1>1
<1>3. /\ allocs' \in [Clients -> {NoAlloc} \cup AllocSet]
      /\ \A c \in Clients : allocs'[c] = NoAlloc
    BY DEF Shutdown
<1>4. \A c \in Clients : IF c \in gone THEN allocs'[c] = NoAlloc ELSE allocs'[c].relay = allocs[c].relay
    BY <1>1, <1>3 DEF Present, NoAlloc
<1>5. \A c \in Clients : Present(c)' => Leads(allocs'[c], now) BY <1>3 DEF Present, NoAlloc
<1>6. \A r \in DOMAIN relays : (\A c \in Clients : allocs[c].relay # r) <=> (\A c \in gone : allocs[c].relay # r)
  <2>1. \A r \in DOMAIN relays : r # 0 BY DEF TurnInv, OwnedInv
  <2> QED BY <1>1, <2>1 DEF Present
<1>7. relays' = [r \in DOMAIN relays |->
                    [relays[r] EXCEPT !.running = @ /\ \A c \in gone : allocs[c].relay # r]]
    BY <1>6 DEF Shutdown
<1>8. /\ gauge' = gauge - Cardinality(gone) /\ UNCHANGED <<now, nonces, wire, tc, challenges>>
      /\ challenges \in [Clients -> [nonce : Nat, exp : Nat]]
    BY <1>1 DEF Shutdown, TurnInv, SpentInv
<1> QED BY <1>2, <1>3, <1>4, <1>5, <1>7, <1>8, EntriesLeave

-----------------------------------------------------------------------------
(* The clients and the clock. *)

LEMMA ServerKept ==
    OwnedInv /\ FramesInv /\ UNCHANGED <<now, allocs, relays, gauge>> => OwnedInv' /\ FramesInv'
BY DEF OwnedInv, FramesInv, RelaysOwned, Present

LEMMA ClientKeeps ==
    ASSUME NEW c \in Clients, NEW me \in ClientSet, TurnInv, Aimed(me.call), me.nonce <= nonces,
           tc' = [tc EXCEPT ![c] = me],
           UNCHANGED <<now, allocs, challenges, nonces, relays, gauge, wire>>
    PROVE  TurnInv'
<1>1. tc' \in [Clients -> ClientSet] /\ \A d \in Clients : tc'[d] = tc[d] \/ tc'[d] = me
    BY DEF TurnInv, AskedInv
<1>2. AskedInv' BY <1>1 DEF TurnInv, AskedInv
<1> QED BY <1>2, ServerKept, SpentKept DEF TurnInv

LEMMA TransmitKeeps == ASSUME NEW c \in Clients, TurnInv, Transmit(c) PROVE TurnInv'
<1>1. PICK me : me = tc[c] OBVIOUS
<1>2. PICK n : n = Cardinality(wire) OBVIOUS
<1>3. me \in ClientSet /\ Aimed(me.call) /\ me.nonce <= nonces /\ n \in Nat /\ nonces \in Nat
      /\ IsFiniteSet(wire)
    BY <1>1, <1>2, FS_CardinalityType DEF TurnInv, AskedInv
<1> DEFINE sent == [tx |-> n + 1, from |-> c, user |-> me.user, nonce |-> me.nonce,
                    method |-> me.call.method, signed |-> me.call.signed, lifetime |-> me.call.lifetime,
                    peer |-> me.call.peer, channel |-> me.call.channel]
<1>4. wire' = wire \cup {sent} /\ tc' = [tc EXCEPT ![c].tx = n + 1]
      /\ UNCHANGED <<now, allocs, challenges, nonces, relays, gauge>>
    BY <1>1, <1>2 DEF Transmit
<1>5. sent \in RequestSet /\ Aimed(sent) /\ sent.nonce <= nonces /\ sent.tx = n + 1
  <2>1. me.call \in CallSet /\ me.user \in Senders /\ me.nonce \in Nat BY <1>3, ClientFields
  <2>2. PICK k \in CallSet : k = me.call BY <2>1
  <2>3. k.method \in Methods /\ k.signed \in BOOLEAN /\ k.lifetime \in Nat /\ k.peer \in Peers \cup {NoPeer}
        /\ k.channel \in Channels \cup {0}
    BY DEF CallSet
  <2>4. sent \in RequestSet BY <1>3, <2>1, <2>2, <2>3 DEF RequestSet
  <2>5. Aimed(sent) BY <1>3 DEF Aimed
  <2> QED BY <1>3, <2>4, <2>5
<1> HIDE DEF sent
<1>6. sent \notin wire /\ \A o \in wire : o.tx # n + 1 /\ o.tx \in 1 .. n
    BY <1>2, <1>3, <1>5 DEF TurnInv, AskedInv
<1>7. IsFiniteSet(wire') /\ Cardinality(wire') = n + 1
    BY <1>2, <1>3, <1>4, <1>6, FS_AddElement
<1>8. AskedInv'
  <2>1. PICK you : you = [me EXCEPT !.tx = n + 1] OBVIOUS
  <2>2. PICK k, t, a, u, m, r :
            me = [call |-> k, tx |-> t, attempt |-> a, user |-> u, nonce |-> m, relay |-> r]
    BY <1>3, ClientFields
  <2>3. you = [call |-> k, tx |-> n + 1, attempt |-> a, user |-> u, nonce |-> m, relay |-> r]
    BY <2>1, <2>2
  <2>4. /\ k \in CallSet /\ a \in 0 .. 1 /\ u \in Senders /\ m \in Nat /\ r \in Nat
        /\ me.call = k /\ me.nonce = m
    BY <1>3, <2>2 DEF ClientSet
  <2>5. you \in ClientSet BY <1>3, <2>3, <2>4, ClientMade
  <2>6. you.call = me.call /\ you.nonce = me.nonce BY <2>3, <2>4
  <2>7. tc' = [tc EXCEPT ![c] = you] BY <1>1, <1>4, <2>1
  <2>8. tc' \in [Clients -> ClientSet] /\ \A d \in Clients : tc'[d] = tc[d] \/ tc'[d] = you
    BY <2>5, <2>7 DEF TurnInv, AskedInv
  <2>9. \A d \in Clients : Aimed(tc'[d].call) /\ tc'[d].nonce <= nonces'
    BY <1>3, <1>4, <2>6, <2>8 DEF TurnInv, AskedInv
  <2>10. \A q \in wire' : Aimed(q) /\ q.nonce <= nonces' /\ q.tx \in 1 .. Cardinality(wire')
    BY <1>3, <1>4, <1>5, <1>6, <1>7 DEF TurnInv, AskedInv
  <2>11. \A q, o \in wire' : q.tx = o.tx => q = o
    BY <1>4, <1>5, <1>6 DEF TurnInv, AskedInv
  <2>12. wire' \subseteq RequestSet BY <1>4, <1>5 DEF TurnInv, AskedInv
  <2> QED BY <1>3, <1>4, <1>7, <2>8, <2>9, <2>10, <2>11, <2>12 DEF AskedInv
<1>9. SpentInv'
  <2>1. \A r \in DOMAIN relays : relays[r].tx \in 1 .. n BY <1>2 DEF TurnInv, SpentInv
  <2>2. \A r \in DOMAIN relays : relays[r].tx # sent.tx BY <1>3, <1>5, <2>1
  <2>3. \A r \in DOMAIN relays : relays[r].tx \in 1 .. n + 1 BY <1>3, <2>1
  <2> QED BY <1>4, <1>7, <2>2, <2>3 DEF TurnInv, SpentInv, OneRelayPerRequest
<1> QED BY <1>4, <1>8, <1>9, ServerKept DEF TurnInv

LEMMA RelayFailsKeeps == ASSUME NEW r \in DOMAIN relays, TurnInv, RelayFails(r) PROVE TurnInv'
<1>1. /\ relays' \in Seq([tx : Nat, running : BOOLEAN]) /\ Len(relays') = Len(relays)
      /\ \A i \in DOMAIN relays : /\ relays'[i].tx = relays[i].tx
                                  /\ relays'[i].running <=> i # r /\ relays[i].running
  <2>1. relays \in Seq([tx : Nat, running : BOOLEAN]) BY DEF TurnInv, OwnedInv
  <2> QED BY <2>1, CancelledKept DEF RelayFails
<1>2. DOMAIN relays' = DOMAIN relays
  <2>1. relays \in Seq([tx : Nat, running : BOOLEAN]) BY DEF TurnInv, OwnedInv
  <2> QED BY <1>1, <2>1
<1>3. UNCHANGED <<now, allocs, challenges, nonces, gauge, wire, tc>> BY DEF RelayFails
<1>4. RelaysOwned' BY <1>1, <1>2, <1>3 DEF TurnInv, OwnedInv, RelaysOwned, Present
<1>5. OwnedInv' /\ FramesInv'
    BY <1>1, <1>3, <1>4 DEF TurnInv, OwnedInv, FramesInv, Present, Leads
<1>6. SpentInv'
  <2>1. \A i \in DOMAIN relays' : relays'[i].tx = relays[i].tx BY <1>1, <1>2
  <2>2. OneRelayPerRequest' BY <1>2, <2>1 DEF TurnInv, SpentInv, OneRelayPerRequest
  <2>3. \A i \in DOMAIN relays' : relays'[i].tx \in 1 .. Cardinality(wire')
    BY <1>2, <1>3, <2>1 DEF TurnInv, SpentInv
  <2>4. \A i \in DOMAIN relays' : \A q \in wire' : q.tx = relays'[i].tx =>
             challenges'[q.from].nonce # q.nonce \/ challenges'[q.from] = NoChallenge
    BY <1>2, <1>3, <2>1 DEF TurnInv, SpentInv
  <2>5. challenges' \in [Clients -> [nonce : Nat, exp : Nat]] BY <1>3 DEF TurnInv, SpentInv
  <2> QED BY <2>2, <2>3, <2>4, <2>5 DEF SpentInv
<1>7. AskedInv' BY <1>3 DEF TurnInv, AskedInv
<1> QED BY <1>5, <1>6, <1>7 DEF TurnInv

LEMMA TurnStepKeeps == TurnInv /\ [TurnNext]_turnVars => TurnInv'
<1> SUFFICES ASSUME TurnInv, [TurnNext]_turnVars PROVE TurnInv' OBVIOUS
<1>1. CASE UNCHANGED turnVars
    BY <1>1, ServerKept, SpentKept DEF turnVars, TurnInv, AskedInv
<1>2. ASSUME NEW q \in wire,
             HandleAllocate(q) \/ HandleRefresh(q) \/ HandleCreatePermission(q) \/ HandleChannelBind(q)
      PROVE  TurnInv'
    BY <1>2, HandleAllocateKeeps, HandleRefreshKeeps, HandlePermissionKeeps, HandleBindKeeps
<1>3. CASE Sweep BY <1>3, SweepKeeps
<1>4. CASE Shutdown BY <1>4, ShutdownKeeps
<1>10. ASSUME NEW r \in DOMAIN relays, RelayFails(r) PROVE TurnInv' BY <1>10, RelayFailsKeeps
<1>5. ASSUME NEW c \in Clients, NEW u \in TurnUsers, BeginAllocate(c, u) PROVE TurnInv'
  <2>1. PICK k : k = AllocateCall(FALSE) OBVIOUS
  <2>2. k \in CallSet /\ Aimed(k) BY <2>1, CallsAimed, Zenon
  <2>3. PICK me : me = [NoClient EXCEPT !.user = u, !.call = k] OBVIOUS
  <2>4. me = [call |-> k, tx |-> 0, attempt |-> 0, user |-> u, nonce |-> 0, relay |-> 0]
    BY <2>3 DEF NoClient
  <2>5. 0 \in 0 .. 1 /\ u \in Senders BY DEF Senders
  <2>6. me \in ClientSet BY <2>2, <2>4, <2>5, ClientMade
  <2>7. tc' = [tc EXCEPT ![c] = me] /\ UNCHANGED <<now, allocs, challenges, nonces, relays, gauge, wire>>
    BY <1>5, <2>1, <2>3, Zenon DEF BeginAllocate
  <2>8. Aimed(me.call) /\ me.nonce <= nonces BY <2>2, <2>4 DEF TurnInv, AskedInv
  <2> QED BY <2>6, <2>7, <2>8, ClientKeeps
<1>6. ASSUME NEW c \in Clients, NEW call \in Calls, BeginCall(c, call) PROVE TurnInv'
  <2>1. call \in CallSet /\ Aimed(call) BY CallsAimed
  <2>2. PICK me \in ClientSet : me = tc[c] /\ me.nonce <= nonces BY DEF TurnInv, AskedInv
  <2>3. PICK k, t, a, u, m, r :
            me = [call |-> k, tx |-> t, attempt |-> a, user |-> u, nonce |-> m, relay |-> r]
    BY ClientFields
  <2>4. PICK you : you = [me EXCEPT !.call = call] OBVIOUS
  <2>5. you = [call |-> call, tx |-> t, attempt |-> a, user |-> u, nonce |-> m, relay |-> r]
    BY <2>3, <2>4
  <2>6. t \in Nat /\ a \in 0 .. 1 /\ u \in Senders /\ m \in Nat /\ r \in Nat /\ me.nonce = m
    BY <2>3 DEF ClientSet
  <2>7. you \in ClientSet BY <2>1, <2>5, <2>6, ClientMade
  <2>8. you.call = call /\ you.nonce = m BY <2>5
  <2>9. tc' = [tc EXCEPT ![c] = you] /\ UNCHANGED <<now, allocs, challenges, nonces, relays, gauge, wire>>
    BY <1>6, <2>2, <2>4 DEF BeginCall
  <2> QED BY <2>1, <2>2, <2>6, <2>7, <2>8, <2>9, ClientKeeps
<1>7. ASSUME NEW c \in Clients, Transmit(c) PROVE TurnInv' BY <1>7, TransmitKeeps
<1>8. ASSUME NEW c \in Clients, ClientTimesOut(c) PROVE TurnInv'
  <2>1. PICK me : me = Idle(tc[c]) OBVIOUS
  <2>2. me \in ClientSet /\ Aimed(me.call) /\ me.nonce <= nonces
    BY <2>1, IdleKept, CallsAimed DEF TurnInv, AskedInv
  <2>3. tc' = [tc EXCEPT ![c] = me] /\ UNCHANGED <<now, allocs, challenges, nonces, relays, gauge, wire>>
    BY <1>8, <2>1 DEF ClientTimesOut, TurnInv, AskedInv
  <2> QED BY <2>2, <2>3, ClientKeeps
<1>9. CASE TurnTimePasses
  <2>1. AskedInv' /\ SpentInv' BY <1>9, SpentKept DEF TurnTimePasses, TurnInv, AskedInv
  <2>2. OwnedInv' BY <1>9 DEF TurnTimePasses, TurnInv, OwnedInv, RelaysOwned, Present
  <2>3. FramesInv'
    <3>1. now' = now + 1 /\ now \in Nat /\ UNCHANGED allocs BY <1>9 DEF TurnTimePasses, TurnInv, OwnedInv
    <3> SUFFICES ASSUME NEW c \in Clients, Present(c), NEW p \in Peers,
                        allocs[c].toChannel[p] # 0, allocs[c].toPeer[allocs[c].toChannel[p]].exp > now'
                 PROVE  allocs[c].toPeer[allocs[c].toChannel[p]].peer = p
        BY <3>1 DEF FramesInv, Leads, Present
    <3>2. PICK a \in AllocSet : a = allocs[c] BY DEF TurnInv, OwnedInv, Present, NoAlloc
    <3>3. a.toChannel[p] \in Channels BY <3>2, AllocFields
    <3>4. a.toPeer[a.toChannel[p]].exp \in Nat BY <3>3, AllocFields
    <3>5. a.toPeer[a.toChannel[p]].exp > now BY <3>1, <3>2, <3>4
    <3> QED BY <3>2, <3>5 DEF TurnInv, FramesInv, Leads
  <2> QED BY <2>1, <2>2, <2>3 DEF TurnInv
<1> QED BY <1>1, <1>2, <1>3, <1>4, <1>5, <1>6, <1>7, <1>8, <1>9, <1>10 DEF TurnNext

(* Whatever is lost, repeated, late, failed or expired, a relay task runs  *)
(* only as long as the table names it, an Allocate opens one relay at      *)
(* most, and frames go to the peer their channel is bound to.              *)
THEOREM RelaysAreSound == TurnSpec => []RelaysSound
<1>1. TurnInv => FramedForItsPeer
  <2> SUFFICES ASSUME TurnInv, NEW c \in Clients, NEW p \in Peers, FrameFor(c, p) # 0
               PROVE  PeerFor(c, FrameFor(c, p)) = p
    BY DEF FramedForItsPeer
  <2>1. Forwards(c, p) /\ FrameFor(c, p) = PeerChannel(allocs[c], p) BY DEF FrameFor
  <2>2. IsLive(c) /\ Present(c) BY <2>1 DEF Forwards, IsLive
  <2>3. FrameFor(c, p) = allocs[c].toChannel[p] /\ allocs[c].toChannel[p] # 0
        /\ ChannelPeer(allocs[c], allocs[c].toChannel[p]) # NoPeer
    BY <2>1 DEF PeerChannel
  <2>4. allocs[c].toPeer[allocs[c].toChannel[p]].exp > now BY <2>3 DEF ChannelPeer
  <2>5. allocs[c].toPeer[allocs[c].toChannel[p]].peer = p
    BY <2>2, <2>3, <2>4 DEF TurnInv, FramesInv, Leads
  <2> QED BY <2>2, <2>3, <2>4, <2>5 DEF PeerFor, ChannelPeer
<1>2. TurnInv => RelaysSound
    BY <1>1 DEF TurnInv, OwnedInv, SpentInv, RelaysSound
<1> QED BY <1>2, TurnStarts, TurnStepKeeps, PTL DEF TurnSpec
=============================================================================
