------------------------------ MODULE Registrar ------------------------------
(***************************************************************************)
(* Digest authentication of REGISTER and INVITE and the bindings REGISTER  *)
(* leaves (smiths-sip auth/mod.rs and the handlers of uas.rs).             *)
(*                                                                         *)
(* Per-Call-ID workers run concurrently: a request is checked, its         *)
(* credentials are looked up on the blocking pool, its digest is verified  *)
(* and its nonce claimed, and the answer is sent, with other workers in    *)
(* between.  The network repeats requests.  Headers are abstracted to the  *)
(* fields the registrar branches on: `right` says that the response was    *)
(* computed from the user's password.                                      *)
(***************************************************************************)
EXTENDS Integers, FiniteSets

CONSTANTS
    Workers,     \* call workers
    Users,       \* provisioned users
    MaxIssued,   \* bound: nonces issued
    NonceCap,    \* with_max_nonces
    NonceTtl,    \* with_ttl
    GcInterval,  \* min(ttl, 1 s)
    Expires,     \* values of the Expires header
    MaxTime,     \* bound: the clock
    MaxRequests  \* bound: requests received

ASSUME RegistrarAssumption ==
    /\ {MaxIssued, NonceTtl, GcInterval, MaxTime, MaxRequests} \subseteq Nat
    /\ NonceCap \in Nat \ {0} /\ Expires \subseteq Nat

Nonces == 1 .. MaxIssued
NoQop == 0
UnreadableNc == 9     \* u32::MAX, what an unreadable nonce-count parses as

VARIABLES
    clock,
    table,     \* the live nonces with their replay state
    everNonce, \* nonces issued so far
    lastGc,
    worker,    \* what each worker is doing
    bindings,  \* the registration store: expiry of each user's contact, 0 for none
    requests,  \* requests received
    granted,   \* headers that authenticated a request
    twice      \* whether a nonce was accepted again with a count it had reached

registrarVars == <<clock, table, everNonce, lastGc, worker, bindings, requests,
                   granted, twice>>

Resting == [phase |-> "idle"]

RegistrarInit ==
    /\ clock = 0 /\ table = {} /\ everNonce = 0 /\ lastGc = 0
    /\ worker = [w \in Workers |-> Resting]
    /\ bindings = [u \in Users |-> 0]
    /\ requests = 0 /\ granted = {} /\ twice = FALSE

(* AuthParams, as far as the registrar looks at them. *)
Headers ==
    [user : Users \cup {"nobody"}, right : BOOLEAN, realm : {"ours", "another"},
     target : {"ours"}, nonce : 1 .. everNonce, nc : {NoQop, 1, UnreadableNc}]
    \cup {[user |-> u, right |-> TRUE, realm |-> "ours", target |-> "another",
           nonce |-> n, nc |-> 1] : u \in Users, n \in 1 .. everNonce}

Receive(w, method, expires) ==
    /\ worker[w].phase = "idle" /\ requests < MaxRequests
    /\ requests' = requests + 1
    /\ \/ worker' = [worker EXCEPT ![w] = [phase |-> "challenge", method |-> method, stale |-> FALSE]]
       \/ \E h \in Headers :
            worker' = [worker EXCEPT ![w] =
              [phase |-> "precheck", method |-> method, expires |-> expires, header |-> h]]
    /\ UNCHANGED <<clock, table, everNonce, lastGc, bindings, granted, twice>>

ReceiveRegister(w) == \E expires \in Expires : Receive(w, "REGISTER", expires)
ReceiveInvite(w) == Receive(w, "INVITE", 0)

-----------------------------------------------------------------------------
Known(n) == \E e \in table : e.nonce = n
Entry(n) == CHOOSE e \in table : e.nonce = n
Live(e) == clock - e.issued <= NonceTtl

(* The nonce-count was accepted already, or the nonce without a count was. *)
Spent(e, nc) == IF nc = NoQop THEN e.used_without_qop ELSE nc <= e.last_nc

(* A failed authentication is answered by a fresh challenge, which tells   *)
(* the two freshness errors from the others.                               *)
Challenge(w, error) ==
    /\ worker' = [worker EXCEPT ![w] =
         [phase |-> "challenge", method |-> worker[w].method,
          stale |-> error \in {"StaleNonce", "NonceReplayed"}]]

(* precheck: realm, algorithm and URI, then the cheap replay rejection. *)
Precheck(w) ==
    /\ worker[w].phase = "precheck"
    /\ LET h == worker[w].header
       IN  \/ h.realm # "ours" /\ Challenge(w, "WrongRealm")
           \/ h.realm = "ours" /\ h.target # "ours" /\ Challenge(w, "UriMismatch")
           \/ /\ h.realm = "ours" /\ h.target = "ours"
              /\ Known(h.nonce) /\ Live(Entry(h.nonce)) /\ Spent(Entry(h.nonce), h.nc)
              /\ Challenge(w, "NonceReplayed")
           \/ /\ h.realm = "ours" /\ h.target = "ours"
              /\ ~(Known(h.nonce) /\ Live(Entry(h.nonce)) /\ Spent(Entry(h.nonce), h.nc))
              /\ worker' = [worker EXCEPT ![w].phase = "lookup"]
    /\ UNCHANGED <<clock, table, everNonce, lastGc, bindings, requests, granted, twice>>

(* The credential store: the user's secret; no such user, which is also    *)
(* what a backend that is away says of every user; or a lookup that        *)
(* panicked, which is answered 500.                                        *)
LookUp(w) ==
    /\ worker[w].phase = "lookup"
    /\ \/ /\ worker[w].header.user \in Users
          /\ worker' = [worker EXCEPT ![w].phase = "verify"]
       \/ Challenge(w, "UnknownUser")
       \/ worker' = [worker EXCEPT ![w] = Resting]
    /\ UNCHANGED <<clock, table, everNonce, lastGc, bindings, requests, granted, twice>>

(* The nonce was accepted with this count or a higher one, or before        *)
(* without a count.                                                        *)
Reused(h) ==
    \E g \in granted :
        g.nonce = h.nonce /\ (g.nc = NoQop <=> h.nc = NoQop) /\ h.nc <= g.nc

Grant(w) ==
    /\ worker' = [worker EXCEPT ![w] = [phase |-> "granted", method |-> worker[w].method,
                                        user |-> worker[w].header.user,
                                        expires |-> worker[w].expires]]
    /\ granted' = granted \cup {worker[w].header}
    /\ twice' = (twice \/ Reused(worker[w].header))

Claimed(e, nc) == IF nc = NoQop THEN [e EXCEPT !.used_without_qop = TRUE]
                  ELSE [e EXCEPT !.last_nc = nc]

ClaimNonceMut(w) ==
    LET h == worker[w].header
        e == Entry(h.nonce)
    IN  IF Known(h.nonce) /\ Live(e)
        THEN table' = (table \ {e}) \cup {Claimed(e, h.nc)} /\ Grant(w)
        ELSE Challenge(w, "StaleNonce") /\ UNCHANGED <<table, granted, twice>>

(* claim_nonce: under the entry's lock. *)
ClaimNonce(w) ==
    LET h == worker[w].header
        e == Entry(h.nonce)
    IN  \/ ~Known(h.nonce) /\ Challenge(w, "StaleNonce") /\ UNCHANGED <<table, granted, twice>>
        \/ /\ Known(h.nonce) /\ ~Live(e)
           /\ table' = table \ {e} /\ Challenge(w, "StaleNonce") /\ UNCHANGED <<granted, twice>>
        \/ /\ Known(h.nonce) /\ Live(e) /\ Spent(e, h.nc)
           /\ Challenge(w, "NonceReplayed") /\ UNCHANGED <<table, granted, twice>>
        \/ /\ Known(h.nonce) /\ Live(e) /\ ~Spent(e, h.nc)
           /\ table' = (table \ {e}) \cup {Claimed(e, h.nc)} /\ Grant(w)

(* finish: the digest first, so that a right response to an old nonce is   *)
(* told apart from a wrong one.                                            *)
Finish(w) ==
    /\ worker[w].phase = "verify"
    /\ \/ ~worker[w].header.right /\ Challenge(w, "BadResponse") /\ UNCHANGED <<table, granted, twice>>
       \/ worker[w].header.right /\ ClaimNonce(w)
    /\ UNCHANGED <<clock, everNonce, lastGc, bindings, requests>>

-----------------------------------------------------------------------------
(* maybe_gc: expired nonces go; a table still full loses its oldest tenth, *)
(* at least one.                                                           *)
Swept ==
    LET fresh == {e \in table : Live(e)}
        evict == IF Cardinality(fresh) \div 10 > 1 THEN Cardinality(fresh) \div 10 ELSE 1
        oldest == CHOOSE old \in SUBSET fresh :
                    /\ Cardinality(old) = evict
                    /\ \A a \in old, b \in fresh \ old : a.issued <= b.issued
    IN  IF Cardinality(fresh) < NonceCap THEN fresh ELSE fresh \ oldest

SweepTable(w) ==
    /\ worker[w].phase = "challenge"
    /\ LET due == Cardinality(table) >= NonceCap \/ clock - lastGc >= GcInterval
       IN  /\ table' = IF due THEN Swept ELSE table
           /\ lastGc' = IF due THEN clock ELSE lastGc
    /\ worker' = [worker EXCEPT ![w].phase = "issue"]
    /\ UNCHANGED <<clock, everNonce, bindings, requests, granted, twice>>

(* The 401 leaves with the nonce it registered. *)
IssueNonce(w) ==
    /\ worker[w].phase = "issue" /\ everNonce < MaxIssued
    /\ everNonce' = everNonce + 1
    /\ table' = table \cup {[nonce |-> everNonce + 1, issued |-> clock, last_nc |-> 0,
                             used_without_qop |-> FALSE]}
    /\ worker' = [worker EXCEPT ![w] = Resting]
    /\ UNCHANGED <<clock, lastGc, bindings, requests, granted, twice>>

(* persist_register_binding and the 200; an INVITE goes on to its dialog. *)
Persist(w) ==
    /\ worker[w].phase = "granted"
    /\ bindings' = IF worker[w].method # "REGISTER" THEN bindings
                   ELSE [bindings EXCEPT ![worker[w].user] =
                           IF worker[w].expires = 0 THEN 0 ELSE clock + worker[w].expires]
    /\ worker' = [worker EXCEPT ![w] = Resting]
    /\ UNCHANGED <<clock, table, everNonce, lastGc, requests, granted, twice>>

(* gc_expired. *)
ForgetExpired ==
    /\ \E u \in Users : bindings[u] # 0 /\ bindings[u] <= clock
    /\ bindings' = [u \in Users |-> IF bindings[u] <= clock THEN 0 ELSE bindings[u]]
    /\ UNCHANGED <<clock, table, everNonce, lastGc, worker, requests, granted, twice>>

TimePasses ==
    /\ clock < MaxTime
    /\ clock' = clock + 1
    /\ UNCHANGED <<table, everNonce, lastGc, worker, bindings, requests, granted, twice>>

RegistrarNext ==
    \/ TimePasses \/ ForgetExpired
    \/ \E w \in Workers :
         \/ ReceiveRegister(w) \/ ReceiveInvite(w)
         \/ Precheck(w) \/ LookUp(w) \/ Finish(w)
         \/ SweepTable(w) \/ IssueNonce(w) \/ Persist(w)

RegistrarSpec == RegistrarInit /\ [][RegistrarNext]_registrarVars

-----------------------------------------------------------------------------
(* One Authorization header authenticates at most one request, and the     *)
(* nonce-counts accepted for one nonce rise, although copies are checked   *)
(* by several workers at once, a slow credential lookup separates the      *)
(* check from the claim, and nonces expire, are swept and evicted          *)
(* meanwhile (auth/mod.rs: precheck, claim_nonce, maybe_gc).               *)
DigestSound == ~twice
=============================================================================
