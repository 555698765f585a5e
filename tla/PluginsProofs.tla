---------------------------- MODULE PluginsProofs ---------------------------
(***************************************************************************)
(* Part 1, AI tools.  GivesUpLast is an invariant of AiSpec, for any       *)
(* number of callers, capabilities, providers and attempts.  AiInv adds    *)
(* that the candidates found healthy, those found open and those not       *)
(* examined yet are apart and together all of them, and that those asked   *)
(* followed by those still to be asked are the attempts in their order.    *)
(*                                                                         *)
(* Part 2, plugins.  PluginsSound is an invariant of PluginsSpec, for any  *)
(* number of plugins, reload calls, saves, spawns and events and whatever  *)
(* the manifests say.  LoadInv adds that a sidecar which is not listed yet *)
(* is its maker's alone, that what a task retires was listed under its own *)
(* plugin, that watcher tasks are used in their order, and that what an    *)
(* aborted task may still kill is about to be replaced by another one.     *)
(* HookInv adds that every list of routes is in order with one route per   *)
(* plugin, and that what a dispatch has invoked comes before what it has   *)
(* left.                                                                   *)
(***************************************************************************)
EXTENDS AiPipeline, Plugins, FiniteSetTheorems, SequenceTheorems,
        WellFoundedInduction, TLAPS

-----------------------------------------------------------------------------
(* The dispatcher's attempts.                                              *)

\* A list of candidates without a repetition.
Listing(s) == s \in Seq(Range(s)) /\ IsInjective(s)
Disjoint(s, u) == Range(s) \cap Range(u) = {}

Examining == {"examine", "expired", "fresh_budget"}
Attempting == {"attempt", "close", "trip"}

\* The candidates of the dispatch a tool call is in.
Ranked(t) == ProvidersOf[Head(t.stages)]

\* The healthy, the open and the unexamined candidates are apart, and are all.
PartitionOk(t) ==
    /\ Head(t.stages) \in Capabilities
    /\ Listing(t.healthy) /\ Listing(t.open) /\ Listing(t.rest)
    /\ Disjoint(t.healthy, t.open) /\ Disjoint(t.healthy, t.rest) /\ Disjoint(t.open, t.rest)
    /\ Range(t.healthy) \cup Range(t.open) \cup Range(t.rest) = Range(Ranked(t))

\* What was asked, then what is still to be asked, are the attempts in their order.
AttemptsOk(t) ==
    /\ t.rest = <<>>
    /\ t.asked \in Seq(Range(Ranked(t))) /\ t.queue \in Seq(Range(Ranked(t)))
    /\ t.asked \o t.queue = InOrder(t.healthy, t.open)

DispatchOk(t) ==
    /\ t.at \in Examining => PartitionOk(t) /\ t.rest # <<>> /\ t.asked = <<>>
    /\ t.at \in Attempting => PartitionOk(t) /\ AttemptsOk(t) /\ t.queue # <<>>
    /\ t.at = "all_failed" => PartitionOk(t) /\ AttemptsOk(t) /\ t.queue = <<>>
    /\ t.at = "stage" => t.asked = <<>> /\ t.healthy = <<>> /\ t.open = <<>>

Fields == {"at", "call", "stages", "frames", "seen", "rest", "healthy", "open", "queue", "asked"}

\* A caller's record, of the right shape and as the dispatch left it.
CallerOk(t) == DOMAIN t = Fields /\ DispatchOk(t)

AiInv == DOMAIN toolCall = AiCallers /\ \A c \in AiCallers : CallerOk(toolCall[c])

-----------------------------------------------------------------------------
(* Listings *)

LEMMA EmptyListing == Listing(<<>>) /\ Range(<<>>) = {}
BY DEF Listing, Range, IsInjective

LEMMA ListingHead ==
    ASSUME NEW s, Listing(s), s # <<>>
    PROVE  /\ Head(s) \in Range(s) /\ Listing(Tail(s)) /\ Range(Tail(s)) = Range(s) \ {Head(s)}
           /\ Len(s) = 1 => Tail(s) = <<>>
           /\ Len(s) # 1 => Tail(s) # <<>>
<1> DEFINE S == Range(s)
<1>1. s \in Seq(S) /\ IsInjective(s) BY DEF Listing
<1>2. /\ Len(s) \in Nat /\ Len(s) # 0 /\ DOMAIN s = 1 .. Len(s)
      /\ Head(s) = s[1] /\ 1 \in DOMAIN s
  BY <1>1
<1>3. /\ Tail(s) \in Seq(S) /\ Len(Tail(s)) = Len(s) - 1 /\ DOMAIN Tail(s) = 1 .. Len(s) - 1
      /\ \A i \in 1 .. Len(s) - 1 : Tail(s)[i] = s[i + 1] /\ i + 1 \in DOMAIN s /\ i + 1 # 1
  BY <1>1, <1>2
<1>4. Head(s) \in S BY <1>2 DEF Range
<1>5. IsInjective(Tail(s))
  <2> SUFFICES ASSUME NEW a \in 1 .. Len(s) - 1, NEW b \in 1 .. Len(s) - 1, Tail(s)[a] = Tail(s)[b]
               PROVE  a = b
    BY <1>3 DEF IsInjective
  <2>1. s[a + 1] = s[b + 1] BY <1>3
  <2>2. a + 1 = b + 1 BY <2>1, <1>1, <1>3 DEF IsInjective
  <2> QED BY <2>2
<1>6. Range(Tail(s)) \subseteq S \ {Head(s)}
  <2> SUFFICES ASSUME NEW i \in 1 .. Len(s) - 1 PROVE Tail(s)[i] \in S \ {Head(s)}
    BY <1>3 DEF Range
  <2>1. Tail(s)[i] = s[i + 1] /\ i + 1 \in DOMAIN s /\ i + 1 # 1 BY <1>3
  <2>2. s[i + 1] # s[1] BY <2>1, <1>1, <1>2 DEF IsInjective
  <2> QED BY <2>1, <2>2, <1>2 DEF Range
<1>7. S \ {Head(s)} \subseteq Range(Tail(s))
  <2> SUFFICES ASSUME NEW i \in DOMAIN s, s[i] # Head(s) PROVE s[i] \in Range(Tail(s))
    BY DEF Range
  <2>1. i \in 2 .. Len(s) BY <1>2
  <2>2. PICK k \in 1 .. Len(s) - 1 : i = k + 1
    <3>1. i - 1 \in 1 .. Len(s) - 1 /\ i = (i - 1) + 1 BY <2>1, <1>2
    <3> QED BY <3>1
  <2>3. s[i] = Tail(s)[k] BY <2>2, <1>3
  <2> QED BY <2>3, <1>3 DEF Range
<1>8. Tail(s) \in Seq(Range(Tail(s)))
  BY <1>3, RangeOfSeq, SeqOfRange
<1>9. (Len(s) = 1 => Tail(s) = <<>>) /\ (Len(s) # 1 => Tail(s) # <<>>)
  <2>1. Len(s) = 1 => Len(Tail(s)) = 0 BY <1>3
  <2>2. Len(s) # 1 => Len(Tail(s)) # 0 BY <1>2, <1>3
  <2> QED BY <2>1, <2>2, <1>3, EmptySeq
<1> QED BY <1>4, <1>5, <1>6, <1>7, <1>8, <1>9 DEF Listing

LEMMA ListingAppend ==
    ASSUME NEW s, NEW e, Listing(s), e \notin Range(s)
    PROVE  Listing(Append(s, e)) /\ Range(Append(s, e)) = Range(s) \cup {e}
<1> DEFINE S == Range(s) \cup {e}
           u == Append(s, e)
<1>1. s \in Seq(S) /\ IsInjective(s) BY DEF Listing
<1>2. Len(s) \in Nat /\ DOMAIN s = 1 .. Len(s) BY <1>1
<1>3. /\ u \in Seq(S) /\ DOMAIN u = 1 .. Len(s) + 1
      /\ \A i \in 1 .. Len(s) : u[i] = s[i]
      /\ u[Len(s) + 1] = e
  BY <1>1
<1>4. \A i \in 1 .. Len(s) : s[i] # e BY <1>2 DEF Range
<1>5. IsInjective(u)
  <2> SUFFICES ASSUME NEW a \in 1 .. Len(s) + 1, NEW b \in 1 .. Len(s) + 1, u[a] = u[b] PROVE a = b
    BY <1>3 DEF IsInjective
  <2>1. CASE a \in 1 .. Len(s) /\ b \in 1 .. Len(s) BY <2>1, <1>1, <1>2, <1>3 DEF IsInjective
  <2>2. CASE a = Len(s) + 1 \/ b = Len(s) + 1 BY <2>2, <1>2, <1>3, <1>4
  <2> QED BY <2>1, <2>2, <1>2
<1>6. Range(u) = S
  <2>1. Range(u) \subseteq S BY <1>3, RangeOfSeq
  <2>2. e \in Range(u) BY <1>2, <1>3 DEF Range
  <2>3. \A x \in Range(s) : x \in Range(u)
    <3> SUFFICES ASSUME NEW i \in 1 .. Len(s) PROVE s[i] \in Range(u) BY <1>2 DEF Range
    <3>1. u[i] = s[i] /\ i \in DOMAIN u BY <1>2, <1>3
    <3> QED BY <3>1 DEF Range
  <2> QED BY <2>1, <2>2, <2>3
<1> QED BY <1>3, <1>5, <1>6 DEF Listing

LEMMA ListingConcat ==
    ASSUME NEW s, NEW u, Listing(s), Listing(u), Disjoint(s, u)
    PROVE  Listing(s \o u) /\ Range(s \o u) = Range(s) \cup Range(u)
<1> DEFINE S == Range(s) \cup Range(u)
           w == s \o u
<1>1. s \in Seq(S) /\ u \in Seq(S) /\ IsInjective(s) /\ IsInjective(u) BY DEF Listing
<1>2. /\ Len(s) \in Nat /\ Len(u) \in Nat /\ DOMAIN s = 1 .. Len(s) /\ DOMAIN u = 1 .. Len(u)
  BY <1>1
<1>3. /\ w \in Seq(S) /\ DOMAIN w = 1 .. Len(s) + Len(u)
      /\ \A i \in 1 .. Len(s) : w[i] = s[i]
      /\ \A i \in Len(s) + 1 .. Len(s) + Len(u) : w[i] = u[i - Len(s)] /\ i - Len(s) \in DOMAIN u
  BY <1>1, <1>2
<1>4. IsInjective(w)
  <2> SUFFICES ASSUME NEW a \in 1 .. Len(s) + Len(u), NEW b \in 1 .. Len(s) + Len(u), w[a] = w[b] PROVE a = b
    BY <1>3 DEF IsInjective
  <2> DEFINE Low == 1 .. Len(s)
             High == Len(s) + 1 .. Len(s) + Len(u)
  <2>0. (a \in Low \/ a \in High) /\ (b \in Low \/ b \in High) BY <1>2
  <2>1. CASE a \in Low /\ b \in Low BY <2>1, <1>1, <1>2, <1>3 DEF IsInjective
  <2>2. CASE a \in High /\ b \in High
    <3>1. a - Len(s) = b - Len(s) BY <2>2, <1>1, <1>3 DEF IsInjective
    <3> QED BY <3>1, <2>2, <1>2
  <2>3. \A i \in Low, j \in High : w[i] # w[j]
    <3> SUFFICES ASSUME NEW i \in Low, NEW j \in High PROVE w[i] # w[j] OBVIOUS
    <3>1. w[i] \in Range(s) BY <1>2, <1>3 DEF Range
    <3>2. w[j] \in Range(u) BY <1>3 DEF Range
    <3> QED BY <3>1, <3>2 DEF Disjoint
  <2> QED BY <2>0, <2>1, <2>2, <2>3
<1>5. Range(w) = S BY <1>1, RangeConcatenation
<1> QED BY <1>3, <1>4, <1>5 DEF Listing

LEMMA ListingPrefix ==
    ASSUME NEW s, NEW n \in Nat, Listing(s), n <= Len(s)
    PROVE  /\ Listing(SubSeq(s, 1, n)) /\ Range(SubSeq(s, 1, n)) = {s[i] : i \in 1 .. n}
           /\ Len(SubSeq(s, 1, n)) = n
<1> DEFINE S == Range(s)
           u == SubSeq(s, 1, n)
<1>1. s \in Seq(S) /\ IsInjective(s) BY DEF Listing
<1>2. Len(s) \in Nat /\ DOMAIN s = 1 .. Len(s) BY <1>1
<1>3. u \in Seq(S) /\ Len(u) = n /\ DOMAIN u = 1 .. n /\ \A i \in 1 .. n : u[i] = s[i]
  BY <1>1, <1>2, SubSeqProperties
<1>4. IsInjective(u) BY <1>1, <1>2, <1>3 DEF IsInjective
<1>5. Range(u) = {s[i] : i \in 1 .. n} BY <1>3 DEF Range
<1>6. u \in Seq(Range(u)) BY <1>3, SeqOfRange
<1> QED BY <1>3, <1>4, <1>5, <1>6 DEF Listing

LEMMA ListingCard ==
    ASSUME NEW s, Listing(s)
    PROVE  Len(s) = Cardinality(Range(s))
<1>1. s \in Seq(Range(s)) /\ IsInjective(s) BY DEF Listing
<1>2. Len(s) \in Nat /\ DOMAIN s = 1 .. Len(s) BY <1>1
<1>3. s \in [1 .. Len(s) -> Range(s)] BY <1>1
<1>4. s \in Bijection(1 .. Len(s), Range(s))
  BY <1>1, <1>2, <1>3 DEF Bijection, Injection, Surjection, IsInjective, Range
<1>5. ExistsBijection(1 .. Len(s), Range(s)) BY <1>4 DEF ExistsBijection
<1>6. IsFiniteSet(1 .. Len(s)) /\ Cardinality(1 .. Len(s)) = Len(s)
  <2>1. \A n \in Nat : IsFiniteSet(1 .. n) /\ Cardinality(1 .. n) = n
    <3> SUFFICES ASSUME NEW n \in Nat PROVE IsFiniteSet(1 .. n) /\ Cardinality(1 .. n) = n OBVIOUS
    <3>1. 1 \in Int /\ n \in Int /\ (IF 1 > n THEN 0 ELSE n - 1 + 1) = n OBVIOUS
    <3>2. IsFiniteSet(1 .. n) /\ Cardinality(1 .. n) = IF 1 > n THEN 0 ELSE n - 1 + 1
      BY <3>1, FS_Interval
    <3> QED BY <3>1, <3>2
  <2> QED BY <2>1, <1>2
<1> QED BY <1>5, <1>6, FS_Bijection

-----------------------------------------------------------------------------
(* The order of the attempts *)

\* The attempts are as many of all candidates as max_attempts allows, healthy ones first.
LEMMA InOrderProps ==
    ASSUME NEW h, NEW o, Listing(h), Listing(o), Disjoint(h, o)
    PROVE  /\ Listing(InOrder(h, o)) /\ Range(InOrder(h, o)) \subseteq Range(h) \cup Range(o)
           /\ Len(InOrder(h, o)) = MaxAttempts \/ Range(InOrder(h, o)) = Range(h) \cup Range(o)
           /\ Range(InOrder(h, o)) \cap Range(o) # {} => Range(h) \subseteq Range(InOrder(h, o))
<1> DEFINE all == h \o o
           n == IF Len(all) < MaxAttempts THEN Len(all) ELSE MaxAttempts
           r == InOrder(h, o)
<1>1. Listing(all) /\ Range(all) = Range(h) \cup Range(o) BY ListingConcat
<1>2. /\ h \in Seq(Range(all)) /\ o \in Seq(Range(all)) /\ all \in Seq(Range(all))
  BY <1>1 DEF Listing
<1>3. /\ Len(h) \in Nat /\ Len(o) \in Nat /\ Len(all) = Len(h) + Len(o)
      /\ DOMAIN h = 1 .. Len(h) /\ DOMAIN o = 1 .. Len(o) /\ DOMAIN all = 1 .. Len(all)
      /\ \A i \in 1 .. Len(h) : all[i] = h[i]
  BY <1>2
<1>4. n \in Nat /\ n <= Len(all) BY <1>3, AiAssumption DEF AiAssumption
<1>5. r = SubSeq(all, 1, n) BY DEF InOrder
<1>6. Listing(r) /\ Range(r) = {all[i] : i \in 1 .. n} /\ Len(r) = n
  <2> HIDE DEF all, n, r
  <2> QED BY <1>1, <1>4, <1>5, ListingPrefix
<1>7. Range(r) \subseteq Range(all)
  <2>1. \A i \in 1 .. n : i \in DOMAIN all BY <1>3, <1>4
  <2> HIDE DEF all, n, r
  <2>2. \A i \in 1 .. n : all[i] \in Range(all) BY <2>1 DEF Range
  <2> QED BY <2>2, <1>6
<1>8. Len(r) = MaxAttempts \/ Range(r) = Range(all)
  <2>1. CASE n = MaxAttempts BY <2>1, <1>6
  <2>2. CASE n = Len(all) BY <2>2, <1>3, <1>6 DEF Range
  <2> QED BY <2>1, <2>2
<1>9. ASSUME Range(r) \cap Range(o) # {} PROVE Range(h) \subseteq Range(r)
  <2>1. PICK i \in 1 .. n : all[i] \in Range(o) BY <1>9, <1>6
  <2>2. i > Len(h)
    <3> SUFFICES ASSUME i <= Len(h) PROVE FALSE BY <1>3, <1>4
    <3>1. i \in 1 .. Len(h) BY <1>3, <1>4
    <3>2. all[i] \in Range(h) BY <3>1, <1>3 DEF Range
    <3> QED BY <3>2, <2>1 DEF Disjoint
  <2>3. \A k \in 1 .. Len(h) : k \in 1 .. n BY <2>2, <1>3, <1>4
  <2>4. \A k \in 1 .. Len(h) : h[k] \in Range(r) BY <2>3, <1>3, <1>6
  <2> QED BY <2>4, <1>3 DEF Range
<1> QED BY <1>1, <1>6, <1>7, <1>8, <1>9

-----------------------------------------------------------------------------
(* Records *)

\* A caller whose record is replaced by one that is in order leaves all of them in order.
LEMMA CallerMoves ==
    ASSUME AiInv, NEW c \in AiCallers, NEW x, CallerOk(x), toolCall' = [toolCall EXCEPT ![c] = x]
    PROVE  AiInv'
BY DEF AiInv

LEMMA NoToolOk == CallerOk(NoTool)
BY DEF CallerOk, Fields, NoTool, DispatchOk, Examining, Attempting

LEMMA StageOk ==
    ASSUME NEW x, DOMAIN x = Fields, x.at = "stage", x.asked = <<>>, x.healthy = <<>>, x.open = <<>>
    PROVE  CallerOk(x)
BY DEF CallerOk, DispatchOk, Examining, Attempting

LEMMA FailsKeep == ASSUME AiInv, NEW c \in AiCallers, ToolFails(c) PROVE AiInv'
BY CallerMoves, NoToolOk DEF ToolFails, Becomes

LEMMA DoneKeeps == ASSUME AiInv, NEW c \in AiCallers, StageDone(c) PROVE AiInv'
<1>1. PICK x : x = [NoTool EXCEPT !.at = "stage", !.call = toolCall[c].call, !.stages = Tail(toolCall[c].stages)]
  OBVIOUS
<1>2. CallerOk(x) BY <1>1, StageOk DEF Fields, NoTool
<1>3. PICK y : y = (IF Len(toolCall[c].stages) = 1 THEN NoTool ELSE x) OBVIOUS
<1>4. CallerOk(y) BY <1>2, <1>3, NoToolOk
<1>5. toolCall' = [toolCall EXCEPT ![c] = y] BY <1>1, <1>3 DEF StageDone, Becomes
<1> QED BY <1>4, <1>5, CallerMoves

\* An examination ends: the candidate is healthy or open, and the attempts begin after the last.
LEMMA PartitionKeeps ==
    ASSUME AiInv, NEW c \in AiCallers, NEW side \in {"healthy", "open"},
           toolCall[c].at \in Examining, Partitioned(c, side)
    PROVE  AiInv'
<1>1. PICK t : t = toolCall[c] OBVIOUS
<1>2. DOMAIN t = Fields /\ PartitionOk(t) /\ t.rest # <<>> /\ t.asked = <<>>
  BY <1>1 DEF AiInv, CallerOk, DispatchOk
<1>3. PICK h : h = IF side = "healthy" THEN Append(t.healthy, Head(t.rest)) ELSE t.healthy OBVIOUS
<1>4. PICK o : o = IF side = "open" THEN Append(t.open, Head(t.rest)) ELSE t.open OBVIOUS
<1>5. PICK q : q = IF Len(t.rest) = 1 THEN InOrder(h, o) ELSE <<>> OBVIOUS
<1>6. PICK a : a = IF ~(Len(t.rest) = 1) THEN "examine"
                   ELSE IF q = <<>> THEN "all_failed" ELSE "attempt" OBVIOUS
<1>7. PICK x : x = [t EXCEPT !.at = a, !.rest = Tail(@), !.healthy = h, !.open = o, !.queue = q, !.seen = 0]
  OBVIOUS
<1>8. toolCall' = [toolCall EXCEPT ![c] = x]
  BY <1>1, <1>3, <1>4, <1>5, <1>6, <1>7 DEF Partitioned, Becomes
<1>9. /\ DOMAIN x = Fields /\ x.at = a /\ x.rest = Tail(t.rest) /\ x.healthy = h /\ x.open = o
      /\ x.queue = q /\ x.asked = t.asked /\ x.stages = t.stages
  BY <1>2, <1>7 DEF Fields
<1>10. /\ Listing(t.healthy) /\ Listing(t.open) /\ Listing(t.rest)
       /\ Disjoint(t.healthy, t.open) /\ Disjoint(t.healthy, t.rest) /\ Disjoint(t.open, t.rest)
  BY <1>2 DEF PartitionOk
<1>11. /\ Head(t.rest) \in Range(t.rest) /\ Listing(Tail(t.rest))
       /\ Range(Tail(t.rest)) = Range(t.rest) \ {Head(t.rest)}
       /\ Len(t.rest) = 1 => Tail(t.rest) = <<>>
       /\ Len(t.rest) # 1 => Tail(t.rest) # <<>>
  BY <1>2, <1>10, ListingHead
<1>12. Head(t.rest) \notin Range(t.healthy) /\ Head(t.rest) \notin Range(t.open)
  BY <1>10, <1>11 DEF Disjoint
<1>13. /\ Listing(h) /\ Range(h) = IF side = "healthy" THEN Range(t.healthy) \cup {Head(t.rest)} ELSE Range(t.healthy)
       /\ Listing(o) /\ Range(o) = IF side = "open" THEN Range(t.open) \cup {Head(t.rest)} ELSE Range(t.open)
  BY <1>3, <1>4, <1>10, <1>12, ListingAppend
<1>14. Disjoint(h, o) /\ Disjoint(h, Tail(t.rest)) /\ Disjoint(o, Tail(t.rest))
  BY <1>10, <1>11, <1>12, <1>13 DEF Disjoint
<1>15. Range(h) \cup Range(o) \cup Range(Tail(t.rest)) = Range(t.healthy) \cup Range(t.open) \cup Range(t.rest)
  BY <1>11, <1>13
<1>16. Head(x.stages) \in Capabilities /\ Ranked(x) = Ranked(t) BY <1>2, <1>9 DEF PartitionOk, Ranked
<1>17. Range(h) \cup Range(o) \cup Range(Tail(t.rest)) = Range(Ranked(x))
  BY <1>2, <1>15, <1>16 DEF PartitionOk
<1>18. PartitionOk(x) BY <1>9, <1>11, <1>13, <1>14, <1>16, <1>17 DEF PartitionOk
<1>19. CASE Len(t.rest) # 1
  <2>1. x.at = "examine" /\ x.rest # <<>> /\ x.asked = <<>> BY <1>19, <1>2, <1>6, <1>9, <1>11
  <2>2. CallerOk(x) BY <2>1, <1>9, <1>18 DEF CallerOk, DispatchOk, Examining, Attempting
  <2> QED BY <2>2, <1>8, CallerMoves
<1>20. CASE Len(t.rest) = 1
  <2>1. q = InOrder(h, o) /\ x.rest = <<>> BY <1>20, <1>5, <1>9, <1>11
  <2>2. Listing(q) /\ Range(q) \subseteq Range(h) \cup Range(o) BY <2>1, <1>13, <1>14, InOrderProps
  <2>3. q \in Seq(Range(q)) BY <2>2 DEF Listing
  <2>4. Range(q) \subseteq Range(Ranked(x)) BY <2>2, <1>17
  <2>5. q \in Seq(Range(Ranked(x))) BY <2>3, <2>4, SeqMonotonic
  <2>6. <<>> \o q = q BY <2>3
  <2>7. AttemptsOk(x)
    <3>1. x.asked = <<>> /\ x.asked \in Seq(Range(Ranked(x))) BY <1>2, <1>9
    <3> QED BY <3>1, <2>1, <2>5, <2>6, <1>9 DEF AttemptsOk
  <2>8. x.at = IF x.queue = <<>> THEN "all_failed" ELSE "attempt" BY <1>20, <1>6, <1>9
  <2>9. CallerOk(x) BY <2>7, <2>8, <1>9, <1>18 DEF CallerOk, DispatchOk, Examining, Attempting
  <2> QED BY <2>9, <1>8, CallerMoves
<1> QED BY <1>19, <1>20

\* The candidate at the head of the queue was asked in vain.
LEMMA NextKeeps ==
    ASSUME AiInv, NEW c \in AiCallers, toolCall[c].at \in Attempting, NextAttempt(c)
    PROVE  AiInv'
<1>1. PICK t : t = toolCall[c] OBVIOUS
<1>2. DOMAIN t = Fields /\ PartitionOk(t) /\ AttemptsOk(t) /\ t.queue # <<>>
  BY <1>1 DEF AiInv, CallerOk, DispatchOk, Examining, Attempting
<1>3. PICK x : x = [t EXCEPT !.at = IF Len(t.queue) = 1 THEN "all_failed" ELSE "attempt",
                             !.queue = Tail(@), !.asked = Append(@, Head(t.queue))]
  OBVIOUS
<1>4. toolCall' = [toolCall EXCEPT ![c] = x] BY <1>1, <1>3 DEF NextAttempt, Becomes
<1>5. /\ DOMAIN x = Fields /\ x.at = (IF Len(t.queue) = 1 THEN "all_failed" ELSE "attempt")
      /\ x.queue = Tail(t.queue) /\ x.asked = Append(t.asked, Head(t.queue))
      /\ x.stages = t.stages /\ x.healthy = t.healthy /\ x.open = t.open /\ x.rest = t.rest
  BY <1>2, <1>3 DEF Fields
<1>6. PartitionOk(x) /\ Ranked(x) = Ranked(t)
  BY <1>2, <1>5 DEF PartitionOk, Ranked
<1>7. PICK S : S = Range(Ranked(t)) OBVIOUS
<1>8. t.asked \in Seq(S) /\ t.queue \in Seq(S) BY <1>2, <1>7 DEF AttemptsOk
<1>9. \A a, q \in Seq(S) : q # <<>> =>
        /\ Append(a, Head(q)) \in Seq(S) /\ Tail(q) \in Seq(S)
        /\ Append(a, Head(q)) \o Tail(q) = a \o q
        /\ Len(q) = 1 <=> Tail(q) = <<>>
  <2> SUFFICES ASSUME NEW a \in Seq(S), NEW q \in Seq(S), q # <<>>
               PROVE  /\ Append(a, Head(q)) \in Seq(S) /\ Tail(q) \in Seq(S)
                      /\ Append(a, Head(q)) \o Tail(q) = a \o q
                      /\ Len(q) = 1 <=> Tail(q) = <<>>
    OBVIOUS
  <2>1. Head(q) \in S /\ Tail(q) \in Seq(S) /\ Len(Tail(q)) = Len(q) - 1 /\ Len(q) \in Nat /\ Len(q) # 0
    OBVIOUS
  <2>2. Append(a, Head(q)) \in Seq(S) BY <2>1
  <2>3. Append(a, Head(q)) = a \o <<Head(q)>> BY <2>1, AppendIsConcat
  <2>4. <<Head(q)>> \in Seq(S) BY <2>1
  <2>5. <<Head(q)>> \o Tail(q) = q BY <2>1, HeadTailProperties
  <2>6. (a \o <<Head(q)>>) \o Tail(q) = a \o (<<Head(q)>> \o Tail(q)) BY <2>1, <2>4, ConcatAssociative
  <2>7. Len(q) = 1 <=> Tail(q) = <<>>
    <3>1. Len(Tail(q)) = 0 <=> Tail(q) = <<>> BY <2>1, EmptySeq
    <3> QED BY <3>1, <2>1
  <2> QED BY <2>1, <2>2, <2>3, <2>5, <2>6, <2>7
<1>10. /\ x.asked \in Seq(S) /\ x.queue \in Seq(S) /\ x.asked \o x.queue = t.asked \o t.queue
       /\ Len(t.queue) = 1 <=> x.queue = <<>>
  BY <1>2, <1>5, <1>8, <1>9
<1>11. AttemptsOk(x) BY <1>2, <1>5, <1>6, <1>7, <1>10 DEF AttemptsOk
<1>12. x.at = IF x.queue = <<>> THEN "all_failed" ELSE "attempt" BY <1>5, <1>10
<1>13. CallerOk(x) BY <1>5, <1>6, <1>11, <1>12 DEF CallerOk, DispatchOk, Examining, Attempting
<1> QED BY <1>4, <1>13, CallerMoves

\* A caller goes on with the same candidate.
LEMMA StepKeeps ==
    ASSUME AiInv, NEW c \in AiCallers, NEW t, t = toolCall[c], NEW at, NEW seen,
           \/ t.at \in Examining /\ at \in Examining
           \/ t.at \in Attempting /\ at \in Attempting,
           NEW x, DOMAIN x = Fields, x.at = at, x.stages = t.stages, x.rest = t.rest, x.healthy = t.healthy,
           x.open = t.open, x.queue = t.queue, x.asked = t.asked,
           toolCall' = [toolCall EXCEPT ![c] = x]
    PROVE  AiInv'
<1>1. DispatchOk(t) BY DEF AiInv, CallerOk
<1>2. PartitionOk(t) => PartitionOk(x) BY DEF PartitionOk, Ranked
<1>3. AttemptsOk(t) => AttemptsOk(x) BY DEF AttemptsOk, Ranked
<1>4. CallerOk(x) BY <1>1, <1>2, <1>3 DEF CallerOk, DispatchOk, Examining, Attempting
<1> QED BY <1>4, CallerMoves

-----------------------------------------------------------------------------
LEMMA AiStart == AiInit => AiInv
BY NoToolOk DEF AiInit, AiInv

LEMMA CallToolKeeps ==
    ASSUME AiInv, NEW c \in AiCallers, NEW chain \in AiTools, NEW k \in AiCalls, CallTool(c, chain, k)
    PROVE  AiInv'
<1>1. PICK x : x = [NoTool EXCEPT !.at = "stage", !.call = k, !.stages = chain] OBVIOUS
<1>2. CallerOk(x) BY <1>1, StageOk DEF Fields, NoTool
<1>3. toolCall' = [toolCall EXCEPT ![c] = x] BY <1>1 DEF CallTool, Becomes
<1> QED BY <1>2, <1>3, CallerMoves

LEMMA SendFrameKeeps == ASSUME AiInv, NEW c \in AiCallers, SendFrame(c) PROVE AiInv'
<1>1. CASE StageDone(c) \/ ToolFails(c) BY <1>1, DoneKeeps, FailsKeep
<1>2. CASE Becomes(c, [toolCall[c] EXCEPT !.frames = @ + 1])
  <2>1. PICK t : t = toolCall[c] OBVIOUS
  <2>2. t.at = "stage" BY <2>1 DEF SendFrame, InStage, InStep
  <2>3. DOMAIN t = Fields /\ t.asked = <<>> /\ t.healthy = <<>> /\ t.open = <<>>
    BY <2>1, <2>2 DEF AiInv, CallerOk, DispatchOk
  <2>4. PICK x : x = [t EXCEPT !.frames = @ + 1] OBVIOUS
  <2>5. DOMAIN x = Fields /\ x.at = "stage" /\ x.asked = <<>> /\ x.healthy = <<>> /\ x.open = <<>>
    BY <2>2, <2>3, <2>4 DEF Fields
  <2>6. CallerOk(x) BY <2>5, StageOk
  <2>7. toolCall' = [toolCall EXCEPT ![c] = x] BY <1>2, <2>1, <2>4 DEF Becomes
  <2> QED BY <2>6, <2>7, CallerMoves
<1> QED BY <1>1, <1>2 DEF SendFrame

LEMMA InvokeKeeps == ASSUME AiInv, NEW c \in AiCallers, DispatchInvoke(c) PROVE AiInv'
<1>1. PICK t : t = toolCall[c] OBVIOUS
<1>2. t.at = "stage" /\ Head(t.stages) \in Capabilities BY <1>1 DEF DispatchInvoke, InStage, InStep
<1>3. DOMAIN t = Fields /\ t.asked = <<>> /\ t.healthy = <<>> /\ t.open = <<>>
  BY <1>1, <1>2 DEF AiInv, CallerOk, DispatchOk
<1>4. CASE ProvidersOf[Head(t.stages)] = <<>>
  BY <1>1, <1>4, FailsKeep DEF DispatchInvoke
<1>5. CASE ProvidersOf[Head(t.stages)] # <<>>
  <2>1. PICK x : x = [t EXCEPT !.at = "examine", !.rest = ProvidersOf[Head(t.stages)]] OBVIOUS
  <2>2. toolCall' = [toolCall EXCEPT ![c] = x] BY <1>1, <1>5, <2>1 DEF DispatchInvoke, Becomes
  <2>3. /\ DOMAIN x = Fields /\ x.at = "examine" /\ x.rest = ProvidersOf[Head(t.stages)]
        /\ x.stages = t.stages /\ x.asked = <<>> /\ x.healthy = <<>> /\ x.open = <<>>
    BY <1>2, <1>3, <2>1 DEF Fields
  <2>4. Listing(x.rest) /\ Ranked(x) = x.rest
    BY <1>2, <2>3, AiAssumption DEF AiAssumption, Listing, Ranked
  <2>5. PartitionOk(x) BY <1>2, <2>3, <2>4, EmptyListing DEF PartitionOk, Disjoint
  <2>6. CallerOk(x) BY <1>5, <2>3, <2>5 DEF CallerOk, DispatchOk, Examining, Attempting
  <2> QED BY <2>2, <2>6, CallerMoves
<1> QED BY <1>4, <1>5

LEMMA LoadKeeps == ASSUME AiInv, NEW c \in AiCallers, IsOpenLoad(c) PROVE AiInv'
<1>1. PICK t : t = toolCall[c] OBVIOUS
<1>2. t.at = "examine" /\ DOMAIN t = Fields BY <1>1 DEF IsOpenLoad, InStep, AiInv, CallerOk
<1>3. t.at \in Examining BY <1>2 DEF Examining
<1>4. CASE \E side \in {"healthy", "open"} : Partitioned(c, side) BY <1>1, <1>3, <1>4, PartitionKeeps
<1>5. CASE \E seen : Becomes(c, [toolCall[c] EXCEPT !.at = "expired", !.seen = seen])
  <2>1. PICK seen : Becomes(c, [toolCall[c] EXCEPT !.at = "expired", !.seen = seen]) BY <1>5, Zenon
  <2>2. PICK x : x = [t EXCEPT !.at = "expired", !.seen = seen] OBVIOUS
  <2>3. toolCall' = [toolCall EXCEPT ![c] = x] BY <1>1, <2>1, <2>2 DEF Becomes
  <2>4. /\ DOMAIN x = Fields /\ x.at = "expired" /\ x.stages = t.stages /\ x.rest = t.rest
        /\ x.healthy = t.healthy /\ x.open = t.open /\ x.queue = t.queue /\ x.asked = t.asked
    BY <1>2, <2>2 DEF Fields
  <2>5. "expired" \in Examining BY DEF Examining
  <2> QED BY <1>1, <1>3, <2>3, <2>4, <2>5, StepKeeps
<1> QED BY <1>4, <1>5, Zenon DEF IsOpenLoad

LEMMA CloseKeeps == ASSUME AiInv, NEW c \in AiCallers, IsOpenClose(c) PROVE AiInv'
<1>1. PICK t : t = toolCall[c] OBVIOUS
<1>2. t.at = "expired" /\ DOMAIN t = Fields BY <1>1 DEF IsOpenClose, InStep, AiInv, CallerOk
<1>3. t.at \in Examining BY <1>2 DEF Examining
<1>4. CASE Partitioned(c, "healthy") BY <1>1, <1>3, <1>4, PartitionKeeps
<1>5. CASE Becomes(c, [toolCall[c] EXCEPT !.at = "fresh_budget"])
  <2>2. PICK x : x = [t EXCEPT !.at = "fresh_budget"] OBVIOUS
  <2>3. toolCall' = [toolCall EXCEPT ![c] = x] BY <1>1, <1>5, <2>2 DEF Becomes
  <2>4. /\ DOMAIN x = Fields /\ x.at = "fresh_budget" /\ x.stages = t.stages /\ x.rest = t.rest
        /\ x.healthy = t.healthy /\ x.open = t.open /\ x.queue = t.queue /\ x.asked = t.asked
    BY <1>2, <2>2 DEF Fields
  <2>5. "fresh_budget" \in Examining BY DEF Examining
  <2> QED BY <1>1, <1>3, <2>3, <2>4, <2>5, StepKeeps
<1> QED BY <1>4, <1>5 DEF IsOpenClose

\* An attempt whose outcome is being recorded.
LEMMA OutcomeKeeps ==
    ASSUME AiInv, NEW c \in AiCallers, InStep(c, "attempt"), NEW at \in {"close", "trip"},
           Becomes(c, [toolCall[c] EXCEPT !.at = at])
    PROVE  AiInv'
<1>1. PICK t : t = toolCall[c] OBVIOUS
<1>2. t.at \in Attempting /\ DOMAIN t = Fields BY <1>1 DEF InStep, AiInv, CallerOk, Attempting
<1>3. PICK x : x = [t EXCEPT !.at = at] OBVIOUS
<1>4. toolCall' = [toolCall EXCEPT ![c] = x] BY <1>1, <1>3 DEF Becomes
<1>5. /\ DOMAIN x = Fields /\ x.at = at /\ x.stages = t.stages /\ x.rest = t.rest
      /\ x.healthy = t.healthy /\ x.open = t.open /\ x.queue = t.queue /\ x.asked = t.asked
  BY <1>2, <1>3 DEF Fields
<1>6. at \in Attempting BY DEF Attempting
<1> QED BY <1>1, <1>2, <1>4, <1>5, <1>6, StepKeeps

LEMMA AiKeeps == AiInv /\ [AiNext]_aiVars => AiInv'
<1> SUFFICES ASSUME AiInv, [AiNext]_aiVars PROVE AiInv' OBVIOUS
<1>1. CASE UNCHANGED toolCall BY <1>1 DEF AiInv
<1>2. ASSUME NEW c \in AiCallers, NEW chain \in AiTools, NEW k \in AiCalls, CallTool(c, chain, k) PROVE AiInv'
  BY <1>2, CallToolKeeps
<1>3. ASSUME NEW c \in AiCallers,
             \/ ResolveAudio(c) \/ TranscriptHasText(c) \/ SearchVectors(c)
             \/ ResolveAndValidate(c) \/ ValidateControls(c) \/ InvokePlugin(c)
             \/ DecodePcm16(c) \/ LiveMediaLeg(c)
      PROVE  AiInv'
  <2>1. StageDone(c) \/ ToolFails(c)
    BY <1>3 DEF ResolveAudio, TranscriptHasText, SearchVectors, ResolveAndValidate, ValidateControls,
                InvokePlugin, DecodePcm16, LiveMediaLeg, Refusable
  <2> QED BY <2>1, DoneKeeps, FailsKeep
<1>4. ASSUME NEW c \in AiCallers, SendFrame(c) PROVE AiInv' BY <1>4, SendFrameKeeps
<1>5. ASSUME NEW c \in AiCallers, DispatchInvoke(c) PROVE AiInv' BY <1>5, InvokeKeeps
<1>6. ASSUME NEW c \in AiCallers, IsOpenLoad(c) PROVE AiInv' BY <1>6, LoadKeeps
<1>7. ASSUME NEW c \in AiCallers, IsOpenClose(c) PROVE AiInv' BY <1>7, CloseKeeps
<1>8. ASSUME NEW c \in AiCallers, IsOpenReset(c) PROVE AiInv'
  BY <1>8, PartitionKeeps DEF IsOpenReset, InStep, Examining
<1>9. ASSUME NEW c \in AiCallers, AttemptSucceeds(c) PROVE AiInv'
  BY <1>9, OutcomeKeeps DEF AttemptSucceeds
<1>10. ASSUME NEW c \in AiCallers, RecordSuccessClose(c) PROVE AiInv'
  BY <1>10, DoneKeeps DEF RecordSuccessClose
<1>11. ASSUME NEW c \in AiCallers, AttemptFails(c) PROVE AiInv'
  <2>1. InStep(c, "attempt") /\ (NextAttempt(c) \/ Becomes(c, [toolCall[c] EXCEPT !.at = "trip"]))
    BY <1>11 DEF AttemptFails
  <2> QED BY <2>1, NextKeeps, OutcomeKeeps DEF InStep, Attempting
<1>12. ASSUME NEW c \in AiCallers, RecordFailureTrip(c) PROVE AiInv'
  BY <1>12, NextKeeps DEF RecordFailureTrip, InStep, Attempting
<1>13. ASSUME NEW c \in AiCallers, AllFailed(c) PROVE AiInv'
  BY <1>13, FailsKeep DEF AllFailed
<1>14. ASSUME NEW k \in AiCalls, CallEnds(k) PROVE AiInv' BY <1>14, <1>1 DEF CallEnds
<1>15. CASE AiClockTicks BY <1>15, <1>1 DEF AiClockTicks
<1>16. CASE UNCHANGED aiVars BY <1>16, <1>1 DEF aiVars
<1> QED
  BY <1>2, <1>3, <1>4, <1>5, <1>6, <1>7, <1>8, <1>9, <1>10, <1>11, <1>12, <1>13, <1>14, <1>15, <1>16 DEF AiNext

LEMMA AiSafe == AiInv => GivesUpLast
<1> SUFFICES ASSUME AiInv, NEW c \in AiCallers, InStep(c, "all_failed")
             PROVE  /\ Range(toolCall[c].asked) \subseteq Range(Ranked(toolCall[c]))
                    /\ Len(toolCall[c].asked) = Cardinality(Range(toolCall[c].asked))
                    /\ \/ Len(toolCall[c].asked) = MaxAttempts
                       \/ Range(toolCall[c].healthy) \subseteq Range(toolCall[c].asked)
                    /\ Range(toolCall[c].healthy) = {} =>
                         \/ Len(toolCall[c].asked) = MaxAttempts
                         \/ Range(toolCall[c].asked) = Range(Ranked(toolCall[c]))
                    /\ Range(toolCall[c].asked) \cap Range(toolCall[c].open) # {} =>
                         Range(toolCall[c].healthy) \subseteq Range(toolCall[c].asked)
                    /\ Range(toolCall[c].healthy) \cup Range(toolCall[c].open) = Range(Ranked(toolCall[c]))
  BY DEF GivesUpLast, Ranked
<1>1. PICK t : t = toolCall[c] OBVIOUS
<1>2. PartitionOk(t) /\ AttemptsOk(t) /\ t.queue = <<>>
  BY <1>1 DEF AiInv, CallerOk, DispatchOk, InStep, Examining, Attempting
<1>3. t.asked = InOrder(t.healthy, t.open)
  <2>1. t.asked \o <<>> = t.asked BY <1>2 DEF AttemptsOk
  <2> QED BY <2>1, <1>2 DEF AttemptsOk
<1>4. Range(t.healthy) \cup Range(t.open) = Range(Ranked(t))
  <2>1. Range(t.rest) = {} BY <1>2, EmptyListing DEF AttemptsOk
  <2> QED BY <2>1, <1>2 DEF PartitionOk
<1>5. /\ Listing(t.asked) /\ Range(t.asked) \subseteq Range(t.healthy) \cup Range(t.open)
      /\ Len(t.asked) = MaxAttempts \/ Range(t.asked) = Range(t.healthy) \cup Range(t.open)
      /\ Range(t.asked) \cap Range(t.open) # {} => Range(t.healthy) \subseteq Range(t.asked)
  BY <1>2, <1>3, InOrderProps DEF PartitionOk
<1>6. Len(t.asked) = Cardinality(Range(t.asked)) BY <1>5, ListingCard
<1> QED BY <1>1, <1>4, <1>5, <1>6

(* Whatever concurrent invocations do to the breakers, for every number of *)
(* callers, of providers and of attempts: an invocation gives up only when *)
(* it asked as many candidates as max_attempts allows or every one whose   *)
(* breaker was closed (all, if none was), none twice, and one whose        *)
(* breaker was open only after every one whose breaker was closed.         *)
THEOREM GivingUpIsLast == AiSpec => []GivesUpLast
<1>1. AiInv /\ [AiNext]_aiVars => AiInv' BY AiKeeps
<1> QED BY <1>1, AiStart, AiSafe, PTL DEF AiSpec

-----------------------------------------------------------------------------
(* Hook routes *)

\* Induction over a set of numbers: what holds of 0 and goes from n to n + 1 holds of all.
LEMMA ByInduction ==
    ASSUME NEW S, 0 \in S, \A n \in Nat : n \in S => n + 1 \in S
    PROVE  Nat \subseteq S
<1> DEFINE T == Nat \ S
<1> SUFFICES ASSUME T # {} PROVE FALSE OBVIOUS
<1>1. PICK R : R = OpToRel(<, Nat) BY Zenon
<1>2. IsWellFoundedOn(R, Nat) BY <1>1, NatLessThanWellFounded, Zenon
<1>3. PICK x \in T : \A y \in T : ~(<<y, x>> \in R) BY <1>2, WFMin
<1>4. x \in Nat /\ x # 0 OBVIOUS
<1>5. x - 1 \in Nat /\ x - 1 < x /\ (x - 1) + 1 = x BY <1>4
<1>6. <<x - 1, x>> \in R BY <1>1, <1>4, <1>5 DEF OpToRel
<1>7. x - 1 \in S BY <1>3, <1>5, <1>6
<1> QED BY <1>5, <1>7

Routes == [plugin : PluginNames, priority : Int]
Before(a, b) == a.plugin # b.plugin /\ a.priority <= b.priority
\* One route per plugin, in the order of their priorities.
Ordered(s) == s \in Seq(Routes) /\ \A i, j \in 1 .. Len(s) : i < j => Before(s[i], s[j])

\* What retain has kept of the first n routes.
KeptStep(up, s, K, n) ==
    IF n = 0 THEN <<>> ELSE IF s[n] \in K THEN Append(up[n - 1], s[n]) ELSE up[n - 1]
IsKept(up, s, K, n) == up = [m \in 0 .. n |-> KeptStep(up, s, K, m)]
Kept(s, K) == CHOOSE up : IsKept(up, s, K, Len(s))

LEMMA RetainIs == ASSUME NEW s, NEW K PROVE Retain(s, K) = Kept(s, K)[Len(s)]
BY Zenon DEF Retain, Kept, IsKept, KeptStep

LEMMA KeptExists == ASSUME NEW s, NEW K, Len(s) \in Nat PROVE IsKept(Kept(s, K), s, K, Len(s))
<1> DEFINE N == {n \in Nat : \E up : IsKept(up, s, K, n)}
<1>1. 0 \in N
  <2>1. PICK up : up = [m \in 0 .. 0 |-> <<>>] OBVIOUS
  <2>2. \A m \in 0 .. 0 : KeptStep(up, s, K, m) = <<>> BY DEF KeptStep
  <2>3. IsKept(up, s, K, 0) BY <2>1, <2>2 DEF IsKept
  <2> QED BY <2>3
<1>2. ASSUME NEW n \in Nat, n \in N PROVE n + 1 \in N
  <2>1. PICK up : IsKept(up, s, K, n) BY <1>2
  <2>2. PICK next : next = [m \in 0 .. n + 1 |-> KeptStep(up, s, K, m)] OBVIOUS
  <2>3. \A m \in 0 .. n : next[m] = up[m] BY <2>1, <2>2 DEF IsKept
  <2>4. \A m \in 0 .. n + 1 : KeptStep(next, s, K, m) = KeptStep(up, s, K, m)
    <3> SUFFICES ASSUME NEW m \in 0 .. n + 1, m # 0 PROVE next[m - 1] = up[m - 1] BY DEF KeptStep
    <3>1. m - 1 \in 0 .. n OBVIOUS
    <3> QED BY <3>1, <2>3
  <2>5. IsKept(next, s, K, n + 1) BY <2>2, <2>4 DEF IsKept
  <2> QED BY <2>5
<1>3. \A n \in Nat : n \in N
  <2> HIDE DEF N
  <2> QED BY <1>1, <1>2, ByInduction
<1>4. \E up : IsKept(up, s, K, Len(s)) BY <1>3
<1> QED BY <1>4 DEF Kept

\* What was kept are elements of the list, in its order.
From(f, s, K, n) ==
    /\ \A i \in 1 .. Len(f) : \E k \in 1 .. n : f[i] = s[k] /\ s[k] \in K
    /\ \A i, j \in 1 .. Len(f) : i < j =>
         \E k, l \in 1 .. n : k < l /\ f[i] = s[k] /\ f[j] = s[l]

LEMMA RetainFrom ==
    ASSUME NEW R, NEW s \in Seq(R), NEW K
    PROVE  Retain(s, K) \in Seq(R) /\ From(Retain(s, K), s, K, Len(s))
<1>1. PICK up : up = Kept(s, K) OBVIOUS
<1>2. IsKept(up, s, K, Len(s)) BY <1>1, KeptExists
<1>3. \A m \in 0 .. Len(s) : up[m] = KeptStep(up, s, K, m) BY <1>2 DEF IsKept
<1> DEFINE N == {n \in Nat : n <= Len(s) => up[n] \in Seq(R) /\ From(up[n], s, K, n)}
<1>4. 0 \in N
  <2>1. up[0] = <<>> BY <1>3 DEF KeptStep
  <2>2. From(<<>>, s, K, 0) BY DEF From
  <2>3. <<>> \in Seq(R) OBVIOUS
  <2> QED BY <2>1, <2>2, <2>3
<1>5. ASSUME NEW n \in Nat, n \in N PROVE n + 1 \in N
  <2> SUFFICES ASSUME n + 1 <= Len(s) PROVE up[n + 1] \in Seq(R) /\ From(up[n + 1], s, K, n + 1) OBVIOUS
  <2>1. PICK f : f = up[n] OBVIOUS
  <2>2. f \in Seq(R) /\ From(f, s, K, n) BY <1>5, <2>1
  <2>3. PICK x : x = s[n + 1] OBVIOUS
  <2>4. x \in R BY <2>3
  <2>5. up[n + 1] = IF x \in K THEN Append(f, x) ELSE f
    <3>1. n + 1 \in 0 .. Len(s) /\ (n + 1) - 1 = n /\ n + 1 # 0 OBVIOUS
    <3> QED BY <3>1, <1>3, <2>1, <2>3 DEF KeptStep
  <2>6. CASE x \notin K
    <3>1. \A k \in 1 .. n : k \in 1 .. n + 1 OBVIOUS
    <3>2. From(f, s, K, n + 1)
      <4>1. ASSUME NEW i \in 1 .. Len(f) PROVE \E k \in 1 .. n + 1 : f[i] = s[k] /\ s[k] \in K
        <5>1. PICK k \in 1 .. n : f[i] = s[k] /\ s[k] \in K BY <2>2 DEF From
        <5> QED BY <5>1, <3>1
      <4>2. ASSUME NEW i \in 1 .. Len(f), NEW j \in 1 .. Len(f), i < j
            PROVE  \E k, l \in 1 .. n + 1 : k < l /\ f[i] = s[k] /\ f[j] = s[l]
        <5>1. PICK k \in 1 .. n, l \in 1 .. n : k < l /\ f[i] = s[k] /\ f[j] = s[l] BY <2>2, <4>2 DEF From
        <5> QED BY <5>1, <3>1
      <4> QED BY <4>1, <4>2 DEF From
    <3> QED BY <2>2, <2>5, <2>6, <3>2
  <2>7. CASE x \in K
    <3>1. PICK g : g = Append(f, x) OBVIOUS
    <3>2. /\ g \in Seq(R) /\ Len(g) = Len(f) + 1 /\ Len(f) \in Nat /\ g[Len(f) + 1] = x
          /\ \A i \in 1 .. Len(f) : g[i] = f[i]
      BY <3>1, <2>2, <2>4
    <3>3. \A i \in 1 .. Len(g) : i \in 1 .. Len(f) \/ i = Len(f) + 1 BY <3>2
    <3>4. \A k \in 1 .. n : k \in 1 .. n + 1 /\ k < n + 1 OBVIOUS
    <3>5. n + 1 \in 1 .. n + 1 OBVIOUS
    <3>6. ASSUME NEW i \in 1 .. Len(g) PROVE \E k \in 1 .. n + 1 : g[i] = s[k] /\ s[k] \in K
      <4>1. CASE i = Len(f) + 1 BY <4>1, <3>2, <3>5, <2>3, <2>7
      <4>2. CASE i \in 1 .. Len(f)
        <5>1. PICK k \in 1 .. n : f[i] = s[k] /\ s[k] \in K BY <4>2, <2>2 DEF From
        <5> QED BY <5>1, <4>2, <3>2, <3>4
      <4> QED BY <4>1, <4>2, <3>3
    <3>7. ASSUME NEW i \in 1 .. Len(g), NEW j \in 1 .. Len(g), i < j
          PROVE  \E k, l \in 1 .. n + 1 : k < l /\ g[i] = s[k] /\ g[j] = s[l]
      <4>1. i \in 1 .. Len(f)
        <5>1. i \in Int /\ j \in Int /\ j <= Len(f) + 1 /\ i >= 1 /\ Len(f) \in Int BY <3>2
        <5> QED BY <5>1, <3>7
      <4>2. CASE j = Len(f) + 1
        <5>1. PICK k \in 1 .. n : f[i] = s[k] /\ s[k] \in K BY <4>1, <2>2 DEF From
        <5>2. g[i] = s[k] /\ g[j] = s[n + 1] BY <5>1, <4>1, <4>2, <3>2, <2>3
        <5> QED BY <5>2, <3>4, <3>5
      <4>3. CASE j \in 1 .. Len(f)
        <5>1. PICK k \in 1 .. n, l \in 1 .. n : k < l /\ f[i] = s[k] /\ f[j] = s[l]
          BY <4>1, <4>3, <3>7, <2>2 DEF From
        <5>2. g[i] = s[k] /\ g[j] = s[l] BY <5>1, <4>1, <4>3, <3>2
        <5> QED BY <5>1, <5>2, <3>4
      <4> QED BY <4>2, <4>3, <3>3
    <3>8. From(g, s, K, n + 1) BY <3>6, <3>7 DEF From
    <3> QED BY <3>1, <3>2, <3>8, <2>5, <2>7
  <2> QED BY <2>6, <2>7
<1>6. \A n \in Nat : n \in N
  <2> HIDE DEF N
  <2> QED BY <1>4, <1>5, ByInduction
<1>7. up[Len(s)] \in Seq(R) /\ From(up[Len(s)], s, K, Len(s))
  <2>1. Len(s) \in Nat /\ Len(s) <= Len(s) OBVIOUS
  <2> QED BY <2>1, <1>6
<1> QED BY <1>7, <1>1, RetainIs

Among(f, s, K) == \A i \in 1 .. Len(f) : f[i] \in K /\ \E k \in 1 .. Len(s) : f[i] = s[k]

LEMMA RetainOrdered ==
    ASSUME NEW s, Ordered(s), NEW K
    PROVE  Ordered(Retain(s, K)) /\ Among(Retain(s, K), s, K)
<1>1. PICK f : f = Retain(s, K) OBVIOUS
<1>2. s \in Seq(Routes) BY DEF Ordered
<1>3. f \in Seq(Routes) /\ From(f, s, K, Len(s)) BY <1>1, <1>2, RetainFrom
<1>4. ASSUME NEW i \in 1 .. Len(f), NEW j \in 1 .. Len(f), i < j PROVE Before(f[i], f[j])
  <2>1. PICK k \in 1 .. Len(s), l \in 1 .. Len(s) : k < l /\ f[i] = s[k] /\ f[j] = s[l] BY <1>3, <1>4 DEF From
  <2> QED BY <2>1 DEF Ordered
<1>5. Ordered(f) BY <1>3, <1>4 DEF Ordered
<1>6. Among(f, s, K) BY <1>3 DEF From, Among
<1> QED BY <1>1, <1>5, <1>6

LEMMA NotOfOrdered ==
    ASSUME NEW s, Ordered(s), NEW p
    PROVE  Ordered(NotOf(s, p)) /\ \A i \in 1 .. Len(NotOf(s, p)) : NotOf(s, p)[i].plugin # p
<1>1. PICK K : K = {r \in Range(s) : r.plugin # p} OBVIOUS
<1>2. NotOf(s, p) = Retain(s, K) BY <1>1 DEF NotOf
<1>3. Ordered(Retain(s, K)) /\ Among(Retain(s, K), s, K) BY RetainOrdered
<1> QED BY <1>1, <1>2, <1>3 DEF Among

\* Two ordered lists around a route that may stand between them.
LEMMA JoinOrdered ==
    ASSUME NEW a, Ordered(a), NEW b, Ordered(b), NEW r \in Routes,
           \A i \in 1 .. Len(a) : Before(a[i], r),
           \A j \in 1 .. Len(b) : Before(r, b[j]),
           \A i \in 1 .. Len(a), j \in 1 .. Len(b) : a[i].plugin # b[j].plugin
    PROVE  Ordered(a \o <<r>> \o b)
<1>1. PICK c : c = a \o <<r>> \o b OBVIOUS
<1>2. a \in Seq(Routes) /\ b \in Seq(Routes) /\ <<r>> \in Seq(Routes) BY DEF Ordered
<1>3. PICK m : m = Len(a) OBVIOUS
<1>4. m \in Nat /\ Len(b) \in Nat BY <1>2, <1>3
<1>5. /\ c \in Seq(Routes) /\ Len(c) = m + 1 + Len(b)
      /\ \A i \in 1 .. m : c[i] = a[i]
      /\ c[m + 1] = r
      /\ \A j \in 1 .. Len(b) : c[m + 1 + j] = b[j]
  <2>1. PICK d : d = a \o <<r>> OBVIOUS
  <2>2. d \in Seq(Routes) /\ Len(d) = m + 1 /\ (\A i \in 1 .. m : d[i] = a[i]) /\ d[m + 1] = r
    BY <2>1, <1>2, <1>3
  <2>3. c = d \o b BY <1>1, <2>1
  <2>4. c \in Seq(Routes) /\ Len(c) = m + 1 + Len(b)
    <3>1. c \in Seq(Routes) BY <2>2, <2>3, <1>2
    <3>2. d \in Seq(Routes) /\ b \in Seq(Routes) BY <2>2, <1>2
    <3>3. Len(c) = Len(d) + Len(b) BY <3>2, <2>3, ConcatProperties
    <3> QED BY <3>1, <3>3, <2>2
  <2>5. ASSUME NEW i \in 1 .. m + 1 PROVE c[i] = d[i] BY <2>2, <2>3, <1>2, <1>4
  <2>6. ASSUME NEW j \in 1 .. Len(b) PROVE c[m + 1 + j] = b[j]
    <3>1. m + 1 + j \in Len(d) + 1 .. Len(d) + Len(b) /\ (m + 1 + j) - Len(d) = j BY <2>2, <1>4
    <3>2. d \in Seq(Routes) /\ b \in Seq(Routes) BY <2>2, <1>2
    <3>3. \A i \in 1 .. Len(d) + Len(b) : c[i] = IF i <= Len(d) THEN d[i] ELSE b[i - Len(d)]
      BY <3>2, <2>3, ConcatProperties
    <3>4. m + 1 + j \in 1 .. Len(d) + Len(b) /\ ~(m + 1 + j <= Len(d)) BY <2>2, <1>4
    <3> QED BY <3>1, <3>3, <3>4
  <2>7. \A i \in 1 .. m : i \in 1 .. m + 1 BY <1>4
  <2>8. m + 1 \in 1 .. m + 1 BY <1>4
  <2> QED BY <2>2, <2>4, <2>5, <2>6, <2>7, <2>8
<1>6. ASSUME NEW i \in 1 .. Len(c)
      PROVE  i \in 1 .. m \/ i = m + 1 \/ \E j \in 1 .. Len(b) : i = m + 1 + j
  <2>1. i \in Int /\ 1 <= i /\ i <= m + 1 + Len(b) BY <1>4, <1>5
  <2>2. CASE i > m + 1
    <3>1. i - m - 1 \in 1 .. Len(b) /\ i = m + 1 + (i - m - 1) BY <2>1, <2>2, <1>4
    <3> QED BY <3>1
  <2> QED BY <2>1, <2>2, <1>4
<1>7. \A x \in Routes, y \in Routes : Before(x, r) /\ Before(r, y) => x.priority <= y.priority
  BY DEF Before, Routes
<1>8. ASSUME NEW i \in 1 .. Len(c), NEW j \in 1 .. Len(c), i < j PROVE Before(c[i], c[j])
  <2>0. i \in Int /\ j \in Int /\ Len(c) \in Int BY <1>4, <1>5
  <2>1. CASE i \in 1 .. m
    <3>1. CASE j \in 1 .. m
      BY <2>1, <3>1, <1>3, <1>5, <1>8 DEF Ordered
    <3>2. CASE j = m + 1
      BY <2>1, <3>2, <1>3, <1>5
    <3>3. ASSUME NEW k \in 1 .. Len(b), j = m + 1 + k PROVE Before(c[i], c[j])
      <4>1. c[i] = a[i] /\ c[j] = b[k] /\ Before(a[i], r) /\ Before(r, b[k]) /\ a[i].plugin # b[k].plugin
        BY <2>1, <3>3, <1>3, <1>5
      <4>2. a[i] \in Routes /\ b[k] \in Routes BY <2>1, <1>2, <1>3
      <4> QED BY <4>1, <4>2, <1>7 DEF Before
    <3> QED BY <3>1, <3>2, <3>3, <1>6
  <2>2. CASE i = m + 1
    <3>1. j \notin 1 .. m /\ j # m + 1 BY <2>0, <2>2, <1>8, <1>4
    <3>2. PICK k \in 1 .. Len(b) : j = m + 1 + k BY <3>1, <1>6
    <3> QED BY <2>2, <3>2, <1>5
  <2>3. ASSUME NEW h \in 1 .. Len(b), i = m + 1 + h PROVE Before(c[i], c[j])
    <3>1. j \notin 1 .. m /\ j # m + 1 BY <2>0, <2>3, <1>8, <1>4
    <3>2. PICK k \in 1 .. Len(b) : j = m + 1 + k BY <3>1, <1>6
    <3>3. h < k BY <2>3, <3>2, <1>8, <1>4
    <3>4. c[i] = b[h] /\ c[j] = b[k] BY <2>3, <3>2, <1>5
    <3> QED BY <3>3, <3>4 DEF Ordered
  <2> QED BY <2>1, <2>2, <2>3, <1>6
<1>9. Ordered(c) BY <1>5, <1>8 DEF Ordered
<1> QED BY <1>1, <1>9

LEMMA RegisterOrdered ==
    ASSUME NEW s, Ordered(s), NEW p \in PluginNames, NEW n \in Int
    PROVE  Ordered(RegisterOwned(s, p, n))
<1>1. PICK rest : rest = NotOf(s, p) OBVIOUS
<1>2. Ordered(rest) /\ \A i \in 1 .. Len(rest) : rest[i].plugin # p BY <1>1, NotOfOrdered
<1>3. PICK K, L : K = {r \in Range(rest) : r.priority <= n} /\ L = {r \in Range(rest) : r.priority > n}
  OBVIOUS
<1>4. PICK a, b : a = Retain(rest, K) /\ b = Retain(rest, L) OBVIOUS
<1>5. Ordered(a) /\ Ordered(b) /\ Among(a, rest, K) /\ Among(b, rest, L) BY <1>2, <1>4, RetainOrdered
<1>6. PICK r : r = [plugin |-> p, priority |-> n] OBVIOUS
<1>7. r \in Routes /\ r.plugin = p /\ r.priority = n BY <1>6 DEF Routes
<1>8. \A x \in 1 .. Len(a) : a[x] \in K /\ a[x].plugin # p BY <1>2, <1>5 DEF Among
<1>9. \A x \in 1 .. Len(b) : b[x] \in L /\ b[x].plugin # p /\ b[x] \in Routes
  <2>1. b \in Seq(Routes) BY <1>5 DEF Ordered
  <2> QED BY <2>1, <1>2, <1>5 DEF Among
<1>10. \A x \in 1 .. Len(a) : Before(a[x], r) BY <1>3, <1>7, <1>8 DEF Before
<1>11. \A x \in 1 .. Len(b) : Before(r, b[x])
  <2> SUFFICES ASSUME NEW x \in 1 .. Len(b) PROVE n <= b[x].priority BY <1>7, <1>9 DEF Before
  <2>1. b[x].priority \in Int /\ b[x].priority > n BY <1>3, <1>9 DEF Routes
  <2> QED BY <2>1
<1>12. ASSUME NEW x \in 1 .. Len(a), NEW y \in 1 .. Len(b) PROVE a[x].plugin # b[y].plugin
  <2>1. PICK k \in 1 .. Len(rest) : a[x] = rest[k] BY <1>5 DEF Among
  <2>2. PICK l \in 1 .. Len(rest) : b[y] = rest[l] BY <1>5 DEF Among
  <2>3. rest \in Seq(Routes) BY <1>2 DEF Ordered
  <2>4. rest[k].priority \in Int /\ rest[l].priority \in Int
    <3>1. rest[k] \in Routes /\ rest[l] \in Routes BY <2>3
    <3> QED BY <3>1 DEF Routes
  <2>5. rest[k].priority <= n /\ rest[l].priority > n BY <2>1, <2>2, <1>3, <1>8, <1>9
  <2>6. k # l BY <2>4, <2>5
  <2>7. k < l \/ l < k BY <2>6
  <2> QED BY <2>1, <2>2, <2>7, <1>2 DEF Ordered, Before
<1>13. RegisterOwned(s, p, n) = a \o <<r>> \o b BY <1>1, <1>3, <1>4, <1>6 DEF RegisterOwned
<1>14. Ordered(a \o <<r>> \o b) BY <1>5, <1>7, <1>10, <1>11, <1>12, JoinOrdered
<1> QED BY <1>13, <1>14

-----------------------------------------------------------------------------
(* The configured hooks, registered one after the other *)

PriorityOf(side, manifests, p) == IF side[p] = 0 THEN DefaultPriority ELSE manifests[p].priority
RegisterStep(it, side, manifests, base, T) ==
    IF T = {} THEN base
    ELSE RegisterOwned(it[T \ {Max(T)}], ConfigPlugins[Max(T)],
                       PriorityOf(side, manifests, ConfigPlugins[Max(T)]))
IsRegistered(it, side, manifests, base) ==
    it = [T \in SUBSET (DOMAIN ConfigPlugins) |-> RegisterStep(it, side, manifests, base, T)]
Registered(side, manifests, base) == CHOOSE it : IsRegistered(it, side, manifests, base)

ServedRoutes ==
    FoldLeft(LAMBDA routes, p : RegisterOwned(routes, p, IF sidecarOf[p] = 0 THEN DefaultPriority
                                                         ELSE manifestOf[p].priority),
             hookRoutes[Created], ConfigPlugins)

LEMMA ServedIs == ServedRoutes = Registered(sidecarOf, manifestOf, hookRoutes[Created])[DOMAIN ConfigPlugins]
BY Zenon DEF ServedRoutes, FoldLeft, MapThenFoldSet, Registered, IsRegistered, RegisterStep, PriorityOf

LEMMA MaxIn ==
    ASSUME NEW T \in SUBSET Nat, T # {}, NEW n \in Nat, \A x \in T : x <= n
    PROVE  Max(T) \in T
<1> DEFINE U == {n - x : x \in T}
<1>1. U \in SUBSET Nat /\ U # {} OBVIOUS
<1>2. PICK R : R = OpToRel(<, Nat) BY Zenon
<1>3. IsWellFoundedOn(R, Nat) BY <1>2, NatLessThanWellFounded, Zenon
<1>4. PICK y \in U : \A k \in U : ~(<<k, y>> \in R) BY <1>1, <1>3, WFMin
<1>5. \A k \in U : k < y => <<k, y>> \in R BY <1>1, <1>2, <1>4 DEF OpToRel
<1>6. \A k \in U : ~(k < y) BY <1>4, <1>5
<1>7. PICK x \in T : y = n - x BY <1>4
<1>8. ASSUME NEW z \in T PROVE x >= z
  <2>1. n - z \in U OBVIOUS
  <2>2. ~(n - z < n - x) BY <2>1, <1>6, <1>7
  <2>3. n - z \in Int /\ n - x \in Int /\ z \in Int /\ x \in Int OBVIOUS
  <2> QED BY <2>2, <2>3
<1>9. \E w \in T : \A z \in T : w >= z BY <1>8
<1> QED BY <1>9 DEF Max

\* Lists of indices of the configured plugins, by their size.
Configured == DOMAIN ConfigPlugins
UpTo(n) == {T \in SUBSET Configured : Cardinality(T) <= n}
RegisteredUpTo(it, side, manifests, base, n) ==
    it = [T \in UpTo(n) |-> RegisterStep(it, side, manifests, base, T)]

LEMMA IndicesFinite ==
    /\ IsFiniteSet(Configured)
    /\ \A T \in SUBSET Configured :
         /\ IsFiniteSet(T) /\ Cardinality(T) \in Nat /\ (Cardinality(T) = 0 <=> T = {})
         /\ T # {} => Max(T) \in T /\ Max(T) \in Configured /\ ConfigPlugins[Max(T)] \in PluginNames
<1>1. PICK n : n = Len(ConfigPlugins) OBVIOUS
<1>2. n \in Nat /\ Configured = 1 .. n BY <1>1, PluginsAssumption DEF Configured
<1>3. IsFiniteSet(Configured) BY <1>2, FS_Interval
<1>4. ASSUME NEW T \in SUBSET Configured
      PROVE  /\ IsFiniteSet(T) /\ Cardinality(T) \in Nat /\ (Cardinality(T) = 0 <=> T = {})
             /\ T # {} => Max(T) \in T /\ Max(T) \in Configured /\ ConfigPlugins[Max(T)] \in PluginNames
  <2>1. IsFiniteSet(T) BY <1>3, FS_Subset
  <2>2. Cardinality(T) \in Nat /\ (Cardinality(T) = 0 <=> T = {}) BY <2>1, FS_CardinalityType, FS_EmptySet
  <2>3. T \in SUBSET Nat /\ \A x \in T : x <= n BY <1>2
  <2>4. T # {} => Max(T) \in T BY <2>3, <1>2, MaxIn
  <2>5. \A x \in Configured : ConfigPlugins[x] \in PluginNames BY <1>1, <1>2, PluginsAssumption
  <2> QED BY <2>1, <2>2, <2>4, <2>5
<1> QED BY <1>3, <1>4

LEMMA OneLess ==
    ASSUME NEW n \in Nat, NEW T \in UpTo(n + 1), T # {}
    PROVE  T \ {Max(T)} \in UpTo(n)
<1>1. T \in SUBSET Configured /\ Cardinality(T) <= n + 1 BY DEF UpTo
<1>2. Max(T) \in T /\ IsFiniteSet(T) /\ Cardinality(T) \in Nat BY <1>1, IndicesFinite
<1>3. Cardinality(T \ {Max(T)}) = Cardinality(T) - 1 BY <1>2, FS_RemoveElement
<1>4. Cardinality(T) - 1 <= n BY <1>1, <1>2
<1> QED BY <1>1, <1>3, <1>4 DEF UpTo

LEMMA RegisteredExists ==
    ASSUME NEW side, NEW manifests, NEW base
    PROVE  IsRegistered(Registered(side, manifests, base), side, manifests, base)
<1> DEFINE N == {n \in Nat : \E it : RegisteredUpTo(it, side, manifests, base, n)}
<1>1. 0 \in N
  <2>1. PICK it : it = [T \in UpTo(0) |-> base] OBVIOUS
  <2>2. \A T \in UpTo(0) : T = {}
    <3> SUFFICES ASSUME NEW T \in UpTo(0) PROVE T = {} OBVIOUS
    <3>1. T \in SUBSET Configured /\ Cardinality(T) <= 0 BY DEF UpTo
    <3>2. Cardinality(T) \in Nat /\ (Cardinality(T) = 0 <=> T = {}) BY <3>1, IndicesFinite
    <3> QED BY <3>1, <3>2
  <2>3. \A T \in UpTo(0) : RegisterStep(it, side, manifests, base, T) = base BY <2>2 DEF RegisterStep
  <2>4. RegisteredUpTo(it, side, manifests, base, 0) BY <2>1, <2>3 DEF RegisteredUpTo
  <2> QED BY <2>4
<1>2. ASSUME NEW n \in Nat, n \in N PROVE n + 1 \in N
  <2>1. PICK it : RegisteredUpTo(it, side, manifests, base, n) BY <1>2
  <2>2. PICK up : up = [T \in UpTo(n + 1) |-> RegisterStep(it, side, manifests, base, T)] OBVIOUS
  <2>3. \A T \in UpTo(n) : up[T] = it[T]
    <3>1. \A T \in UpTo(n) : T \in UpTo(n + 1)
      <4> SUFFICES ASSUME NEW T \in UpTo(n) PROVE Cardinality(T) <= n + 1 BY DEF UpTo
      <4>1. Cardinality(T) <= n /\ T \in SUBSET Configured BY DEF UpTo
      <4>2. Cardinality(T) \in Nat BY <4>1, IndicesFinite
      <4> QED BY <4>1, <4>2
    <3> QED BY <3>1, <2>1, <2>2 DEF RegisteredUpTo
  <2>4. \A T \in UpTo(n + 1) : RegisterStep(up, side, manifests, base, T) = RegisterStep(it, side, manifests, base, T)
    BY <2>3, OneLess DEF RegisterStep
  <2>5. RegisteredUpTo(up, side, manifests, base, n + 1) BY <2>2, <2>4 DEF RegisteredUpTo
  <2> QED BY <2>5
<1>3. \A n \in Nat : n \in N
  <2> HIDE DEF N
  <2> QED BY <1>1, <1>2, ByInduction
<1>4. PICK n : n = Cardinality(Configured) OBVIOUS
<1>5. Configured \in SUBSET Configured OBVIOUS
<1>6. n \in Nat BY <1>4, <1>5, IndicesFinite
<1>7. PICK it : RegisteredUpTo(it, side, manifests, base, n) BY <1>3, <1>6
<1>8. UpTo(n) = SUBSET Configured BY <1>4, FS_Subset, IndicesFinite DEF UpTo
<1>9. IsRegistered(it, side, manifests, base) BY <1>7, <1>8 DEF RegisteredUpTo, IsRegistered, Configured
<1> QED BY <1>9 DEF Registered

LEMMA RegisteredOrdered ==
    ASSUME NEW side, NEW manifests \in [PluginNames -> Manifests], NEW base, Ordered(base)
    PROVE  Ordered(Registered(side, manifests, base)[Configured])
<1>1. PICK it : it = Registered(side, manifests, base) OBVIOUS
<1>2. \A T \in SUBSET Configured : it[T] = RegisterStep(it, side, manifests, base, T)
  BY <1>1, RegisteredExists DEF IsRegistered, Configured
<1> DEFINE N == {n \in Nat : \A T \in SUBSET Configured : Cardinality(T) <= n => Ordered(it[T])}
<1>3. 0 \in N
  <2> SUFFICES ASSUME NEW T \in SUBSET Configured, Cardinality(T) <= 0 PROVE Ordered(it[T]) OBVIOUS
  <2>1. Cardinality(T) \in Nat /\ (Cardinality(T) = 0 <=> T = {}) BY IndicesFinite
  <2>2. T = {} BY <2>1
  <2> QED BY <2>2, <1>2 DEF RegisterStep
<1>4. ASSUME NEW n \in Nat, n \in N PROVE n + 1 \in N
  <2> SUFFICES ASSUME NEW T \in SUBSET Configured, Cardinality(T) <= n + 1 PROVE Ordered(it[T]) OBVIOUS
  <2>1. CASE T = {} BY <2>1, <1>2 DEF RegisterStep
  <2>2. CASE T # {}
    <3>1. PICK rest, p : rest = T \ {Max(T)} /\ p = ConfigPlugins[Max(T)] OBVIOUS
    <3>2. rest \in UpTo(n) BY <2>2, <3>1, OneLess DEF UpTo
    <3>3. Ordered(it[rest]) BY <3>2, <1>4 DEF UpTo
    <3>4. p \in PluginNames BY <2>2, <3>1, IndicesFinite
    <3>5. PriorityOf(side, manifests, p) \in Int
      <4>1. manifests[p] \in [valid : BOOLEAN, hooks : SUBSET HookEvents, priority : Nat]
        BY <3>4, PluginsAssumption
      <4>2. manifests[p].priority \in Int BY <4>1
      <4> QED BY <4>2 DEF PriorityOf, DefaultPriority
    <3>6. it[T] = RegisterOwned(it[rest], p, PriorityOf(side, manifests, p))
      BY <2>2, <3>1, <1>2 DEF RegisterStep
    <3> QED BY <3>3, <3>4, <3>5, <3>6, RegisterOrdered
  <2> QED BY <2>1, <2>2
<1>5. \A n \in Nat : n \in N
  <2> HIDE DEF N
  <2> QED BY <1>3, <1>4, ByInduction
<1>6. Configured \in SUBSET Configured OBVIOUS
<1>7. PICK c : c = Cardinality(Configured) OBVIOUS
<1>8. c \in Nat /\ c <= c BY <1>6, <1>7, IndicesFinite
<1>9. Ordered(it[Configured]) BY <1>5, <1>6, <1>7, <1>8
<1> QED BY <1>1, <1>9

-----------------------------------------------------------------------------
(* The registry, the loader and the watcher *)

FreshAt == {"describe", "insert", "index"}
RetireAt == {"stop", "removeProvider", "removeSidecar", "unregister"}
Waiting == [at : {"spawn", "sleep"}, plugin : PluginNames]
Making == [at : {"describe", "insert", "index", "unroute", "route"}, plugin : PluginNames,
           manifest : Manifests, spawn : Nat]
Retiring == [at : RetireAt, plugin : PluginNames,
             existing : Nat]
Spawned == [alive : BOOLEAN, keys : BOOLEAN]
LoadSet == {NoLoad} \cup Waiting \cup Making \cup Retiring

LoadType ==
    /\ manifestOf \in [PluginNames -> Manifests]
    /\ keysSeeded \in BOOLEAN
    /\ spawns \in Seq(Spawned)
    /\ sidecarOf \in [PluginNames -> Nat]
    /\ load \in [LoadTasks -> LoadSet]
    /\ doomed \subseteq Watches
    /\ debounce \in [PluginNames -> Watches \cup {BootTask}]

ReplacingAt == {"sleep", "stop", "removeProvider", "removeSidecar"}
Fresh(t) == load[t].at \in FreshAt
Retires(t) == load[t].at \in RetireAt

\* A sidecar is listed under one plugin at most.
ListedInv ==
    /\ \A p \in PluginNames : sidecarOf[p] <= Len(spawns)
    /\ \A p, q \in PluginNames : sidecarOf[p] # 0 /\ sidecarOf[p] = sidecarOf[q] => p = q

\* A sidecar that is not listed yet is its maker's alone, and alive.
MadeInv ==
    \A t \in LoadTasks : Fresh(t) =>
        /\ load[t].spawn \in 1 .. Len(spawns) /\ spawns[load[t].spawn].alive
        /\ \A p \in PluginNames : sidecarOf[p] # load[t].spawn
        /\ \A u \in LoadTasks : Fresh(u) /\ load[u].spawn = load[t].spawn => u = t
        /\ \A u \in LoadTasks : Retires(u) => load[u].existing # load[t].spawn

\* What a task retires was listed under its plugin.
RetiredInv ==
    \A u \in LoadTasks : Retires(u) =>
        /\ load[u].existing \in 1 .. Len(spawns)
        /\ \A p \in PluginNames : sidecarOf[p] = load[u].existing => p = load[u].plugin

\* Watcher tasks are used in their order, and the last one of a plugin is about it.
Seen == {t \in Watches : \E u \in Fired : t[2] <= u[2]}
WatchInv ==
    /\ \A t \in Watches : t \in doomed \/ load[t].at # "idle" => t \in Seen
    /\ \A p \in PluginNames :
         debounce[p] # BootTask /\ load[debounce[p]].at # "idle" => load[debounce[p]].plugin = p

\* While the watcher runs, a listed sidecar that is dead and not abandoned, or that an aborted task may
\* still kill, is about to be taken out, by a watcher task or by a call past its last await before that.
Replaces(t, p) ==
    /\ t \notin doomed
    /\ load[t].at \in ReplacingAt /\ load[t].plugin = p
    /\ t \in Tools => load[t].at \notin {"sleep", "stop"}
Endangered(p) ==
    /\ watching /\ sidecarOf[p] # 0 /\ sidecarOf[p] \notin abandoned
    /\ \/ ~spawns[sidecarOf[p]].alive
       \/ \E t \in doomed : load[t].at = "stop" /\ load[t].existing = sidecarOf[p]
ReplacedInv == \A p \in PluginNames : Endangered(p) => \E t \in LoadTasks : Replaces(t, p)

LoadInv == LoadType /\ ListedInv /\ MadeInv /\ RetiredInv /\ WatchInv /\ ReplacedInv

LEMMA LoadShape ==
    ASSUME LoadType, NEW t \in LoadTasks
    PROVE  /\ load[t] \in LoadSet
           /\ load[t].at # "idle" => load[t].plugin \in PluginNames
           /\ load[t].at \in FreshAt \cup {"unroute", "route"} => load[t] \in Making
           /\ Retires(t) => load[t] \in Retiring
           /\ load[t].at \in {"spawn", "sleep"} => load[t] \in Waiting
<1>1. load[t] \in LoadSet BY DEF LoadType
<1> QED BY <1>1 DEF LoadSet, NoLoad, Waiting, Making, Retiring, FreshAt, RetireAt, Retires

LEMMA TasksDiffer == Tools \cap Watches = {} /\ BootTask \notin Watches /\ BootTask \notin Tools
BY DEF Tools, Watches, BootTask

\* Nothing that the invariant speaks of moves.
LEMMA QuietKeeps ==
    ASSUME LoadInv, UNCHANGED <<spawns, sidecarOf, load, doomed, debounce, watching, abandoned>>,
           manifestOf' \in [PluginNames -> Manifests], keysSeeded' \in BOOLEAN
    PROVE  LoadInv'
<1>1. LoadType' BY DEF LoadInv, LoadType
<1>2. ListedInv' /\ MadeInv' /\ RetiredInv' BY DEF LoadInv, ListedInv, MadeInv, RetiredInv, Fresh, Retires
<1>3. WatchInv' BY DEF LoadInv, WatchInv, Seen, Fired
<1>4. ReplacedInv' BY DEF LoadInv, ReplacedInv, Endangered, Replaces
<1> QED BY <1>1, <1>2, <1>3, <1>4 DEF LoadInv

\* One task goes on, and neither the sidecars nor their index change.
LEMMA TaskMoves ==
    ASSUME LoadInv, NEW t \in LoadTasks, NEW x \in LoadSet, load' = [load EXCEPT ![t] = x],
           UNCHANGED <<spawns, sidecarOf, doomed, debounce, manifestOf, keysSeeded, watching, abandoned>>,
           x.at \in FreshAt => Fresh(t) /\ x.spawn = load[t].spawn,
           x.at \in RetireAt =>
               \/ Retires(t) /\ x.existing = load[t].existing /\ x.plugin = load[t].plugin
               \/ x.existing = sidecarOf[x.plugin] /\ sidecarOf[x.plugin] # 0,
           x.at = "stop" => t \notin doomed,
           x.at \in {"sleep", "stop"} => load[t].at \notin {"removeProvider", "removeSidecar"},
           t \in Watches => load[t].at # "idle" /\ (x.at # "idle" => x.plugin = load[t].plugin),
           t \notin doomed /\ load[t].at \in ReplacingAt =>
               \/ x.at \in ReplacingAt /\ x.plugin = load[t].plugin
               \/ sidecarOf[load[t].plugin] = 0
    PROVE  LoadInv'
<1>0. LoadType /\ ListedInv /\ MadeInv /\ RetiredInv /\ WatchInv /\ ReplacedInv BY DEF LoadInv
<1>1. \A u \in LoadTasks : load'[u] = IF u = t THEN x ELSE load[u] BY <1>0 DEF LoadType
<1>2. LoadType' BY <1>0 DEF LoadType
<1>3. ListedInv' BY <1>0 DEF ListedInv
<1>4. x.at \in RetireAt => x.plugin \in PluginNames /\ x.existing \in Nat
  BY DEF LoadSet, NoLoad, Waiting, Making, Retiring, RetireAt
<1>5. RetiredInv'
  <2> SUFFICES ASSUME NEW u \in LoadTasks, Retires(u)'
               PROVE  /\ load'[u].existing \in 1 .. Len(spawns)
                      /\ \A p \in PluginNames : sidecarOf[p] = load'[u].existing => p = load'[u].plugin
    BY DEF RetiredInv
  <2>1. CASE u # t BY <2>1, <1>0, <1>1 DEF RetiredInv, Retires
  <2>2. CASE u = t
    <3>1. x.at \in RetireAt BY <2>2, <1>1 DEF Retires
    <3>2. CASE Retires(t) /\ x.existing = load[t].existing /\ x.plugin = load[t].plugin
      BY <2>2, <3>2, <1>0, <1>1 DEF RetiredInv
    <3>3. CASE x.existing = sidecarOf[x.plugin] /\ sidecarOf[x.plugin] # 0
      <4>1. x.existing \in 1 .. Len(spawns) BY <3>1, <3>3, <1>0, <1>4 DEF ListedInv, LoadType
      <4>2. \A p \in PluginNames : sidecarOf[p] = x.existing => p = x.plugin
        BY <3>1, <3>3, <1>0, <1>4 DEF ListedInv
      <4> QED BY <4>1, <4>2, <2>2, <1>1
    <3> QED BY <3>1, <3>2, <3>3
  <2> QED BY <2>1, <2>2
<1>6. MadeInv'
  <2>1. \A u \in LoadTasks : Fresh(u)' => Fresh(u) /\ load'[u].spawn = load[u].spawn
    BY <1>1 DEF Fresh
  <2>2. ASSUME NEW u \in LoadTasks, NEW v \in LoadTasks, Fresh(v), Retires(u)'
        PROVE  load'[u].existing # load[v].spawn
    <3>1. CASE u # t BY <3>1, <2>2, <1>0, <1>1 DEF MadeInv, Retires
    <3>2. CASE u = t
      <4>1. x.at \in RetireAt BY <2>2, <3>2, <1>1 DEF Retires
      <4> QED BY <4>1, <3>2, <2>2, <1>0, <1>1, <1>4 DEF MadeInv
    <3> QED BY <3>1, <3>2
  <2> QED BY <2>1, <2>2, <1>0 DEF MadeInv
<1>7. WatchInv'
  <2>1. Seen' = Seen BY DEF Seen, Fired
  <2>2. \A u \in Watches : u \in LoadTasks BY DEF LoadTasks
  <2>3. \A u \in Watches : load'[u].at # "idle" => load[u].at # "idle" /\ load'[u].plugin = load[u].plugin
    BY <1>1, <2>2
  <2>4. \A p \in PluginNames : debounce[p] # BootTask => debounce[p] \in Watches BY <1>0 DEF LoadType
  <2> QED BY <2>1, <2>2, <2>3, <2>4, <1>0 DEF WatchInv
<1>8. ReplacedInv'
  <2> SUFFICES ASSUME NEW p \in PluginNames, Endangered(p)' PROVE \E u \in LoadTasks : Replaces(u, p)'
    BY DEF ReplacedInv
  <2>1. Endangered(p)
    <3>1. \A u \in doomed : load'[u].at = "stop" =>
              u \in LoadTasks /\ load[u].at = "stop" /\ load'[u].existing = load[u].existing
      <4>1. doomed \subseteq LoadTasks BY <1>0 DEF LoadType, LoadTasks
      <4> QED BY <4>1, <1>1
    <3> QED BY <3>1 DEF Endangered
  <2>2. PICK u \in LoadTasks : Replaces(u, p) BY <2>1, <1>0 DEF ReplacedInv
  <2>3. sidecarOf[p] # 0 BY <2>1 DEF Endangered
  <2>4. Replaces(u, p)' BY <2>2, <2>3, <1>1 DEF Replaces, ReplacingAt
  <2> QED BY <2>4
<1> QED BY <1>2, <1>3, <1>5, <1>6, <1>7, <1>8 DEF LoadInv

LEMMA ScanNextKeeps ==
    ASSUME LoadInv, NEW p \in PluginNames, ScanNext(p)
    PROVE  LoadInv'
<1>1. PICK x : x = [at |-> "spawn", plugin |-> p] OBVIOUS
<1>2. x \in LoadSet /\ x.at = "spawn" BY <1>1 DEF LoadSet, Waiting
<1>3. BootTask \in LoadTasks /\ BootTask \notin Watches BY TasksDiffer DEF LoadTasks
<1>4. /\ load' = [load EXCEPT ![BootTask] = x] /\ load[BootTask].at = "idle"
      /\ UNCHANGED <<spawns, sidecarOf, doomed, debounce, manifestOf, keysSeeded, watching, abandoned>>
  BY <1>1 DEF ScanNext, IsAt, diskVars, lostVars
<1> QED BY <1>2, <1>3, <1>4, TaskMoves DEF FreshAt, RetireAt, ReplacingAt

LEMMA DescribeCapabilitiesKeeps ==
    ASSUME LoadInv, NEW t \in LoadTasks, DescribeCapabilities(t)
    PROVE  LoadInv'
<1>1. load[t] \in Making /\ load[t].at = "describe"
  BY LoadShape DEF LoadInv, DescribeCapabilities, IsAt, FreshAt
<1>2. UNCHANGED <<spawns, sidecarOf, doomed, debounce, manifestOf, keysSeeded, watching, abandoned>>
  BY DEF DescribeCapabilities, bootVars, lostVars
<1>3. PICK x : x \in {NoLoad, [load[t] EXCEPT !.at = "insert"]} /\ load' = [load EXCEPT ![t] = x]
  <2>1. [load EXCEPT ![t].at = "insert"] = [load EXCEPT ![t] = [load[t] EXCEPT !.at = "insert"]] OBVIOUS
  <2> QED BY <2>1 DEF DescribeCapabilities, Moves, Ends
<1>4. /\ x \in LoadSet /\ x.at \in {"idle", "insert"}
      /\ x.at = "insert" => x.spawn = load[t].spawn /\ x.plugin = load[t].plugin
  BY <1>1, <1>3 DEF LoadSet, Making, NoLoad
<1> QED BY <1>1, <1>2, <1>3, <1>4, TaskMoves DEF Fresh, FreshAt, RetireAt, ReplacingAt

LEMMA InsertProviderKeeps ==
    ASSUME LoadInv, NEW t \in LoadTasks, InsertProvider(t)
    PROVE  LoadInv'
<1>1. load[t] \in Making /\ load[t].at = "insert"
  BY LoadShape DEF LoadInv, InsertProvider, IsAt, FreshAt
<1>2. UNCHANGED <<spawns, sidecarOf, doomed, debounce, manifestOf, keysSeeded, watching, abandoned>>
  BY DEF InsertProvider, bootVars, lostVars, diskVars
<1>3. PICK x : x = [load[t] EXCEPT !.at = "index"] /\ load' = [load EXCEPT ![t] = x]
  BY DEF InsertProvider, Moves
<1>4. /\ x \in LoadSet /\ x.at = "index" /\ x.spawn = load[t].spawn /\ x.plugin = load[t].plugin
  BY <1>1, <1>3 DEF LoadSet, Making
<1> QED BY <1>1, <1>2, <1>3, <1>4, TaskMoves DEF Fresh, FreshAt, RetireAt, ReplacingAt

LEMMA DropRoutesKeeps ==
    ASSUME LoadInv, NEW t \in LoadTasks, DropRoutes(t)
    PROVE  LoadInv'
<1>1. load[t] \in Making /\ load[t].at = "unroute"
  BY LoadShape DEF LoadInv, DropRoutes, IsAt, FreshAt
<1>2. UNCHANGED <<spawns, sidecarOf, doomed, debounce, manifestOf, keysSeeded, watching, abandoned>>
  BY DEF DropRoutes, bootVars, lostVars, diskVars
<1>3. PICK x : x = [load[t] EXCEPT !.at = "route"] /\ load' = [load EXCEPT ![t] = x]
  BY DEF DropRoutes, Moves
<1>4. /\ x \in LoadSet /\ x.at = "route" /\ x.plugin = load[t].plugin
  BY <1>1, <1>3 DEF LoadSet, Making
<1> QED BY <1>1, <1>2, <1>3, <1>4, TaskMoves DEF Fresh, FreshAt, RetireAt, ReplacingAt

LEMMA RegisterManifestHooksKeeps ==
    ASSUME LoadInv, NEW t \in LoadTasks, RegisterManifestHooks(t)
    PROVE  LoadInv'
<1>1. load[t].at = "route" /\ load' = [load EXCEPT ![t] = NoLoad]
  BY DEF RegisterManifestHooks, IsAt, Ends
<1>2. UNCHANGED <<spawns, sidecarOf, doomed, debounce, manifestOf, keysSeeded, watching, abandoned>>
  BY DEF RegisterManifestHooks, bootVars, lostVars, diskVars
<1>3. PICK x : x = NoLoad OBVIOUS
<1>4. x \in LoadSet /\ x.at = "idle" BY <1>3 DEF LoadSet, NoLoad
<1> QED BY <1>1, <1>2, <1>3, <1>4, TaskMoves DEF FreshAt, RetireAt, ReplacingAt

LEMMA RemoveProviderKeeps ==
    ASSUME LoadInv, NEW t \in LoadTasks, RemoveProvider(t)
    PROVE  LoadInv'
<1>1. load[t] \in Retiring /\ load[t].at = "removeProvider"
  BY LoadShape DEF LoadInv, RemoveProvider, IsAt, Retires, RetireAt
<1>2. UNCHANGED <<spawns, sidecarOf, doomed, debounce, manifestOf, keysSeeded, watching, abandoned>>
  BY DEF RemoveProvider, bootVars, lostVars, diskVars
<1>3. PICK x : x = [load[t] EXCEPT !.at = "removeSidecar"] /\ load' = [load EXCEPT ![t] = x]
  BY DEF RemoveProvider, Moves
<1>4. /\ x \in LoadSet /\ x.at = "removeSidecar" /\ x.plugin = load[t].plugin
      /\ x.existing = load[t].existing
  BY <1>1, <1>3 DEF LoadSet, Retiring, RetireAt
<1> QED BY <1>1, <1>2, <1>3, <1>4, TaskMoves DEF FreshAt, RetireAt, ReplacingAt, Retires

LEMMA UnregisterHooksKeeps ==
    ASSUME LoadInv, NEW t \in LoadTasks, UnregisterHooks(t)
    PROVE  LoadInv'
<1>1. load[t] \in Retiring /\ load[t].at = "unregister"
  BY LoadShape DEF LoadInv, UnregisterHooks, IsAt, Retires, RetireAt
<1>2. UNCHANGED <<spawns, sidecarOf, doomed, debounce, manifestOf, keysSeeded, watching, abandoned>>
  BY DEF UnregisterHooks, bootVars, lostVars, diskVars
<1>3. PICK x : x = [at |-> "spawn", plugin |-> load[t].plugin] /\ load' = [load EXCEPT ![t] = x]
  BY DEF UnregisterHooks
<1>4. x \in LoadSet /\ x.at = "spawn" /\ x.plugin = load[t].plugin
  BY <1>1, <1>3 DEF LoadSet, Retiring, Waiting
<1> QED BY <1>1, <1>2, <1>3, <1>4, TaskMoves DEF FreshAt, RetireAt, ReplacingAt, Retires

LEMMA ReloadPluginKeeps ==
    ASSUME LoadInv, NEW t \in Tools, NEW p \in PluginNames, ReloadPlugin(t, p)
    PROVE  LoadInv'
<1>1. load[t].at = "idle" /\ sidecarOf[p] # 0 BY DEF ReloadPlugin, IsAt
<1>2. UNCHANGED <<spawns, sidecarOf, doomed, debounce, manifestOf, keysSeeded, watching, abandoned>>
  BY DEF ReloadPlugin, bootVars, lostVars, diskVars
<1>3. PICK x : x = [at |-> "stop", plugin |-> p, existing |-> sidecarOf[p]] /\ load' = [load EXCEPT ![t] = x]
  BY <1>1 DEF ReloadPlugin, BeginReload
<1>4. x \in LoadSet /\ x.at = "stop" /\ x.plugin = p /\ x.existing = sidecarOf[p]
  BY <1>3 DEF LoadSet, Retiring, RetireAt, LoadInv, LoadType
<1>5. t \in LoadTasks /\ t \notin Watches /\ t \notin doomed
  BY TasksDiffer DEF LoadTasks, LoadInv, LoadType
<1> QED BY <1>1, <1>2, <1>3, <1>4, <1>5, TaskMoves DEF FreshAt, RetireAt, ReplacingAt

LEMMA DebounceEndsKeeps ==
    ASSUME LoadInv, NEW t \in LoadTasks, DebounceEnds(t)
    PROVE  LoadInv'
<1>1. load[t] \in Waiting /\ load[t].at = "sleep" /\ t \notin doomed
  BY LoadShape DEF LoadInv, DebounceEnds, IsAt
<1>2. UNCHANGED <<spawns, sidecarOf, doomed, debounce, manifestOf, keysSeeded, watching, abandoned>>
  BY DEF DebounceEnds, bootVars, lostVars, diskVars
<1>3. PICK p : p = load[t].plugin OBVIOUS
<1>4. p \in PluginNames BY <1>1, <1>3 DEF Waiting
<1>5. PICK x : /\ x = IF sidecarOf[p] = 0 THEN NoLoad ELSE [at |-> "stop", plugin |-> p, existing |-> sidecarOf[p]]
               /\ load' = [load EXCEPT ![t] = x]
  BY <1>3 DEF DebounceEnds, BeginReload
<1>6. CASE sidecarOf[p] = 0
  <2>1. x \in LoadSet /\ x.at = "idle" BY <1>5, <1>6 DEF LoadSet, NoLoad
  <2> QED BY <2>1, <1>1, <1>2, <1>3, <1>5, <1>6, TaskMoves DEF FreshAt, RetireAt, ReplacingAt
<1>7. CASE sidecarOf[p] # 0
  <2>1. x \in LoadSet /\ x.at = "stop" /\ x.plugin = p /\ x.existing = sidecarOf[p]
    BY <1>4, <1>5, <1>7 DEF LoadSet, Retiring, RetireAt, LoadInv, LoadType
  <2> QED BY <2>1, <1>1, <1>2, <1>3, <1>5, <1>7, TaskMoves DEF FreshAt, RetireAt, ReplacingAt
<1> QED BY <1>6, <1>7

\* The seen watcher tasks are numbered from 1, so the next one is new.
LEMMA NextIsNew ==
    ASSUME LoadType
    PROVE  /\ NextWatch \notin Seen
           /\ \A t \in Seen : t[2] <= NextWatch[2]
<1>1. PICK S : S = Seen OBVIOUS
<1>2. PICK W : W = Watches OBVIOUS
<1>3. MaxSaves \in Nat BY PluginsAssumption
<1>4. \A t \in W : t = <<"watch", t[2]>> /\ t[2] \in 1 .. MaxSaves BY <1>2 DEF Watches
<1>5. \A i \in 1 .. MaxSaves : <<"watch", i>> \in W BY <1>2 DEF Watches
<1>6. S \in SUBSET W BY <1>1, <1>2 DEF Seen
<1>7. IsFiniteSet(W)
  <2>1. PICK f : f = [i \in 1 .. MaxSaves |-> <<"watch", i>>] OBVIOUS
  <2>2. f \in [1 .. MaxSaves -> W] BY <2>1, <1>5
  <2>3. \A t \in W : \E i \in 1 .. MaxSaves : f[i] = t BY <2>1, <1>4
  <2>4. f \in Surjection(1 .. MaxSaves, W) BY <2>2, <2>3 DEF Surjection
  <2>5. IsFiniteSet(1 .. MaxSaves) BY <1>3, FS_Interval
  <2> QED BY <2>4, <2>5, FS_Surjection
<1>8. IsFiniteSet(S) BY <1>6, <1>7, FS_Subset
<1>9. PICK n : n = Cardinality(S) OBVIOUS
<1>10. n \in Nat BY <1>8, <1>9, FS_CardinalityType
<1>11. \A t \in S, i \in 1 .. MaxSaves : i <= t[2] => <<"watch", i>> \in S
  <2> SUFFICES ASSUME NEW t \in S, NEW i \in 1 .. MaxSaves, i <= t[2] PROVE <<"watch", i>> \in S OBVIOUS
  <2>1. PICK u \in Fired : t[2] <= u[2] BY <1>1 DEF Seen
  <2>2. u \in W BY <1>2, <2>1 DEF Fired
  <2>3. u[2] \in Int /\ t[2] \in Int BY <2>2, <1>4, <1>6
  <2>4. i <= u[2] BY <2>1, <2>3
  <2>5. <<"watch", i>>[2] = i OBVIOUS
  <2> QED BY <2>1, <2>4, <2>5, <1>1, <1>2, <1>5 DEF Seen
<1>12. ASSUME NEW t \in S PROVE t[2] <= n
  <2>1. PICK k : k = t[2] OBVIOUS
  <2>2. k \in 1 .. MaxSaves BY <2>1, <1>4, <1>6
  <2>3. \A i \in 1 .. k : i \in 1 .. MaxSaves /\ i <= t[2] BY <2>1, <2>2, <1>3
  <2>4. PICK f : f = [i \in 1 .. k |-> <<"watch", i>>] OBVIOUS
  <2>5. f \in [1 .. k -> S] BY <2>3, <2>4, <1>11
  <2>6. IsFiniteSet(1 .. k) /\ Cardinality(1 .. k) = k BY <2>2, FS_Interval
  <2>7. \A i, j \in 1 .. k : f[i] = f[j] => i = j BY <2>4
  <2>8. ~(n < k)
    <3> SUFFICES ASSUME n < k PROVE FALSE OBVIOUS
    <3>1. PICK D : D = 1 .. k OBVIOUS
    <3>2. IsFiniteSet(D) /\ Cardinality(S) < Cardinality(D) /\ f \in [D -> S] BY <3>1, <2>5, <2>6, <1>9
    <3>3. \E i, j \in D : i # j /\ f[i] = f[j] BY <3>2, <1>8, FS_PigeonHole
    <3> QED BY <3>1, <3>3, <2>7
  <2> QED BY <2>1, <2>2, <2>8, <1>10
<1>13. NextWatch = <<"watch", 1 + n>> BY <1>1, <1>9 DEF NextWatch, Seen
<1>14. NextWatch[2] = n + 1 BY <1>10, <1>13
<1>15. NextWatch \notin S BY <1>10, <1>12, <1>14
<1>16. \A t \in S : t[2] <= NextWatch[2]
  <2> SUFFICES ASSUME NEW t \in S PROVE t[2] <= n + 1 BY <1>14
  <2>1. t[2] \in Int BY <1>4, <1>6
  <2> QED BY <2>1, <1>10, <1>12
<1> QED BY <1>1, <1>15, <1>16

LEMMA SpawnSidecarKeeps ==
    ASSUME LoadInv, NEW t \in LoadTasks, SpawnSidecar(t)
    PROVE  LoadInv'
<1>0. LoadType /\ ListedInv /\ MadeInv /\ RetiredInv /\ WatchInv /\ ReplacedInv BY DEF LoadInv
<1>1. load[t] \in Waiting /\ load[t].at = "spawn" BY <1>0, LoadShape DEF SpawnSidecar, IsAt
<1>2. PICK p : p = load[t].plugin OBVIOUS
<1>3. p \in PluginNames BY <1>1, <1>2 DEF Waiting
<1>4. UNCHANGED <<sidecarOf, doomed, debounce, manifestOf, keysSeeded, watching, abandoned>> BY DEF SpawnSidecar, bootVars, lostVars
<1>5. CASE ~manifestOf[p].valid
  <2>1. load' = [load EXCEPT ![t] = NoLoad] /\ UNCHANGED spawns BY <1>2, <1>5 DEF SpawnSidecar, Ends
  <2>2. PICK x : x = NoLoad OBVIOUS
  <2>3. x \in LoadSet /\ x.at = "idle" BY <2>2 DEF LoadSet, NoLoad
  <2> QED BY <2>1, <2>2, <2>3, <1>1, <1>4, TaskMoves DEF FreshAt, RetireAt, ReplacingAt
<1>6. CASE manifestOf[p].valid
  <2>1. PICK n : n = Len(spawns) + 1 OBVIOUS
  <2>2. PICK x : /\ x = [at |-> "describe", plugin |-> p, manifest |-> manifestOf[p], spawn |-> n]
                 /\ load' = [load EXCEPT ![t] = x]
    BY <1>2, <1>6, <2>1 DEF SpawnSidecar
  <2>3. PICK y : y = [alive |-> TRUE, keys |-> keysSeeded] /\ spawns' = Append(spawns, y)
    BY <1>2, <1>6 DEF SpawnSidecar
  <2>4. y \in Spawned /\ y.alive BY <2>3, <1>0 DEF LoadType, Spawned
  <2>5. Len(spawns) \in Nat /\ n \in Nat /\ n > 0 /\ n > Len(spawns) BY <2>1, <1>0 DEF LoadType
  <2>6. /\ spawns' \in Seq(Spawned) /\ Len(spawns') = n /\ spawns'[n] = y
        /\ \A i \in 1 .. Len(spawns) : spawns'[i] = spawns[i] /\ i \in 1 .. n /\ i # n
    BY <2>1, <2>3, <2>4, <2>5, <1>0 DEF LoadType
  <2>7. x \in LoadSet /\ x.at = "describe" /\ x.spawn = n /\ x.plugin = p
    BY <2>2, <2>5, <1>0, <1>3 DEF LoadSet, Making, LoadType
  <2>8. \A u \in LoadTasks : load'[u] = IF u = t THEN x ELSE load[u] BY <2>2, <1>0 DEF LoadType
  <2>9. LoadType' BY <2>2, <2>6, <2>7, <1>0, <1>4 DEF LoadType
  <2>10. \A q \in PluginNames : sidecarOf[q] # 0 => sidecarOf[q] \in 1 .. Len(spawns)
    BY <2>5, <1>0 DEF LoadType, ListedInv
  <2>11. \A q \in PluginNames : sidecarOf[q] # n /\ sidecarOf[q] <= n
    BY <2>5, <1>0 DEF LoadType, ListedInv
  <2>12. ListedInv' BY <2>6, <2>11, <1>0, <1>4 DEF ListedInv
  <2>13. \A u \in LoadTasks : Retires(u)' => Retires(u) /\ load'[u] = load[u] /\ load[u].existing \in 1 .. Len(spawns)
    BY <2>7, <2>8, <1>0 DEF Retires, RetireAt, RetiredInv
  <2>14. RetiredInv' BY <2>6, <2>13, <1>0, <1>4 DEF RetiredInv
  <2>15. \A u \in LoadTasks : Fresh(u)' /\ u # t => Fresh(u) /\ load'[u] = load[u] /\ load[u].spawn \in 1 .. Len(spawns)
    BY <2>8, <1>0 DEF Fresh, MadeInv
  <2>16. MadeInv'
    <3> SUFFICES ASSUME NEW u \in LoadTasks, Fresh(u)'
                 PROVE  /\ load'[u].spawn \in 1 .. n /\ spawns'[load'[u].spawn].alive
                        /\ \A q \in PluginNames : sidecarOf[q] # load'[u].spawn
                        /\ \A v \in LoadTasks : Fresh(v)' /\ load'[v].spawn = load'[u].spawn => v = u
                        /\ \A v \in LoadTasks : Retires(v)' => load'[v].existing # load'[u].spawn
      BY <2>6, <1>4 DEF MadeInv
    <3>1. CASE u = t
      <4>1. load'[u].spawn = n BY <3>1, <2>7, <2>8
      <4>2. \A v \in LoadTasks : Fresh(v)' /\ load'[v].spawn = n => v = t BY <2>6, <2>15
      <4>3. \A v \in LoadTasks : Retires(v)' => load'[v].existing # n BY <2>6, <2>13
      <4> QED BY <4>1, <4>2, <4>3, <3>1, <2>4, <2>5, <2>6, <2>11
    <3>2. CASE u # t
      <4>1. Fresh(u) /\ load'[u] = load[u] /\ load[u].spawn \in 1 .. Len(spawns) BY <3>2, <2>15
      <4>2. load[u].spawn # n /\ load[u].spawn \in 1 .. n /\ spawns'[load[u].spawn] = spawns[load[u].spawn]
        BY <4>1, <2>6
      <4>3. \A v \in LoadTasks : Fresh(v)' /\ load'[v].spawn = load[u].spawn => v # t
        BY <4>2, <2>7, <2>8
      <4>4. \A v \in LoadTasks : Fresh(v)' /\ load'[v].spawn = load[u].spawn => v = u
        BY <4>1, <4>3, <2>15, <1>0 DEF MadeInv
      <4> QED BY <4>1, <4>2, <4>4, <2>13, <1>0 DEF MadeInv
    <3> QED BY <3>1, <3>2
  <2>17. WatchInv'
    <3>1. Seen' = Seen BY <1>4 DEF Seen, Fired
    <3>2. \A u \in Watches : u \in LoadTasks BY DEF LoadTasks
    <3>3. \A u \in Watches : load'[u].at # "idle" => load[u].at # "idle" /\ load'[u].plugin = load[u].plugin
      BY <3>2, <2>7, <2>8, <1>1, <1>2
    <3>4. \A q \in PluginNames : debounce[q] # BootTask => debounce[q] \in Watches BY <1>0 DEF LoadType
    <3> QED BY <3>1, <3>2, <3>3, <3>4, <1>0, <1>4 DEF WatchInv
  <2>18. ReplacedInv'
    <3> SUFFICES ASSUME NEW q \in PluginNames, Endangered(q)' PROVE \E u \in LoadTasks : Replaces(u, q)'
      BY DEF ReplacedInv
    <3>1. sidecarOf[q] # 0 /\ spawns'[sidecarOf[q]] = spawns[sidecarOf[q]]
      BY <2>6, <2>10, <1>4 DEF Endangered
    <3>2. \A u \in doomed : u \in LoadTasks /\ (load'[u].at = "stop" => load'[u] = load[u])
      <4>1. doomed \subseteq LoadTasks BY <1>0 DEF LoadType, LoadTasks
      <4> QED BY <4>1, <2>7, <2>8
    <3>3. Endangered(q) BY <3>1, <3>2, <1>4 DEF Endangered
    <3>4. PICK u \in LoadTasks : Replaces(u, q) BY <3>3, <1>0 DEF ReplacedInv
    <3>5. Replaces(u, q)' BY <3>4, <2>8, <1>1, <1>4 DEF Replaces, ReplacingAt
    <3> QED BY <3>5
  <2> QED BY <2>9, <2>12, <2>14, <2>16, <2>17, <2>18 DEF LoadInv
<1> QED BY <1>5, <1>6

LEMMA InsertSidecarKeeps ==
    ASSUME LoadInv, NEW t \in LoadTasks, InsertSidecar(t)
    PROVE  LoadInv'
<1>0. LoadType /\ ListedInv /\ MadeInv /\ RetiredInv /\ WatchInv /\ ReplacedInv BY DEF LoadInv
<1>1. load[t] \in Making /\ load[t].at = "index" /\ Fresh(t)
  BY <1>0, LoadShape DEF InsertSidecar, IsAt, FreshAt, Fresh
<1>2. PICK p, n : p = load[t].plugin /\ n = load[t].spawn OBVIOUS
<1>3. p \in PluginNames /\ n \in 1 .. Len(spawns) /\ n # 0 /\ n <= Len(spawns)
  BY <1>0, <1>1, <1>2 DEF Making, MadeInv
<1>4. UNCHANGED <<spawns, doomed, debounce, manifestOf, keysSeeded, watching, abandoned>> BY DEF InsertSidecar, bootVars, lostVars, diskVars
<1>5. PICK x : /\ x = [load[t] EXCEPT !.at = "unroute"] /\ load' = [load EXCEPT ![t] = x]
               /\ x \in LoadSet /\ x.at = "unroute" /\ x.plugin = p
  <2>1. PICK x : x = [load[t] EXCEPT !.at = "unroute"] /\ load' = [load EXCEPT ![t] = x]
    BY DEF InsertSidecar, Moves
  <2>2. x \in LoadSet /\ x.at = "unroute" /\ x.plugin = p BY <2>1, <1>1, <1>2 DEF LoadSet, Making
  <2> QED BY <2>1, <2>2
<1>6. \A u \in LoadTasks : load'[u] = IF u = t THEN x ELSE load[u] BY <1>5, <1>0 DEF LoadType
<1>7. \A q \in PluginNames : sidecarOf'[q] = IF q = p THEN n ELSE sidecarOf[q]
  BY <1>2, <1>0 DEF InsertSidecar, LoadType
<1>8. LoadType'
  <2>1. sidecarOf' \in [PluginNames -> Nat] BY <1>0, <1>1, <1>2 DEF InsertSidecar, LoadType, Making
  <2> QED BY <2>1, <1>0, <1>4, <1>5 DEF LoadType
<1>9. ListedInv'
  <2>1. \A q \in PluginNames : sidecarOf[q] # n BY <1>0, <1>1, <1>2 DEF MadeInv
  <2> QED BY <2>1, <1>0, <1>3, <1>4, <1>7 DEF ListedInv
<1>10. \A u \in LoadTasks : Fresh(u)' => u # t /\ Fresh(u) /\ load'[u] = load[u] /\ load[u].spawn # n
  BY <1>0, <1>1, <1>2, <1>5, <1>6 DEF Fresh, FreshAt, MadeInv
<1>11. \A u \in LoadTasks : Retires(u)' => Retires(u) /\ load'[u] = load[u] /\ load[u].existing # n
  BY <1>0, <1>1, <1>2, <1>5, <1>6 DEF Retires, RetireAt, MadeInv
<1>12. MadeInv' BY <1>0, <1>4, <1>7, <1>10, <1>11 DEF MadeInv
<1>13. RetiredInv' BY <1>0, <1>4, <1>7, <1>11 DEF RetiredInv
<1>14. WatchInv'
  <2>1. Seen' = Seen BY <1>4 DEF Seen, Fired
  <2>2. \A u \in Watches : u \in LoadTasks BY DEF LoadTasks
  <2>3. \A u \in Watches : load'[u].at # "idle" => load[u].at # "idle" /\ load'[u].plugin = load[u].plugin
    BY <2>2, <1>1, <1>2, <1>5, <1>6
  <2>4. \A q \in PluginNames : debounce[q] # BootTask => debounce[q] \in Watches BY <1>0 DEF LoadType
  <2> QED BY <2>1, <2>2, <2>3, <2>4, <1>0, <1>4 DEF WatchInv
<1>15. ReplacedInv'
  <2> SUFFICES ASSUME NEW q \in PluginNames, Endangered(q)' PROVE \E u \in LoadTasks : Replaces(u, q)'
    BY DEF ReplacedInv
  <2>1. doomed \subseteq LoadTasks BY <1>0 DEF LoadType, LoadTasks
  <2>2. \A u \in doomed : load'[u].at = "stop" => load'[u] = load[u] /\ load[u].existing # n
    BY <2>1, <1>11 DEF Retires, RetireAt
  <2>3. spawns[n].alive BY <1>0, <1>1, <1>2 DEF MadeInv
  <2>4. q # p BY <2>2, <2>3, <1>4, <1>7 DEF Endangered
  <2>5. Endangered(q) BY <2>2, <2>4, <1>4, <1>7 DEF Endangered
  <2>6. PICK u \in LoadTasks : Replaces(u, q) BY <2>5, <1>0 DEF ReplacedInv
  <2>7. Replaces(u, q)' BY <2>6, <1>1, <1>4, <1>6 DEF Replaces, ReplacingAt
  <2> QED BY <2>7
<1> QED BY <1>8, <1>9, <1>12, <1>13, <1>14, <1>15 DEF LoadInv

Killed(s, n) == [s EXCEPT ![n].alive = FALSE]

LEMMA FunctionIsSeq ==
    ASSUME NEW S, NEW n \in Nat, NEW f \in [1 .. n -> S]
    PROVE  f \in Seq(S) /\ Len(f) = n
OBVIOUS

LEMMA KillOne ==
    ASSUME NEW s \in Seq(Spawned), NEW n \in 1 .. Len(s)
    PROVE  /\ Killed(s, n) \in Seq(Spawned) /\ Len(Killed(s, n)) = Len(s)
           /\ \A i \in 1 .. Len(s) : i # n => Killed(s, n)[i] = s[i]
<1>0. PICK r : r = Killed(s, n) OBVIOUS
<1>1. PICK y : y = [s[n] EXCEPT !.alive = FALSE] OBVIOUS
<1>2. s[n] \in Spawned OBVIOUS
<1>3. y \in Spawned BY <1>1, <1>2 DEF Spawned
<1>4. r = [s EXCEPT ![n] = y] BY <1>0, <1>1 DEF Killed
<1>5. Len(s) \in Nat /\ DOMAIN s = 1 .. Len(s) /\ \A i \in 1 .. Len(s) : s[i] \in Spawned OBVIOUS
<1>6. DOMAIN r = 1 .. Len(s) /\ \A i \in 1 .. Len(s) : r[i] = IF i = n THEN y ELSE s[i] BY <1>4, <1>5
<1>7. r = [i \in 1 .. Len(s) |-> IF i = n THEN y ELSE s[i]] BY <1>4, <1>5
<1>8. r \in [1 .. Len(s) -> Spawned] BY <1>3, <1>5, <1>7
<1>9. r \in Seq(Spawned) /\ Len(r) = Len(s) BY <1>5, <1>8, FunctionIsSeq
<1> QED BY <1>0, <1>6, <1>9

\* The sidecar is dead, and its killer goes on to take it out.
LEMMA ShutDownOldKeeps ==
    ASSUME LoadInv, NEW t \in LoadTasks, ShutDownOld(t)
    PROVE  LoadInv'
<1>0. LoadType /\ ListedInv /\ MadeInv /\ RetiredInv /\ WatchInv /\ ReplacedInv BY DEF LoadInv
<1>1. load[t] \in Retiring /\ load[t].at = "stop" /\ Retires(t) /\ t \notin doomed
  BY <1>0, LoadShape DEF ShutDownOld, IsAt, Retires, RetireAt
<1>2. PICK n : n = load[t].existing OBVIOUS
<1>3. n \in 1 .. Len(spawns) /\ \A p \in PluginNames : sidecarOf[p] = n => p = load[t].plugin
  BY <1>0, <1>1, <1>2 DEF RetiredInv
<1>4. UNCHANGED <<sidecarOf, doomed, debounce, manifestOf, keysSeeded, watching, abandoned>> BY DEF ShutDownOld, bootVars, lostVars, diskVars
<1>5. PICK x : /\ load' = [load EXCEPT ![t] = x] /\ x \in LoadSet /\ x.at = "removeProvider"
               /\ x.plugin = load[t].plugin /\ x.existing = n
  <2>1. PICK x : x = [load[t] EXCEPT !.at = "removeProvider"] /\ load' = [load EXCEPT ![t] = x]
    BY DEF ShutDownOld, Moves
  <2>2. x \in LoadSet /\ x.at = "removeProvider" /\ x.plugin = load[t].plugin /\ x.existing = n
    BY <2>1, <1>1, <1>2 DEF LoadSet, Retiring, RetireAt
  <2> QED BY <2>1, <2>2
<1>6. \A u \in LoadTasks : load'[u] = IF u = t THEN x ELSE load[u] BY <1>5, <1>0 DEF LoadType
<1>7. /\ spawns' \in Seq(Spawned) /\ Len(spawns') = Len(spawns)
      /\ \A i \in 1 .. Len(spawns) : i # n => spawns'[i] = spawns[i]
  <2>1. spawns' = Killed(spawns, n) BY <1>2 DEF ShutDownOld, Killed
  <2>2. spawns \in Seq(Spawned) BY <1>0 DEF LoadType
  <2> QED BY <2>1, <2>2, <1>3, KillOne
<1>8. LoadType' BY <1>0, <1>4, <1>5, <1>7 DEF LoadType
<1>9. ListedInv' BY <1>0, <1>4, <1>7 DEF ListedInv
<1>10. \A u \in LoadTasks : Fresh(u)' => Fresh(u) /\ load'[u] = load[u] /\ load[u].spawn # n
  BY <1>0, <1>1, <1>2, <1>5, <1>6 DEF Fresh, FreshAt, MadeInv
<1>11. \A u \in LoadTasks : Retires(u)' => /\ Retires(u) /\ load'[u].existing = load[u].existing
                                          /\ load'[u].plugin = load[u].plugin
  BY <1>1, <1>2, <1>5, <1>6 DEF Retires
<1>12. MadeInv' BY <1>0, <1>4, <1>7, <1>10, <1>11 DEF MadeInv
<1>13. RetiredInv' BY <1>0, <1>4, <1>7, <1>11 DEF RetiredInv
<1>14. WatchInv'
  <2>1. Seen' = Seen BY <1>4 DEF Seen, Fired
  <2>2. \A u \in Watches : u \in LoadTasks BY DEF LoadTasks
  <2>3. \A u \in Watches : load'[u].at # "idle" => load[u].at # "idle" /\ load'[u].plugin = load[u].plugin
    BY <2>2, <1>1, <1>5, <1>6
  <2>4. \A q \in PluginNames : debounce[q] # BootTask => debounce[q] \in Watches BY <1>0 DEF LoadType
  <2> QED BY <2>1, <2>2, <2>3, <2>4, <1>0, <1>4 DEF WatchInv
<1>15. ReplacedInv'
  <2> SUFFICES ASSUME NEW q \in PluginNames, Endangered(q)' PROVE \E u \in LoadTasks : Replaces(u, q)'
    BY DEF ReplacedInv
  <2>1. CASE sidecarOf[q] = n
    <3>1. Replaces(t, q)' BY <2>1, <1>1, <1>3, <1>4, <1>5, <1>6 DEF Replaces, ReplacingAt
    <3> QED BY <3>1
  <2>2. CASE sidecarOf[q] # n
    <3>1. doomed \subseteq LoadTasks BY <1>0 DEF LoadType, LoadTasks
    <3>2. \A u \in doomed : load'[u].at = "stop" => load'[u] = load[u] BY <3>1, <1>5, <1>6
    <3>3. sidecarOf[q] # 0 /\ sidecarOf[q] \in 1 .. Len(spawns)
      BY <1>0, <1>4 DEF Endangered, ListedInv, LoadType
    <3>4. Endangered(q) BY <3>2, <3>3, <2>2, <1>4, <1>7 DEF Endangered
    <3>5. PICK u \in LoadTasks : Replaces(u, q) BY <3>4, <1>0 DEF ReplacedInv
    <3>6. Replaces(u, q)' BY <3>5, <1>4, <1>5, <1>6 DEF Replaces, ReplacingAt
    <3> QED BY <3>6
  <2> QED BY <2>1, <2>2
<1> QED BY <1>8, <1>9, <1>12, <1>13, <1>14, <1>15 DEF LoadInv

LEMMA RemoveSidecarKeeps ==
    ASSUME LoadInv, NEW t \in LoadTasks, RemoveSidecar(t)
    PROVE  LoadInv'
<1>0. LoadType /\ ListedInv /\ MadeInv /\ RetiredInv /\ WatchInv /\ ReplacedInv BY DEF LoadInv
<1>1. load[t] \in Retiring /\ load[t].at = "removeSidecar" /\ Retires(t)
  BY <1>0, LoadShape DEF RemoveSidecar, IsAt, Retires, RetireAt
<1>2. PICK p : p = load[t].plugin OBVIOUS
<1>3. p \in PluginNames BY <1>1, <1>2 DEF Retiring
<1>4. UNCHANGED <<spawns, doomed, debounce, manifestOf, keysSeeded, watching, abandoned>> BY DEF RemoveSidecar, bootVars, lostVars, diskVars
<1>5. PICK x : /\ load' = [load EXCEPT ![t] = x] /\ x \in LoadSet /\ x.at = "unregister"
               /\ x.plugin = load[t].plugin /\ x.existing = load[t].existing
  <2>1. PICK x : x = [load[t] EXCEPT !.at = "unregister"] /\ load' = [load EXCEPT ![t] = x]
    BY DEF RemoveSidecar, Moves
  <2>2. x \in LoadSet /\ x.at = "unregister" /\ x.plugin = load[t].plugin /\ x.existing = load[t].existing
    BY <2>1, <1>1 DEF LoadSet, Retiring, RetireAt
  <2> QED BY <2>1, <2>2
<1>6. \A u \in LoadTasks : load'[u] = IF u = t THEN x ELSE load[u] BY <1>5, <1>0 DEF LoadType
<1>7. /\ sidecarOf' \in [PluginNames -> Nat]
      /\ \A q \in PluginNames : sidecarOf'[q] = IF q = p THEN 0 ELSE sidecarOf[q]
  BY <1>0, <1>2 DEF RemoveSidecar, LoadType
<1>8. LoadType' BY <1>0, <1>4, <1>5, <1>7 DEF LoadType
<1>9. ListedInv'
  <2>1. Len(spawns) \in Nat BY <1>0 DEF LoadType
  <2> QED BY <2>1, <1>0, <1>4, <1>7 DEF ListedInv
<1>10. \A u \in LoadTasks : Fresh(u)' => Fresh(u) /\ load'[u] = load[u]
  BY <1>5, <1>6 DEF Fresh, FreshAt
<1>11. \A u \in LoadTasks : Retires(u)' => /\ Retires(u) /\ load'[u].existing = load[u].existing
                                          /\ load'[u].plugin = load[u].plugin
  BY <1>1, <1>5, <1>6 DEF Retires
<1>12. MadeInv'
  <2>1. \A u \in LoadTasks : Fresh(u) => load[u].spawn # 0 BY <1>0 DEF MadeInv
  <2> QED BY <2>1, <1>0, <1>4, <1>7, <1>10, <1>11 DEF MadeInv
<1>13. RetiredInv'
  <2>1. \A u \in LoadTasks : Retires(u) => load[u].existing # 0 BY <1>0 DEF RetiredInv
  <2> QED BY <2>1, <1>0, <1>4, <1>7, <1>11 DEF RetiredInv
<1>14. WatchInv'
  <2>1. Seen' = Seen BY <1>4 DEF Seen, Fired
  <2>2. \A u \in Watches : u \in LoadTasks BY DEF LoadTasks
  <2>3. \A u \in Watches : load'[u].at # "idle" => load[u].at # "idle" /\ load'[u].plugin = load[u].plugin
    BY <2>2, <1>1, <1>5, <1>6
  <2>4. \A q \in PluginNames : debounce[q] # BootTask => debounce[q] \in Watches BY <1>0 DEF LoadType
  <2> QED BY <2>1, <2>2, <2>3, <2>4, <1>0, <1>4 DEF WatchInv
<1>15. ReplacedInv'
  <2> SUFFICES ASSUME NEW q \in PluginNames, Endangered(q)' PROVE \E u \in LoadTasks : Replaces(u, q)'
    BY DEF ReplacedInv
  <2>1. q # p BY <1>7 DEF Endangered
  <2>2. doomed \subseteq LoadTasks BY <1>0 DEF LoadType, LoadTasks
  <2>3. \A u \in doomed : load'[u].at = "stop" => load'[u] = load[u] BY <2>2, <1>5, <1>6
  <2>4. Endangered(q) BY <2>1, <2>3, <1>4, <1>7 DEF Endangered
  <2>5. PICK u \in LoadTasks : Replaces(u, q) BY <2>4, <1>0 DEF ReplacedInv
  <2>6. u # t BY <2>1, <2>5, <1>2 DEF Replaces
  <2>7. Replaces(u, q)' BY <2>5, <2>6, <1>4, <1>6 DEF Replaces
  <2> QED BY <2>7
<1> QED BY <1>8, <1>9, <1>12, <1>13, <1>14, <1>15 DEF LoadInv

\* What an aborted task may have killed on its way out was endangered already, and what a dropped call
\* may have killed is abandoned.
LEMMA AbortedTaskEndsKeeps ==
    ASSUME LoadInv, NEW t \in LoadTasks, AbortedTaskEnds(t)
    PROVE  LoadInv'
<1>0. LoadType /\ ListedInv /\ MadeInv /\ RetiredInv /\ WatchInv /\ ReplacedInv BY DEF LoadInv
<1>1. /\ t \in doomed \cup Tools /\ load[t].at \in {"sleep", "stop", "spawn", "describe"}
      /\ doomed' = doomed \ {t} /\ load' = [load EXCEPT ![t] = NoLoad]
  BY DEF AbortedTaskEnds, Ends
<1>2. UNCHANGED <<sidecarOf, debounce, manifestOf, keysSeeded, watching>> BY DEF AbortedTaskEnds, bootVars, diskVars
<1>3. NoLoad \in LoadSet /\ NoLoad.at = "idle" BY DEF LoadSet, NoLoad
<1>4. \A u \in LoadTasks : load'[u] = IF u = t THEN NoLoad ELSE load[u] BY <1>1, <1>0 DEF LoadType
<1>5. doomed \subseteq LoadTasks BY <1>0 DEF LoadType, LoadTasks
<1>6. PICK K : /\ \A n \in K : load[t].at = "stop" /\ n = load[t].existing
               /\ abandoned \subseteq abandoned' /\ \A n \in K : t \in Tools => n \in abandoned'
               /\ spawns' \in Seq(Spawned) /\ Len(spawns') = Len(spawns)
               /\ \A i \in 1 .. Len(spawns) : i \notin K => spawns'[i] = spawns[i]
  <2>1. CASE spawns' = spawns /\ abandoned' = abandoned
    <3>1. PICK K : K = {} OBVIOUS
    <3>2. \A n \in K : load[t].at = "stop" /\ n = load[t].existing /\ n \in abandoned' BY <3>1
    <3>3. \A i \in 1 .. Len(spawns) : i \notin K => spawns'[i] = spawns[i] BY <2>1
    <3> QED BY <2>1, <3>2, <3>3, <1>0 DEF LoadType
  <2>2. CASE /\ IsAt(t, "stop") /\ spawns' = [spawns EXCEPT ![load[t].existing].alive = FALSE]
             /\ abandoned' = IF t \in Tools THEN abandoned \cup {load[t].existing} ELSE abandoned
    <3>1. PICK n : n = load[t].existing OBVIOUS
    <3>2. load[t].at = "stop" /\ Retires(t) BY <2>2 DEF IsAt, Retires, RetireAt
    <3>3. n \in 1 .. Len(spawns) BY <3>1, <3>2, <1>0 DEF RetiredInv
    <3>4. /\ spawns' \in Seq(Spawned) /\ Len(spawns') = Len(spawns)
          /\ \A i \in 1 .. Len(spawns) : i # n => spawns'[i] = spawns[i]
      <4>1. spawns' = Killed(spawns, n) BY <2>2, <3>1 DEF Killed
      <4>2. spawns \in Seq(Spawned) BY <1>0 DEF LoadType
      <4> QED BY <4>1, <4>2, <3>3, KillOne
    <3>5. \A m \in {n} : load[t].at = "stop" /\ m = load[t].existing BY <3>1, <3>2
    <3>7. abandoned \subseteq abandoned' /\ \A m \in {n} : t \in Tools => m \in abandoned' BY <2>2, <3>1
    <3>6. \A i \in 1 .. Len(spawns) : i \notin {n} => spawns'[i] = spawns[i] BY <3>4
    <3> QED BY <3>4, <3>5, <3>6, <3>7
  <2> QED BY <2>1, <2>2 DEF AbortedTaskEnds
<1>7. LoadType' BY <1>0, <1>1, <1>2, <1>3, <1>6 DEF LoadType
<1>8. ListedInv' BY <1>0, <1>2, <1>6 DEF ListedInv
<1>9. \A u \in LoadTasks : Retires(u)' => Retires(u) /\ load'[u] = load[u]
  BY <1>3, <1>4 DEF Retires, RetireAt
<1>10. RetiredInv' BY <1>0, <1>2, <1>6, <1>9 DEF RetiredInv
<1>11. \A u \in LoadTasks : Fresh(u)' => Fresh(u) /\ load'[u] = load[u] /\ load[u].spawn \notin K
  <2>1. \A n \in K : Retires(t) /\ n = load[t].existing BY <1>6 DEF Retires, RetireAt
  <2> QED BY <2>1, <1>0, <1>3, <1>4 DEF Fresh, FreshAt, MadeInv
<1>12. MadeInv' BY <1>0, <1>2, <1>6, <1>9, <1>11 DEF MadeInv
<1>13. WatchInv'
  <2>1. Seen' = Seen BY <1>2 DEF Seen, Fired
  <2>2. \A u \in Watches : u \in LoadTasks BY DEF LoadTasks
  <2>3. \A u \in Watches : load'[u].at # "idle" => load[u].at # "idle" /\ load'[u].plugin = load[u].plugin
    BY <2>2, <1>3, <1>4
  <2>4. \A q \in PluginNames : debounce[q] # BootTask => debounce[q] \in Watches BY <1>0 DEF LoadType
  <2> QED BY <2>1, <2>2, <2>3, <2>4, <1>0, <1>1, <1>2 DEF WatchInv
<1>14. ReplacedInv'
  <2> SUFFICES ASSUME NEW q \in PluginNames, Endangered(q)' PROVE \E u \in LoadTasks : Replaces(u, q)'
    BY DEF ReplacedInv
  <2>1. \A u \in doomed' : load'[u].at = "stop" => u \in doomed /\ load'[u] = load[u] BY <1>1, <1>4, <1>5
  <2>2. sidecarOf[q] # 0 /\ sidecarOf[q] \in 1 .. Len(spawns)
    BY <1>0, <1>2 DEF Endangered, ListedInv, LoadType
  <2>5. PICK u \in LoadTasks : Replaces(u, q)
    <3>1. Endangered(q)
      <4>1. CASE sidecarOf[q] \in K
        <5>1. sidecarOf[q] \notin abandoned' BY <1>2 DEF Endangered
        <5>2. t \in doomed /\ load[t].at = "stop" /\ load[t].existing = sidecarOf[q] BY <4>1, <5>1, <1>1, <1>6
        <5> QED BY <5>1, <5>2, <2>2, <1>2, <1>6 DEF Endangered
      <4>2. CASE sidecarOf[q] \notin K BY <2>1, <2>2, <4>2, <1>2, <1>6 DEF Endangered
      <4> QED BY <4>1, <4>2
    <3> QED BY <3>1, <1>0 DEF ReplacedInv
  <2>6. u # t BY <2>5, <1>1 DEF Replaces, ReplacingAt
  <2>7. Replaces(u, q)' BY <2>5, <2>6, <1>1, <1>4 DEF Replaces
  <2> QED BY <2>7
<1> QED BY <1>7, <1>8, <1>10, <1>12, <1>13, <1>14 DEF LoadInv

\* A stopped watcher promises nothing more.
LEMMA StopWatcherKeeps == ASSUME LoadInv, StopWatcher PROVE LoadInv'
<1>0. LoadType /\ ListedInv /\ MadeInv /\ RetiredInv /\ WatchInv BY DEF LoadInv
<1>1. /\ UNCHANGED <<spawns, sidecarOf, load, debounce, manifestOf, keysSeeded>> /\ watching' = FALSE
      /\ doomed' \subseteq doomed \cup Fired
  BY DEF StopWatcher, diskVars, bootVars
<1>2. LoadType' BY <1>0, <1>1 DEF LoadType, Fired
<1>3. ListedInv' /\ MadeInv' /\ RetiredInv' BY <1>0, <1>1 DEF ListedInv, MadeInv, RetiredInv, Fresh, Retires
<1>4. WatchInv'
  <2>1. Seen' = Seen BY <1>1 DEF Seen, Fired
  <2>2. \A t \in Watches : t[2] \in Int /\ t[2] <= t[2] BY DEF Watches
  <2>3. \A t \in Fired : t \in Seen BY <2>2 DEF Fired, Seen
  <2> QED BY <2>1, <2>3, <1>0, <1>1 DEF WatchInv
<1>5. ReplacedInv' BY <1>1 DEF ReplacedInv, Endangered
<1> QED BY <1>2, <1>3, <1>4, <1>5 DEF LoadInv

\* The task that takes over from an aborted one will replace what that one may kill.
LEMMA ScheduleReloadKeeps ==
    ASSUME LoadInv, NEW p \in PluginNames, ScheduleReload(p)
    PROVE  LoadInv'
<1>0. LoadType /\ ListedInv /\ MadeInv /\ RetiredInv /\ WatchInv /\ ReplacedInv BY DEF LoadInv
<1>1. PICK w, x, d : w = NextWatch /\ x = [at |-> "sleep", plugin |-> p] /\ d = debounce[p] OBVIOUS
<1>2. /\ w \in Watches /\ load' = [load EXCEPT ![w] = x] /\ debounce' = [debounce EXCEPT ![p] = w]
      /\ doomed' = IF load[d].at = "idle" \/ d = BootTask THEN doomed ELSE doomed \cup {d}
  BY <1>1 DEF ScheduleReload, IsAt
<1>3. UNCHANGED <<spawns, sidecarOf, manifestOf, keysSeeded, watching, abandoned>> BY DEF ScheduleReload, bootVars, lostVars
<1>4. \A u \in Watches : u \in LoadTasks BY DEF LoadTasks
<1>5. w \notin Seen /\ (\A t \in Seen : t[2] <= w[2]) /\ w[2] \in Int
  <2>1. w[2] \in Int BY <1>2 DEF Watches
  <2> QED BY <2>1, <1>0, <1>1, NextIsNew
<1>6. w \in LoadTasks /\ w \notin doomed /\ load[w].at = "idle" BY <1>0, <1>2, <1>4, <1>5 DEF WatchInv
<1>7. \A q \in PluginNames : debounce[q] # BootTask => debounce[q] \in Watches /\ debounce[q] # w
  <2> SUFFICES ASSUME NEW q \in PluginNames, debounce[q] # BootTask
               PROVE  debounce[q] \in Watches /\ debounce[q] # w
    OBVIOUS
  <2>1. debounce[q] \in Watches BY <1>0 DEF LoadType
  <2>2. debounce[q] \in Fired BY <2>1 DEF Fired
  <2>3. debounce[q][2] \in Int BY <2>1 DEF Watches
  <2>4. debounce[q][2] <= debounce[q][2] BY <2>3
  <2>5. debounce[q] \in Seen BY <2>1, <2>2, <2>4 DEF Seen
  <2> QED BY <2>1, <2>5, <1>5
<1>8. x \in LoadSet /\ x.at = "sleep" /\ x.plugin = p BY <1>1 DEF LoadSet, Waiting
<1>9. \A u \in LoadTasks : load'[u] = IF u = w THEN x ELSE load[u] BY <1>2, <1>0 DEF LoadType
<1>10. \A u \in doomed' : u \in doomed \/ (u = d /\ d \in Watches /\ load[d].at # "idle" /\ load[d].plugin = p)
  BY <1>0, <1>1, <1>2, <1>7 DEF WatchInv
<1>11. doomed' \subseteq Watches /\ doomed \subseteq Watches BY <1>0, <1>10 DEF LoadType
<1>12. w \notin doomed' BY <1>6, <1>10
<1>13. LoadType'
  <2>1. debounce' \in [PluginNames -> Watches \cup {BootTask}] BY <1>0, <1>2 DEF LoadType
  <2>2. load' \in [LoadTasks -> LoadSet] BY <1>0, <1>2, <1>8 DEF LoadType
  <2> QED BY <2>1, <2>2, <1>0, <1>3, <1>11 DEF LoadType
<1>14. ListedInv' BY <1>0, <1>3 DEF ListedInv
<1>15. \A u \in LoadTasks : Fresh(u)' => Fresh(u) /\ load'[u] = load[u] BY <1>8, <1>9 DEF Fresh, FreshAt
<1>16. \A u \in LoadTasks : Retires(u)' => Retires(u) /\ load'[u] = load[u] BY <1>8, <1>9 DEF Retires, RetireAt
<1>17. MadeInv' /\ RetiredInv'
  <2>1. MadeInv' BY <1>0, <1>3, <1>15, <1>16 DEF MadeInv
  <2>2. RetiredInv' BY <1>0, <1>3, <1>16 DEF RetiredInv
  <2> QED BY <2>1, <2>2
<1>18. WatchInv'
  <2>1. w \in Fired'
    <3>1. debounce'[p] = w BY <1>0, <1>2 DEF LoadType
    <3> QED BY <3>1, <1>2 DEF Fired
  <2>2. \A t \in Watches : t[2] <= w[2] => t \in Seen' BY <2>1 DEF Seen
  <2>3. w \in Seen' /\ \A t \in Seen : t \in Seen'
    <3>1. w[2] <= w[2] BY <1>5
    <3>2. \A t \in Seen : t \in Watches BY DEF Seen
    <3> QED BY <3>1, <3>2, <2>2, <1>2, <1>5
  <2>4. \A t \in Watches : t \in doomed' \/ load'[t].at # "idle" => t \in Seen'
    <3> SUFFICES ASSUME NEW t \in Watches, t # w, t \in doomed' \/ load'[t].at # "idle" PROVE t \in Seen
      BY <2>3
    <3>1. load'[t] = load[t] BY <1>4, <1>9
    <3> QED BY <3>1, <1>0, <1>10 DEF WatchInv
  <2>5. ASSUME NEW q \in PluginNames, debounce'[q] # BootTask, load'[debounce'[q]].at # "idle"
        PROVE  load'[debounce'[q]].plugin = q
    <3>1. CASE q = p
      <4>1. debounce'[q] = w BY <3>1, <1>0, <1>2 DEF LoadType
      <4> QED BY <4>1, <3>1, <1>6, <1>8, <1>9
    <3>2. CASE q # p
      <4>1. debounce'[q] = debounce[q] BY <3>2, <1>0, <1>2 DEF LoadType
      <4>2. debounce[q] \in LoadTasks /\ debounce[q] # w BY <4>1, <2>5, <1>4, <1>7
      <4> QED BY <4>1, <4>2, <2>5, <1>0, <1>9 DEF WatchInv
    <3> QED BY <3>1, <3>2
  <2> QED BY <2>4, <2>5 DEF WatchInv
<1>19. ReplacedInv'
  <2> SUFFICES ASSUME NEW q \in PluginNames, Endangered(q)' PROVE \E u \in LoadTasks : Replaces(u, q)'
    BY DEF ReplacedInv
  <2>1. CASE q = p
    <3>1. Replaces(w, q)' BY <2>1, <1>2, <1>6, <1>8, <1>9, <1>12, TasksDiffer DEF Replaces, ReplacingAt
    <3> QED BY <3>1, <1>6
  <2>2. CASE q # p
    <3>1. ASSUME NEW u \in doomed', load'[u].at = "stop", load'[u].existing = sidecarOf[q]
          PROVE  u \in doomed /\ load[u].at = "stop" /\ load[u].existing = sidecarOf[q]
      <4>1. u \in LoadTasks /\ u # w BY <1>4, <1>11, <1>12
      <4>2. load'[u] = load[u] BY <4>1, <1>9
      <4>3. Retires(u) BY <4>2, <3>1 DEF Retires, RetireAt
      <4>4. q = load[u].plugin BY <4>1, <4>2, <4>3, <3>1, <1>0 DEF RetiredInv
      <4> QED BY <4>2, <4>4, <3>1, <2>2, <1>10
    <3>2. Endangered(q) BY <3>1, <1>3 DEF Endangered
    <3>3. PICK u \in LoadTasks : Replaces(u, q) BY <3>2, <1>0 DEF ReplacedInv
    <3>4. u # w /\ u \notin doomed' BY <3>3, <2>2, <1>6, <1>10 DEF Replaces, ReplacingAt
    <3>5. Replaces(u, q)' BY <3>3, <3>4, <1>9 DEF Replaces
    <3> QED BY <3>5
  <2> QED BY <2>1, <2>2
<1> QED BY <1>13, <1>14, <1>17, <1>18, <1>19 DEF LoadInv

-----------------------------------------------------------------------------
(* Dispatch *)

Dispatches == [at : {"next", "invoke"}, rest : Seq(Routes), spent : BOOLEAN]

\* What was invoked comes before what is left of the copied routes.
ConsumerInv ==
    /\ consumer \in {[at |-> "absent"], [at |-> "idle"]} \cup Dispatches
    /\ Ordered(heard)
    /\ consumer.at \in {"next", "invoke"} =>
         /\ Ordered(consumer.rest) /\ consumer.rest # <<>>
         /\ \A i \in 1 .. Len(heard), j \in 1 .. Len(consumer.rest) :
              consumer.at = "next" \/ j # 1 => Before(heard[i], consumer.rest[j])

RoutesInv == DOMAIN hookRoutes = HookEvents /\ \A e \in HookEvents : Ordered(hookRoutes[e])

HookInv == RoutesInv /\ ConsumerInv

LEMMA HooksQuiet == ASSUME HookInv, UNCHANGED <<hookRoutes, consumer, heard>> PROVE HookInv'
BY DEF HookInv, RoutesInv, ConsumerInv

LEMMA RoutesKeep ==
    ASSUME HookInv, DOMAIN hookRoutes' = HookEvents, \A e \in HookEvents : Ordered(hookRoutes'[e]),
           UNCHANGED <<consumer, heard>>
    PROVE  HookInv'
BY DEF HookInv, RoutesInv, ConsumerInv

LEMMA UnregisterOwnerOrdered ==
    ASSUME RoutesInv, NEW p, hookRoutes' = UnregisterOwner(p)
    PROVE  DOMAIN hookRoutes' = HookEvents /\ \A e \in HookEvents : Ordered(hookRoutes'[e])
<1>1. \A e \in HookEvents : hookRoutes'[e] = NotOf(hookRoutes[e], p) BY DEF UnregisterOwner
<1>2. \A e \in HookEvents : Ordered(NotOf(hookRoutes[e], p)) BY NotOfOrdered DEF RoutesInv
<1>3. DOMAIN hookRoutes' = HookEvents BY DEF UnregisterOwner
<1> QED BY <1>1, <1>2, <1>3

LEMMA UnregisterKeepsHooks ==
    ASSUME HookInv, NEW t \in LoadTasks, DropRoutes(t) \/ UnregisterHooks(t)
    PROVE  HookInv'
<1>1. PICK p : hookRoutes' = UnregisterOwner(p) /\ UNCHANGED <<consumer, heard>>
  BY DEF DropRoutes, UnregisterHooks, consumerVars
<1>2. RoutesInv BY DEF HookInv
<1>3. DOMAIN hookRoutes' = HookEvents /\ \A e \in HookEvents : Ordered(hookRoutes'[e])
  BY <1>1, <1>2, UnregisterOwnerOrdered
<1> QED BY <1>1, <1>3, RoutesKeep

LEMMA RegisterManifestHooksKeepsHooks ==
    ASSUME LoadInv, HookInv, NEW t \in LoadTasks, RegisterManifestHooks(t)
    PROVE  HookInv'
<1>1. load[t] \in Making BY LoadShape DEF LoadInv, RegisterManifestHooks, IsAt
<1>2. PICK p, n : p = load[t].plugin /\ n = load[t].manifest.priority OBVIOUS
<1>3. p \in PluginNames /\ n \in Int
  <2>1. p \in PluginNames /\ load[t].manifest \in Manifests BY <1>1, <1>2 DEF Making
  <2>2. load[t].manifest \in [valid : BOOLEAN, hooks : SUBSET HookEvents, priority : Nat]
    BY <2>1, PluginsAssumption
  <2> QED BY <2>1, <2>2, <1>2
<1>4. \A e \in HookEvents : hookRoutes'[e] \in {RegisterOwned(hookRoutes[e], p, n), hookRoutes[e]}
  BY <1>2 DEF RegisterManifestHooks
<1>5. \A e \in HookEvents : Ordered(hookRoutes[e]) /\ Ordered(RegisterOwned(hookRoutes[e], p, n))
  BY <1>3, RegisterOrdered DEF HookInv, RoutesInv
<1>6. DOMAIN hookRoutes' = HookEvents /\ UNCHANGED <<consumer, heard>>
  BY DEF RegisterManifestHooks, consumerVars
<1>7. \A e \in HookEvents : Ordered(hookRoutes'[e]) BY <1>4, <1>5
<1> QED BY <1>6, <1>7, RoutesKeep

LEMMA ServeKeepsHooks ==
    ASSUME LoadInv, HookInv, Serve
    PROVE  HookInv'
<1>1. PICK base : base = hookRoutes[Created] OBVIOUS
<1>2. Created \in HookEvents BY DEF HookEvents
<1>3. Ordered(base) BY <1>1, <1>2 DEF HookInv, RoutesInv
<1>4. manifestOf \in [PluginNames -> Manifests] BY DEF LoadInv, LoadType
<1>5. Ordered(Registered(sidecarOf, manifestOf, base)[Configured]) BY <1>3, <1>4, RegisteredOrdered
<1>6. Ordered(ServedRoutes) BY <1>1, <1>5, ServedIs DEF Configured
<1>7. hookRoutes' = [hookRoutes EXCEPT ![Created] = ServedRoutes] BY Zenon DEF Serve, ServedRoutes
<1>8. PICK new : new = ServedRoutes OBVIOUS
<1>9. hookRoutes' = [hookRoutes EXCEPT ![Created] = new] /\ Ordered(new) BY <1>6, <1>7, <1>8
<1>10. RoutesInv' BY <1>2, <1>9 DEF HookInv, RoutesInv
<1>11. consumer' = [at |-> "idle"] /\ heard' = heard BY Zenon DEF Serve
<1>12. consumer'.at \notin {"next", "invoke"} BY <1>11
<1>13. Ordered(heard') BY <1>11 DEF HookInv, ConsumerInv
<1>14. ConsumerInv' BY <1>11, <1>12, <1>13 DEF ConsumerInv
<1> QED BY <1>10, <1>14 DEF HookInv

LEMMA TakeEventKeepsHooks ==
    ASSUME HookInv, NEW e \in HookEvents, TakeEvent(e)
    PROVE  HookInv'
<1>1. PICK r : r = hookRoutes[e] OBVIOUS
<1>2. Ordered(r) /\ r \in Seq(Routes) BY <1>1 DEF HookInv, RoutesInv, Ordered
<1>3. /\ hookRoutes' = hookRoutes /\ heard' = <<>> /\ consumer.at = "idle"
      /\ consumer' = IF r = <<>> THEN consumer ELSE [at |-> "next", rest |-> r, spent |-> FALSE]
  BY <1>1 DEF TakeEvent
<1>4. RoutesInv' BY <1>3 DEF HookInv, RoutesInv
<1>5. Ordered(heard') /\ Len(heard') = 0 BY <1>3 DEF Ordered
<1>6. CASE r = <<>>
  <2>1. consumer' = consumer BY <1>3, <1>6
  <2>2. ConsumerInv' BY <2>1, <1>3, <1>5 DEF HookInv, ConsumerInv
  <2> QED BY <2>2, <1>4 DEF HookInv
<1>7. CASE r # <<>>
  <2>1. consumer' = [at |-> "next", rest |-> r, spent |-> FALSE] BY <1>3, <1>7
  <2>2. consumer' \in Dispatches /\ consumer'.rest = r BY <2>1, <1>2 DEF Dispatches
  <2>3. ConsumerInv' BY <2>2, <1>2, <1>5, <1>7 DEF ConsumerInv
  <2> QED BY <2>3, <1>4 DEF HookInv
<1> QED BY <1>6, <1>7

LEMMA TailOrdered ==
    ASSUME NEW s, Ordered(s), s # <<>>
    PROVE  /\ Ordered(Tail(s)) /\ Tail(s) \in Seq(Routes) /\ Len(Tail(s)) = Len(s) - 1 /\ Len(s) \in Nat
           /\ \A i \in 1 .. Len(Tail(s)) : Tail(s)[i] = s[i + 1] /\ i + 1 \in 1 .. Len(s) /\ i + 1 # 1
<1>1. s \in Seq(Routes) BY DEF Ordered
<1>2. PICK r : r = Tail(s) OBVIOUS
<1>3. r \in Seq(Routes) /\ Len(r) = Len(s) - 1 /\ \A i \in 1 .. Len(r) : r[i] = s[i + 1]
  BY <1>1, <1>2, HeadTailProperties
<1>4. Len(s) \in Nat /\ \A i \in 1 .. Len(r) : i + 1 \in 1 .. Len(s) /\ i + 1 # 1 BY <1>1, <1>3
<1>5. \A i, j \in 1 .. Len(r) : i < j => Before(r[i], r[j])
  <2> SUFFICES ASSUME NEW i \in 1 .. Len(r), NEW j \in 1 .. Len(r), i < j PROVE Before(r[i], r[j]) OBVIOUS
  <2>1. i + 1 \in 1 .. Len(s) /\ j + 1 \in 1 .. Len(s) /\ i + 1 < j + 1 BY <1>4
  <2>2. Before(s[i + 1], s[j + 1]) BY <2>1 DEF Ordered
  <2> QED BY <2>2, <1>3
<1> QED BY <1>2, <1>3, <1>4, <1>5 DEF Ordered

\* A hook is done with: what is left comes after what was invoked.
LEMMA ReportedKeeps ==
    ASSUME ConsumerInv, consumer.at \in {"next", "invoke"}, heard' = heard,
           Len(consumer.rest) = 1 => consumer' = [at |-> "idle"],
           Len(consumer.rest) # 1 =>
               consumer' \in Dispatches /\ consumer'.at = "next" /\ consumer'.rest = Tail(consumer.rest)
    PROVE  ConsumerInv'
<1>1. PICK s, r : s = consumer.rest /\ r = Tail(s) OBVIOUS
<1>2. /\ Ordered(s) /\ s # <<>> /\ Ordered(heard)
      /\ \A i \in 1 .. Len(heard), j \in 1 .. Len(s) : j # 1 => Before(heard[i], s[j])
  BY <1>1 DEF ConsumerInv
<1>3. /\ Ordered(r) /\ r \in Seq(Routes) /\ Len(r) = Len(s) - 1 /\ Len(s) \in Nat
      /\ \A i \in 1 .. Len(r) : r[i] = s[i + 1] /\ i + 1 \in 1 .. Len(s) /\ i + 1 # 1
  BY <1>1, <1>2, TailOrdered
<1>4. CASE Len(s) = 1
  <2>1. consumer' = [at |-> "idle"] BY <1>1, <1>4
  <2>2. consumer'.at = "idle" BY <2>1
  <2> QED BY <2>1, <2>2, <1>2 DEF ConsumerInv
<1>5. CASE Len(s) # 1
  <2>2. consumer' \in Dispatches /\ consumer'.at = "next" /\ consumer'.rest = r BY <1>1, <1>5
  <2>3. r # <<>> BY <1>2, <1>3, <1>5
  <2>4. \A i \in 1 .. Len(heard), j \in 1 .. Len(r) : Before(heard[i], r[j]) BY <1>2, <1>3
  <2> QED BY <2>2, <2>3, <2>4, <1>2, <1>3 DEF ConsumerInv
<1> QED BY <1>4, <1>5

LEMMA ReportedIs ==
    ASSUME ConsumerInv, consumer.at \in {"next", "invoke"}, Reported \/ BudgetSpent
    PROVE  /\ Len(consumer.rest) = 1 => consumer' = [at |-> "idle"]
           /\ Len(consumer.rest) # 1 =>
                 consumer' \in Dispatches /\ consumer'.at = "next" /\ consumer'.rest = Tail(consumer.rest)
<1>1. consumer \in Dispatches BY DEF ConsumerInv
<1>2. PICK s, r : s = consumer.rest /\ r = Tail(s) OBVIOUS
<1>3. r \in Seq(Routes) BY <1>2, TailOrdered DEF ConsumerInv
<1>4. Len(s) = 1 => consumer' = [at |-> "idle"] BY <1>2 DEF Reported, BudgetSpent
<1>5. CASE Len(s) # 1 /\ Reported
  <2>1. consumer' = [consumer EXCEPT !.at = "next", !.rest = r] BY <1>2, <1>5 DEF Reported
  <2>2. consumer' \in Dispatches /\ consumer'.at = "next" /\ consumer'.rest = r
    BY <2>1, <1>1, <1>3 DEF Dispatches
  <2> QED BY <2>2, <1>2, <1>5
<1>6. CASE Len(s) # 1 /\ BudgetSpent
  <2>1. consumer' = [at |-> "next", rest |-> r, spent |-> TRUE] BY <1>2, <1>6 DEF BudgetSpent
  <2>2. consumer' \in Dispatches /\ consumer'.at = "next" /\ consumer'.rest = r
    BY <2>1, <1>3 DEF Dispatches
  <2> QED BY <2>2, <1>2, <1>6
<1> QED BY <1>2, <1>4, <1>5, <1>6

LEMMA NextHookKeepsHooks ==
    ASSUME HookInv, NextHook
    PROVE  HookInv'
<1>0. RoutesInv /\ ConsumerInv BY DEF HookInv
<1>1. hookRoutes' = hookRoutes /\ consumer.at = "next" BY DEF NextHook
<1>2. RoutesInv' BY <1>0, <1>1 DEF RoutesInv
<1>3. PICK s : s = consumer.rest OBVIOUS
<1>4. CASE Reported /\ heard' = heard
  <2>1. ConsumerInv' BY <1>0, <1>1, <1>4, ReportedIs, ReportedKeeps
  <2> QED BY <2>1, <1>2 DEF HookInv
<1>5. CASE consumer' = [consumer EXCEPT !.at = "invoke"] /\ heard' = Append(heard, Head(s))
  <2>1. PICK h : h = heard OBVIOUS
  <2>2. /\ Ordered(s) /\ s # <<>> /\ s \in Seq(Routes) /\ Ordered(h) /\ h \in Seq(Routes)
        /\ \A i \in 1 .. Len(h), j \in 1 .. Len(s) : Before(h[i], s[j])
    BY <2>1, <1>0, <1>1, <1>3 DEF ConsumerInv, Ordered
  <2>3. PICK r : r = Head(s) OBVIOUS
  <2>4. r = s[1] /\ r \in Routes /\ 1 \in 1 .. Len(s) BY <2>2, <2>3
  <2>5. consumer \in Dispatches BY <1>0, <1>1 DEF ConsumerInv
  <2>6. consumer' \in Dispatches /\ consumer'.at = "invoke" /\ consumer'.rest = s
    BY <2>5, <1>3, <1>5 DEF Dispatches
  <2>7. PICK g : g = heard' OBVIOUS
  <2>8. /\ g \in Seq(Routes) /\ Len(g) = Len(h) + 1 /\ Len(h) \in Nat /\ g[Len(h) + 1] = r
        /\ \A i \in 1 .. Len(h) : g[i] = h[i]
    <3>1. g = Append(h, r) BY <2>1, <2>3, <2>7, <1>5
    <3> QED BY <3>1, <2>2, <2>4
  <2>9. \A i \in 1 .. Len(g) : i \in 1 .. Len(h) \/ i = Len(h) + 1 BY <2>8
  <2>10. \A i \in 1 .. Len(g), j \in 1 .. Len(s) : j # 1 => Before(g[i], s[j])
    <3> SUFFICES ASSUME NEW i \in 1 .. Len(g), NEW j \in 1 .. Len(s), j # 1 PROVE Before(g[i], s[j])
      OBVIOUS
    <3>1. CASE i \in 1 .. Len(h) BY <3>1, <2>2, <2>8
    <3>2. CASE i = Len(h) + 1
      <4>1. 1 < j OBVIOUS
      <4>2. Before(s[1], s[j]) BY <4>1, <2>2, <2>4 DEF Ordered
      <4> QED BY <4>2, <3>2, <2>4, <2>8
    <3> QED BY <3>1, <3>2, <2>9
  <2>11. \A i, j \in 1 .. Len(g) : i < j => Before(g[i], g[j])
    <3> SUFFICES ASSUME NEW i \in 1 .. Len(g), NEW j \in 1 .. Len(g), i < j PROVE Before(g[i], g[j])
      OBVIOUS
    <3>1. i \in 1 .. Len(h) BY <2>8
    <3>2. CASE j \in 1 .. Len(h) BY <3>1, <3>2, <2>2, <2>8 DEF Ordered
    <3>3. CASE j = Len(h) + 1 BY <3>1, <3>3, <2>2, <2>4, <2>8
    <3> QED BY <3>2, <3>3, <2>9
  <2>12. Ordered(g) BY <2>8, <2>11 DEF Ordered
  <2>13. ConsumerInv' BY <2>2, <2>6, <2>7, <2>10, <2>12 DEF ConsumerInv
  <2> QED BY <2>13, <1>2 DEF HookInv
<1>6. \/ Reported /\ heard' = heard
      \/ consumer' = [consumer EXCEPT !.at = "invoke"] /\ heard' = Append(heard, Head(s))
  BY <1>3 DEF NextHook
<1> QED BY <1>4, <1>5, <1>6

LEMMA HookEndsKeepsHooks ==
    ASSUME HookInv, HookReturns \/ BudgetSpent
    PROVE  HookInv'
<1>0. RoutesInv /\ ConsumerInv BY DEF HookInv
<1>1. hookRoutes' = hookRoutes /\ consumer.at = "invoke" /\ heard' = heard BY DEF HookReturns, BudgetSpent
<1>2. RoutesInv' BY <1>0, <1>1 DEF RoutesInv
<1>3. Reported \/ BudgetSpent BY DEF HookReturns
<1>4. ConsumerInv' BY <1>0, <1>1, <1>3, ReportedIs, ReportedKeeps
<1> QED BY <1>2, <1>4 DEF HookInv

-----------------------------------------------------------------------------
(* The theorem *)

PluginsInv == LoadInv /\ HookInv

LEMMA PluginsStart == ASSUME PluginsInit PROVE PluginsInv
<1>1. /\ manifestOf = BootManifest /\ spawns = <<>> /\ sidecarOf = [p \in PluginNames |-> 0]
      /\ hookRoutes = [e \in HookEvents |-> <<>>] /\ load = [t \in LoadTasks |-> NoLoad]
      /\ doomed = {} /\ debounce = [p \in PluginNames |-> BootTask] /\ keysSeeded = FALSE
      /\ consumer = [at |-> "absent"] /\ heard = <<>>
  BY DEF PluginsInit
<1>2. BootManifest \in [PluginNames -> Manifests] BY PluginsAssumption
<1>3. NoLoad \in LoadSet /\ NoLoad.at = "idle" BY DEF LoadSet, NoLoad
<1>4. \A t \in LoadTasks : load[t].at = "idle" BY <1>1, <1>3
<1>5. LoadType
  <2>0. keysSeeded \in BOOLEAN BY <1>1, Zenon
  <2>1. spawns \in Seq(Spawned) /\ doomed \subseteq Watches BY <1>1
  <2>2. sidecarOf \in [PluginNames -> Nat] /\ debounce \in [PluginNames -> Watches \cup {BootTask}] BY <1>1
  <2>3. load \in [LoadTasks -> LoadSet] BY <1>1, <1>3
  <2> QED BY <2>0, <2>1, <2>2, <2>3, <1>1, <1>2 DEF LoadType
<1>6. \A p \in PluginNames : sidecarOf[p] = 0 /\ debounce[p] = BootTask BY <1>1
<1>7. ListedInv /\ MadeInv /\ RetiredInv
  BY <1>1, <1>4, <1>6 DEF ListedInv, MadeInv, RetiredInv, Fresh, Retires, FreshAt, RetireAt
<1>8. WatchInv BY <1>1, <1>4, <1>6 DEF WatchInv, LoadTasks
<1>9. ReplacedInv BY <1>6 DEF ReplacedInv, Endangered
<1>10. Ordered(<<>>) BY DEF Ordered
<1>11. RoutesInv BY <1>1, <1>10 DEF RoutesInv
<1>12. ConsumerInv BY <1>1, <1>10 DEF ConsumerInv
<1> QED BY <1>5, <1>7, <1>8, <1>9, <1>11, <1>12 DEF PluginsInv, LoadInv, HookInv

\* One step of a load or reload.
LEMMA LoadStepKeeps ==
    ASSUME PluginsInv, NEW t \in LoadTasks, LoadStep(t)
    PROVE  PluginsInv'
<1>0. LoadInv /\ HookInv BY DEF PluginsInv
<1>1. LoadInv'
  BY <1>0, AbortedTaskEndsKeeps, SpawnSidecarKeeps, DescribeCapabilitiesKeeps, InsertProviderKeeps,
     InsertSidecarKeeps, DropRoutesKeeps, RegisterManifestHooksKeeps, ShutDownOldKeeps,
     RemoveProviderKeeps, RemoveSidecarKeeps, UnregisterHooksKeeps, DebounceEndsKeeps DEF LoadStep
<1>2. HookInv'
  <2>1. CASE DropRoutes(t) \/ UnregisterHooks(t) BY <2>1, <1>0, UnregisterKeepsHooks
  <2>2. CASE RegisterManifestHooks(t) BY <2>2, <1>0, RegisterManifestHooksKeepsHooks
  <2>3. CASE ~(DropRoutes(t) \/ UnregisterHooks(t) \/ RegisterManifestHooks(t))
    <3>1. UNCHANGED <<hookRoutes, consumer, heard>>
      BY <2>3 DEF LoadStep, AbortedTaskEnds, SpawnSidecar, DescribeCapabilities, InsertProvider, InsertSidecar,
         ShutDownOld, RemoveProvider, RemoveSidecar, DebounceEnds, consumerVars
    <3> QED BY <3>1, <1>0, HooksQuiet
  <2> QED BY <2>1, <2>2, <2>3
<1> QED BY <1>1, <1>2 DEF PluginsInv

LEMMA PluginsStep == ASSUME PluginsInv, [PluginsNext]_pluginVars PROVE PluginsInv'
<1>0. LoadInv /\ HookInv /\ LoadType BY DEF PluginsInv, LoadInv
<1>1. manifestOf \in [PluginNames -> Manifests] /\ keysSeeded \in BOOLEAN BY <1>0 DEF LoadType
<1>2. ASSUME NEW t \in LoadTasks, LoadStep(t) PROVE PluginsInv' BY <1>2, LoadStepKeeps
<1>3. ASSUME NEW p \in PluginNames, ScanNext(p) PROVE PluginsInv'
  <2>1. UNCHANGED <<hookRoutes, consumer, heard>> BY <1>3 DEF ScanNext, consumerVars
  <2> QED BY <2>1, <1>0, <1>3, ScanNextKeeps, HooksQuiet DEF PluginsInv
<1>4. ASSUME NEW p \in PluginNames, ScheduleReload(p) PROVE PluginsInv'
  <2>1. UNCHANGED <<hookRoutes, consumer, heard>> BY <1>4 DEF ScheduleReload, consumerVars
  <2> QED BY <2>1, <1>0, <1>4, ScheduleReloadKeeps, HooksQuiet DEF PluginsInv
<1>5. ASSUME NEW p \in PluginNames, NEW m \in Manifests, SaveFile(p, m) PROVE PluginsInv'
  <2>1. UNCHANGED <<hookRoutes, consumer, heard>> BY <1>5 DEF SaveFile, consumerVars
  <2>2. UNCHANGED <<spawns, sidecarOf, load, doomed, debounce, keysSeeded, watching, abandoned>> BY <1>5 DEF SaveFile, bootVars, lostVars
  <2>3. manifestOf' \in [PluginNames -> Manifests] BY <1>1, <1>5 DEF SaveFile
  <2> QED BY <2>1, <2>2, <2>3, <1>0, <1>1, QuietKeeps, HooksQuiet DEF PluginsInv
<1>6. ASSUME NEW t \in Tools, NEW p \in PluginNames, ReloadPlugin(t, p) PROVE PluginsInv'
  <2>1. UNCHANGED <<hookRoutes, consumer, heard>> BY <1>6 DEF ReloadPlugin, consumerVars
  <2> QED BY <2>1, <1>0, <1>6, ReloadPluginKeeps, HooksQuiet DEF PluginsInv
<1>7. CASE Serve
  <2>1. UNCHANGED <<spawns, sidecarOf, load, doomed, debounce, manifestOf, watching, abandoned>> /\ keysSeeded' = TRUE
    BY <1>7, Zenon DEF Serve, diskVars, lostVars
  <2> QED BY <2>1, <1>0, <1>1, <1>7, QuietKeeps, ServeKeepsHooks DEF PluginsInv
<1>10. CASE StopWatcher
  <2>1. UNCHANGED <<hookRoutes, consumer, heard>> BY <1>10 DEF StopWatcher, consumerVars
  <2> QED BY <2>1, <1>0, <1>10, StopWatcherKeeps, HooksQuiet DEF PluginsInv
<1>8. CASE (\E e \in HookEvents : TakeEvent(e)) \/ NextHook \/ HookReturns \/ BudgetSpent
  <2>1. UNCHANGED <<spawns, sidecarOf, load, doomed, debounce, manifestOf, keysSeeded, watching, abandoned>>
    BY <1>8 DEF TakeEvent, NextHook, HookReturns, BudgetSpent, diskVars, bootVars, lostVars
  <2>2. LoadInv' BY <2>1, <1>0, <1>1, QuietKeeps
  <2>3. HookInv' BY <1>0, <1>8, TakeEventKeepsHooks, NextHookKeepsHooks, HookEndsKeepsHooks
  <2> QED BY <2>2, <2>3 DEF PluginsInv
<1>9. CASE UNCHANGED pluginVars
  BY <1>0, <1>1, <1>9, QuietKeeps, HooksQuiet DEF PluginsInv, pluginVars
<1> QED BY <1>2, <1>3, <1>4, <1>5, <1>6, <1>7, <1>8, <1>9, <1>10 DEF PluginsNext

LEMMA PluginsInvImplies == ASSUME PluginsInv PROVE PluginsSound
<1>0. LoadInv /\ HookInv BY DEF PluginsInv
<1>1. HookedOnceInOrder
  <2>1. Ordered(heard) BY <1>0 DEF HookInv, ConsumerInv
  <2>2. DOMAIN heard = 1 .. Len(heard) BY <2>1 DEF Ordered
  <2> QED BY <2>1, <2>2 DEF HookedOnceInOrder, Ordered, Before
<1>2. DeadIsReplaced
  BY <1>0 DEF LoadInv, DeadIsReplaced, ReplacedInv, Endangered, Replaces, ReplacingAt
<1> QED BY <1>1, <1>2 DEF PluginsSound

\* However loads, reload_plugin calls, dropped or not, and the watcher's
\* aborted reloads interleave, a dispatch invokes a plugin once and in the
\* order of the priorities, and while the watcher runs a sidecar that was shut
\* down stays in the index only while a task that will take it out is under
\* way, unless its call was dropped as it awaited the shutdown (registry.rs,
\* watcher.rs, dispatcher.rs).
THEOREM PluginsAreSound == PluginsSpec => []PluginsSound
<1>1. PluginsInit => PluginsInv BY PluginsStart
<1>2. PluginsInv /\ [PluginsNext]_pluginVars => PluginsInv' BY PluginsStep
<1>3. PluginsInv => PluginsSound BY PluginsInvImplies
<1> QED BY <1>1, <1>2, <1>3, PTL DEF PluginsSpec
=============================================================================
