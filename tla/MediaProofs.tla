----------------------------- MODULE MediaProofs ----------------------------
(***************************************************************************)
(* Proofs about media streams, conferences, and what the engine keeps:     *)
(* recordings, accounts and its configuration.                             *)
(*                                                                         *)
(* One RTP stream: PlaysInOrder is an invariant for every depth and policy *)
(* of the jitter buffer and every first sequence number, as long as the    *)
(* frames sent span at most half the sequence space, with a network that   *)
(* loses, repeats and reorders.  StreamInv ties the indices of the buffer  *)
(* to the stream: for some frame number b, index i holds frame b + i and   *)
(* no other, the anchor carries the sequence number of the frame expected  *)
(* next, and everything heard came before that frame.                      *)
(*                                                                         *)
(* Conferences: RoomsSound is an invariant for any number of calls, rooms, *)
(* participants and input levels.  RoomsInv adds the shape of rooms,       *)
(* sessions and egress tasks and that the last mix of every room is that   *)
(* of the others; it rests on lemmas about sums over a finite set, proved  *)
(* by induction on its size.                                               *)
(*                                                                         *)
(* Configuration and storage: ReloadsSafe and StoredDataKept are           *)
(* invariants of ControlSpec, for every configuration file and             *)
(* environment, and for every number of puts, connections, accounts,       *)
(* recordings and crashes.  ConfigInv adds that what a pending change      *)
(* would return to fits the engine as well, that every candidate has the   *)
(* shape of the schema, and that ids in use are never that of "no change". *)
(* SqliteInv adds how far each connection believes the file is migrated,   *)
(* that the open transaction is the next migration of the file as it is    *)
(* now, and that a connection that serves has seen them all.  RecordingInv *)
(* adds that a put which has not listed its call yet has stored its audio. *)
(***************************************************************************)
EXTENDS Conference, MCControl, FiniteSetTheorems, SequenceTheorems,
        WellFoundedInduction, TLAPS

-----------------------------------------------------------------------------
(* Induction and sums *)

\* Induction over a set of numbers: what holds of 0 and goes from n to n + 1 holds of all.
LEMMA ByInduction ==
    ASSUME NEW S, 0 \in S, \A n \in Nat : n \in S => n + 1 \in S
    PROVE  Nat \subseteq S
<1> DEFINE T == Nat \ S
<1> SUFFICES ASSUME T # {} PROVE FALSE OBVIOUS
<1>1. PICK R : R = OpToRel(<, Nat) OBVIOUS
<1>2. IsWellFoundedOn(R, Nat) BY <1>1, NatLessThanWellFounded
<1>3. PICK x \in T : \A y \in T : ~(<<y, x>> \in R) BY <1>2, WFMin
<1>4. x \in Nat /\ x # 0 OBVIOUS
<1>5. x - 1 \in Nat /\ x - 1 < x /\ (x - 1) + 1 = x BY <1>4
<1>6. <<x - 1, x>> \in R BY <1>1, <1>4, <1>5 DEF OpToRel
<1>7. x - 1 \in S BY <1>3, <1>5, <1>6
<1> QED BY <1>5, <1>7

\* FoldSet's recursion, for a sum of f over the elements of S.
Pick(s) == CHOOSE x \in s : TRUE
Added(it, f, s) == IF s = {} THEN 0 ELSE it[s \ {Pick(s)}] + f[Pick(s)]
IsIter(it, f, S) == it = [s \in SUBSET S |-> Added(it, f, s)]
Iter(f, S) == CHOOSE it : IsIter(it, f, S)
Sum(f, S) == Iter(f, S)[S]

LEMMA FoldIsSum == ASSUME NEW f, NEW S PROVE FoldSet(LAMBDA p, acc : acc + f[p], 0, S) = Sum(f, S)
BY Zenon DEF FoldSet, MapThenFoldSet, Sum, Iter, IsIter, Added, Pick

Level(S, n) == {T \in SUBSET S : Cardinality(T) <= n}
Upto(it, f, S, n) == it = [s \in Level(S, n) |-> Added(it, f, s)]

LEMMA PickIn == ASSUME NEW s, s # {} PROVE Pick(s) \in s
BY DEF Pick

LEMMA LevelDown ==
    ASSUME NEW S, IsFiniteSet(S), NEW n \in Nat, NEW s \in Level(S, n + 1), s # {}
    PROVE  s \ {Pick(s)} \in Level(S, n)
<1>1. s \subseteq S /\ IsFiniteSet(s) BY FS_Subset DEF Level
<1>2. Cardinality(s \ {Pick(s)}) = Cardinality(s) - 1 BY <1>1, PickIn, FS_RemoveElement
<1>3. Cardinality(s) \in Nat /\ Cardinality(s) <= n + 1 BY <1>1, FS_CardinalityType DEF Level
<1>4. Cardinality(s) - 1 <= n BY <1>3
<1> QED BY <1>1, <1>2, <1>4 DEF Level

LEMMA IterExists == ASSUME NEW f, NEW S, IsFiniteSet(S) PROVE IsIter(Iter(f, S), f, S)
<1> DEFINE N == {n \in Nat : \E it : Upto(it, f, S, n)}
<1>1. 0 \in N
  <2>1. PICK it : it = [s \in Level(S, 0) |-> 0] OBVIOUS
  <2>2. \A s \in Level(S, 0) : s = {}
    <3> SUFFICES ASSUME NEW s \in Level(S, 0) PROVE s = {} OBVIOUS
    <3>1. IsFiniteSet(s) /\ Cardinality(s) <= 0 BY FS_Subset DEF Level
    <3>2. Cardinality(s) = 0 BY <3>1, FS_CardinalityType
    <3> QED BY <3>1, <3>2, FS_EmptySet
  <2>3. \A s \in Level(S, 0) : Added(it, f, s) = 0 BY <2>2 DEF Added
  <2>4. Upto(it, f, S, 0) BY <2>1, <2>3 DEF Upto
  <2> QED BY <2>4
<1>2. ASSUME NEW n \in Nat, n \in N PROVE n + 1 \in N
  <2>1. PICK it : Upto(it, f, S, n) BY <1>2
  <2>2. PICK up : up = [s \in Level(S, n + 1) |-> Added(it, f, s)] OBVIOUS
  <2>3. \A s \in Level(S, n) : up[s] = it[s]
    <3>1. \A s \in Level(S, n) : s \in Level(S, n + 1)
      <4> SUFFICES ASSUME NEW s \in Level(S, n) PROVE Cardinality(s) <= n + 1 BY DEF Level
      <4>1. IsFiniteSet(s) /\ Cardinality(s) <= n BY FS_Subset DEF Level
      <4>2. Cardinality(s) \in Nat BY <4>1, FS_CardinalityType
      <4> QED BY <4>1, <4>2
    <3> QED BY <3>1, <2>1, <2>2 DEF Upto
  <2>4. \A s \in Level(S, n + 1) : Added(up, f, s) = Added(it, f, s)
    BY <2>3, LevelDown DEF Added
  <2>5. Upto(up, f, S, n + 1) BY <2>2, <2>4 DEF Upto
  <2> QED BY <2>5
<1>3. \A n \in Nat : n \in N
  <2> HIDE DEF N
  <2> QED BY <1>1, <1>2, ByInduction
<1>4. PICK n : n = Cardinality(S) OBVIOUS
<1>5. n \in Nat BY <1>4, FS_CardinalityType
<1>6. PICK it : Upto(it, f, S, n) BY <1>3, <1>5
<1>7. Level(S, n) = SUBSET S BY <1>4, FS_Subset DEF Level
<1>8. IsIter(it, f, S) BY <1>6, <1>7 DEF Upto, IsIter
<1> QED BY <1>8 DEF Iter

\* The order in which the elements are picked does not matter.
Numbers(f, S) == \A x \in S : f[x] \in Int
Splits(it, f, S) == \A T \in SUBSET S : it[T] \in Int /\ \A x \in T : it[T] = it[T \ {x}] + f[x]

LEMMA IterSplits ==
    ASSUME NEW f, NEW S, IsFiniteSet(S), Numbers(f, S), NEW it, IsIter(it, f, S)
    PROVE  Splits(it, f, S)
<1> USE DEF Numbers, Splits
<1> DEFINE Ok(T) == it[T] \in Int /\ \A x \in T : it[T] = it[T \ {x}] + f[x]
           N == {n \in Nat : \A T \in SUBSET S : Cardinality(T) <= n => Ok(T)}
<1>0. \A T \in SUBSET S : it[T] = Added(it, f, T) /\ IsFiniteSet(T) /\ Cardinality(T) \in Nat
  BY FS_Subset, FS_CardinalityType DEF IsIter
<1>1. 0 \in N
  <2> SUFFICES ASSUME NEW T \in SUBSET S, Cardinality(T) <= 0 PROVE Ok(T) OBVIOUS
  <2>1. Cardinality(T) = 0 BY <1>0
  <2>2. T = {} BY <2>1, <1>0, FS_EmptySet
  <2>3. it[T] = 0 BY <2>2, <1>0 DEF Added
  <2> QED BY <2>2, <2>3
<1>2. ASSUME NEW n \in Nat, n \in N PROVE n + 1 \in N
  <2> SUFFICES ASSUME NEW T \in SUBSET S, Cardinality(T) <= n + 1, T # {} PROVE Ok(T)
    <3>1. ASSUME NEW T \in SUBSET S, T = {} PROVE Ok(T)
      <4>1. it[T] = 0 BY <3>1, <1>0 DEF Added
      <4> QED BY <3>1, <4>1
    <3> QED BY <3>1
  <2>1. ASSUME NEW x \in T PROVE Cardinality(T \ {x}) <= n /\ T \ {x} \in SUBSET S
    <3>1. Cardinality(T \ {x}) = Cardinality(T) - 1 BY <1>0, FS_RemoveElement
    <3> QED BY <3>1, <1>0
  <2>2. \A x \in T : Ok(T \ {x}) BY <1>2, <2>1
  <2>4. PICK y : y = Pick(T) OBVIOUS
  <2>5. y \in T /\ it[T] = it[T \ {y}] + f[y] BY <1>0, <2>4, PickIn DEF Added
  <2>6. it[T] \in Int
    <3>1. f[y] \in Int /\ it[T \ {y}] \in Int BY <2>2, <2>5
    <3> QED BY <3>1, <2>5
  <2>7. ASSUME NEW x \in T, x # y PROVE it[T] = it[T \ {x}] + f[x]
    <3>1. x \in T \ {y} /\ y \in T \ {x} /\ (T \ {y}) \ {x} = (T \ {x}) \ {y} BY <2>5, <2>7
    <3>2. PICK rest : rest = (T \ {x}) \ {y} OBVIOUS
    <3>3. it[T \ {y}] = it[rest] + f[x] BY <2>2, <2>5, <3>1, <3>2
    <3>4. it[T \ {x}] = it[rest] + f[y] BY <2>2, <3>1, <3>2
    <3>5. it[rest] \in Int
      <4>1. rest \in SUBSET (T \ {x}) /\ rest \in SUBSET S /\ (T \ {x}) \in SUBSET S BY <3>2
      <4>2. Cardinality(rest) <= Cardinality(T \ {x}) BY <4>1, <1>0, FS_Subset
      <4>3. Cardinality(rest) <= n BY <4>1, <4>2, <2>1, <1>0
      <4> QED BY <4>1, <4>3, <1>2
    <3>6. f[x] \in Int /\ f[y] \in Int BY <2>5
    <3> QED BY <2>5, <3>3, <3>4, <3>5, <3>6
  <2> QED BY <2>5, <2>6, <2>7
<1>3. \A n \in Nat : n \in N
  <2> HIDE DEF N
  <2> QED BY <1>1, <1>2, ByInduction
<1> SUFFICES ASSUME NEW T \in SUBSET S PROVE Ok(T) OBVIOUS
<1>4. Cardinality(T) \in Nat /\ Cardinality(T) <= Cardinality(T) BY <1>0
<1> QED BY <1>3, <1>4

Agrees(jt, it, R) == \A T \in SUBSET R : jt[T] = it[T]

LEMMA IterAgrees ==
    ASSUME NEW f, NEW S, IsFiniteSet(S), NEW R \in SUBSET S, NEW it, IsIter(it, f, S), NEW jt, IsIter(jt, f, R)
    PROVE  Agrees(jt, it, R)
<1> USE DEF Agrees
<1> DEFINE N == {n \in Nat : \A T \in SUBSET R : Cardinality(T) = n => jt[T] = it[T]}
<1>0. \A T \in SUBSET R : T \in SUBSET S /\ it[T] = Added(it, f, T) /\ jt[T] = Added(jt, f, T) BY DEF IsIter
<1>1. 0 \in N
  <2> SUFFICES ASSUME NEW T \in SUBSET R, Cardinality(T) = 0 PROVE jt[T] = it[T] OBVIOUS
  <2>1. T = {} BY FS_Subset, FS_EmptySet
  <2> QED BY <2>1, <1>0 DEF Added
<1>2. ASSUME NEW n \in Nat, n \in N PROVE n + 1 \in N
  <2> SUFFICES ASSUME NEW T \in SUBSET R, Cardinality(T) = n + 1 PROVE jt[T] = it[T] OBVIOUS
  <2>1. IsFiniteSet(T) /\ T # {} BY FS_Subset, FS_EmptySet
  <2>2. PICK y : y = Pick(T) OBVIOUS
  <2>3. y \in T BY <2>1, <2>2, PickIn
  <2>4. Cardinality(T \ {y}) = n /\ T \ {y} \in SUBSET R BY <2>1, <2>3, FS_RemoveElement, SMTT(30)
  <2>5. jt[T \ {y}] = it[T \ {y}] BY <1>2, <2>4
  <2> QED BY <2>1, <2>2, <2>5, <1>0 DEF Added
<1>3. \A n \in Nat : n \in N
  <2> HIDE DEF N
  <2> QED BY <1>1, <1>2, ByInduction
<1> SUFFICES ASSUME NEW T \in SUBSET R PROVE jt[T] = it[T] OBVIOUS
<1>4. T \in SUBSET S BY <1>0
<1>5. Cardinality(T) \in Nat BY <1>4, FS_Subset, FS_CardinalityType
<1> QED BY <1>3, <1>5

\* Subtracting one's own input from the sum leaves the sum of the others.
LEMMA SumWithout ==
    ASSUME NEW f, NEW S, IsFiniteSet(S), Numbers(f, S), NEW p \in S
    PROVE  Sum(f, S) - f[p] = Sum(f, S \ {p})
<1>1. IsFiniteSet(S \ {p}) BY FS_Subset
<1>2. PICK it : it = Iter(f, S) OBVIOUS
<1>3. PICK jt : jt = Iter(f, S \ {p}) OBVIOUS
<1>4. IsIter(it, f, S) /\ IsIter(jt, f, S \ {p}) BY <1>1, <1>2, <1>3, IterExists
<1>5. it[S] = it[S \ {p}] + f[p] /\ it[S \ {p}] \in Int
  <2>1. Splits(it, f, S) BY <1>4, IterSplits
  <2>2. S \in SUBSET S /\ S \ {p} \in SUBSET S OBVIOUS
  <2> QED BY <2>1, <2>2 DEF Splits
<1>6. jt[S \ {p}] = it[S \ {p}]
  <2>1. PICK R : R = S \ {p} OBVIOUS
  <2>2. R \in SUBSET S /\ IsIter(jt, f, R) BY <2>1, <1>4
  <2>3. Agrees(jt, it, R) BY <2>2, <1>4, IterAgrees
  <2> QED BY <2>1, <2>3 DEF Agrees
<1>7. f[p] \in Int BY DEF Numbers
<1>8. it[S] - f[p] = jt[S \ {p}] BY <1>5, <1>6, <1>7
<1> QED BY <1>2, <1>3, <1>8 DEF Sum

-----------------------------------------------------------------------------
(* The playout buffer *)

LEMMA LeastIs ==
    ASSUME NEW S \in SUBSET Nat, S # {}, NEW x, x = CHOOSE i \in S : \A k \in S : i <= k
    PROVE  x \in S /\ \A k \in S : x <= k
<1>1. PICK R : R = OpToRel(<, Nat) OBVIOUS
<1>2. IsWellFoundedOn(R, Nat) BY <1>1, NatLessThanWellFounded
<1>3. PICK y \in S : \A k \in S : ~(<<k, y>> \in R) BY <1>2, WFMin
<1>4. \A k \in S : k < y => <<k, y>> \in R BY <1>1 DEF OpToRel
<1>5. \A k \in S : ~(k < y) BY <1>3, <1>4
<1>6. \A k \in S : k \in Int /\ y \in Int OBVIOUS
<1>7. \A k \in S : y <= k BY <1>5, <1>6
<1> QED BY <1>7

BufferFields == {"frames", "expected", "anchor_index", "anchor_seq", "primed", "target", "starve_run", "clean_run"}

\* The play head is where the sequence space is anchored, and every buffered frame is before it.
BufferOk(j) ==
    /\ DOMAIN j = BufferFields
    /\ DOMAIN j.frames \subseteq Nat /\ IsFiniteSet(DOMAIN j.frames)
    /\ j.expected \in Nat \cup {Unanchored} /\ j.anchor_index \in Nat /\ j.anchor_seq \in Int
    /\ j.expected = Unanchored => DOMAIN j.frames = {}
    /\ j.expected # Unanchored => j.anchor_index = j.expected
    /\ \A i \in DOMAIN j.frames : j.expected <= i /\ j.frames[i].pcm \in Nat /\ j.frames[i].seq \in Int
    /\ j.target \in Nat \ {0}

LEMMA NewBufferOk == BufferOk(NewBuffer)
BY JitterAssumption, FS_EmptySet DEF JitterAssumption, BufferOk, BufferFields, NewBuffer, NoFrames, Unanchored

LEMMA IndexType ==
    ASSUME NEW j, BufferOk(j), NEW seq \in Int
    PROVE  IndexOf(j, seq) \in Int
<1>1. SeqModulus \in Nat \ {0} /\ j.anchor_seq \in Int /\ j.anchor_index \in Int BY JitterAssumption DEF JitterAssumption, BufferOk
<1>2. PICK d : d = (seq - j.anchor_seq) % SeqModulus OBVIOUS
<1>3. d \in Int BY <1>1, <1>2
<1> QED BY <1>1, <1>2, <1>3 DEF IndexOf

LEMMA BufferedIndex ==
    ASSUME NEW j, BufferOk(j), NEW seq \in Int, InsertOutcome(j, seq) = "buffered"
    PROVE  ~Anchors(j) /\ IndexOf(j, seq) \in Nat /\ IndexOf(j, seq) >= j.expected
<1>1. PICK x : x = IndexOf(j, seq) OBVIOUS
<1>2. x \in Int /\ j.expected \in Int /\ MaxBuffer \in Nat
  BY <1>1, IndexType, JitterAssumption DEF JitterAssumption, BufferOk, Unanchored
<1>3. CASE Anchors(j) BY <1>3 DEF InsertOutcome
<1>4. CASE ~Anchors(j) /\ x < j.expected
  <2>1. InsertOutcome(j, seq) = "late" BY <1>1, <1>2, <1>4 DEF InsertOutcome
  <2> QED BY <2>1
<1>5. CASE ~Anchors(j) /\ x >= j.expected
  <2>1. j.expected \in Nat BY <1>5 DEF Anchors, BufferOk
  <2> QED BY <1>1, <1>2, <1>5, <2>1
<1> QED BY <1>2, <1>3, <1>4, <1>5

LEMMA InsertOk ==
    ASSUME NEW j, BufferOk(j), NEW seq \in Int, NEW pcm \in Nat
    PROVE  BufferOk(Insert(j, seq, pcm))
<1>1. PICK arrived : arrived = [seq |-> seq, pcm |-> pcm] OBVIOUS
<1>2. arrived.seq \in Int /\ arrived.pcm \in Nat BY <1>1
<1>3. CASE InsertOutcome(j, seq) = "anchored"
  <2>1. PICK f : f = [i \in {0} |-> arrived] OBVIOUS
  <2>2. PICK x : x = [j EXCEPT !.frames = f, !.expected = 0, !.anchor_index = 0, !.anchor_seq = seq] OBVIOUS
  <2>3. Insert(j, seq, pcm) = x BY <1>1, <1>3, <2>1, <2>2 DEF Insert
  <2>4. /\ DOMAIN x = BufferFields /\ x.frames = f /\ x.expected = 0 /\ x.anchor_index = 0 /\ x.anchor_seq = seq
        /\ x.target = j.target
    BY <2>2 DEF BufferOk, BufferFields
  <2>5. DOMAIN f = {0} /\ f[0] = arrived /\ IsFiniteSet({0}) BY <2>1, FS_Singleton
  <2>6. BufferOk(x) BY <1>2, <2>4, <2>5 DEF BufferOk, Unanchored
  <2> QED BY <2>3, <2>6
<1>4. CASE InsertOutcome(j, seq) = "buffered"
  <2>1. PICK slot : slot = IndexOf(j, seq) OBVIOUS
  <2>2. PICK f : f = [i \in DOMAIN j.frames \cup {slot} |-> IF i = slot THEN arrived ELSE j.frames[i]] OBVIOUS
  <2>3. PICK x : x = [j EXCEPT !.frames = f] OBVIOUS
  <2>4. Insert(j, seq, pcm) = x BY <1>1, <1>4, <2>1, <2>2, <2>3 DEF Insert, BufferOk, BufferFields
  <2>5. /\ DOMAIN x = BufferFields /\ x.frames = f /\ x.expected = j.expected /\ x.anchor_index = j.anchor_index
        /\ x.anchor_seq = j.anchor_seq /\ x.target = j.target
    BY <2>3 DEF BufferOk, BufferFields
  <2>6. slot \in Nat /\ slot >= j.expected /\ j.expected # Unanchored BY <1>4, <2>1, BufferedIndex DEF Anchors
  <2>7. IsFiniteSet(DOMAIN f) /\ DOMAIN f = DOMAIN j.frames \cup {slot} BY <2>2, FS_AddElement DEF BufferOk
  <2>8. \A i \in DOMAIN f : j.expected <= i /\ f[i].pcm \in Nat /\ f[i].seq \in Int /\ i \in Nat
    BY <1>2, <2>2, <2>6 DEF BufferOk
  <2>9. BufferOk(x) BY <2>5, <2>6, <2>7, <2>8 DEF BufferOk
  <2> QED BY <2>4, <2>9
<1>5. CASE InsertOutcome(j, seq) # "anchored" /\ InsertOutcome(j, seq) # "buffered" BY <1>5 DEF Insert
<1> QED BY <1>3, <1>4, <1>5

LEMMA LowestIs ==
    ASSUME NEW j, BufferOk(j), DOMAIN j.frames # {}
    PROVE  Lowest(j) \in DOMAIN j.frames /\ \A k \in DOMAIN j.frames : Lowest(j) <= k
<1>1. PICK S : S = DOMAIN j.frames OBVIOUS
<1>2. S \in SUBSET Nat /\ S # {} BY <1>1 DEF BufferOk
<1>3. PICK x : x = Lowest(j) OBVIOUS
<1>4. x = CHOOSE i \in S : \A k \in S : i <= k BY <1>1, <1>3 DEF Lowest
<1>5. x \in S /\ \A k \in S : x <= k BY <1>2, <1>4, LeastIs
<1> QED BY <1>1, <1>3, <1>5

Top(S, D) == \A i \in S, k \in D \ S : k < i

\* There are n newest frames, as long as there are n frames.
LEMMA NewestExist ==
    ASSUME NEW D \in SUBSET Nat, IsFiniteSet(D), NEW n \in Nat, n <= Cardinality(D)
    PROVE  \E S \in SUBSET D : Cardinality(S) = n /\ Top(S, D)
<1> DEFINE N == {m \in Nat : m <= Cardinality(D) => \E S \in SUBSET D : Cardinality(S) = Cardinality(D) - m /\ Top(S, D)}
<1>0. Cardinality(D) \in Nat BY FS_CardinalityType
<1>1. 0 \in N
  <2>1. D \in SUBSET D /\ Cardinality(D) = Cardinality(D) - 0 /\ Top(D, D) BY <1>0 DEF Top
  <2> QED BY <2>1
<1>2. ASSUME NEW m \in Nat, m \in N PROVE m + 1 \in N
  <2> SUFFICES ASSUME m + 1 <= Cardinality(D)
               PROVE  \E S \in SUBSET D : Cardinality(S) = Cardinality(D) - (m + 1) /\ Top(S, D)
    OBVIOUS
  <2>1. m <= Cardinality(D) BY <1>0
  <2>2. PICK S \in SUBSET D : Cardinality(S) = Cardinality(D) - m /\ Top(S, D) BY <1>2, <2>1
  <2>3. IsFiniteSet(S) /\ Cardinality(S) # 0
    <3>1. IsFiniteSet(S) BY FS_Subset
    <3>2. Cardinality(D) - m # 0 BY <1>0
    <3> QED BY <3>1, <3>2, <2>2
  <2>4. S # {} /\ S \in SUBSET Nat BY <2>3, FS_EmptySet
  <2>5. PICK x : x = CHOOSE i \in S : \A k \in S : i <= k OBVIOUS
  <2>6. x \in S /\ \A k \in S : x <= k BY <2>4, <2>5, LeastIs
  <2>7. Cardinality(S \ {x}) = Cardinality(S) - 1 BY <2>3, <2>6, FS_RemoveElement
  <2>8. Cardinality(S \ {x}) = Cardinality(D) - (m + 1) BY <1>0, <2>2, <2>7
  <2>9. Top(S \ {x}, D)
    <3> SUFFICES ASSUME NEW i \in S \ {x}, NEW k \in D \ (S \ {x}) PROVE k < i BY DEF Top
    <3>1. CASE k \in D \ S BY <3>1, <2>2 DEF Top
    <3>2. CASE k = x
      <4>1. x <= i /\ x # i /\ x \in Nat /\ i \in Nat BY <2>4, <2>6
      <4> QED BY <3>2, <4>1
    <3> QED BY <3>1, <3>2
  <2> QED BY <2>8, <2>9
<1>3. \A m \in Nat : m \in N
  <2> HIDE DEF N
  <2> QED BY <1>1, <1>2, ByInduction
<1>4. PICK m : m = Cardinality(D) - n OBVIOUS
<1>5. m \in Nat /\ m <= Cardinality(D) /\ Cardinality(D) - m = n BY <1>0, <1>4
<1> QED BY <1>3, <1>5

\* The frames of one buffer are among those of another.
Among(f, g) == DOMAIN f \subseteq DOMAIN g /\ \A i \in DOMAIN f : f[i] = g[i]

LEMMA CatchUpOk ==
    ASSUME NEW j, BufferOk(j), j.expected # Unanchored, NEW c, c = CatchUp(j)
    PROVE  /\ BufferOk(c) /\ Among(c.frames, j.frames)
           /\ \/ c = j
              \/ /\ c.expected \in DOMAIN c.frames
                 /\ c.anchor_seq = c.frames[c.expected].seq
<1>1. CASE Depth(j) <= j.target + CatchupSlack BY <1>1 DEF CatchUp, Among
<1>2. CASE ~(Depth(j) <= j.target + CatchupSlack)
  <2>1. PICK D : D = DOMAIN j.frames OBVIOUS
  <2>2. D \in SUBSET Nat /\ IsFiniteSet(D) /\ j.target \in Nat \ {0} /\ Depth(j) = Cardinality(D)
    BY <2>1 DEF BufferOk, Depth
  <2>3. Cardinality(D) \in Nat /\ j.target <= Cardinality(D)
    BY <1>2, <2>2, FS_CardinalityType, JitterAssumption, SMTT(30) DEF JitterAssumption
  <2>4. PICK newest : newest = CHOOSE S \in SUBSET D : Cardinality(S) = j.target /\ Top(S, D) OBVIOUS
  <2>5. newest \in SUBSET D /\ Cardinality(newest) = j.target /\ Top(newest, D)
    <3>1. \E S \in SUBSET D : Cardinality(S) = j.target /\ Top(S, D) BY <2>2, <2>3, NewestExist
    <3> QED BY <3>1, <2>4
  <2>6. newest # {} /\ IsFiniteSet(newest) BY <2>2, <2>5, FS_EmptySet, FS_Subset
  <2>7. PICK f : f = [i \in newest |-> j.frames[i]] OBVIOUS
  <2>8. PICK kept : kept = [j EXCEPT !.frames = f] OBVIOUS
  <2>9. /\ DOMAIN kept = BufferFields /\ kept.frames = f /\ kept.expected = j.expected /\ kept.target = j.target
        /\ kept.anchor_index = j.anchor_index /\ kept.anchor_seq = j.anchor_seq
    BY <2>8 DEF BufferOk, BufferFields
  <2>10. BufferOk(kept)
    <3>1. DOMAIN f = newest /\ \A i \in newest : i \in D /\ f[i] = j.frames[i] BY <2>5, <2>7
    <3> QED BY <3>1, <2>1, <2>2, <2>6, <2>9 DEF BufferOk
  <2>11. PICK head : head = Lowest(kept) OBVIOUS
  <2>12. head \in newest /\ \A k \in newest : head <= k
    <3>1. DOMAIN kept.frames = newest BY <2>7, <2>9
    <3> QED BY <3>1, <2>6, <2>10, <2>11, LowestIs
  <2>13. PICK x : x = [kept EXCEPT !.expected = head, !.anchor_index = head, !.anchor_seq = kept.frames[head].seq] OBVIOUS
  <2>14. c = x
    <3>1. newest = CHOOSE S \in SUBSET DOMAIN j.frames :
                     /\ Cardinality(S) = j.target
                     /\ \A i \in S, k \in DOMAIN j.frames \ S : k < i
      BY <2>1, <2>4, Zenon DEF Top
    <3>2. kept = Keep(j, newest) BY <2>7, <2>8 DEF Keep
    <3> QED BY <1>2, <3>1, <3>2, <2>11, <2>13, Zenon DEF CatchUp
  <2>15. /\ DOMAIN x = BufferFields /\ x.frames = f /\ x.expected = head /\ x.target = j.target
         /\ x.anchor_index = head /\ x.anchor_seq = f[head].seq
    BY <2>9, <2>13 DEF BufferFields
  <2>16. DOMAIN f = newest /\ \A i \in newest : i \in D /\ i \in Nat /\ f[i] = j.frames[i] BY <2>2, <2>5, <2>7
  <2>17. BufferOk(x)
    <3>1. head \in Nat /\ head # Unanchored /\ f[head].seq \in Int BY <2>1, <2>12, <2>16 DEF BufferOk, Unanchored
    <3>2. \A i \in newest : head <= i /\ f[i].pcm \in Nat /\ f[i].seq \in Int BY <2>1, <2>12, <2>16 DEF BufferOk
    <3> QED BY <3>1, <3>2, <2>2, <2>6, <2>15, <2>16 DEF BufferOk
  <2>18. Among(x.frames, j.frames) BY <2>1, <2>15, <2>16 DEF Among
  <2> QED BY <2>12, <2>14, <2>15, <2>16, <2>17, <2>18
<1> QED BY <1>1, <1>2

DeliverFields(x, j, pos) ==
    /\ DOMAIN x = BufferFields
    /\ DOMAIN x.frames = DOMAIN j.frames \ {pos} /\ \A i \in DOMAIN x.frames : x.frames[i] = j.frames[i]
    /\ x.expected = pos + 1 /\ x.anchor_index = pos + 1
    /\ x.anchor_seq = (j.frames[pos].seq + 1) % SeqModulus
    /\ x.target \in Nat \ {0}

LEMMA DeliverIs ==
    ASSUME NEW j, BufferOk(j), NEW pos \in DOMAIN j.frames
    PROVE  DeliverFields(Deliver(j, pos), j, pos)
<1>1. PICK f : f = [i \in DOMAIN j.frames \ {pos} |-> j.frames[i]] OBVIOUS
<1>2. PICK k : k = [j EXCEPT !.frames = f] OBVIOUS
<1>3. DOMAIN k = BufferFields /\ k.frames = f /\ k.target = j.target BY <1>2 DEF BufferOk, BufferFields
<1>4. PICK x : x = [k EXCEPT !.starve_run = 0, !.expected = pos + 1, !.anchor_index = pos + 1,
                             !.anchor_seq = (j.frames[pos].seq + 1) % SeqModulus] OBVIOUS
<1>5. Deliver(j, pos) = x BY <1>1, <1>2, <1>4 DEF Deliver, Keep
<1>6. /\ DOMAIN x = BufferFields /\ x.frames = f /\ x.expected = pos + 1 /\ x.anchor_index = pos + 1
      /\ x.anchor_seq = (j.frames[pos].seq + 1) % SeqModulus /\ x.target = j.target
  BY <1>3, <1>4 DEF BufferFields
<1>7. DeliverFields(x, j, pos) BY <1>1, <1>6 DEF DeliverFields, BufferOk
<1> QED BY <1>5, <1>7

LEMMA DeliveredOk ==
    ASSUME NEW j, BufferOk(j), NEW pos \in DOMAIN j.frames, \A k \in DOMAIN j.frames : pos <= k,
           NEW x, DeliverFields(x, j, pos)
    PROVE  BufferOk(x)
<1>1. pos \in Nat /\ j.frames[pos].seq \in Int /\ SeqModulus \in Nat \ {0}
  BY JitterAssumption DEF JitterAssumption, BufferOk
<1>2. (j.frames[pos].seq + 1) % SeqModulus \in Int BY <1>1
<1>3. IsFiniteSet(DOMAIN x.frames) /\ DOMAIN x.frames \subseteq DOMAIN j.frames
  BY FS_Subset DEF BufferOk, DeliverFields
<1>4. \A i \in DOMAIN x.frames : pos + 1 <= i
  <2> SUFFICES ASSUME NEW i \in DOMAIN x.frames PROVE pos + 1 <= i OBVIOUS
  <2>1. i \in Nat /\ pos <= i /\ i # pos BY <1>3 DEF BufferOk, DeliverFields
  <2> QED BY <2>1, <1>1
<1>5. pos + 1 \in Nat /\ pos + 1 # Unanchored BY <1>1 DEF Unanchored
<1> QED BY <1>2, <1>3, <1>4, <1>5 DEF BufferOk, DeliverFields

LEMMA CleanIs ==
    ASSUME NEW x, NEW j, NEW pos, DeliverFields(x, j, pos)
    PROVE  /\ DeliverFields(NoteClean(x), j, pos)
           /\ DeliverFields([x EXCEPT !.clean_run = 0], j, pos)
<1>1. MinTarget \in Nat \ {0} BY JitterAssumption DEF JitterAssumption
<1>2. ASSUME NEW n PROVE DeliverFields([x EXCEPT !.clean_run = n], j, pos)
  <2>1. PICK y : y = [x EXCEPT !.clean_run = n] OBVIOUS
  <2>2. /\ DOMAIN y = BufferFields /\ y.frames = x.frames /\ y.expected = x.expected /\ y.target = x.target
        /\ y.anchor_index = x.anchor_index /\ y.anchor_seq = x.anchor_seq
    BY <2>1 DEF DeliverFields, BufferFields
  <2>3. DeliverFields(y, j, pos) BY <2>2 DEF DeliverFields
  <2> QED BY <2>1, <2>3
<1>3. ASSUME NEW t \in Nat \ {0} PROVE DeliverFields([x EXCEPT !.clean_run = 0, !.target = t], j, pos)
  <2>1. PICK y : y = [x EXCEPT !.clean_run = 0, !.target = t] OBVIOUS
  <2>2. /\ DOMAIN y = BufferFields /\ y.frames = x.frames /\ y.expected = x.expected /\ y.target = t
        /\ y.anchor_index = x.anchor_index /\ y.anchor_seq = x.anchor_seq
    BY <2>1 DEF DeliverFields, BufferFields
  <2>3. DeliverFields(y, j, pos) BY <2>2 DEF DeliverFields
  <2> QED BY <2>1, <2>3
<1>4. PICK t : t = IF x.target > MinTarget THEN x.target - 1 ELSE x.target OBVIOUS
<1>5. t \in Nat \ {0} BY <1>1, <1>4 DEF DeliverFields
<1>6. NoteClean(x) = IF x.clean_run + 1 < LowerAfterClean THEN [x EXCEPT !.clean_run = x.clean_run + 1]
                     ELSE [x EXCEPT !.clean_run = 0, !.target = t]
  BY <1>4 DEF NoteClean, DeliverFields, BufferFields
<1> QED BY <1>2, <1>3, <1>5, <1>6

\* The head of x is that of j.
SameHead(x, j) == x.expected = j.expected /\ x.anchor_index = j.anchor_index /\ x.anchor_seq = j.anchor_seq

\* What one frame interval does: it plays nothing and leaves the head where it
\* is, steps over a lost frame before buffered ones, or plays a buffered frame.
AdvanceOk(r, j) ==
    /\ BufferOk(r.jitter) /\ Among(r.jitter.frames, j.frames)
    /\ \/ r.out.kind # "played" /\ SameHead(r.jitter, j)
       \/ /\ r.out.kind # "played" /\ \E i \in DOMAIN j.frames : i > j.expected
          /\ j.expected # Unanchored
          /\ r.jitter.expected = j.expected + 1
          /\ r.jitter.anchor_seq = (j.anchor_seq + 1) % SeqModulus
       \/ \E pos \in DOMAIN j.frames :
            /\ r.out.kind = "played" /\ r.out.pcm = j.frames[pos].pcm
            /\ r.jitter.expected = pos + 1
            /\ r.jitter.anchor_seq = (j.frames[pos].seq + 1) % SeqModulus

LEMMA Plays ==
    ASSUME NEW j, NEW c, BufferOk(c), Among(c.frames, j.frames), NEW pos \in DOMAIN c.frames,
           \A k \in DOMAIN c.frames : pos <= k,
           NEW x, DeliverFields(x, c, pos), NEW r, r = [jitter |-> x, out |-> Played(c.frames[pos])]
    PROVE  AdvanceOk(r, j)
<1>1. r.jitter = x /\ r.out.kind = "played" /\ r.out.pcm = c.frames[pos].pcm BY DEF Played
<1>2. BufferOk(x) BY DeliveredOk
<1>3. pos \in DOMAIN j.frames /\ c.frames[pos] = j.frames[pos] BY DEF Among
<1>4. Among(x.frames, j.frames) BY DEF Among, DeliverFields
<1>5. x.expected = pos + 1 /\ x.anchor_seq = (j.frames[pos].seq + 1) % SeqModulus BY <1>3 DEF DeliverFields
<1> QED BY <1>1, <1>2, <1>3, <1>4, <1>5 DEF AdvanceOk

LEMMA Conceals ==
    ASSUME NEW c, BufferOk(c), c.expected # Unanchored, c.expected \notin DOMAIN c.frames, DOMAIN c.frames # {},
           NEW r, r = [jitter |-> ConcealLoss(c), out |-> Concealed]
    PROVE  AdvanceOk(r, c)
<1>1. c.expected \in Nat /\ c.anchor_seq \in Int /\ SeqModulus \in Nat \ {0}
  BY JitterAssumption DEF JitterAssumption, BufferOk
<1>2. (c.anchor_seq + 1) % SeqModulus \in Int BY <1>1
<1>3. PICK x : x = [c EXCEPT !.clean_run = 0, !.expected = c.expected + 1, !.anchor_index = c.expected + 1,
                             !.anchor_seq = (c.anchor_seq + 1) % SeqModulus] OBVIOUS
<1>4. ConcealLoss(c) = x BY <1>3 DEF ConcealLoss, BufferOk, BufferFields
<1>5. /\ DOMAIN x = BufferFields /\ x.frames = c.frames /\ x.expected = c.expected + 1 /\ x.target = c.target
      /\ x.anchor_index = c.expected + 1 /\ x.anchor_seq = (c.anchor_seq + 1) % SeqModulus
  BY <1>3 DEF BufferOk, BufferFields
<1>6. \A i \in DOMAIN c.frames : c.expected + 1 <= i /\ i > c.expected
  <2> SUFFICES ASSUME NEW i \in DOMAIN c.frames PROVE c.expected + 1 <= i /\ i > c.expected OBVIOUS
  <2>1. i \in Nat /\ c.expected <= i /\ i # c.expected BY DEF BufferOk
  <2> QED BY <1>1, <2>1
<1>7. BufferOk(x) BY <1>1, <1>2, <1>5, <1>6 DEF BufferOk, Unanchored
<1>8. r.jitter = x /\ r.out.kind # "played" BY <1>4 DEF Concealed
<1>9. \E i \in DOMAIN c.frames : i > c.expected BY <1>6
<1> QED BY <1>5, <1>7, <1>8, <1>9 DEF AdvanceOk, Among

LEMMA Rests ==
    ASSUME NEW c, BufferOk(c), NEW x, DOMAIN x = BufferFields, x.frames = c.frames, SameHead(x, c),
           x.target \in Nat \ {0}, NEW r, r.jitter = x, r.out.kind # "played"
    PROVE  AdvanceOk(r, c)
<1>1. BufferOk(x) BY DEF BufferOk, SameHead
<1> QED BY <1>1 DEF AdvanceOk, Among

LEMMA Starves ==
    ASSUME NEW c, BufferOk(c), NEW r, r = [jitter |-> Starve(c), out |-> Concealed]
    PROVE  AdvanceOk(r, c)
<1>1. MaxTarget \in Nat \ {0} BY JitterAssumption DEF JitterAssumption
<1>2. PICK t : t = IF c.target + 1 < MaxTarget THEN c.target + 1 ELSE MaxTarget OBVIOUS
<1>3. t \in Nat \ {0} BY <1>1, <1>2 DEF BufferOk
<1>4. PICK x : x = Starve(c) OBVIOUS
<1>5. \/ x = [c EXCEPT !.clean_run = 0, !.starve_run = c.starve_run + 1]
      \/ x = [c EXCEPT !.clean_run = 0, !.starve_run = 0, !.primed = FALSE, !.target = t]
  BY <1>2, <1>4 DEF Starve, BufferOk, BufferFields
<1>6. DOMAIN x = BufferFields /\ x.frames = c.frames /\ SameHead(x, c) /\ x.target \in {c.target, t}
  BY <1>5 DEF BufferOk, BufferFields, SameHead
<1>7. x.target \in Nat \ {0} BY <1>3, <1>6 DEF BufferOk
<1>8. r.jitter = x /\ r.out.kind # "played" BY <1>4 DEF Concealed
<1> QED BY <1>6, <1>7, <1>8, Rests

LEMMA AdvanceIs ==
    ASSUME NEW j, BufferOk(j), NEW r, r = Advance(j)
    PROVE  AdvanceOk(r, j)
<1>1. CASE Priming(j)
  <2>1. r.jitter = j /\ r.out.kind # "played" BY <1>1 DEF Advance, Silence
  <2> QED BY <2>1 DEF AdvanceOk, Among, SameHead
<1>2. CASE ~Priming(j)
  <2>1. j.expected # Unanchored BY <1>2 DEF Priming
  <2>2. PICK k : k = [j EXCEPT !.primed = TRUE] OBVIOUS
  <2>3. DOMAIN k = BufferFields /\ k.frames = j.frames /\ SameHead(k, j) /\ k.target = j.target
    BY <2>2 DEF BufferOk, BufferFields, SameHead
  <2>4. BufferOk(k) /\ k.expected # Unanchored BY <2>1, <2>3 DEF BufferOk, SameHead
  <2>5. PICK c : c = CatchUp(k) OBVIOUS
  <2>6. /\ BufferOk(c) /\ Among(c.frames, k.frames)
        /\ c = k \/ (c.expected \in DOMAIN c.frames /\ c.anchor_seq = c.frames[c.expected].seq)
    BY <2>4, <2>5, CatchUpOk
  <2>7. Among(c.frames, j.frames) BY <2>3, <2>6
  <2>8. \A i \in DOMAIN c.frames : c.expected <= i BY <2>6 DEF BufferOk
  <2>a. PICK played : played = [jitter |-> NoteClean(Deliver(c, c.expected)), out |-> Played(c.frames[c.expected])] OBVIOUS
  <2>b. PICK stepped : stepped = IF Lowest(c) - c.expected >= ResyncGap
                THEN [jitter |-> [Deliver(c, Lowest(c)) EXCEPT !.clean_run = 0], out |-> Played(c.frames[Lowest(c)])]
                ELSE [jitter |-> ConcealLoss(c), out |-> Concealed] OBVIOUS
  <2>c. PICK starved : starved = [jitter |-> Starve(c), out |-> Concealed] OBVIOUS
  <2>d. r = CASE c.expected \in DOMAIN c.frames -> played
              [] c.expected \notin DOMAIN c.frames /\ Depth(c) > 0 -> stepped
              [] Depth(c) = 0 -> starved
    BY <1>2, <2>2, <2>5, <2>a, <2>b, <2>c, Zenon DEF Advance
  <2>e. Depth(c) \in Nat /\ (Depth(c) = 0 <=> DOMAIN c.frames = {})
    BY <2>6, FS_CardinalityType, FS_EmptySet DEF Depth, BufferOk
  <2>9. CASE c.expected \in DOMAIN c.frames
    <3>1. r = [jitter |-> NoteClean(Deliver(c, c.expected)), out |-> Played(c.frames[c.expected])]
      BY <2>9, <2>a, <2>d, <2>e
    <3>2. DeliverFields(NoteClean(Deliver(c, c.expected)), c, c.expected) BY <2>6, <2>9, DeliverIs, CleanIs
    <3> QED BY <2>6, <2>7, <2>8, <2>9, <3>1, <3>2, Plays
  <2>10. CASE c.expected \notin DOMAIN c.frames
    <3>1. c = k BY <2>6, <2>10
    <3>2. Depth(c) \in Nat /\ (Depth(c) = 0 <=> DOMAIN c.frames = {}) BY <2>e
    <3>3. CASE DOMAIN c.frames # {}
      <4>1. Depth(c) > 0 BY <3>2, <3>3
      <4>2. r = IF Lowest(c) - c.expected >= ResyncGap
                THEN [jitter |-> [Deliver(c, Lowest(c)) EXCEPT !.clean_run = 0], out |-> Played(c.frames[Lowest(c)])]
                ELSE [jitter |-> ConcealLoss(c), out |-> Concealed]
        BY <2>10, <2>b, <2>d, <4>1
      <4>3. CASE Lowest(c) - c.expected >= ResyncGap
        <5>1. Lowest(c) \in DOMAIN c.frames /\ \A i \in DOMAIN c.frames : Lowest(c) <= i BY <2>6, <3>3, LowestIs
        <5>2. DeliverFields([Deliver(c, Lowest(c)) EXCEPT !.clean_run = 0], c, Lowest(c))
          BY <2>6, <5>1, DeliverIs, CleanIs
        <5> QED BY <2>6, <2>7, <4>2, <4>3, <5>1, <5>2, Plays
      <4>4. CASE ~(Lowest(c) - c.expected >= ResyncGap)
        <5>1. AdvanceOk(r, c) BY <2>4, <2>6, <2>10, <3>1, <3>3, <4>2, <4>4, Conceals
        <5> QED BY <5>1, <3>1, <2>3 DEF AdvanceOk, SameHead
      <4> QED BY <4>3, <4>4
    <3>4. CASE DOMAIN c.frames = {}
      <4>1. r = [jitter |-> Starve(c), out |-> Concealed]
        BY <2>10, <2>c, <2>d, <3>2, <3>4
      <4>2. AdvanceOk(r, c) BY <2>6, <4>1, Starves
      <4> QED BY <4>2, <3>1, <2>3 DEF AdvanceOk, SameHead
    <3> QED BY <3>3, <3>4
  <2> QED BY <2>9, <2>10
<1> QED BY <1>1, <1>2

-----------------------------------------------------------------------------
(* Sequence numbers *)

LEMMA ModUnique ==
    ASSUME NEW M \in Nat \ {0}, NEW q \in Int, NEW r \in Int, NEW s \in Int, NEW t \in Int,
           0 <= r, r < M, 0 <= s, s < M, M * q + r = M * t + s
    PROVE  r = s
OBVIOUS

LEMMA ModSplit ==
    ASSUME NEW M \in Nat \ {0}, NEW x \in Int
    PROVE  /\ x % M \in Int /\ 0 <= x % M /\ x % M < M /\ x \div M \in Int
           /\ x = (M * (x \div M)) + (x % M)
OBVIOUS

LEMMA ModShift ==
    ASSUME NEW M \in Nat \ {0}, NEW x \in Int, NEW k \in Int
    PROVE  (x + (M * k)) % M = x % M
<1>1. PICK y : y = x + (M * k) OBVIOUS
<1>2. y \in Int BY <1>1
<1>3. PICK d : d = x \div M OBVIOUS
<1>4. PICK e : e = y \div M OBVIOUS
<1>5. PICK r : r = x % M OBVIOUS
<1>6. PICK s : s = y % M OBVIOUS
<1>7. d \in Int /\ r \in Int /\ 0 <= r /\ r < M /\ x = (M * d) + r BY <1>3, <1>5, ModSplit
<1>8. e \in Int /\ s \in Int /\ 0 <= s /\ s < M /\ y = (M * e) + s BY <1>2, <1>4, <1>6, ModSplit
<1>9. M * (d + k) = (M * d) + (M * k) BY <1>7
<1>10. (M * (d + k)) + r = (M * e) + s BY <1>1, <1>7, <1>8, <1>9
<1>11. d + k \in Int BY <1>7
<1>12. r = s BY <1>7, <1>8, <1>10, <1>11, ModUnique
<1> QED BY <1>1, <1>5, <1>6, <1>12

\* The number after, and the distance of two numbers, do not depend on the wraparound.
LEMMA ModNext ==
    ASSUME NEW M \in Nat \ {0}, NEW x \in Int
    PROVE  ((x % M) + 1) % M = (x + 1) % M
<1>1. PICK d : d = x \div M OBVIOUS
<1>2. PICK r : r = x % M OBVIOUS
<1>3. d \in Int /\ r \in Int /\ x = (M * d) + r BY <1>1, <1>2, ModSplit
<1>4. PICK z : z = r + 1 OBVIOUS
<1>5. z \in Int /\ x + 1 = z + (M * d) BY <1>3, <1>4
<1>6. (z + (M * d)) % M = z % M BY <1>3, <1>5, ModShift
<1> QED BY <1>2, <1>4, <1>5, <1>6

LEMMA ModDistance ==
    ASSUME NEW M \in Nat \ {0}, NEW x \in Int, NEW y \in Int
    PROVE  ((x % M) - (y % M)) % M = (x - y) % M
<1>1. PICK d : d = x \div M OBVIOUS
<1>2. PICK r : r = x % M OBVIOUS
<1>3. PICK e : e = y \div M OBVIOUS
<1>4. PICK s : s = y % M OBVIOUS
<1>5. d \in Int /\ r \in Int /\ x = (M * d) + r BY <1>1, <1>2, ModSplit
<1>6. e \in Int /\ s \in Int /\ y = (M * e) + s BY <1>3, <1>4, ModSplit
<1>7. PICK z : z = r - s OBVIOUS
<1>8. PICK k : k = d - e OBVIOUS
<1>9. M * k = (M * d) - (M * e) BY <1>5, <1>6, <1>8
<1>10. z \in Int /\ k \in Int /\ x - y = z + (M * k) BY <1>5, <1>6, <1>7, <1>8, <1>9
<1>11. (z + (M * k)) % M = z % M BY <1>10, ModShift
<1> QED BY <1>2, <1>4, <1>7, <1>10, <1>11

LEMMA ModSmall ==
    ASSUME NEW M \in Nat \ {0}, NEW d \in Int, d < M, -M <= d
    PROVE  d % M = IF d >= 0 THEN d ELSE d + M
<1>1. CASE d >= 0 BY <1>1
<1>2. CASE d < 0
  <2>1. (d + M) % M = d + M BY <1>2
  <2>2. PICK k \in Int : k = 1 OBVIOUS
  <2>3. (d + (M * k)) % M = d % M BY ModShift
  <2>4. M * k = M BY <2>2
  <2> QED BY <1>2, <2>1, <2>3, <2>4
<1> QED BY <1>1, <1>2

\* The index of a frame is its distance from the anchoring one.
LEMMA IndexTrue ==
    ASSUME NEW j, BufferOk(j), j.expected # Unanchored, NEW b \in Nat, NEW n \in Nat,
           j.anchor_seq = (FirstSeq + b + j.expected) % SeqModulus,
           n < MaxSent, b + j.expected <= MaxSent
    PROVE  IndexOf(j, (FirstSeq + n) % SeqModulus) = n - b
<1>1. PICK M : M = SeqModulus OBVIOUS
<1>2. /\ M \in Nat \ {0} /\ FirstSeq \in Nat /\ MaxSent \in Nat /\ Reorder \in Nat \ {0}
      /\ 2 * (MaxSent + Reorder) <= M
  BY <1>1, JitterAssumption DEF JitterAssumption
<1>3. PICK e : e = j.expected OBVIOUS
<1>4. e \in Nat /\ j.anchor_index = e BY <1>3 DEF BufferOk
<1>5. PICK d : d = n - (b + e) OBVIOUS
<1>6. d \in Int /\ (FirstSeq + n) - (FirstSeq + b + e) = d BY <1>2, <1>4, <1>5
<1>7. 2 * d < M /\ -M <= 2 * d /\ d < M /\ -M <= d BY <1>2, <1>3, <1>4, <1>5
<1>8. PICK delta : delta = (((FirstSeq + n) % M) - j.anchor_seq) % M OBVIOUS
<1>9. delta = d % M
  <2>1. FirstSeq + n \in Int /\ FirstSeq + b + e \in Int BY <1>2, <1>4
  <2>2. (((FirstSeq + n) % M) - ((FirstSeq + b + e) % M)) % M = ((FirstSeq + n) - (FirstSeq + b + e)) % M
    BY <1>2, <2>1, ModDistance
  <2> QED BY <2>2, <1>1, <1>3, <1>6, <1>8
<1>10. delta = IF d >= 0 THEN d ELSE d + M BY <1>2, <1>6, <1>7, <1>9, ModSmall
<1>11. (IF 2 * delta >= M THEN delta - M ELSE delta) = d BY <1>2, <1>6, <1>7, <1>10
<1>12. IndexOf(j, (FirstSeq + n) % SeqModulus) = e + d BY <1>1, <1>4, <1>8, <1>11 DEF IndexOf
<1> QED BY <1>4, <1>5, <1>12

-----------------------------------------------------------------------------
(* One stream *)

\* With the anchoring frame number b, every buffered frame sits at the index of
\* its number, the head waits for frame b + expected, and what was heard is before it.
StreamOk(j, b, n, h) ==
    /\ b \in Nat
    /\ \A i \in DOMAIN j.frames :
         /\ j.frames[i].pcm = b + i /\ j.frames[i].seq = (FirstSeq + b + i) % SeqModulus
         /\ b + i < n
    /\ j.expected # Unanchored =>
         j.anchor_seq = (FirstSeq + b + j.expected) % SeqModulus /\ b + j.expected <= n
    /\ \A k \in 1 .. Len(h) : j.expected # Unanchored /\ h[k] < b + j.expected

HeardOk(h) ==
    \/ h = <<>>
    \/ \E x \in Nat : h = <<x>>
    \/ \E x, y \in Nat : x < y /\ h = <<x, y>>

StreamInv ==
    /\ BufferOk(jitter) /\ HeardOk(heard)
    /\ sent \in Nat /\ sent <= MaxSent
    /\ \E b : StreamOk(jitter, b, sent, heard)

LEMMA StreamStarts == StreamInit => StreamInv
<1> SUFFICES ASSUME StreamInit PROVE StreamInv OBVIOUS
<1>1. BufferOk(jitter) BY NewBufferOk DEF StreamInit
<1>2. DOMAIN jitter.frames = {} /\ jitter.expected = Unanchored BY DEF StreamInit, NewBuffer, NoFrames
<1>3. StreamOk(jitter, 0, sent, heard) BY <1>2 DEF StreamOk, StreamInit
<1> QED BY <1>1, <1>3, JitterAssumption DEF StreamInv, StreamInit, HeardOk, JitterAssumption

LEMMA SendKeeps == ASSUME StreamInv, SendFrame PROVE StreamInv'
<1>1. PICK b : StreamOk(jitter, b, sent, heard) BY DEF StreamInv
<1>2. sent \in Nat /\ sent' = sent + 1 /\ sent' \in Nat /\ sent' <= MaxSent /\ jitter' = jitter /\ heard' = heard
  BY JitterAssumption DEF StreamInv, SendFrame, JitterAssumption
<1>3. StreamOk(jitter, b, sent', heard)
  <2>1. \A i \in DOMAIN jitter.frames : i \in Nat BY DEF StreamInv, BufferOk
  <2>2. jitter.expected # Unanchored => jitter.expected \in Nat BY DEF StreamInv, BufferOk
  <2> QED BY <1>1, <1>2, <2>1, <2>2 DEF StreamOk
<1> QED BY <1>2, <1>3 DEF StreamInv

LEMMA ReceiveKeeps ==
    ASSUME StreamInv, NEW n \in Nat, ReceiveFrame(n)
    PROVE  StreamInv'
<1>1. PICK b : StreamOk(jitter, b, sent, heard) BY DEF StreamInv
<1>2. PICK j : j = jitter OBVIOUS
<1>3. PICK seq : seq = (FirstSeq + n) % SeqModulus OBVIOUS
<1>4. /\ BufferOk(j) /\ n < sent /\ sent \in Nat /\ sent' = sent /\ sent <= MaxSent /\ b \in Nat
      /\ jitter' = Insert(j, seq, n)
  BY <1>1, <1>2, <1>3 DEF StreamInv, ReceiveFrame, StreamOk
<1>5. FirstSeq \in Nat /\ SeqModulus \in Nat \ {0} /\ MaxSent \in Nat BY JitterAssumption DEF JitterAssumption
<1>6. seq \in Int BY <1>3, <1>5
<1>7. BufferOk(jitter)' BY <1>4, <1>6, InsertOk
<1>8. CASE Anchors(j)
  <2>1. InsertOutcome(j, seq) = "anchored" BY <1>8 DEF InsertOutcome
  <2>2. PICK f : f = [i \in {0} |-> [seq |-> seq, pcm |-> n]] OBVIOUS
  <2>3. jitter' = [j EXCEPT !.frames = f, !.expected = 0, !.anchor_index = 0, !.anchor_seq = seq]
    BY <1>4, <2>1, <2>2 DEF Insert
  <2>4. jitter'.frames = f /\ jitter'.expected = 0 /\ jitter'.anchor_seq = seq
    BY <1>4, <2>3 DEF BufferOk, BufferFields
  <2>5. heard' = <<>> BY <1>2, <1>8 DEF ReceiveFrame
  <2>6. DOMAIN f = {0} /\ f[0].pcm = n /\ f[0].seq = seq BY <2>2
  <2>7. FirstSeq + n + 0 = FirstSeq + n /\ n + 0 = n BY <1>5
  <2>8. StreamOk(jitter', n, sent', heard')
    BY <1>3, <1>4, <2>4, <2>5, <2>6, <2>7 DEF StreamOk
  <2> QED BY <1>4, <1>7, <2>5, <2>8 DEF StreamInv, HeardOk
<1>9. CASE ~Anchors(j)
  <2>1. heard' = heard /\ j.expected # Unanchored BY <1>2, <1>9 DEF ReceiveFrame, Anchors
  <2>2. CASE InsertOutcome(j, seq) = "buffered"
    <3>1. PICK slot : slot = IndexOf(j, seq) OBVIOUS
    <3>2. slot = n - b /\ slot \in Nat
      <4>1. j.expected \in Nat BY <1>4, <2>1 DEF BufferOk
      <4>2. j.anchor_seq = (FirstSeq + b + j.expected) % SeqModulus /\ b + j.expected <= sent
        BY <1>1, <1>2, <2>1 DEF StreamOk
      <4>3. n < MaxSent /\ b + j.expected <= MaxSent BY <1>4, <1>5, <4>1, <4>2
      <4> QED BY <1>3, <1>4, <1>6, <2>1, <2>2, <3>1, <4>2, <4>3, IndexTrue, BufferedIndex
    <3>3. PICK arrived : arrived = [seq |-> seq, pcm |-> n] OBVIOUS
    <3>4. PICK f : f = [i \in DOMAIN j.frames \cup {slot} |-> IF i = slot THEN arrived ELSE j.frames[i]] OBVIOUS
    <3>5. jitter' = [j EXCEPT !.frames = f] BY <1>4, <2>2, <3>1, <3>3, <3>4 DEF Insert, BufferOk, BufferFields
    <3>6. jitter'.frames = f /\ jitter'.expected = j.expected /\ jitter'.anchor_seq = j.anchor_seq
      BY <1>4, <3>5 DEF BufferOk, BufferFields
    <3>7. b + slot = n /\ FirstSeq + b + slot = FirstSeq + n BY <1>4, <1>5, <3>2
    <3>8. \A i \in DOMAIN f : f[i].pcm = b + i /\ f[i].seq = (FirstSeq + b + i) % SeqModulus /\ b + i < sent
      <4> SUFFICES ASSUME NEW i \in DOMAIN f
                   PROVE  f[i].pcm = b + i /\ f[i].seq = (FirstSeq + b + i) % SeqModulus /\ b + i < sent
        OBVIOUS
      <4>1. CASE i = slot
        <5>1. f[i] = arrived BY <3>4, <4>1
        <5>2. arrived.pcm = n /\ arrived.seq = seq BY <3>3
        <5> QED BY <5>1, <5>2, <3>7, <4>1, <1>3, <1>4
      <4>2. CASE i # slot BY <4>2, <3>4, <1>1, <1>2 DEF StreamOk
      <4> QED BY <4>1, <4>2
    <3>9. StreamOk(jitter', b, sent', heard') BY <1>1, <1>2, <1>4, <2>1, <3>6, <3>8 DEF StreamOk
    <3> QED BY <1>4, <1>7, <2>1, <3>9 DEF StreamInv
  <2>3. CASE InsertOutcome(j, seq) # "buffered"
    <3>1. InsertOutcome(j, seq) # "anchored"
      <4>1. PICK x : x = IndexOf(j, seq) OBVIOUS
      <4>2. x \in Int /\ j.expected \in Int /\ MaxBuffer \in Nat
        BY <1>4, <1>6, <4>1, IndexType, JitterAssumption DEF JitterAssumption, BufferOk, Unanchored
      <4>3. CASE x < j.expected BY <1>9, <4>1, <4>2, <4>3 DEF InsertOutcome
      <4>4. CASE x - j.expected >= MaxBuffer BY <1>9, <4>1, <4>2, <4>4 DEF InsertOutcome
      <4>5. CASE ~(x < j.expected) /\ ~(x - j.expected >= MaxBuffer)
        <5>1. x \in j.expected .. (j.expected + MaxBuffer - 1) BY <4>2, <4>5
        <5> QED BY <1>9, <4>1, <4>2, <4>5, <5>1 DEF InsertOutcome
      <4> QED BY <4>3, <4>4, <4>5
    <3>2. jitter' = jitter BY <1>2, <1>4, <2>3, <3>1 DEF Insert
    <3> QED BY <1>1, <1>4, <1>7, <2>1, <3>2 DEF StreamInv
  <2> QED BY <2>2, <2>3
<1> QED BY <1>8, <1>9

\* A frame that is played comes after all that were heard.
LEMMA HeardGrows ==
    ASSUME NEW h, HeardOk(h), NEW pcm \in Nat, NEW m \in Nat, m <= pcm,
           \A k \in 1 .. Len(h) : h[k] < m,
           NEW g, g = IF h = <<>> THEN <<pcm>> ELSE <<h[Len(h)], pcm>>
    PROVE  HeardOk(g) /\ \A k \in 1 .. Len(g) : g[k] < pcm + 1
<1>1. CASE h = <<>>
  <2>1. g = <<pcm>> BY <1>1
  <2> QED BY <2>1 DEF HeardOk
<1>2. CASE h # <<>>
  <2>1. PICK x : x = h[Len(h)] OBVIOUS
  <2>2. Len(h) \in 1 .. Len(h) /\ x \in Nat
    <3>1. CASE \E y \in Nat : h = <<y>> BY <3>1, <2>1
    <3>2. CASE \E y, z \in Nat : h = <<y, z>> BY <3>2, <2>1
    <3> QED BY <1>2, <3>1, <3>2 DEF HeardOk
  <2>3. x < m BY <2>1, <2>2
  <2>4. x < pcm BY <2>2, <2>3
  <2>5. g = <<x, pcm>> BY <1>2, <2>1
  <2>6. HeardOk(g) BY <2>2, <2>4, <2>5 DEF HeardOk
  <2> QED BY <2>2, <2>4, <2>5, <2>6
<1> QED BY <1>1, <1>2

LEMMA AmongKeeps ==
    ASSUME NEW j, NEW x, NEW b, NEW n, NEW h, StreamOk(j, b, n, h), Among(x.frames, j.frames)
    PROVE  \A i \in DOMAIN x.frames :
             /\ x.frames[i].pcm = b + i /\ x.frames[i].seq = (FirstSeq + b + i) % SeqModulus
             /\ b + i < n
BY DEF StreamOk, Among

LEMMA PlayKeeps == ASSUME StreamInv, PlayFrame PROVE StreamInv'
<1>1. PICK b : StreamOk(jitter, b, sent, heard) BY DEF StreamInv
<1>2. PICK j : j = jitter OBVIOUS
<1>3. PICK n : n = sent OBVIOUS
<1>4. PICK h : h = heard OBVIOUS
<1>5. PICK r : r = Advance(j) OBVIOUS
<1>6. PICK x : x = r.jitter OBVIOUS
<1>7. PICK g : g = IF r.out.kind # "played" THEN h ELSE IF h = <<>> THEN <<r.out.pcm>> ELSE <<h[Len(h)], r.out.pcm>>
  OBVIOUS
<1>8. jitter' = x /\ heard' = g /\ sent' = n BY <1>2, <1>3, <1>4, <1>5, <1>6, <1>7 DEF PlayFrame
<1>9. BufferOk(j) /\ HeardOk(h) /\ n \in Nat /\ n <= MaxSent /\ StreamOk(j, b, n, h) /\ b \in Nat
  BY <1>1, <1>2, <1>3, <1>4 DEF StreamInv, StreamOk
<1>10. AdvanceOk(r, j) BY <1>5, <1>9, AdvanceIs
<1>11. BufferOk(x) /\ Among(x.frames, j.frames) BY <1>6, <1>10 DEF AdvanceOk
<1>12. \A i \in DOMAIN x.frames :
         x.frames[i].pcm = b + i /\ x.frames[i].seq = (FirstSeq + b + i) % SeqModulus /\ b + i < n
  BY <1>9, <1>11, AmongKeeps
<1>13. FirstSeq \in Nat /\ SeqModulus \in Nat \ {0} BY JitterAssumption DEF JitterAssumption
<1>14. CASE r.out.kind # "played" /\ SameHead(x, j)
  <2>1. g = h BY <1>7, <1>14
  <2>2. StreamOk(x, b, n, g) BY <1>9, <1>12, <1>14, <2>1 DEF StreamOk, SameHead
  <2> QED BY <1>8, <1>9, <1>11, <2>1, <2>2 DEF StreamInv
<1>15. CASE /\ r.out.kind # "played" /\ \E i \in DOMAIN j.frames : i > j.expected
            /\ j.expected # Unanchored /\ x.expected = j.expected + 1
            /\ x.anchor_seq = (j.anchor_seq + 1) % SeqModulus
  <2>1. g = h BY <1>7, <1>15
  <2>2. PICK i \in DOMAIN j.frames : i > j.expected BY <1>15
  <2>3. i \in Nat /\ b + i < n /\ j.expected \in Nat BY <1>9, <1>15 DEF BufferOk, StreamOk
  <2>4. b + x.expected <= n /\ x.expected \in Nat /\ x.expected # Unanchored
    BY <1>9, <1>15, <2>2, <2>3 DEF Unanchored
  <2>5. PICK a : a = FirstSeq + b + j.expected OBVIOUS
  <2>6. a \in Int /\ a + 1 = FirstSeq + b + x.expected BY <1>9, <1>13, <1>15, <2>3, <2>5
  <2>7. j.anchor_seq = a % SeqModulus BY <1>9, <1>15, <2>5 DEF StreamOk
  <2>8. x.anchor_seq = (FirstSeq + b + x.expected) % SeqModulus BY <1>13, <1>15, <2>6, <2>7, ModNext
  <2>9. \A k \in 1 .. Len(h) : h[k] < b + x.expected
    <3> SUFFICES ASSUME NEW k \in 1 .. Len(h) PROVE h[k] < b + x.expected OBVIOUS
    <3>1. h[k] < b + j.expected BY <1>9 DEF StreamOk
    <3>2. h[k] \in Nat
      <4>1. CASE \E y \in Nat : h = <<y>> BY <4>1
      <4>2. CASE \E y, z \in Nat : h = <<y, z>>
        <5>1. PICK y, z \in Nat : h = <<y, z>> BY <4>2
        <5>2. k \in 1 .. 2 BY <5>1
        <5>3. k = 1 \/ k = 2 BY <5>2
        <5> QED BY <5>1, <5>3
      <4>3. CASE h = <<>> BY <4>3
      <4> QED BY <4>1, <4>2, <4>3, <1>9 DEF HeardOk
    <3> QED BY <3>1, <3>2, <1>9, <1>15, <2>3
  <2>10. StreamOk(x, b, n, g) BY <1>9, <1>12, <2>1, <2>4, <2>8, <2>9 DEF StreamOk
  <2> QED BY <1>8, <1>9, <1>11, <2>1, <2>10 DEF StreamInv
<1>16. ASSUME NEW pos \in DOMAIN j.frames, r.out.kind = "played", r.out.pcm = j.frames[pos].pcm,
              x.expected = pos + 1, x.anchor_seq = (j.frames[pos].seq + 1) % SeqModulus
       PROVE  StreamInv'
  <2>1. PICK pcm : pcm = j.frames[pos].pcm OBVIOUS
  <2>2. pcm = b + pos /\ pos \in Nat /\ pcm \in Nat /\ pcm < n /\ j.expected <= pos
    BY <1>9, <2>1 DEF BufferOk, StreamOk
  <2>3. j.expected \in Nat BY <1>9 DEF BufferOk
  <2>4. PICK m : m = b + j.expected OBVIOUS
  <2>5. m \in Nat /\ m <= pcm BY <1>9, <2>2, <2>3, <2>4
  <2>6. \A k \in 1 .. Len(h) : h[k] < m BY <1>9, <2>4 DEF StreamOk
  <2>7. g = IF h = <<>> THEN <<pcm>> ELSE <<h[Len(h)], pcm>> BY <1>7, <1>16, <2>1
  <2>8. HeardOk(g) /\ \A k \in 1 .. Len(g) : g[k] < pcm + 1 BY <1>9, <2>2, <2>5, <2>6, <2>7, HeardGrows
  <2>9. x.expected # Unanchored /\ b + x.expected = pcm + 1 /\ b + x.expected <= n
    BY <1>9, <1>16, <2>2 DEF Unanchored
  <2>10. PICK a : a = FirstSeq + b + pos OBVIOUS
  <2>11. a \in Int /\ a + 1 = FirstSeq + b + x.expected BY <1>9, <1>13, <1>16, <2>2, <2>10
  <2>12. j.frames[pos].seq = a % SeqModulus BY <1>9, <2>10 DEF StreamOk
  <2>13. x.anchor_seq = (FirstSeq + b + x.expected) % SeqModulus BY <1>13, <1>16, <2>11, <2>12, ModNext
  <2>14. StreamOk(x, b, n, g) BY <1>9, <1>12, <2>8, <2>9, <2>13 DEF StreamOk
  <2> QED BY <1>8, <1>9, <1>11, <2>8, <2>14 DEF StreamInv
<1> QED BY <1>6, <1>10, <1>14, <1>15, <1>16 DEF AdvanceOk

(* Between two anchors of the buffer the consumer hears the sender's       *)
(* frames in the order they were said and none twice, for every length of  *)
(* the stream and every depth, gap and target of the buffer, across        *)
(* resyncs, catch-ups, loss steps and the wraparound of the sequence       *)
(* number (JitterBuffer::insert / advance / catch_up / deliver).           *)
THEOREM StreamPlaysInOrder == StreamSpec => []PlaysInOrder
<1>1. StreamInv /\ [StreamNext]_streamVars => StreamInv'
  <2> SUFFICES ASSUME StreamInv, [StreamNext]_streamVars PROVE StreamInv' OBVIOUS
  <2>1. CASE SendFrame BY <2>1, SendKeeps
  <2>2. ASSUME NEW n \in 0 .. (MaxSent - 1), ReceiveFrame(n) PROVE StreamInv'
    <3>1. n \in Nat BY JitterAssumption DEF JitterAssumption
    <3> QED BY <3>1, <2>2, ReceiveKeeps
  <2>3. CASE PlayFrame BY <2>3, PlayKeeps
  <2>4. CASE UNCHANGED streamVars BY <2>4 DEF StreamInv, streamVars
  <2> QED BY <2>1, <2>2, <2>3, <2>4 DEF StreamNext
<1>2. StreamInv => PlaysInOrder
  <2> SUFFICES ASSUME HeardOk(heard), Len(heard) = 2 PROVE heard[1] < heard[2] BY DEF StreamInv, PlaysInOrder
  <2>1. PICK h : h = heard OBVIOUS
  <2>2. CASE h = <<>> BY <2>1, <2>2
  <2>3. CASE \E x \in Nat : h = <<x>> BY <2>1, <2>3
  <2>4. CASE \E x, y \in Nat : x < y /\ h = <<x, y>> BY <2>1, <2>4
  <2> QED BY <2>1, <2>2, <2>3, <2>4 DEF HeardOk
<1> QED BY <1>1, <1>2, StreamStarts, PTL DEF StreamSpec

-----------------------------------------------------------------------------
(* Conference rooms *)

Lists(s) == s \in Seq({s[i] : i \in DOMAIN s})

LEMMA ListsFrom == ASSUME NEW S, NEW s \in Seq(S) PROVE Lists(s)
BY DEF Lists

LEMMA ListsAppend ==
    ASSUME NEW s, NEW e, Lists(s)
    PROVE  /\ Lists(Append(s, e)) /\ DOMAIN Append(s, e) = DOMAIN s \cup {Len(s) + 1}
           /\ Append(s, e)[Len(s) + 1] = e /\ \A i \in DOMAIN s : Append(s, e)[i] = s[i] /\ i # Len(s) + 1
<1>1. PICK S : S = {s[i] : i \in DOMAIN s} \cup {e} OBVIOUS
<1>2. s \in Seq(S) /\ e \in S BY <1>1 DEF Lists
<1>3. Append(s, e) \in Seq(S) BY <1>2
<1>4. Lists(Append(s, e)) BY <1>3, ListsFrom
<1>5. Len(s) \in Nat /\ DOMAIN s = 1 .. Len(s) /\ DOMAIN Append(s, e) = 1 .. Len(s) + 1 BY <1>2
<1>6. DOMAIN Append(s, e) = DOMAIN s \cup {Len(s) + 1} BY <1>5
<1> QED BY <1>2, <1>4, <1>5, <1>6

LEMMA ListsExcept ==
    ASSUME NEW s, NEW c, NEW x, Lists(s)
    PROVE  Lists([s EXCEPT ![c] = x])
<1>1. PICK S : S = {s[i] : i \in DOMAIN s} \cup {x} OBVIOUS
<1>2. s \in Seq(S) /\ x \in S BY <1>1 DEF Lists
<1>3. PICK u : u = [s EXCEPT ![c] = x] OBVIOUS
<1>4. Len(s) \in Nat /\ DOMAIN s = 1 .. Len(s) BY <1>2
<1>5. u \in [1 .. Len(s) -> S]
  <2>1. DOMAIN u = 1 .. Len(s) /\ u = [i \in DOMAIN u |-> u[i]] BY <1>3, <1>4
  <2>2. \A i \in 1 .. Len(s) : s[i] \in S BY <1>1, <1>4
  <2>3. \A i \in 1 .. Len(s) : u[i] \in S BY <1>2, <1>3, <1>4, <2>2
  <2> QED BY <2>1, <2>3
<1>6. u \in Seq(S) BY <1>4, <1>5
<1> QED BY <1>3, <1>6, ListsFrom

\* What one hears is the clipped sum of what the others said.
SaidBy(mix, S) == FoldSet(LAMBDA q, acc : acc + mix[q].said, 0, S)
MixOk(mix) == \A p \in DOMAIN mix : mix[p].heard = Clip(SaidBy(mix, DOMAIN mix \ {p}))

ConfFields == {"participants", "next", "ticking", "mix"}
MemberOk(m) == DOMAIN m = {"jitter", "queue"} /\ BufferOk(m.jitter)
ConfOk(conf) ==
    /\ DOMAIN conf = ConfFields /\ IsFiniteSet(DOMAIN conf.participants)
    /\ \A p \in DOMAIN conf.participants : MemberOk(conf.participants[p])
    /\ MixOk(conf.mix)

ConfsInv == Lists(confs) /\ registered \subseteq DOMAIN confs /\ \A c \in DOMAIN confs : ConfOk(confs[c])

SessionOk(s) ==
    /\ s.pc \in {"resolved", "fetched"} => DOMAIN s = {"pc", "conf"}
    /\ s.pc \in {"running", "stopping"} => DOMAIN s = {"pc", "conf", "participant"}
CallsInv ==
    /\ DOMAIN call = Calls
    /\ \A k \in Calls : DOMAIN call[k] = {"live", "session"} /\ SessionOk(call[k].session)
EgressInv == \A t \in egress : DOMAIN t = {"conf", "participant", "call", "failures"}

RoomsInv == ConfsInv /\ CallsInv /\ EgressInv /\ ParticipantsOwned

LEMMA FoldIsSaid ==
    ASSUME NEW m, NEW S \in SUBSET DOMAIN m, NEW f, \A q \in DOMAIN m : f[q] = m[q].said
    PROVE  SaidBy(m, S) = Sum(f, S)
<1>1. \A it : IsIter(it, f, S) <=>
        it = [s \in SUBSET S |-> IF s = {} THEN 0 ELSE it[s \ {Pick(s)}] + m[Pick(s)].said]
  <2> SUFFICES ASSUME NEW it
               PROVE  IsIter(it, f, S) <=>
                        it = [s \in SUBSET S |-> IF s = {} THEN 0 ELSE it[s \ {Pick(s)}] + m[Pick(s)].said]
    OBVIOUS
  <2>1. \A s \in SUBSET S : Added(it, f, s) = IF s = {} THEN 0 ELSE it[s \ {Pick(s)}] + m[Pick(s)].said
    BY PickIn DEF Added
  <2> QED BY <2>1 DEF IsIter
<1>2. Iter(f, S) = CHOOSE it : it = [s \in SUBSET S |-> IF s = {} THEN 0 ELSE it[s \ {Pick(s)}] + m[Pick(s)].said]
  BY <1>1, Zenon DEF Iter
<1> QED BY <1>2, Zenon DEF SaidBy, FoldSet, MapThenFoldSet, Sum, Pick

\* Mixing gives each participant the sum of the others.
LEMMA MixedOk ==
    ASSUME NEW D, IsFiniteSet(D), NEW f, DOMAIN f = D, \A p \in D : f[p] \in Nat,
           NEW m, m = [p \in D |-> [said |-> f[p], heard |-> LeaveOneOut(f, p)]]
    PROVE  MixOk(m)
<1> SUFFICES ASSUME NEW p \in D
             PROVE  m[p].heard = Clip(SaidBy(m, DOMAIN m \ {p}))
  BY DEF MixOk
<1>1. DOMAIN m = D /\ \A q \in D : m[q].said = f[q] /\ m[q].heard = LeaveOneOut(f, q) OBVIOUS
<1>2. PICK S : S = D \ {p} OBVIOUS
<1>3. S \in SUBSET DOMAIN m /\ \A q \in DOMAIN m : f[q] = m[q].said BY <1>1, <1>2
<1>4. SaidBy(m, S) = Sum(f, S) BY <1>3, FoldIsSaid
<1>5. Total(f) = Sum(f, D)
  <2>1. FoldSet(LAMBDA q, acc : acc + f[q], 0, D) = Sum(f, D) BY FoldIsSum
  <2> QED BY <2>1, Zenon DEF Total
<1>6. Numbers(f, D) BY DEF Numbers
<1>7. Sum(f, D) - f[p] = Sum(f, D \ {p}) BY <1>6, SumWithout
<1>8. m[p].heard = Clip(Sum(f, S)) BY <1>1, <1>2, <1>5, <1>7 DEF LeaveOneOut
<1> QED BY <1>1, <1>2, <1>4, <1>8

LEMMA NoMix == MixOk([p \in {} |-> 0])
BY DEF MixOk

LEMMA NewConferenceOk == ConfOk(NewConference) /\ DOMAIN NewConference.participants = {}
<1>1. /\ DOMAIN NewConference = ConfFields /\ NewConference.participants = [p \in {} |-> 0]
      /\ NewConference.mix = [p \in {} |-> 0]
  BY DEF NewConference, ConfFields
<1>2. DOMAIN NewConference.participants = {} BY <1>1
<1> QED BY <1>1, <1>2, FS_EmptySet, NoMix DEF ConfOk

\* A conference whose participants change and whose last mix stays.
LEMMA ParticipantsOk ==
    ASSUME NEW conf, ConfOk(conf), NEW f, IsFiniteSet(DOMAIN f), \A p \in DOMAIN f : MemberOk(f[p]),
           NEW x, DOMAIN x = ConfFields, x.participants = f, x.mix = conf.mix
    PROVE  ConfOk(x)
BY DEF ConfOk

LEMMA JoinedOk ==
    ASSUME NEW conf, ConfOk(conf)
    PROVE  ConfOk(Joined(conf)) /\ DOMAIN Joined(conf).participants = DOMAIN conf.participants \cup {conf.next}
<1>1. PICK f : f = [p \in DOMAIN conf.participants \cup {conf.next} |->
                      IF p = conf.next THEN Participant ELSE conf.participants[p]] OBVIOUS
<1>2. PICK x : x = [conf EXCEPT !.next = conf.next + 1, !.participants = f] OBVIOUS
<1>3. Joined(conf) = x BY <1>1, <1>2 DEF Joined, ConfOk, ConfFields
<1>4. DOMAIN x = ConfFields /\ x.participants = f /\ x.mix = conf.mix BY <1>2 DEF ConfOk, ConfFields
<1>5. MemberOk(Participant) BY NewBufferOk DEF MemberOk, Participant
<1>6. DOMAIN f = DOMAIN conf.participants \cup {conf.next} BY <1>1
<1>7. IsFiniteSet(DOMAIN f) BY <1>6, FS_AddElement DEF ConfOk
<1>8. \A p \in DOMAIN f : MemberOk(f[p]) BY <1>1, <1>5 DEF ConfOk
<1>9. ConfOk(x) BY <1>4, <1>7, <1>8, ParticipantsOk
<1> QED BY <1>3, <1>4, <1>6, <1>9

LEMMA LeftOk ==
    ASSUME NEW conf, NEW p, ConfOk(conf)
    PROVE  ConfOk(Left(conf, p)) /\ DOMAIN Left(conf, p).participants = DOMAIN conf.participants \ {p}
<1>1. PICK f : f = [q \in DOMAIN conf.participants \ {p} |-> conf.participants[q]] OBVIOUS
<1>2. PICK x : x = [conf EXCEPT !.participants = f] OBVIOUS
<1>3. Left(conf, p) = x BY <1>1, <1>2 DEF Left, ConfOk, ConfFields
<1>4. DOMAIN x = ConfFields /\ x.participants = f /\ x.mix = conf.mix BY <1>2 DEF ConfOk, ConfFields
<1>5. DOMAIN f = DOMAIN conf.participants \ {p} BY <1>1
<1>6. IsFiniteSet(DOMAIN f) BY <1>5, FS_RemoveElement DEF ConfOk
<1>7. \A q \in DOMAIN f : MemberOk(f[q]) BY <1>1 DEF ConfOk
<1>8. ConfOk(x) BY <1>4, <1>6, <1>7, ParticipantsOk
<1> QED BY <1>3, <1>4, <1>5, <1>8

\* One participant's record changes.
LEMMA MemberChanges ==
    ASSUME NEW conf, ConfOk(conf), NEW p \in DOMAIN conf.participants, NEW m, MemberOk(m),
           NEW x, x = [conf EXCEPT !.participants = [conf.participants EXCEPT ![p] = m]]
    PROVE  ConfOk(x) /\ DOMAIN x.participants = DOMAIN conf.participants
<1>1. PICK f : f = [conf.participants EXCEPT ![p] = m] OBVIOUS
<1>2. DOMAIN x = ConfFields /\ x.participants = f /\ x.mix = conf.mix BY <1>1 DEF ConfOk, ConfFields
<1>3. DOMAIN f = DOMAIN conf.participants /\ IsFiniteSet(DOMAIN f) BY <1>1 DEF ConfOk
<1>4. \A q \in DOMAIN f : MemberOk(f[q]) BY <1>1 DEF ConfOk
<1> QED BY <1>2, <1>3, <1>4, ParticipantsOk

LEMMA PushedOk ==
    ASSUME NEW conf, ConfOk(conf), NEW p, NEW seq \in Int
    PROVE  ConfOk(Pushed(conf, p, seq)) /\ DOMAIN Pushed(conf, p, seq).participants = DOMAIN conf.participants
<1>1. CASE p \notin DOMAIN conf.participants BY <1>1 DEF Pushed
<1>2. CASE p \in DOMAIN conf.participants
  <2>1. PICK m : m = conf.participants[p] OBVIOUS
  <2>2. MemberOk(m) BY <1>2, <2>1 DEF ConfOk
  <2>3. PICK n : n = [m EXCEPT !.jitter = Insert(m.jitter, seq, Loudest)] OBVIOUS
  <2>4. DOMAIN n = {"jitter", "queue"} /\ n.jitter = Insert(m.jitter, seq, Loudest) BY <2>2, <2>3 DEF MemberOk
  <2>5. Loudest \in Nat BY ConferenceAssumption DEF ConferenceAssumption
  <2>6. MemberOk(n) BY <2>2, <2>4, <2>5, InsertOk DEF MemberOk
  <2>7. Pushed(conf, p, seq) = [conf EXCEPT !.participants = [conf.participants EXCEPT ![p] = n]]
    BY <1>2, <2>1, <2>2, <2>3 DEF Pushed, ConfOk, ConfFields, MemberOk
  <2> QED BY <1>2, <2>6, <2>7, MemberChanges
<1> QED BY <1>1, <1>2

LEMMA DrainedOk ==
    ASSUME NEW conf, ConfOk(conf), NEW p
    PROVE  ConfOk(Drained(conf, p)) /\ DOMAIN Drained(conf, p).participants = DOMAIN conf.participants
<1>1. CASE p \notin DOMAIN conf.participants BY <1>1 DEF Drained
<1>2. CASE p \in DOMAIN conf.participants
  <2>1. PICK m : m = conf.participants[p] OBVIOUS
  <2>2. MemberOk(m) BY <1>2, <2>1 DEF ConfOk
  <2>3. PICK n : n = [m EXCEPT !.queue = IF m.queue = 0 THEN 0 ELSE m.queue - 1] OBVIOUS
  <2>4. MemberOk(n) BY <2>2, <2>3 DEF MemberOk
  <2>5. Drained(conf, p) = [conf EXCEPT !.participants = [conf.participants EXCEPT ![p] = n]]
    BY <1>2, <2>1, <2>2, <2>3 DEF Drained, ConfOk, ConfFields, MemberOk
  <2> QED BY <1>2, <2>4, <2>5, MemberChanges
<1> QED BY <1>1, <1>2

-----------------------------------------------------------------------------
(* Steps of the rooms *)

Holds(k, c, p) ==
    Session(k).pc \in {"running", "stopping"} /\ Session(k).conf = c /\ Session(k).participant = p
Owned(c, p) ==
    (\E k \in Calls : Holds(k, c, p)) \/ (\E t \in egress : t.conf = c /\ t.participant = p)

LEMMA OwnedIs == ParticipantsOwned <=> \A c \in registered : \A p \in Roster(c) : Owned(c, p)
BY DEF ParticipantsOwned, Owned, Holds

LEMMA OwnedIsNext == ParticipantsOwned' <=> \A c \in registered' : \A p \in Roster(c)' : Owned(c, p)'
BY DEF ParticipantsOwned, Owned, Holds

\* Who was there before and has his owner still, or has one now.
LEMMA OwnersStay ==
    ASSUME ParticipantsOwned,
           \A c \in registered' : \A p \in Roster(c)' :
             \/ c \in registered /\ p \in Roster(c) /\ (Owned(c, p) => Owned(c, p)')
             \/ Owned(c, p)'
    PROVE  ParticipantsOwned'
BY OwnedIs, OwnedIsNext

LEMMA ConfMoves ==
    ASSUME ConfsInv, NEW c, NEW x, c \in DOMAIN confs => ConfOk(x), confs' = [confs EXCEPT ![c] = x],
           registered' \subseteq registered
    PROVE  /\ ConfsInv'
           /\ \A d \in DOMAIN confs : Roster(d)' = IF d = c THEN DOMAIN x.participants ELSE Roster(d)
<1>1. Lists(confs)' BY ListsExcept DEF ConfsInv
<1>2. DOMAIN confs' = DOMAIN confs /\ \A d \in DOMAIN confs : confs'[d] = IF d = c THEN x ELSE confs[d] OBVIOUS
<1> QED BY <1>1, <1>2 DEF ConfsInv, Roster

LEMMA CreateMoves ==
    ASSUME ConfsInv, NEW id, Create(id)
    PROVE  /\ ConfsInv' /\ registered' = registered \cup {id} /\ Roster(id)' = {}
           /\ \A d \in registered : Roster(d)' = Roster(d)
<1>1. confs' = Append(confs, NewConference) /\ id = Len(confs) + 1 /\ registered' = registered \cup {id} BY DEF Create
<1>2. Lists(confs) BY DEF ConfsInv
<1>3. /\ Lists(confs)' /\ DOMAIN confs' = DOMAIN confs \cup {id} /\ confs'[id] = NewConference
      /\ \A d \in DOMAIN confs : confs'[d] = confs[d]
  BY <1>1, <1>2, ListsAppend
<1>4. ConfsInv' BY <1>1, <1>3, NewConferenceOk DEF ConfsInv
<1>5. Roster(id)' = {} BY <1>3, NewConferenceOk DEF Roster
<1>6. \A d \in registered : Roster(d)' = Roster(d) BY <1>3 DEF Roster, ConfsInv
<1> QED BY <1>1, <1>4, <1>5, <1>6

LEMMA SessionMoves ==
    ASSUME CallsInv, NEW k \in Calls, NEW s, SessionOk(s), SetSession(k, s)
    PROVE  /\ CallsInv' /\ Session(k)' = s /\ \A j \in Calls : j # k => Session(j)' = Session(j)
<1>1. call' = [call EXCEPT ![k] = [call[k] EXCEPT !.session = s]] BY DEF SetSession
<1>2. PICK r : r = [call[k] EXCEPT !.session = s] OBVIOUS
<1>3. DOMAIN r = {"live", "session"} /\ r.session = s BY <1>2 DEF CallsInv
<1>4. DOMAIN call' = Calls /\ call'[k] = r /\ \A j \in Calls : j # k => call'[j] = call[j]
  BY <1>1, <1>2 DEF CallsInv
<1> QED BY <1>3, <1>4 DEF CallsInv, Session

\* A session that owns nobody before and after leaves the owners alone.
LEMMA OwnersApart ==
    ASSUME NEW k \in Calls, ~(Session(k).pc \in {"running", "stopping"}), egress' = egress,
           \A j \in Calls : j # k => Session(j)' = Session(j)
    PROVE  \A c, p : Owned(c, p) => Owned(c, p)'
<1> SUFFICES ASSUME NEW c, NEW p, Owned(c, p) PROVE Owned(c, p)' OBVIOUS
<1>1. CASE \E t \in egress : t.conf = c /\ t.participant = p BY <1>1 DEF Owned
<1>2. CASE \E j \in Calls : Holds(j, c, p)
  <2>1. PICK j \in Calls : Holds(j, c, p) BY <1>2
  <2>2. j # k BY <2>1 DEF Holds
  <2>3. Session(j)' = Session(j) BY <2>2
  <2>4. Holds(j, c, p)' BY <2>1, <2>3 DEF Holds
  <2> QED BY <2>4 DEF Owned
<1> QED BY <1>1, <1>2 DEF Owned

LEMMA OwnersSame == ASSUME call' = call, egress' = egress PROVE \A c, p : Owned(c, p)' <=> Owned(c, p)
BY DEF Owned, Holds, Session

LEMMA RoomsStart == ConferenceInit => RoomsInv
<1> SUFFICES ASSUME ConferenceInit PROVE RoomsInv OBVIOUS
<1>1. confs = <<>> /\ registered = {} /\ egress = {} BY DEF ConferenceInit
<1>2. DOMAIN confs = {} /\ confs \in Seq({}) BY <1>1
<1>3. Lists(confs) BY <1>2, ListsFrom
<1>4. ConfsInv BY <1>1, <1>2, <1>3 DEF ConfsInv
<1>5. CallsInv BY DEF ConferenceInit, CallsInv, SessionOk, Idle
<1> QED BY <1>1, <1>4, <1>5 DEF RoomsInv, EgressInv, ParticipantsOwned

LEMMA DialKeeps == ASSUME RoomsInv, NEW k \in Calls, NEW r \in Rooms, DialRoom(k, r) PROVE RoomsInv'
<1>1. ~(Session(k).pc \in {"running", "stopping"}) BY DEF DialRoom, Idle
<1>2. \A c : SessionOk([pc |-> "resolved", conf |-> c]) BY DEF SessionOk
<1>3. PICK c : SetSession(k, [pc |-> "resolved", conf |-> c]) BY DEF DialRoom
<1>4. CallsInv' /\ \A j \in Calls : j # k => Session(j)' = Session(j) BY <1>2, <1>3, SessionMoves DEF RoomsInv
<1>5. EgressInv' /\ egress' = egress BY DEF DialRoom, RoomsInv, EgressInv
<1>6. \A d, p : Owned(d, p) => Owned(d, p)' BY <1>1, <1>4, <1>5, OwnersApart
<1>7. CASE UNCHANGED <<confs, registered>>
  <2>1. ConfsInv' /\ \A d : Roster(d)' = Roster(d) BY <1>7 DEF RoomsInv, ConfsInv, Roster
  <2>2. ParticipantsOwned' BY <1>6, <1>7, <2>1, OwnersStay DEF RoomsInv
  <2> QED BY <1>4, <1>5, <2>1, <2>2 DEF RoomsInv
<1>8. ASSUME NEW id, Create(id) PROVE RoomsInv'
  <2>1. /\ ConfsInv' /\ registered' = registered \cup {id} /\ Roster(id)' = {}
        /\ \A d \in registered : Roster(d)' = Roster(d)
    BY <1>8, CreateMoves DEF RoomsInv
  <2>2. ParticipantsOwned' BY <1>6, <2>1, OwnersStay DEF RoomsInv
  <2> QED BY <1>4, <1>5, <2>1, <2>2 DEF RoomsInv
<1> QED BY <1>7, <1>8 DEF DialRoom

LEMMA FetchKeeps == ASSUME RoomsInv, NEW k \in Calls, FetchHandle(k) PROVE RoomsInv'
<1>1. PICK t : t = Session(k) OBVIOUS
<1>2. t.pc = "resolved" /\ DOMAIN t = {"pc", "conf"}
  BY <1>1 DEF FetchHandle, RoomsInv, CallsInv, SessionOk, Session
<1>3. PICK s : s = IF t.conf \in registered THEN [t EXCEPT !.pc = "fetched"] ELSE [pc |-> "declined"] OBVIOUS
<1>4. SessionOk(s) BY <1>2, <1>3 DEF SessionOk
<1>5. SetSession(k, s) BY <1>1, <1>3 DEF FetchHandle
<1>6. CallsInv' /\ \A j \in Calls : j # k => Session(j)' = Session(j) BY <1>4, <1>5, SessionMoves DEF RoomsInv
<1>7. UNCHANGED <<confs, registered, egress>> BY DEF FetchHandle
<1>8. \A d, p : Owned(d, p) => Owned(d, p)' BY <1>1, <1>2, <1>6, <1>7, OwnersApart
<1>9. ConfsInv' /\ EgressInv' /\ \A d : Roster(d)' = Roster(d) BY <1>7 DEF RoomsInv, ConfsInv, EgressInv, Roster
<1>10. ParticipantsOwned' BY <1>7, <1>8, <1>9, OwnersStay DEF RoomsInv
<1> QED BY <1>6, <1>9, <1>10 DEF RoomsInv

LEMMA JoinKeeps == ASSUME RoomsInv, NEW k \in Calls, JoinRoom(k) PROVE RoomsInv'
<1>1. PICK c : c = Session(k).conf OBVIOUS
<1>2. PICK n : n = confs[c].next OBVIOUS
<1>3. PICK x : x = Joined(confs[c]) OBVIOUS
<1>4. PICK s : s = [pc |-> "running", conf |-> c, participant |-> n] OBVIOUS
<1>5. /\ Session(k).pc = "fetched" /\ confs' = [confs EXCEPT ![c] = x] /\ SetSession(k, s)
      /\ registered' = registered /\ egress' = egress
  BY <1>1, <1>2, <1>3, <1>4 DEF JoinRoom
<1>6. SessionOk(s) BY <1>4 DEF SessionOk
<1>7. CallsInv' /\ Session(k)' = s /\ \A j \in Calls : j # k => Session(j)' = Session(j)
  BY <1>5, <1>6, SessionMoves DEF RoomsInv
<1>8. \A d, p : Owned(d, p) => Owned(d, p)' BY <1>5, <1>7, OwnersApart
<1>9. c \in DOMAIN confs => ConfOk(x) /\ DOMAIN x.participants = Roster(c) \cup {n}
  BY <1>2, <1>3, JoinedOk DEF RoomsInv, ConfsInv, Roster
<1>10. /\ ConfsInv'
       /\ \A d \in DOMAIN confs : Roster(d)' = IF d = c THEN DOMAIN x.participants ELSE Roster(d)
  BY <1>5, <1>9, ConfMoves DEF RoomsInv
<1>11. Owned(c, n)'
  <2>1. Holds(k, c, n)' BY <1>4, <1>7 DEF Holds
  <2> QED BY <2>1 DEF Owned
<1>12. ParticipantsOwned'
  <2>1. registered \subseteq DOMAIN confs BY DEF RoomsInv, ConfsInv
  <2> SUFFICES ASSUME NEW d \in registered, NEW p \in Roster(d)'
               PROVE  (p \in Roster(d) /\ (Owned(d, p) => Owned(d, p)')) \/ Owned(d, p)'
    BY <1>5, OwnersStay DEF RoomsInv
  <2>2. p \in Roster(d) \/ (d = c /\ p = n) BY <1>9, <1>10, <2>1
  <2> QED BY <2>2, <1>8, <1>11
<1>13. EgressInv' BY <1>5 DEF RoomsInv, EgressInv
<1> QED BY <1>7, <1>10, <1>12, <1>13 DEF RoomsInv

\* A conference's record changes, not its roster.
LEMMA InsideKeeps ==
    ASSUME RoomsInv, NEW c, NEW x, c \in DOMAIN confs => ConfOk(x) /\ DOMAIN x.participants \subseteq Roster(c),
           confs' = [confs EXCEPT ![c] = x], registered' \subseteq registered, UNCHANGED <<call, egress>>
    PROVE  RoomsInv'
<1>1. /\ ConfsInv' /\ \A d \in DOMAIN confs : Roster(d)' = IF d = c THEN DOMAIN x.participants ELSE Roster(d)
  BY ConfMoves DEF RoomsInv
<1>2. \A d, p : Owned(d, p)' <=> Owned(d, p) BY OwnersSame
<1>3. registered \subseteq DOMAIN confs BY DEF RoomsInv, ConfsInv
<1>4. ParticipantsOwned' BY <1>1, <1>2, <1>3, OwnersStay DEF RoomsInv
<1>5. CallsInv' /\ EgressInv' BY DEF RoomsInv, CallsInv, EgressInv
<1> QED BY <1>1, <1>4, <1>5 DEF RoomsInv

LEMMA IngressKeeps == ASSUME RoomsInv, NEW k \in Calls, NEW seq \in 0 .. MaxSeq, Ingress(k, seq) PROVE RoomsInv'
<1>0. seq \in Int OBVIOUS
<1>1. PICK c : c = Session(k).conf OBVIOUS
<1>2. PICK x : x = Pushed(confs[c], Session(k).participant, seq) OBVIOUS
<1>3. confs' = [confs EXCEPT ![c] = x] BY <1>1, <1>2 DEF Ingress
<1>4. c \in DOMAIN confs => ConfOk(x) /\ DOMAIN x.participants \subseteq Roster(c)
  BY <1>0, <1>2, PushedOk DEF RoomsInv, ConfsInv, Roster
<1> QED BY <1>3, <1>4, InsideKeeps DEF Ingress

LEMMA SessionEgressKeeps == ASSUME RoomsInv, NEW k \in Calls, SessionEgress(k) PROVE RoomsInv'
<1>1. PICK c : c = Session(k).conf OBVIOUS
<1>2. PICK x : x = Drained(confs[c], Session(k).participant) OBVIOUS
<1>3. confs' = [confs EXCEPT ![c] = x] BY <1>1, <1>2 DEF SessionEgress
<1>4. c \in DOMAIN confs => ConfOk(x) /\ DOMAIN x.participants \subseteq Roster(c)
  BY <1>2, DrainedOk DEF RoomsInv, ConfsInv, Roster
<1> QED BY <1>3, <1>4, InsideKeeps DEF SessionEgress

LEMMA ShutdownKeeps == ASSUME RoomsInv, NEW c \in DOMAIN confs, ShutdownConference(c) PROVE RoomsInv'
<1>1. PICK conf : conf = confs[c] OBVIOUS
<1>2. ConfOk(conf) BY <1>1 DEF RoomsInv, ConfsInv
<1>3. PICK x : x = [conf EXCEPT !.ticking = FALSE] OBVIOUS
<1>4. confs' = [confs EXCEPT ![c] = x] BY <1>1, <1>3 DEF ShutdownConference
<1>5. DOMAIN x = ConfFields /\ x.participants = conf.participants /\ x.mix = conf.mix
  BY <1>2, <1>3 DEF ConfOk, ConfFields
<1>6. ConfOk(x) BY <1>2, <1>5 DEF ConfOk
<1>7. DOMAIN x.participants \subseteq Roster(c) BY <1>1, <1>5 DEF Roster
<1>8. registered' \subseteq registered BY DEF ShutdownConference
<1> QED BY <1>4, <1>6, <1>7, <1>8, InsideKeeps DEF ShutdownConference

LEMMA LeaveToolKeeps == ASSUME RoomsInv, NEW c \in DOMAIN confs, NEW p, LeaveTool(c, p) PROVE RoomsInv'
<1>1. PICK x : x = Left(confs[c], p) OBVIOUS
<1>2. confs' = [confs EXCEPT ![c] = x] BY <1>1 DEF LeaveTool, RegistryLeave
<1>3. ConfOk(x) /\ DOMAIN x.participants \subseteq Roster(c) BY <1>1, LeftOk DEF RoomsInv, ConfsInv, Roster
<1> QED BY <1>2, <1>3, InsideKeeps DEF LeaveTool

LEMMA TickKeeps == ASSUME RoomsInv, NEW c \in DOMAIN confs, Tick(c) PROVE RoomsInv'
<1>1. PICK conf : conf = confs[c] OBVIOUS
<1>2. ConfOk(conf) BY <1>1 DEF RoomsInv, ConfsInv
<1>3. PICK D : D = DOMAIN conf.participants OBVIOUS
<1>4. D = Roster(c) /\ IsFiniteSet(D) BY <1>1, <1>2, <1>3 DEF Roster, ConfOk
<1>5. PICK step : step = [p \in D |-> Advance(conf.participants[p].jitter)] OBVIOUS
<1>6. PICK inputs : inputs = [p \in D |-> Amplitude(step[p].out)] OBVIOUS
<1>7. PICK f : f = [p \in D |-> [jitter |-> step[p].jitter,
                                  queue |-> IF conf.participants[p].queue < EgressCapacity
                                            THEN conf.participants[p].queue + 1 ELSE EgressCapacity]] OBVIOUS
<1>8. PICK m : m = [p \in D |-> [said |-> inputs[p], heard |-> LeaveOneOut(inputs, p)]] OBVIOUS
<1>9. PICK x : x = [conf EXCEPT !.participants = f, !.mix = m] OBVIOUS
<1>10. confs' = [confs EXCEPT ![c].participants = f, ![c].mix = m]
  BY <1>1, <1>4, <1>5, <1>6, <1>7, <1>8, Zenon DEF Tick
<1>11. confs' = [confs EXCEPT ![c] = x] BY <1>1, <1>9, <1>10
<1>12. \A p \in D : BufferOk(step[p].jitter) /\ inputs[p] \in Nat
  <2> SUFFICES ASSUME NEW p \in D PROVE BufferOk(step[p].jitter) /\ inputs[p] \in Nat OBVIOUS
  <2>1. PICK j : j = conf.participants[p].jitter OBVIOUS
  <2>2. PICK r : r = Advance(j) OBVIOUS
  <2>3. BufferOk(j) BY <1>2, <1>3, <2>1 DEF ConfOk, MemberOk
  <2>4. AdvanceOk(r, j) BY <2>2, <2>3, AdvanceIs
  <2>5. step[p] = r /\ inputs[p] = Amplitude(r.out) BY <1>5, <1>6, <2>1, <2>2
  <2>6. Amplitude(r.out) \in Nat
    <3>1. r.out.kind = "played" => r.out.pcm \in Nat BY <2>3, <2>4 DEF AdvanceOk, BufferOk
    <3> QED BY <3>1 DEF Amplitude
  <2> QED BY <2>4, <2>5, <2>6 DEF AdvanceOk
<1>13. DOMAIN x = ConfFields /\ x.participants = f /\ x.mix = m BY <1>2, <1>9 DEF ConfOk, ConfFields
<1>14. DOMAIN f = D /\ \A p \in D : MemberOk(f[p])
  <2> SUFFICES ASSUME NEW p \in D PROVE MemberOk(f[p]) BY <1>7
  <2>1. DOMAIN f[p] = {"jitter", "queue"} /\ f[p].jitter = step[p].jitter BY <1>7
  <2> QED BY <2>1, <1>12 DEF MemberOk
<1>15. MixOk(m)
  <2>1. DOMAIN inputs = D BY <1>6
  <2> QED BY <2>1, <1>4, <1>8, <1>12, MixedOk
<1>16. ConfOk(x) BY <1>4, <1>13, <1>14, <1>15 DEF ConfOk
<1>17. DOMAIN x.participants \subseteq Roster(c) BY <1>4, <1>13, <1>14
<1> QED BY <1>11, <1>16, <1>17, InsideKeeps DEF Tick

LEMMA HangUpKeeps == ASSUME RoomsInv, NEW k \in Calls, HangUp(k) PROVE RoomsInv'
<1>1. PICK t : t = Session(k) OBVIOUS
<1>2. PICK s : s = IF t.pc = "running" THEN [t EXCEPT !.pc = "stopping"] ELSE t OBVIOUS
<1>3. SessionOk(t) BY <1>1 DEF RoomsInv, CallsInv, Session
<1>4. SessionOk(s) /\ (t.pc = "running" => s.pc = "stopping" /\ s.conf = t.conf /\ s.participant = t.participant)
  BY <1>2, <1>3 DEF SessionOk
<1>5. PICK r : r = [call[k] EXCEPT !.live = FALSE, !.session = s] OBVIOUS
<1>6. DOMAIN call[k] = {"live", "session"} BY DEF RoomsInv, CallsInv
<1>7. DOMAIN r = {"live", "session"} /\ r.session = s BY <1>5, <1>6
<1>8. call' = [call EXCEPT ![k] = r]
  <2>1. call' = [call EXCEPT ![k].live = FALSE, ![k].session = s] BY <1>1, <1>2 DEF HangUp, Session, RoomsInv, CallsInv
  <2> QED BY <2>1, <1>5
<1>9. DOMAIN call' = Calls /\ call'[k] = r /\ \A j \in Calls : j # k => call'[j] = call[j]
  BY <1>8 DEF RoomsInv, CallsInv
<1>10. CallsInv' BY <1>4, <1>7, <1>9 DEF RoomsInv, CallsInv
<1>11. UNCHANGED <<confs, registered, egress>> /\ t.pc # "stopping" BY <1>1 DEF HangUp
<1>12. \A c, p : Owned(c, p) => Owned(c, p)'
  <2> SUFFICES ASSUME NEW c, NEW p, Owned(c, p) PROVE Owned(c, p)' OBVIOUS
  <2>1. CASE \E u \in egress : u.conf = c /\ u.participant = p BY <2>1, <1>11 DEF Owned
  <2>2. CASE \E j \in Calls : Holds(j, c, p)
    <3>1. PICK j \in Calls : Holds(j, c, p) BY <2>2
    <3>2. Holds(j, c, p)'
      <4>1. CASE j # k
        <5>1. Session(j)' = Session(j) BY <4>1, <1>9 DEF Session
        <5> QED BY <5>1, <3>1 DEF Holds
      <4>2. CASE j = k
        <5>1. Session(k)' = s BY <1>7, <1>9 DEF Session
        <5>2. t.pc = "running" /\ t.conf = c /\ t.participant = p BY <3>1, <4>2, <1>1, <1>11 DEF Holds
        <5> QED BY <5>1, <5>2, <4>2, <1>4 DEF Holds
      <4> QED BY <4>1, <4>2
    <3> QED BY <3>2 DEF Owned
  <2> QED BY <2>1, <2>2 DEF Owned
<1>13. ConfsInv' /\ EgressInv' /\ \A d : Roster(d)' = Roster(d)
  BY <1>11 DEF RoomsInv, ConfsInv, EgressInv, Roster
<1>14. ParticipantsOwned' BY <1>11, <1>12, <1>13, OwnersStay DEF RoomsInv
<1> QED BY <1>10, <1>13, <1>14 DEF RoomsInv

LEMMA StopsKeep == ASSUME RoomsInv, NEW k \in Calls, SessionStops(k) PROVE RoomsInv'
<1>1. PICK c : c = Session(k).conf OBVIOUS
<1>2. PICK n : n = Session(k).participant OBVIOUS
<1>3. PICK x : x = Left(confs[c], n) OBVIOUS
<1>4. PICK s : s = [pc |-> "stopped"] OBVIOUS
<1>5. confs' = [confs EXCEPT ![c] = x] /\ SetSession(k, s) /\ registered' = registered /\ egress' = egress
  BY <1>1, <1>2, <1>3, <1>4 DEF SessionStops
<1>6. SessionOk(s) BY <1>4 DEF SessionOk
<1>7. CallsInv' /\ \A j \in Calls : j # k => Session(j)' = Session(j) BY <1>5, <1>6, SessionMoves DEF RoomsInv
<1>8. c \in DOMAIN confs => ConfOk(x) /\ DOMAIN x.participants = Roster(c) \ {n}
  BY <1>3, LeftOk DEF RoomsInv, ConfsInv, Roster
<1>9. /\ ConfsInv' /\ \A d \in DOMAIN confs : Roster(d)' = IF d = c THEN DOMAIN x.participants ELSE Roster(d)
  BY <1>5, <1>8, ConfMoves DEF RoomsInv
<1>10. ASSUME NEW d, NEW p, ~(d = c /\ p = n), Owned(d, p) PROVE Owned(d, p)'
  <2>1. CASE \E u \in egress : u.conf = d /\ u.participant = p BY <2>1, <1>5 DEF Owned
  <2>2. CASE \E j \in Calls : Holds(j, d, p)
    <3>1. PICK j \in Calls : Holds(j, d, p) BY <2>2
    <3>2. j # k BY <3>1, <1>1, <1>2, <1>10 DEF Holds
    <3>3. Session(j)' = Session(j) BY <3>2, <1>7
    <3>4. Holds(j, d, p)' BY <3>1, <3>3 DEF Holds
    <3> QED BY <3>4 DEF Owned
  <2> QED BY <2>1, <2>2, <1>10 DEF Owned
<1>11. ParticipantsOwned'
  <2>1. registered \subseteq DOMAIN confs BY DEF RoomsInv, ConfsInv
  <2> SUFFICES ASSUME NEW d \in registered, NEW p \in Roster(d)'
               PROVE  p \in Roster(d) /\ (Owned(d, p) => Owned(d, p)')
    BY <1>5, OwnersStay DEF RoomsInv
  <2>2. p \in Roster(d) /\ ~(d = c /\ p = n) BY <1>8, <1>9, <2>1
  <2> QED BY <2>2, <1>10
<1>12. EgressInv' BY <1>5 DEF RoomsInv, EgressInv
<1> QED BY <1>7, <1>9, <1>11, <1>12 DEF RoomsInv

LEMMA CreateKeeps == ASSUME RoomsInv, CreateTool PROVE RoomsInv'
<1>1. PICK id : Create(id) BY DEF CreateTool
<1>2. /\ ConfsInv' /\ registered' = registered \cup {id} /\ Roster(id)' = {}
      /\ \A d \in registered : Roster(d)' = Roster(d)
  BY <1>1, CreateMoves DEF RoomsInv
<1>3. \A d, p : Owned(d, p)' <=> Owned(d, p) BY OwnersSame DEF CreateTool
<1>4. ParticipantsOwned' BY <1>2, <1>3, OwnersStay DEF RoomsInv
<1>5. CallsInv' /\ EgressInv' BY DEF CreateTool, RoomsInv, CallsInv, EgressInv
<1> QED BY <1>2, <1>4, <1>5 DEF RoomsInv

LEMMA NothingKeeps == ASSUME RoomsInv, UNCHANGED <<confs, registered, call, egress>> PROVE RoomsInv'
BY DEF RoomsInv, ConfsInv, CallsInv, EgressInv, ParticipantsOwned, Roster, Session

LEMMA JoinToolKeeps == ASSUME RoomsInv, JoinToolJoins PROVE RoomsInv'
<1>1. CASE UNCHANGED <<confs, egress>> BY <1>1, NothingKeeps DEF JoinToolJoins
<1>2. CASE ~UNCHANGED <<confs, egress>>
  <2>1. PICK c : c = joining.conf OBVIOUS
  <2>2. PICK n : n = confs[c].next OBVIOUS
  <2>3. PICK x : x = Joined(confs[c]) OBVIOUS
  <2>4. PICK t : t = [conf |-> c, participant |-> n, call |-> joining.call, failures |-> 0] OBVIOUS
  <2>5. /\ confs' = [confs EXCEPT ![c] = x] /\ egress' = egress \cup {t}
        /\ registered' = registered /\ call' = call
    BY <1>2, <2>1, <2>2, <2>3, <2>4 DEF JoinToolJoins
  <2>6. c \in DOMAIN confs => ConfOk(x) /\ DOMAIN x.participants = Roster(c) \cup {n}
    BY <2>2, <2>3, JoinedOk DEF RoomsInv, ConfsInv, Roster
  <2>7. /\ ConfsInv' /\ \A d \in DOMAIN confs : Roster(d)' = IF d = c THEN DOMAIN x.participants ELSE Roster(d)
    BY <2>5, <2>6, ConfMoves DEF RoomsInv
  <2>8. EgressInv' BY <2>4, <2>5 DEF RoomsInv, EgressInv
  <2>9. CallsInv' BY <2>5 DEF RoomsInv, CallsInv
  <2>10. Owned(c, n)' BY <2>4, <2>5 DEF Owned
  <2>11. \A d, p : Owned(d, p) => Owned(d, p)' BY <2>5 DEF Owned, Holds, Session
  <2>12. ParticipantsOwned'
    <3>1. registered \subseteq DOMAIN confs BY DEF RoomsInv, ConfsInv
    <3> SUFFICES ASSUME NEW d \in registered, NEW p \in Roster(d)'
                 PROVE  (p \in Roster(d) /\ (Owned(d, p) => Owned(d, p)')) \/ Owned(d, p)'
      BY <2>5, OwnersStay DEF RoomsInv
    <3>2. p \in Roster(d) \/ (d = c /\ p = n) BY <2>6, <2>7, <3>1
    <3> QED BY <3>2, <2>10, <2>11
  <2> QED BY <2>7, <2>8, <2>9, <2>12 DEF RoomsInv
<1> QED BY <1>1, <1>2

\* An egress task ends, and its participant is not in the room any more.
LEMMA TaskEndKeeps ==
    ASSUME RoomsInv, NEW t \in egress, egress' = egress \ {t}, UNCHANGED <<registered, call>>,
           ConfsInv', \A d \in registered : Roster(d)' = IF d = t.conf THEN Roster(d) \ {t.participant} ELSE Roster(d)
    PROVE  RoomsInv'
<1>1. CallsInv' /\ EgressInv' BY DEF RoomsInv, CallsInv, EgressInv
<1>2. ASSUME NEW d, NEW p, ~(d = t.conf /\ p = t.participant), Owned(d, p) PROVE Owned(d, p)'
  <2>1. CASE \E u \in egress : u.conf = d /\ u.participant = p BY <2>1, <1>2 DEF Owned
  <2>2. CASE \E j \in Calls : Holds(j, d, p) BY <2>2 DEF Owned, Holds, Session
  <2> QED BY <2>1, <2>2, <1>2 DEF Owned
<1>3. ParticipantsOwned'
  <2> SUFFICES ASSUME NEW d \in registered, NEW p \in Roster(d)'
               PROVE  p \in Roster(d) /\ (Owned(d, p) => Owned(d, p)')
    BY OwnersStay DEF RoomsInv
  <2>1. p \in Roster(d) /\ ~(d = t.conf /\ p = t.participant) OBVIOUS
  <2> QED BY <2>1, <1>2
<1> QED BY <1>1, <1>3 DEF RoomsInv

LEMMA RegistryLeaveMoves ==
    ASSUME RoomsInv, NEW c, NEW p, RegistryLeave(c, p), registered' = registered
    PROVE  ConfsInv' /\ \A d \in registered : Roster(d)' = IF d = c THEN Roster(d) \ {p} ELSE Roster(d)
<1>1. registered \subseteq DOMAIN confs BY DEF RoomsInv, ConfsInv
<1>2. CASE c \in registered
  <2>1. PICK x : x = Left(confs[c], p) OBVIOUS
  <2>2. confs' = [confs EXCEPT ![c] = x] BY <1>2, <2>1 DEF RegistryLeave
  <2>3. ConfOk(x) /\ DOMAIN x.participants = Roster(c) \ {p} BY <1>1, <1>2, <2>1, LeftOk DEF RoomsInv, ConfsInv, Roster
  <2> QED BY <1>1, <2>2, <2>3, ConfMoves DEF RoomsInv
<1>3. CASE c \notin registered
  <2>1. confs' = confs BY <1>3 DEF RegistryLeave
  <2> QED BY <1>3, <2>1 DEF RoomsInv, ConfsInv, Roster
<1> QED BY <1>2, <1>3

\* An egress task goes on; it owns whom it owned.
LEMMA TaskMoves ==
    ASSUME RoomsInv, NEW t \in egress, NEW u, DOMAIN u = DOMAIN t, u.conf = t.conf, u.participant = t.participant,
           egress' = (egress \ {t}) \cup {u}, UNCHANGED <<registered, call>>,
           NEW x, t.conf \in DOMAIN confs => ConfOk(x) /\ DOMAIN x.participants \subseteq Roster(t.conf),
           confs' = [confs EXCEPT ![t.conf] = x]
    PROVE  RoomsInv'
<1>1. /\ ConfsInv'
      /\ \A d \in DOMAIN confs : Roster(d)' = IF d = t.conf THEN DOMAIN x.participants ELSE Roster(d)
  BY ConfMoves DEF RoomsInv
<1>2. CallsInv' /\ EgressInv' BY DEF RoomsInv, CallsInv, EgressInv
<1>3. ASSUME NEW d, NEW p, Owned(d, p) PROVE Owned(d, p)'
  <2>1. CASE \E v \in egress : v.conf = d /\ v.participant = p
    <3>1. PICK v \in egress : v.conf = d /\ v.participant = p BY <2>1
    <3>2. CASE v = t BY <3>1, <3>2 DEF Owned
    <3>3. CASE v # t BY <3>1, <3>3 DEF Owned
    <3> QED BY <3>2, <3>3
  <2>2. CASE \E j \in Calls : Holds(j, d, p) BY <2>2 DEF Owned, Holds, Session
  <2> QED BY <2>1, <2>2, <1>3 DEF Owned
<1>4. registered \subseteq DOMAIN confs BY DEF RoomsInv, ConfsInv
<1>5. ParticipantsOwned'
  <2> SUFFICES ASSUME NEW d \in registered, NEW p \in Roster(d)'
               PROVE  p \in Roster(d) /\ (Owned(d, p) => Owned(d, p)')
    BY OwnersStay DEF RoomsInv
  <2>1. p \in Roster(d) BY <1>1, <1>4
  <2> QED BY <2>1, <1>3
<1> QED BY <1>1, <1>2, <1>5 DEF RoomsInv

LEMMA SendsKeep == ASSUME RoomsInv, NEW t \in egress, EgressSends(t) PROVE RoomsInv'
<1>1. PICK x : x = Drained(confs[t.conf], t.participant) OBVIOUS
<1>2. t.conf \in DOMAIN confs => ConfOk(x) /\ DOMAIN x.participants \subseteq Roster(t.conf)
  BY <1>1, DrainedOk DEF RoomsInv, ConfsInv, Roster
<1>3. DOMAIN t = {"conf", "participant", "call", "failures"} BY DEF RoomsInv, EgressInv
<1>4. UNCHANGED <<registered, call>> BY DEF EgressSends
<1>5. ASSUME NEW n, egress' = (egress \ {t}) \cup {[t EXCEPT !.failures = n]},
             confs' = [confs EXCEPT ![t.conf] = Drained(@, t.participant)]
      PROVE  RoomsInv'
  <2>1. PICK u : u = [t EXCEPT !.failures = n] OBVIOUS
  <2>2. DOMAIN u = DOMAIN t /\ u.conf = t.conf /\ u.participant = t.participant BY <1>3, <2>1
  <2>3. confs' = [confs EXCEPT ![t.conf] = x] /\ egress' = (egress \ {t}) \cup {u} BY <1>1, <1>5, <2>1
  <2> QED BY <1>2, <1>4, <2>2, <2>3, TaskMoves
<1>6. ASSUME egress' = egress \ {t}, RegistryLeave(t.conf, t.participant) PROVE RoomsInv'
  BY <1>4, <1>6, RegistryLeaveMoves, TaskEndKeeps
<1>7. \/ \E n : /\ egress' = (egress \ {t}) \cup {[t EXCEPT !.failures = n]}
                /\ confs' = [confs EXCEPT ![t.conf] = Drained(@, t.participant)]
      \/ egress' = egress \ {t} /\ RegistryLeave(t.conf, t.participant)
  BY <1>3 DEF EgressSends
<1> QED BY <1>5, <1>6, <1>7

LEMMA DetachesKeep == ASSUME RoomsInv, NEW t \in egress, EgressDetaches(t) PROVE RoomsInv'
BY RegistryLeaveMoves, TaskEndKeeps DEF EgressDetaches

LEMMA ClosesKeep == ASSUME RoomsInv, NEW t \in egress, EgressCloses(t) PROVE RoomsInv'
<1>1. UNCHANGED <<confs, registered, call>> /\ egress' = egress \ {t} /\ t.participant \notin Roster(t.conf)
  BY DEF EgressCloses
<1>2. ConfsInv' BY <1>1 DEF RoomsInv, ConfsInv
<1>3. \A d \in registered : Roster(d)' = IF d = t.conf THEN Roster(d) \ {t.participant} ELSE Roster(d)
  BY <1>1 DEF Roster
<1> QED BY <1>1, <1>2, <1>3, TaskEndKeeps

(* For every number of calls, rooms, conferences and participants and      *)
(* every loudness: each participant hears the clipped sum of the others    *)
(* and nothing of his own, and nobody stays in a registered conference     *)
(* when his session or egress task is over (Mixer, tick_once,              *)
(* ConferenceParticipantSession::stop, join_conference, leave, shutdown).  *)
THEOREM RoomsAreSound == ConferenceSpec => []RoomsSound
<1>1. RoomsInv /\ [ConferenceNext]_confVars => RoomsInv'
  <2> SUFFICES ASSUME RoomsInv, [ConferenceNext]_confVars PROVE RoomsInv' OBVIOUS
  <2>1. ASSUME NEW k \in Calls, NEW r \in Rooms, DialRoom(k, r) PROVE RoomsInv' BY <2>1, DialKeeps
  <2>2. ASSUME NEW k \in Calls, FetchHandle(k) PROVE RoomsInv' BY <2>2, FetchKeeps
  <2>3. ASSUME NEW k \in Calls, JoinRoom(k) PROVE RoomsInv' BY <2>3, JoinKeeps
  <2>4. ASSUME NEW k \in Calls, SessionEgress(k) PROVE RoomsInv' BY <2>4, SessionEgressKeeps
  <2>5. ASSUME NEW k \in Calls, HangUp(k) PROVE RoomsInv' BY <2>5, HangUpKeeps
  <2>6. ASSUME NEW k \in Calls, SessionStops(k) PROVE RoomsInv' BY <2>6, StopsKeep
  <2>7. ASSUME NEW k \in Calls, NEW seq \in 0 .. MaxSeq, Ingress(k, seq) PROVE RoomsInv' BY <2>7, IngressKeeps
  <2>8. CASE CreateTool BY <2>8, CreateKeeps
  <2>9. ASSUME NEW c, NEW k, JoinToolLooksUp(c, k) PROVE RoomsInv' BY <2>9, NothingKeeps DEF JoinToolLooksUp
  <2>10. CASE JoinToolJoins BY <2>10, JoinToolKeeps
  <2>11. ASSUME NEW c \in DOMAIN confs, Tick(c) PROVE RoomsInv' BY <2>11, TickKeeps
  <2>12. ASSUME NEW c \in DOMAIN confs, ShutdownConference(c) PROVE RoomsInv' BY <2>12, ShutdownKeeps
  <2>13. ASSUME NEW c \in DOMAIN confs, NEW p, LeaveTool(c, p) PROVE RoomsInv' BY <2>13, LeaveToolKeeps
  <2>14. ASSUME NEW t \in egress, EgressSends(t) PROVE RoomsInv' BY <2>14, SendsKeep
  <2>15. ASSUME NEW t \in egress, EgressDetaches(t) PROVE RoomsInv' BY <2>15, DetachesKeep
  <2>16. ASSUME NEW t \in egress, EgressCloses(t) PROVE RoomsInv' BY <2>16, ClosesKeep
  <2>17. CASE UNCHANGED confVars BY <2>17, NothingKeeps DEF confVars
  <2> QED BY <2>1, <2>2, <2>3, <2>4, <2>5, <2>6, <2>7, <2>8, <2>9, <2>10, <2>11, <2>12, <2>13, <2>14, <2>15,
             <2>16, <2>17 DEF ConferenceNext
<1>2. RoomsInv => RoomsSound
  <2> SUFFICES ASSUME RoomsInv PROVE HearsTheOthers BY DEF RoomsSound, RoomsInv
  <2> SUFFICES ASSUME NEW c \in DOMAIN confs, NEW p \in DOMAIN confs[c].mix
               PROVE  confs[c].mix[p].heard =
                        Clip(FoldSet(LAMBDA q, acc : acc + confs[c].mix[q].said, 0, DOMAIN confs[c].mix \ {p}))
    BY DEF HearsTheOthers
  <2>1. MixOk(confs[c].mix) BY DEF RoomsInv, ConfsInv, ConfOk
  <2>2. confs[c].mix[p].heard = Clip(SaidBy(confs[c].mix, DOMAIN confs[c].mix \ {p})) BY <2>1 DEF MixOk
  <2> QED BY <2>2, Zenon DEF SaidBy
<1> QED BY <1>1, <1>2, RoomsStart, PTL DEF ConferenceSpec

-----------------------------------------------------------------------------
(* The user store.                                                         *)

Credentials == [password : Passwords \cup {"none"}, ha1_md5 : Passwords \cup {"none"},
                ha1_sha256 : Passwords \cup {"none"}]

DiskType ==
    /\ disk \in [version : 0 .. 4, tables : SUBSET {1, 2, 3}, users : [Accounts -> Credentials],
                 rows : [Rows -> Nat]]
    /\ known \in [Accounts -> Passwords \cup {"none"}]
    /\ stored \in [Rows -> Nat]
    /\ writes \in Nat

(* A connection never believes in more migrations than the file has seen,  *)
(* and a connection that serves has seen them all.                         *)
ConnInv ==
    /\ conn \in [Openers -> {Unopened} \cup [phase : {"migrating", "open"}, done : 0 .. 3]]
    /\ \A o \in Openers :
         conn[o].phase # "closed" => conn[o].done <= disk.version /\ disk.version <= 3
    /\ \A o \in Openers : conn[o].phase = "open" => conn[o].done = 3

(* The open transaction is the next migration of the file as it is now.    *)
TxnInv ==
    txn # NoTxn =>
        \E o \in Openers :
            /\ conn[o].phase = "migrating" /\ conn[o].done < 3
            /\ disk.version = conn[o].done
            /\ txn = [by |-> o, copy |-> Migrated(conn[o].done + 1, disk)]

TablesInv == disk.tables = TablesOf(disk.version)

(* Before the first statement nobody is provisioned. *)
FreshInv == writes = 0 => \A a \in Accounts : disk.users[a] = Absent

SqliteInv == DiskType /\ ConnInv /\ TxnInv /\ TablesInv /\ FreshInv /\ UsersSurvive

LEMMA SqliteStarts == SqliteInit => SqliteInv
<1>1. ASSUME SqliteInit PROVE DiskType
    BY <1>1 DEF SqliteInit, DiskType, Credentials, Absent
<1>2. ASSUME SqliteInit PROVE ConnInv /\ TxnInv
    BY <1>2 DEF SqliteInit, ConnInv, TxnInv, Unopened
<1>3. ASSUME SqliteInit PROVE TablesInv /\ FreshInv /\ UsersSurvive
    BY <1>3 DEF SqliteInit, TablesInv, FreshInv, UsersSurvive, TablesOf, Absent, LookupFor, CurrentSchema
<1> QED BY <1>1, <1>2, <1>3 DEF SqliteInv

(* Nothing is read of the file but what the invariant speaks of. *)
LEMMA SqliteStutters == SqliteInv /\ UNCHANGED sqliteVars => SqliteInv'
BY DEF SqliteInv, sqliteVars, DiskType, ConnInv, TxnInv, TablesInv, FreshInv, UsersSurvive, LookupFor

LEMMA FindFileKeeps ==
    ASSUME NEW v \in 1 .. CurrentSchema + 1, NEW a \in Accounts, NEW p \in Passwords,
           SqliteInv, FindFile(v, a, p)
    PROVE  SqliteInv'
<1> USE DEF SqliteInv
<1>0. v \in 1 .. 4 BY DEF CurrentSchema
<1> DEFINE row == IF v <= 2 THEN [Absent EXCEPT !.password = p]
                  ELSE [password |-> "none", ha1_md5 |-> p, ha1_sha256 |-> p]
<1>a. row \in Credentials BY DEF Credentials, Absent
<1>b. row = IF v <= 2 THEN [password |-> p, ha1_md5 |-> "none", ha1_sha256 |-> "none"]
            ELSE [password |-> "none", ha1_md5 |-> p, ha1_sha256 |-> p]
    BY DEF Absent
<1>c. /\ disk' = [disk EXCEPT !.version = v, !.tables = TablesOf(v), !.users[a] = row]
      /\ known' = [known EXCEPT ![a] = p] /\ writes' = 1 /\ UNCHANGED stored
      /\ disk.version = 0
    BY DEF FindFile
<1>d. TablesOf(v) \in SUBSET {1, 2, 3} BY DEF TablesOf
<1> HIDE DEF row
<1>e. disk' = [version |-> v, tables |-> TablesOf(v), users |-> [disk.users EXCEPT ![a] = row],
               rows |-> disk.rows]
    BY <1>c DEF DiskType
<1>1. DiskType'
    BY <1>0, <1>a, <1>c, <1>d, <1>e DEF DiskType
<1>2. ConnInv' /\ TxnInv'
    BY DEF FindFile, ConnInv, TxnInv
<1>3. TablesInv'
    BY <1>0 DEF FindFile, TablesInv, DiskType
<1>4. UsersSurvive'
  <2>1. disk'.rows = stored' BY <1>c, <1>e DEF UsersSurvive
  <2>2. \A b \in Accounts : disk.users[b].password = known[b]
    BY <1>c DEF UsersSurvive
  <2>5. \A b \in Accounts : disk.users[b] = Absent
    BY DEF FindFile, FreshInv
  <2>3. CASE v <= 2
    BY <1>0, <1>3, <1>b, <1>c, <1>e, <2>1, <2>2, <2>3 DEF UsersSurvive, TablesInv, DiskType
  <2>4. CASE v >= 3
    BY <1>0, <1>3, <1>b, <1>c, <1>e, <2>1, <2>2, <2>4, <2>5
    DEF UsersSurvive, TablesInv, DiskType, LookupFor, Absent
  <2> QED BY <1>0, <2>3, <2>4
<1>5. FreshInv' BY <1>c DEF FreshInv
<1> QED BY <1>1, <1>2, <1>3, <1>4, <1>5

LEMMA OpenKeeps == ASSUME NEW o \in Openers, SqliteInv, Open(o) PROVE SqliteInv'
<1> USE DEF SqliteInv
<1>1. DiskType' /\ TablesInv' /\ FreshInv' /\ UsersSurvive'
    BY DEF Open, DiskType, TablesInv, FreshInv, UsersSurvive, LookupFor
<1>2. ConnInv'
    BY DEF Open, ConnInv, DiskType, CurrentSchema
<1>3. TxnInv'
    BY DEF Open, ConnInv, TxnInv
<1> QED BY <1>1, <1>2, <1>3

LEMMA BeginMigrationKeeps == ASSUME NEW o \in Openers, SqliteInv, BeginMigration(o) PROVE SqliteInv'
<1> USE DEF SqliteInv
<1>1. DiskType' /\ TablesInv' /\ FreshInv' /\ UsersSurvive'
    BY DEF BeginMigration, DiskType, TablesInv, FreshInv, UsersSurvive, LookupFor
<1>2. ConnInv'
    BY DEF BeginMigration, ConnInv, Unopened
<1>3. TxnInv'
  <2>1. CASE conn[o].done + 1 \in disk.tables
    BY <2>1 DEF BeginMigration, TxnInv
  <2>2. CASE conn[o].done + 1 \notin disk.tables
    <3>1. conn[o].phase = "migrating" /\ conn[o].done \in 0 .. 2 /\ disk.version \in 0 .. 3
          /\ conn[o].done <= disk.version
        BY DEF BeginMigration, ConnInv, Unopened, DiskType, CurrentSchema
    <3>2. disk.version = conn[o].done
        BY <2>2, <3>1 DEF TablesInv, TablesOf
    <3> QED BY <2>2, <3>1, <3>2 DEF BeginMigration, TxnInv
  <2> QED BY <2>1, <2>2
<1> QED BY <1>1, <1>2, <1>3

LEMMA BusyKeeps == ASSUME NEW o \in Openers, SqliteInv, Busy(o) PROVE SqliteInv'
<1> USE DEF SqliteInv
<1>1. DiskType' /\ TablesInv' /\ FreshInv' /\ UsersSurvive'
    BY DEF Busy, DiskType, TablesInv, FreshInv, UsersSurvive, LookupFor
<1>2. ConnInv'
    BY DEF Busy, ConnInv, Unopened
<1>3. TxnInv'
    BY DEF Busy, ConnInv, TxnInv, NoTxn
<1> QED BY <1>1, <1>2, <1>3

LEMMA CommitMigrationKeeps == ASSUME NEW o \in Openers, SqliteInv, CommitMigration(o) PROVE SqliteInv'
<1> USE DEF SqliteInv
<1>1. /\ conn[o].phase = "migrating" /\ conn[o].done \in 0 .. 2
      /\ disk.version = conn[o].done
      /\ txn.copy = Migrated(conn[o].done + 1, disk)
    BY AuthStoresAssumption DEF CommitMigration, TxnInv, NoTxn, ConnInv, Unopened
<1> DEFINE v == conn[o].done + 1
<1>2. v \in 1 .. 3 /\ disk.version = v - 1 BY <1>1
<1>3. disk' = [version |-> v, tables |-> disk.tables \cup {v},
               users |-> IF v = 3 THEN Hashed(disk.users) ELSE disk.users, rows |-> disk.rows]
    BY <1>1 DEF CommitMigration, Migrated, DiskType
<1>4. UNCHANGED <<known, stored, writes, crashes>> /\ txn' = NoTxn
    BY DEF CommitMigration
<1>5. DiskType'
    BY <1>2, <1>3, <1>4 DEF DiskType, Hashed, Credentials
<1>6. TablesInv'
    BY <1>2, <1>3 DEF TablesInv, TablesOf
<1>7. UsersSurvive'
  <2>1. disk'.rows = stored' /\ disk'.version = v
    BY <1>3, <1>4 DEF UsersSurvive
  <2>2. CASE v < 3
    BY <2>1, <2>2, <1>2, <1>3, <1>4, <1>6 DEF UsersSurvive, TablesInv
  <2>3. CASE v = 3
    BY <2>1, <2>3, <1>2, <1>3, <1>4, <1>6 DEF UsersSurvive, TablesInv, Hashed, LookupFor
  <2> QED BY <2>2, <2>3, <1>2
<1>8. conn' = [conn EXCEPT ![o].done = v]
    BY DEF CommitMigration
<1>9. ConnInv'
    BY <1>1, <1>2, <1>3, <1>8 DEF ConnInv, Unopened
<1>10. FreshInv'
    BY <1>3, <1>4 DEF FreshInv, Hashed, Absent
<1> QED BY <1>4, <1>5, <1>6, <1>7, <1>9, <1>10 DEF TxnInv

LEMMA OpenedKeeps == ASSUME NEW o \in Openers, SqliteInv, Opened(o) PROVE SqliteInv'
<1> USE DEF SqliteInv
<1>1. DiskType' /\ TablesInv' /\ FreshInv' /\ UsersSurvive'
    BY DEF Opened, DiskType, TablesInv, FreshInv, UsersSurvive, LookupFor
<1>2. ConnInv'
    BY DEF Opened, ConnInv, Unopened, CurrentSchema
<1>3. TxnInv'
    BY DEF Opened, ConnInv, TxnInv, CurrentSchema
<1> QED BY <1>1, <1>2, <1>3

(* A statement of a connection that serves finds the newest schema. *)
LEMMA WritersServe ==
    ASSUME NEW o \in Openers, SqliteInv, Writing(o)
    PROVE  disk.version = 3 /\ txn = NoTxn
BY DEF Writing, SqliteInv, ConnInv, DiskType, Unopened

LEMMA WritesKeep ==
    ASSUME NEW o \in Openers, SqliteInv, Writing(o),
           \/ \E a \in Accounts, p \in Passwords : UpsertUser(o, a, p)
           \/ \E a \in Accounts : DeleteUser(o, a)
           \/ \E r \in Rows : PutRow(o, r) \/ RemoveRows(o, {r}) \/ RemoveRows(o, Rows)
    PROVE  SqliteInv'
<1> USE DEF SqliteInv
<1>1. disk.version = 3 /\ txn = NoTxn BY WritersServe
<1>2. CASE \E a \in Accounts, p \in Passwords \cup {"none"} :
             /\ disk' = [disk EXCEPT !.users[a] = [password |-> "none", ha1_md5 |-> p, ha1_sha256 |-> p]]
             /\ known' = [known EXCEPT ![a] = p]
             /\ writes' = writes + 1 /\ UNCHANGED <<txn, conn, stored, crashes>>
  <2>1. PICK a \in Accounts, p \in Passwords \cup {"none"} :
             /\ disk' = [disk EXCEPT !.users[a] = [password |-> "none", ha1_md5 |-> p, ha1_sha256 |-> p]]
             /\ known' = [known EXCEPT ![a] = p]
             /\ writes' = writes + 1 /\ UNCHANGED <<txn, conn, stored, crashes>>
    BY <1>2
  <2>a. [password |-> "none", ha1_md5 |-> p, ha1_sha256 |-> p] \in Credentials BY DEF Credentials
  <2>2. DiskType' BY <2>1, <2>a DEF DiskType
  <2>3. ConnInv' /\ TxnInv' /\ TablesInv' /\ FreshInv'
    BY <1>1, <2>1 DEF DiskType, ConnInv, TxnInv, TablesInv, FreshInv
  <2>4. UsersSurvive'
    BY <1>1, <2>1 DEF DiskType, Credentials, UsersSurvive, LookupFor, CurrentSchema
  <2> QED BY <2>2, <2>3, <2>4
<1>3. CASE \E rs \in SUBSET Rows, n \in Nat :
             /\ disk' = [disk EXCEPT !.rows = [r \in Rows |-> IF r \in rs THEN n ELSE @[r]]]
             /\ stored' = [r \in Rows |-> IF r \in rs THEN n ELSE stored[r]]
             /\ writes' = writes + 1 /\ UNCHANGED <<txn, conn, known, crashes>>
  <2>1. PICK rs \in SUBSET Rows, n \in Nat :
             /\ disk' = [disk EXCEPT !.rows = [r \in Rows |-> IF r \in rs THEN n ELSE @[r]]]
             /\ stored' = [r \in Rows |-> IF r \in rs THEN n ELSE stored[r]]
             /\ writes' = writes + 1 /\ UNCHANGED <<txn, conn, known, crashes>>
    BY <1>3
  <2>2. DiskType' BY <2>1 DEF DiskType
  <2>3. ConnInv' /\ TxnInv' /\ TablesInv' /\ FreshInv'
    BY <1>1, <2>1 DEF DiskType, ConnInv, TxnInv, TablesInv, FreshInv
  <2>4. UsersSurvive'
    BY <1>1, <2>1 DEF DiskType, UsersSurvive, LookupFor
  <2> QED BY <2>2, <2>3, <2>4
<1>4. ASSUME NEW a \in Accounts, NEW p \in Passwords, UpsertUser(o, a, p) PROVE SqliteInv'
    BY <1>2, <1>4 DEF UpsertUser
<1>5. ASSUME NEW a \in Accounts, DeleteUser(o, a) PROVE SqliteInv'
    BY <1>2, <1>5 DEF DeleteUser, Absent
<1>6. ASSUME NEW r \in Rows, PutRow(o, r) PROVE SqliteInv'
  <2>1. disk.rows \in [Rows -> Nat] /\ stored \in [Rows -> Nat] /\ writes + 1 \in Nat BY DEF DiskType
  <2>2. /\ [disk.rows EXCEPT ![r] = writes + 1]
             = [q \in Rows |-> IF q \in {r} THEN writes + 1 ELSE disk.rows[q]]
        /\ [stored EXCEPT ![r] = writes + 1]
             = [q \in Rows |-> IF q \in {r} THEN writes + 1 ELSE stored[q]]
    BY <2>1
  <2>3. disk' = [disk EXCEPT !.rows = [q \in Rows |-> IF q \in {r} THEN writes + 1 ELSE @[q]]]
    BY <1>6, <2>2 DEF PutRow, DiskType
  <2>4. /\ stored' = [q \in Rows |-> IF q \in {r} THEN writes + 1 ELSE stored[q]]
        /\ writes' = writes + 1 /\ UNCHANGED <<txn, conn, known, crashes>>
    BY <1>6, <2>2 DEF PutRow
  <2>5. {r} \in SUBSET Rows OBVIOUS
  <2> QED BY <1>3, <2>1, <2>3, <2>4, <2>5
<1>7. ASSUME NEW rs \in SUBSET Rows, RemoveRows(o, rs) PROVE SqliteInv'
    BY <1>3, <1>7 DEF RemoveRows
<1>8. \A r \in Rows : {r} \in SUBSET Rows /\ Rows \in SUBSET Rows OBVIOUS
<1> QED BY <1>4, <1>5, <1>6, <1>7, <1>8

LEMMA CrashStoreKeeps == SqliteInv /\ CrashStore => SqliteInv'
BY DEF SqliteInv, CrashStore, DiskType, ConnInv, TxnInv, TablesInv, FreshInv, UsersSurvive, LookupFor, Unopened

LEMMA SqliteStepKeeps == SqliteInv /\ SqliteNext => SqliteInv'
<1> SUFFICES ASSUME SqliteInv, SqliteNext PROVE SqliteInv' OBVIOUS
<1>1. CASE CrashStore BY <1>1, CrashStoreKeeps
<1>2. CASE \E v \in 1 .. CurrentSchema + 1, a \in Accounts, p \in Passwords : FindFile(v, a, p)
    BY <1>2, FindFileKeeps
<1>3. ASSUME NEW o \in Openers, Open(o) \/ BeginMigration(o) \/ Busy(o) \/ CommitMigration(o) \/ Opened(o)
      PROVE  SqliteInv'
    BY <1>3, OpenKeeps, BeginMigrationKeeps, BusyKeeps, CommitMigrationKeeps, OpenedKeeps
<1>4. ASSUME NEW o \in Openers,
             \/ \E a \in Accounts, p \in Passwords : UpsertUser(o, a, p)
             \/ \E a \in Accounts : DeleteUser(o, a)
             \/ \E r \in Rows : PutRow(o, r) \/ RemoveRows(o, {r}) \/ RemoveRows(o, Rows)
      PROVE  SqliteInv'
  <2>1. Writing(o) BY <1>4 DEF UpsertUser, DeleteUser, PutRow, RemoveRows
  <2> QED BY <1>4, <2>1, WritesKeep
<1> QED BY <1>1, <1>2, <1>3, <1>4 DEF SqliteNext

-----------------------------------------------------------------------------
(* The recordings.                                                         *)

FilesType ==
    /\ wav \in [Recorded -> Nat]
    /\ putter \in [Recorders -> {Off} \cup [at : {"blob", "meta"}, call : Recorded, audio : Nat \ {0}]]
    /\ putsMade \in Nat

(* A put that has not listed its call yet has stored its audio, and only a *)
(* removal takes it away again.                                            *)
StoredFirst ==
    \A p \in Recorders : putter[p].at = "meta" =>
        wav[putter[p].call] # 0 \/ putter[p].call \in removed

RecordingInv == FilesType /\ StoredFirst /\ cid \subseteq Recorded /\ ListedHasAudio

LEMMA RecordingStarts == RecordingInit => RecordingInv
BY DEF RecordingInit, RecordingInv, FilesType, StoredFirst, ListedHasAudio, Off

LEMMA RecordingStutters == RecordingInv /\ UNCHANGED recordingVars => RecordingInv'
BY DEF recordingVars, RecordingInv, FilesType, StoredFirst, ListedHasAudio

LEMMA RecorderKeeps ==
    ASSUME NEW p \in Recorders, RecordingInv,
           \/ WriteBlob(p) \/ WriteMeta(p) \/ PutFails(p)
           \/ \E c \in Recorded : BeginPut(p, c)
    PROVE  RecordingInv'
<1> USE DEF RecordingInv
<1>1. ASSUME NEW c \in Recorded, BeginPut(p, c) PROVE RecordingInv'
  <2>1. FilesType' BY <1>1 DEF BeginPut, FilesType
  <2>2. StoredFirst' BY <1>1 DEF BeginPut, FilesType, StoredFirst
  <2> QED BY <1>1, <2>1, <2>2 DEF BeginPut, ListedHasAudio
<1>2. CASE WriteBlob(p)
  <2>1. putter[p] \in [at : {"blob", "meta"}, call : Recorded, audio : Nat \ {0}]
    BY <1>2 DEF WriteBlob, FilesType, Off
  <2>2. FilesType' BY <1>2, <2>1 DEF WriteBlob, FilesType
  <2>3. \A c \in Recorded : wav[c] # 0 => wav'[c] # 0
    BY <1>2, <2>1 DEF WriteBlob, FilesType
  <2>4. StoredFirst' BY <1>2, <2>1, <2>3 DEF WriteBlob, FilesType, StoredFirst, Off
  <2> QED BY <1>2, <2>2, <2>3, <2>4 DEF WriteBlob, ListedHasAudio
<1>3. CASE WriteMeta(p)
  <2>1. putter[p] \in [at : {"blob", "meta"}, call : Recorded, audio : Nat \ {0}]
    BY <1>3 DEF WriteMeta, FilesType, Off
  <2>2. FilesType' BY <1>3 DEF WriteMeta, FilesType
  <2>3. StoredFirst' BY <1>3 DEF WriteMeta, FilesType, StoredFirst, Off
  <2> QED BY <1>3, <2>1, <2>2, <2>3 DEF WriteMeta, ListedHasAudio, StoredFirst
<1>4. CASE PutFails(p)
  <2>1. FilesType' BY <1>4 DEF PutFails, FilesType
  <2>2. StoredFirst' BY <1>4 DEF PutFails, FilesType, StoredFirst, Off
  <2> QED BY <1>4, <2>1, <2>2 DEF PutFails, ListedHasAudio
<1> QED BY <1>1, <1>2, <1>3, <1>4

(* Whoever takes the audio away says so. *)
LEMMA RemovalKeeps ==
    ASSUME RecordingInv, NEW c,
           wav' = [wav EXCEPT ![c] = 0], removed' = removed \cup {c},
           UNCHANGED <<cid, putter, putsMade>>
    PROVE  RecordingInv'
<1> USE DEF RecordingInv
<1>1. FilesType' BY DEF FilesType
<1>2. \A x \in Recorded : wav'[x] = wav[x] \/ x \in removed'
    BY DEF FilesType
<1>3. \A p \in Recorders : putter[p].at = "meta" => putter[p].call \in Recorded
    BY DEF FilesType, Off
<1>4. StoredFirst' BY <1>2, <1>3 DEF StoredFirst
<1>5. ListedHasAudio' BY <1>2 DEF ListedHasAudio
<1> QED BY <1>1, <1>4, <1>5

LEMMA RecordingStepKeeps == RecordingInv /\ RecordingNext => RecordingInv'
<1> SUFFICES ASSUME RecordingInv, RecordingNext PROVE RecordingInv' OBVIOUS
<1>0. ASSUME UNCHANGED <<wav, removed, putter, putsMade>>, cid' \subseteq cid PROVE RecordingInv'
    BY <1>0 DEF RecordingInv, FilesType, StoredFirst, ListedHasAudio
<1>1. CASE CrashRecorder
    BY <1>1 DEF CrashRecorder, RecordingInv, FilesType, StoredFirst, ListedHasAudio, Off
<1>2. CASE DeleteBlob
  <2>1. PICK c : c = deleter.call OBVIOUS
  <2>2. CASE wav' = [wav EXCEPT ![deleter.call] = 0] /\ removed' = removed \cup {deleter.call}
    BY <1>2, <2>1, <2>2, RemovalKeeps DEF DeleteBlob
  <2>3. CASE UNCHANGED <<wav, removed>>
    BY <1>0, <1>2, <2>3 DEF DeleteBlob
  <2> QED BY <1>2, <2>2, <2>3 DEF DeleteBlob
<1>3. CASE SweepBlob
  <2>1. PICK c : c = sweeper.call OBVIOUS
  <2>2. CASE wav' = [wav EXCEPT ![sweeper.call] = 0] /\ removed' = removed \cup {sweeper.call}
    BY <1>3, <2>1, <2>2, RemovalKeeps DEF SweepBlob
  <2>3. CASE UNCHANGED <<wav, removed>>
    BY <1>0, <1>3, <2>3 DEF SweepBlob
  <2> QED BY <1>3, <2>2, <2>3 DEF SweepBlob
<1>4. CASE DeleteMeta \/ BeginSweep \/ SweepLooks \/ SweepMeta
    BY <1>0, <1>4 DEF DeleteMeta, BeginSweep, SweepLooks, SweepMeta, Unlist, IoFails
<1>5. ASSUME NEW c \in Recorded, BeginDelete(c) \/ Age(c) PROVE RecordingInv'
    BY <1>0, <1>5 DEF BeginDelete, Age
<1>6. ASSUME NEW p \in Recorders,
             \/ WriteBlob(p) \/ WriteMeta(p) \/ PutFails(p)
             \/ \E c \in Recorded : BeginPut(p, c)
      PROVE  RecordingInv'
    BY <1>6, RecorderKeeps
<1> QED BY <1>1, <1>2, <1>3, <1>4, <1>5, <1>6 DEF RecordingNext

-----------------------------------------------------------------------------
(* The configuration.                                                      *)

(* Every configuration has the sections and the fields of the schema. *)
Shaped(c) ==
    /\ DOMAIN c = DOMAIN ConfigDefault
    /\ \A s \in DOMAIN ConfigDefault : DOMAIN c[s] = DOMAIN ConfigDefault[s]

(* A configuration the engine that booted may run on. *)
FitsBoot(c) ==
    /\ Shaped(c) /\ Valid(c)
    /\ \A p \in PathsOf(Boot) \ ReloadablePaths : At(c, p) = At(Boot, p)

(* Ids in use are never that of NoChange, so a late timer or probe cannot  *)
(* mistake "nothing is pending" for its own change.                        *)
IdsInv ==
    /\ nextChange \in Nat \ {0}
    /\ \A t \in timers : t.id # 0
    /\ 0 \notin probes
    /\ pendingChange = NoChange \/ pendingChange.id # 0

ConfigInv ==
    /\ IdsInv
    /\ FitsBoot(live) /\ FitsBoot(pendingChange.prior)
    /\ DOMAIN puts = Putters
    /\ \A p \in Putters : "candidate" \in DOMAIN puts[p] /\ Shaped(puts[p].candidate)
    /\ UnconfirmedUndone

LEMMA OverlayShaped == ASSUME NEW c, NEW values, Shaped(c) PROVE Shaped(Overlay(c, values))
<1> DEFINE g(s, f) == IF \E v \in values : v[1] = <<s, f>>
                      THEN (CHOOSE v \in values : v[1] = <<s, f>>)[2] ELSE c[s][f]
<1>1. Overlay(c, values) = [s \in DOMAIN c |-> [f \in DOMAIN c[s] |-> g(s, f)]] BY DEF Overlay
<1> HIDE DEF g
<1> QED BY <1>1 DEF Shaped

LEMMA LoadShaped == ASSUME NEW values PROVE Shaped(Load(values))
<1>1. Shaped(ConfigDefault) BY DEF Shaped
<1>2. Shaped(Overlay(ConfigDefault, values)) BY <1>1, OverlayShaped
<1> QED BY <1>2, OverlayShaped DEF Load

LEMMA ShapedPaths == ASSUME NEW c, Shaped(c) PROVE PathsOf(c) = PathsOf(Boot)
<1>1. \A p \in Paths : p[1] \in DOMAIN ConfigDefault BY DEF Paths
<1>2. Shaped(Boot) BY LoadShaped DEF Boot
<1> QED BY <1>1, <1>2 DEF Shaped, PathsOf

LEMMA BootFits == FitsBoot(Boot)
BY LoadShaped, BootAssumption DEF FitsBoot, Boot

(* What apply accepts fits when what it replaces does. *)
LEMMA AcceptedFits ==
    ASSUME NEW c, Shaped(c), FitsBoot(live), Accepted(c)
    PROVE  FitsBoot(c)
<1>1. \A p \in PathsOf(Boot) \ ReloadablePaths : At(live, p) = At(c, p)
    BY ShapedPaths DEF Accepted, ApplyReport, FitsBoot
<1> QED BY <1>1 DEF Accepted, FitsBoot

LEMMA ConfigStarts == ConfigInit => ConfigInv
<1> SUFFICES ASSUME ConfigInit PROVE ConfigInv OBVIOUS
<1>1. IdsInv BY DEF ConfigInit, IdsInv
<1>2. FitsBoot(live) /\ FitsBoot(pendingChange.prior) BY BootFits DEF ConfigInit, NoChange
<1>3. Shaped(Boot) BY BootFits DEF FitsBoot
<1> QED BY <1>1, <1>2, <1>3 DEF ConfigInit, ConfigInv, IdlePut, UnconfirmedUndone

LEMMA ConfigStutters == ConfigInv /\ UNCHANGED configVars => ConfigInv'
BY DEF configVars, ConfigInv, IdsInv, UnconfirmedUndone

(* apply, whoever calls it: what it swaps in fits, and what was live, which *)
(* nothing pending stood in the way of, can be taken back.                 *)
LEMMA ApplyKeeps ==
    ASSUME NEW c, Shaped(c), ConfigInv, Apply(c), UNCHANGED vetted
    PROVE  /\ FitsBoot(live') /\ FitsBoot(pendingChange'.prior) /\ UnconfirmedUndone'
           /\ nextChange' \in Nat \ {0} /\ (pendingChange' = NoChange \/ pendingChange'.id # 0)
<1>1. CASE Swaps(c) /\ live' = c /\ pendingChange' = [id |-> nextChange, prior |-> live]
  <2>1. FitsBoot(c) BY AcceptedFits DEF ConfigInv, Apply
  <2>2. nextChange # 0 BY DEF ConfigInv, IdsInv
  <2>3. pendingChange' # NoChange BY <1>1, <2>2 DEF NoChange
  <2>4. live = vetted BY DEF ConfigInv, UnconfirmedUndone, Apply, Accepted
  <2> QED BY <1>1, <2>1, <2>2, <2>3, <2>4 DEF ConfigInv, IdsInv, Apply, UnconfirmedUndone
<1>2. CASE UNCHANGED <<live, pendingChange>>
    BY <1>2 DEF ConfigInv, IdsInv, Apply, UnconfirmedUndone
<1> QED BY <1>1, <1>2 DEF Apply

LEMMA RollBackKeeps ==
    ASSUME NEW id, id # 0, ConfigInv, RollBack(id), UNCHANGED vetted
    PROVE  /\ FitsBoot(live') /\ FitsBoot(pendingChange'.prior) /\ UnconfirmedUndone'
           /\ pendingChange' = NoChange \/ pendingChange'.id # 0
<1>1. CASE pendingChange.id = id /\ live' = pendingChange.prior /\ pendingChange' = NoChange
  <2>1. pendingChange # NoChange BY <1>1 DEF NoChange
  <2> QED BY <1>1, <2>1, BootFits DEF ConfigInv, UnconfirmedUndone, NoChange
<1>2. CASE UNCHANGED <<live, pendingChange>>
    BY <1>2 DEF ConfigInv, IdsInv, UnconfirmedUndone
<1> QED BY <1>1, <1>2 DEF RollBack

LEMMA ConfigStepKeeps == ConfigInv /\ ConfigNext => ConfigInv'
<1> SUFFICES ASSUME ConfigInv, ConfigNext PROVE ConfigInv' OBVIOUS
<1> USE DEF ConfigInv
<1>0. Shaped(Boot) BY BootFits DEF FitsBoot
<1>1. ASSUME NEW values \in ConfigFiles, OperatorWrites(values) PROVE ConfigInv'
    BY <1>1 DEF OperatorWrites, IdsInv, UnconfirmedUndone
<1>2. CASE Sighup
  <2>1. PICK c : c = Load(file) OBVIOUS
  <2>2. Shaped(c) BY <2>1, LoadShaped
  <2>3. CASE Apply(c)
    <3>1. /\ FitsBoot(live') /\ FitsBoot(pendingChange'.prior) /\ UnconfirmedUndone'
          /\ nextChange' \in Nat \ {0} /\ (pendingChange' = NoChange \/ pendingChange'.id # 0)
        BY <1>2, <2>2, <2>3, ApplyKeeps DEF Sighup
    <3>2. (\A t \in timers' : t.id # 0) /\ 0 \notin probes'
        BY <1>2, <2>1, <2>3 DEF Sighup, ArmWatchdogs, IdsInv, Swaps
    <3> QED BY <1>2, <3>1, <3>2 DEF Sighup, IdsInv
  <2>4. CASE ~Apply(c)
    BY <1>2, <2>1, <2>4 DEF Sighup, IdsInv, UnconfirmedUndone
  <2> QED BY <2>3, <2>4
<1>3. ASSUME NEW t \in timers, TimerFires(t) PROVE ConfigInv'
  <2>1. PICK id : id = t.id OBVIOUS
  <2>2. id # 0 BY <2>1 DEF IdsInv
  <2>3. /\ FitsBoot(live') /\ FitsBoot(pendingChange'.prior) /\ UnconfirmedUndone'
        /\ pendingChange' = NoChange \/ pendingChange'.id # 0
    BY <1>3, <2>1, <2>2, RollBackKeeps DEF TimerFires
  <2> QED BY <1>3, <2>3 DEF TimerFires, IdsInv
<1>4. ASSUME NEW id \in probes, ProbeTrips(id) PROVE ConfigInv'
  <2>2. id # 0 BY DEF IdsInv
  <2>3. /\ FitsBoot(live') /\ FitsBoot(pendingChange'.prior) /\ UnconfirmedUndone'
        /\ pendingChange' = NoChange \/ pendingChange'.id # 0
    BY <1>4, <2>2, RollBackKeeps DEF ProbeTrips
  <2> QED BY <1>4, <2>3 DEF ProbeTrips, IdsInv
<1>5. ASSUME NEW id \in 1 .. MaxChanges, Confirm(id) PROVE ConfigInv'
    BY <1>5, BootFits DEF Confirm, IdsInv, UnconfirmedUndone, NoChange
<1>6. ASSUME NEW p \in Putters, NEW edit \in Edits, NEW persist \in BOOLEAN, PutBegins(p, edit, persist)
      PROVE  ConfigInv'
  <2>1. Shaped(SetPath(live, edit)) BY OverlayShaped DEF SetPath, FitsBoot
  <2>2. \A q \in Putters : "candidate" \in DOMAIN puts'[q] /\ Shaped(puts'[q].candidate)
    BY <1>6, <2>1 DEF PutBegins
  <2> QED BY <1>6, <2>2 DEF PutBegins, IdsInv, UnconfirmedUndone
<1>7. ASSUME NEW p \in Putters, PutApplies(p) PROVE ConfigInv'
  <2>1. PICK c : c = puts[p].candidate OBVIOUS
  <2>2. Shaped(c) BY <2>1
  <2>a. ASSUME NEW r, r = [puts[p] EXCEPT !.at = "writing"] \/ r = IdlePut
        PROVE  "candidate" \in DOMAIN r /\ Shaped(r.candidate)
    BY <1>0, <2>a DEF IdlePut
  <2>b. PICK r : puts' = [puts EXCEPT ![p] = r] /\ (r = [puts[p] EXCEPT !.at = "writing"] \/ r = IdlePut)
    BY <1>7 DEF PutApplies
  <2>3. /\ DOMAIN puts' = Putters
        /\ \A q \in Putters : "candidate" \in DOMAIN puts'[q] /\ Shaped(puts'[q].candidate)
    BY <2>a, <2>b
  <2>4. CASE Apply(c)
    <3>1. /\ FitsBoot(live') /\ FitsBoot(pendingChange'.prior) /\ UnconfirmedUndone'
          /\ nextChange' \in Nat \ {0} /\ (pendingChange' = NoChange \/ pendingChange'.id # 0)
        BY <1>7, <2>2, <2>4, ApplyKeeps DEF PutApplies
    <3> QED BY <1>7, <2>3, <3>1 DEF PutApplies, IdsInv
  <2>5. CASE ~Apply(c)
    BY <1>7, <2>1, <2>3, <2>5 DEF PutApplies, IdsInv, UnconfirmedUndone
  <2> QED BY <2>4, <2>5
<1>8. ASSUME NEW p \in Putters, PutPersists(p) PROVE ConfigInv'
  <2>1. DOMAIN puts' = Putters /\ \A q \in Putters : "candidate" \in DOMAIN puts'[q] /\ Shaped(puts'[q].candidate)
    BY <1>0, <1>8 DEF PutPersists, IdlePut
  <2> QED BY <1>8, <2>1 DEF PutPersists, IdsInv, UnconfirmedUndone
<1>9. ASSUME NEW a \in Wired, AdapterRuns(a) PROVE ConfigInv'
    BY <1>9 DEF AdapterRuns, IdsInv, UnconfirmedUndone
<1>10. CASE ClockTicks
    BY <1>10 DEF ClockTicks, IdsInv, UnconfirmedUndone
<1>11. CASE ReloaderStops
    BY <1>11 DEF ReloaderStops, IdsInv, UnconfirmedUndone
<1> QED BY <1>1, <1>2, <1>3, <1>4, <1>5, <1>6, <1>7, <1>8, <1>9, <1>10, <1>11 DEF ConfigNext

-----------------------------------------------------------------------------
(* The three together.                                                     *)

ControlInv == ConfigInv /\ SqliteInv /\ RecordingInv

LEMMA ControlStepKeeps ==
    ControlInv /\ [ControlNext]_<<controlFocus, configVars, sqliteVars, breakerVars, recordingVars,
                                  raftVars>>
    => ControlInv'
<1> SUFFICES ASSUME ControlInv, [ControlNext]_<<controlFocus, configVars, sqliteVars, breakerVars,
                                                recordingVars, raftVars>>
             PROVE  ControlInv'
    OBVIOUS
<1>1. ConfigInv'
    BY ConfigStutters, ConfigStepKeeps DEF ControlInv, ControlNext
<1>2. SqliteInv'
    BY SqliteStutters, SqliteStepKeeps DEF ControlInv, ControlNext
<1>3. RecordingInv'
    BY RecordingStutters, RecordingStepKeeps DEF ControlInv, ControlNext
<1> QED BY <1>1, <1>2, <1>3 DEF ControlInv

LEMMA ControlKept == ControlSpec => []ControlInv
<1>1. ControlInit => ControlInv
    BY ConfigStarts, SqliteStarts, RecordingStarts DEF ControlInit, ControlInv
<1> QED BY <1>1, ControlStepKeeps, PTL DEF ControlSpec

(* Whatever reloads, puts, confirmations, late timers and probes do, the   *)
(* engine runs on a valid configuration with the restart-only values it    *)
(* booted with, and a change nobody confirmed can be, or was, taken back.  *)
THEOREM ReloadsAreSafe == ControlSpec => []ReloadsSafe
<1>1. ControlInv => ReloadsSafe
    BY DEF ControlInv, ConfigInv, FitsBoot, ReloadsSafe, LiveFitsBoot
<1> QED BY <1>1, ControlKept, PTL

(* Rows and credentials survive every crash and race of the migrations,    *)
(* and a listed recording has its audio until something removes it.        *)
THEOREM StoredDataIsKept == ControlSpec => []StoredDataKept
<1>1. ControlInv => StoredDataKept
    BY DEF ControlInv, SqliteInv, RecordingInv, StoredDataKept
<1> QED BY <1>1, ControlKept, PTL
=============================================================================
