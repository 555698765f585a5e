---------------------------- MODULE JitterBuffer ----------------------------
(***************************************************************************)
(* The adaptive playout buffer of received RTP audio                       *)
(* (smiths-media/src/jitter.rs), and one stream through it: a sender that  *)
(* numbers its frames, a network that loses, duplicates and reorders them  *)
(* within a window, and the consumer's frame clock.                        *)
(*                                                                         *)
(* A buffered frame is [seq, pcm]; `pcm` stands for the decoded audio and  *)
(* is the sender's true frame number here (an amplitude in Conference).    *)
(* Sequence numbers are modulo SeqModulus (2^16 in the code), play indices *)
(* are wrap-free.                                                          *)
(***************************************************************************)
EXTENDS Integers, Sequences, FiniteSets

CONSTANTS
    SeqModulus,        \* 2^16 in the code
    InitialTarget, MinTarget, MaxTarget,
    MaxBuffer, ResyncGap, LowerAfterClean, CatchupSlack,
    FirstSeq,          \* the sender's first sequence number
    Reorder,           \* how many frames back the network still delivers
    MaxSent            \* bound: frames the sender sends

ASSUME JitterAssumption ==
    /\ {SeqModulus, InitialTarget, MinTarget, MaxTarget, MaxBuffer, ResyncGap,
        LowerAfterClean, Reorder, MaxSent} \subseteq Nat \ {0}
    /\ {CatchupSlack, FirstSeq} \subseteq Nat
    /\ MinTarget <= InitialTarget /\ InitialTarget <= MaxTarget
    /\ 2 * (MaxSent + Reorder) <= SeqModulus

(***************************************************************************)
(* The buffer.                                                             *)
(***************************************************************************)
NoFrames == [i \in {} |-> 0]
Unanchored == -1      \* `expected` before the first packet; indices are >= 0

NewBuffer ==
    [frames |-> NoFrames, expected |-> Unanchored, anchor_index |-> 0,
     anchor_seq |-> 0, primed |-> FALSE, target |-> InitialTarget,
     starve_run |-> 0, clean_run |-> 0]

Depth(j) == Cardinality(DOMAIN j.frames)
Lowest(j) == CHOOSE i \in DOMAIN j.frames : \A k \in DOMAIN j.frames : i <= k
Keep(j, S) == [j EXCEPT !.frames = [i \in S |-> j.frames[i]]]

(* The distance from the play head as a signed delta of half the modulus. *)
IndexOf(j, seq) ==
    LET delta == (seq - j.anchor_seq) % SeqModulus
    IN  j.anchor_index
          + IF 2 * delta >= SeqModulus THEN delta - SeqModulus ELSE delta

(* The packet that (re-)anchors the sequence space onto itself: the first  *)
(* one, or the first after a stall drained the buffer.                     *)
Anchors(j) == j.expected = Unanchored \/ (~j.primed /\ Depth(j) = 0)

InsertOutcome(j, seq) ==
    LET idx == IndexOf(j, seq)
    IN  CASE Anchors(j) -> "anchored"
          [] ~Anchors(j) /\ idx < j.expected -> "late"
          [] ~Anchors(j) /\ idx - j.expected >= MaxBuffer -> "overflow"
          [] ~Anchors(j) /\ idx \in j.expected..(j.expected + MaxBuffer - 1)
               -> IF idx \in DOMAIN j.frames THEN "duplicate" ELSE "buffered"

Insert(j, seq, pcm) ==
    LET arrived == [seq |-> seq, pcm |-> pcm]
        slot == IndexOf(j, seq)
    IN  CASE InsertOutcome(j, seq) = "anchored" ->
               [j EXCEPT !.frames = [i \in {0} |-> arrived], !.expected = 0,
                         !.anchor_index = 0, !.anchor_seq = seq]
          [] InsertOutcome(j, seq) = "buffered" ->
               [j EXCEPT !.frames = [i \in DOMAIN @ \cup {slot} |->
                                       IF i = slot THEN arrived ELSE @[i]]]
          [] OTHER -> j

DeliverMut(j, pos) ==
    [Keep(j, DOMAIN j.frames \ {pos}) EXCEPT
       !.starve_run = 0, !.expected = pos, !.anchor_index = pos,
       !.anchor_seq = j.frames[pos].seq]

(* Release the frame at `pos` and move the play head behind it. *)
Deliver(j, pos) ==
    [Keep(j, DOMAIN j.frames \ {pos}) EXCEPT
       !.starve_run = 0, !.expected = pos + 1, !.anchor_index = pos + 1,
       !.anchor_seq = (j.frames[pos].seq + 1) % SeqModulus]

(* A buffer deeper than target + slack drops its oldest frames. *)
CatchUp(j) ==
    IF Depth(j) <= j.target + CatchupSlack THEN j
    ELSE LET newest == CHOOSE S \in SUBSET DOMAIN j.frames :
                         /\ Cardinality(S) = j.target
                         /\ \A i \in S, k \in DOMAIN j.frames \ S : k < i
             kept == Keep(j, newest)
             head == Lowest(kept)
         IN  [kept EXCEPT !.expected = head, !.anchor_index = head,
                          !.anchor_seq = kept.frames[head].seq]

NoteClean(j) ==
    IF j.clean_run + 1 < LowerAfterClean
    THEN [j EXCEPT !.clean_run = @ + 1]
    ELSE [j EXCEPT !.clean_run = 0,
                   !.target = IF @ > MinTarget THEN @ - 1 ELSE @]

(* A missing frame before buffered ones: step over its slot. *)
ConcealLoss(j) ==
    [j EXCEPT !.clean_run = 0, !.expected = @ + 1,
              !.anchor_index = j.expected + 1,
              !.anchor_seq = (@ + 1) % SeqModulus]

(* A drained buffer: a sustained stall widens the cushion and re-primes. *)
Starve(j) ==
    IF j.starve_run + 1 < j.target
    THEN [j EXCEPT !.clean_run = 0, !.starve_run = @ + 1]
    ELSE [j EXCEPT !.clean_run = 0, !.starve_run = 0, !.primed = FALSE,
                   !.target = IF @ + 1 < MaxTarget THEN @ + 1 ELSE MaxTarget]

Priming(j) ==
    \/ j.expected = Unanchored
    \/ ~j.primed /\ Depth(j) < j.target

Silence == [kind |-> "silence"]
Concealed == [kind |-> "concealed"]
Played(f) == [kind |-> "played", pcm |-> f.pcm]

(* One frame interval: the buffer after it, and what the consumer gets. *)
Advance(j) ==
    IF Priming(j) THEN [jitter |-> j, out |-> Silence]
    ELSE LET c == CatchUp([j EXCEPT !.primed = TRUE])
         IN  CASE c.expected \in DOMAIN c.frames ->
                    [jitter |-> NoteClean(Deliver(c, c.expected)),
                     out |-> Played(c.frames[c.expected])]
               [] c.expected \notin DOMAIN c.frames /\ Depth(c) > 0 ->
                    IF Lowest(c) - c.expected >= ResyncGap
                    THEN [jitter |-> [Deliver(c, Lowest(c)) EXCEPT !.clean_run = 0],
                          out |-> Played(c.frames[Lowest(c)])]
                    ELSE [jitter |-> ConcealLoss(c), out |-> Concealed]
               [] Depth(c) = 0 -> [jitter |-> Starve(c), out |-> Concealed]

-----------------------------------------------------------------------------
(***************************************************************************)
(* One stream.  `heard` holds the last frames played since the buffer was  *)
(* last anchored, oldest first, at most two of them.                       *)
(***************************************************************************)
VARIABLES jitter, sent, heard
streamVars == <<jitter, sent, heard>>

StreamInit == jitter = NewBuffer /\ sent = 0 /\ heard = <<>>

(* The sender's clock and the consumer's are not in step. *)
SendFrame ==
    /\ sent < MaxSent
    /\ sent' = sent + 1
    /\ UNCHANGED <<jitter, heard>>

(* The network delivers a sent frame, perhaps again, perhaps out of order. *)
ReceiveFrame(n) ==
    /\ n < sent /\ sent - n <= Reorder
    /\ jitter' = Insert(jitter, (FirstSeq + n) % SeqModulus, n)
    /\ heard' = IF Anchors(jitter) THEN <<>> ELSE heard
    /\ UNCHANGED sent

PlayFrame ==
    LET step == Advance(jitter)
    IN  /\ jitter' = step.jitter
        /\ heard' = IF step.out.kind # "played" THEN heard
                    ELSE IF heard = <<>> THEN <<step.out.pcm>>
                         ELSE <<heard[Len(heard)], step.out.pcm>>
        /\ UNCHANGED sent

StreamNext ==
    \/ SendFrame
    \/ \E n \in 0..(MaxSent - 1) : ReceiveFrame(n)
    \/ PlayFrame

StreamSpec == StreamInit /\ [][StreamNext]_streamVars

(* Between two anchors of the buffer the consumer hears the sender's       *)
(* frames in the order they were said, none of them twice, whatever the    *)
(* network repeats or reorders, across resyncs, catch-ups, loss steps and  *)
(* the wraparound of the sequence number                                   *)
(* (JitterBuffer::insert / advance / catch_up / deliver).                  *)
PlaysInOrder == Len(heard) = 2 => heard[1] < heard[2]
=============================================================================
