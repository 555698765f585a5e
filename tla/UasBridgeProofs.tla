--------------------------- MODULE UasBridgeProofs ---------------------------
(***************************************************************************)
(* The media attachment of any number of calls under crossing pairings,    *)
(* refreshes and teardowns: BridgesSound is an invariant.  The inductive   *)
(* invariant below adds who holds a leg that waits for a partner, which    *)
(* worker has a call's media still to release, that no more than two       *)
(* dialogs share a bridge, and what a worker in the middle of a pairing or *)
(* a rebuild will still write.                                             *)
(***************************************************************************)
EXTENDS UasBridge, TLAPS, FiniteSetTheorems

Early == {"attach", "pair", "mapPeer", "mapOwn", "repark", "insert"}
Rebuilding == {"unbridge", "rebridge", "remapOwn", "remapPeer"}
Writers == {"mapPeer", "mapOwn", "remapOwn", "remapPeer"}

\* The worker that took x out of the table and has its media still to release.
Removes(w, x) == job[w].pc \in {"unmap", "release"} /\ job[w].who = x
Removed(x) == \E w \in Calls : Removes(w, x)
\* The worker that took the parked leg x out of the room.
Holds(w, x) == job[w].pc \in {"pair", "mapPeer", "repark"} /\ job[w].who = x
Single(x) == pending = x \/ \E w \in Calls : Holds(w, x)
Quiet == \A c \in Calls : ends[c] = 0

\* What a program counter says of the fields beside it.
JobInv == \A w \in Calls :
    /\ job[w].pc \in Writers \cup Rebuilding \cup {"pair", "repark", "peer"} =>
          job[w].who \in Calls \ {w}
    /\ job[w].pc \in {"unmap", "release"} => job[w].who \in Calls
    /\ job[w].pc \in Writers \cup {"unbridge"} => job[w].bid # 0
    /\ job[w].pc = "release" /\ job[w].peer # NoCall =>
          job[w].who = w /\ job[w].peer \in Calls \ {w}

\* Who has the endpoint and the record of a call, and how often it was ended.
LifeInv ==
    /\ leg \subseteq {c \in Calls : dlg[c] # "none"}
    /\ \A c \in Calls :
        /\ dlg[c] = "none" <=> job[c].pc \in Early \cup {"new", "rejected"}
        /\ c \in ep <=> \/ job[c].pc \in Early
                        \/ dlg[c] = "up"
                        \/ Removed(c)
        /\ ends[c] = IF dlg[c] = "ended" THEN 1 ELSE 0
        /\ byes[c] <= ends[c]
        /\ Removed(c) => byes[c] = 0
        /\ job[c].pc \in {"unmap", "release"} => dlg[job[c].who] = "ended"
        /\ job[c].pc \in {"unmap", "release", "peer"} => dlg[c] = "ended"
        /\ job[c].pc \in Rebuilding => dlg[job[c].who] # "none"
    /\ \A v, w, x \in Calls : Removes(v, x) /\ Removes(w, x) => v = w

\* A leg waiting for a partner is in the room or in one worker's hand, and has none.
RoomInv ==
    /\ \A c \in Calls :
        /\ Single(c) => bmap[c] = 0 /\ smap[c] = 0
        /\ job[c].pc \in (Early \ {"insert"}) \cup {"new", "rejected"} =>
              ~Single(c) /\ bmap[c] = 0 /\ smap[c] = 0
        /\ job[c].pc \in Rebuilding => ~Single(c) /\ ~Single(job[c].who)
    /\ \A v, w, x \in Calls : Holds(v, x) /\ Holds(w, x) => v = w
    /\ \A w, x \in Calls : Holds(w, x) => pending # x

\* Two dialogs at most share a bridge; a worker about to map one is alone with it.
Fresh ==
    /\ \A b \in fabric \cup running : b <= made
    /\ \A c \in Calls : bmap[c] <= made /\ smap[c] <= made /\ job[c].bid <= made
Alone(w) ==
    /\ job[w].pc \in {"mapPeer", "remapOwn"} => \A c \in Calls : bmap[c] # job[w].bid
    /\ job[w].pc = "mapOwn" => \A c \in Calls : bmap[c] = job[w].bid => c = job[w].who
    /\ job[w].pc = "remapPeer" => \A c \in Calls : bmap[c] = job[w].bid => c = w
    /\ job[w].pc = "unbridge" =>
          \A c \in Calls : bmap[c] = job[w].bid => c \in {w, job[w].who}
Distinct(v, w) ==
    /\ job[v].pc \in Writers /\ job[w].pc \in Writers \cup {"unbridge"}
    /\ job[v].bid = job[w].bid
    => v = w
Two(x, y, z) ==
    bmap[x] # 0 /\ bmap[x] = bmap[y] /\ bmap[y] = bmap[z] => x = y \/ y = z \/ x = z
ShareInv ==
    /\ Fresh
    /\ \A w \in Calls : Alone(w)
    /\ \A v, w \in Calls : Distinct(v, w)
    /\ \A x, y, z \in Calls : Two(x, y, z)

\* The worker that will map or release bridge b, or will take it from c.
InHand(w, b) == job[w].pc \in {"mapPeer", "mapOwn", "release"} /\ job[w].bid = b
ToUnmap(c) == \E w \in Calls : job[w].pc = "unmap" /\ job[w].who = c

Claimed(b) ==
    \/ \E w \in Calls : InHand(w, b)
    \/ \E c \in Calls : bmap[c] = b /\ (dlg[c] # "ended" \/ ToUnmap(c))
Served(s) == \E c \in Calls : smap[c] = s /\ (dlg[c] # "ended" \/ Removed(c))

\* Without a re-INVITE somebody will release a bridge or stop a session.
OwnInv ==
    refreshes = 0 =>
        /\ \A w \in Calls : job[w].pc \notin Rebuilding \cup {"apply", "commit"}
        /\ \A b \in fabric : Claimed(b)
        /\ \A s \in running : Served(s)

\* While nothing has ended, failed or been refreshed, nobody is overlooked.
PairInv ==
    refreshes = 0 /\ Quiet /\ (\A c \in Calls : job[c].pc \notin {"repark", "rejected"}) =>
        \A c \in Calls : job[c].pc = "insert" \/ dlg[c] # "none" =>
            Partnered(c) \/ Single(c)

\* A worker that will give c another bridge, or none.
Rewrites(v, c) ==
    \/ job[v].pc \in {"rebridge", "remapOwn"} /\ c \in {v, job[v].who}
    \/ job[v].pc = "remapPeer" /\ c = job[v].who

AliveInv ==
    Quiet =>
        /\ \A w \in Calls : job[w].pc \in Writers => job[w].bid \in fabric
        /\ \A c \in Calls :
              bmap[c] # 0 => bmap[c] \in fabric \/ \E v \in Calls : Rewrites(v, c)

\* As long as no two rebuilds of one bridge crossed, a rebuild has both legs for
\* itself and leaves both on the new bridge.
Apart(v, w) ==
    job[v].pc \in Rebuilding /\ job[w].pc \in Rebuilding /\ v # w =>
        v # job[w].who /\ job[v].who # w /\ job[v].who # job[w].who
Ready(v) ==
    /\ job[v].pc \in {"unbridge", "rebridge", "remapOwn"} =>
          bmap[v] # 0 /\ bmap[v] = bmap[job[v].who]
    /\ job[v].pc = "remapPeer" =>
          /\ bmap[v] = job[v].bid
          /\ bmap[job[v].who] # 0
          /\ \A c \in Calls : bmap[c] = bmap[job[v].who] => c = job[v].who
          /\ \A u \in Calls : job[u].pc = "mapOwn" => job[u].bid # bmap[job[v].who]
    /\ job[v].pc = "mapOwn" => bmap[job[v].who] = job[v].bid
Mated(c) ==
    \/ \E d \in Calls \ {c} : bmap[d] = bmap[c]
    \/ \E v \in Calls : job[v].pc = "mapOwn" /\ job[v].who = c
    \/ \E v \in Calls : job[v].pc = "remapPeer" /\ c \in {v, job[v].who}
TwoInv ==
    Quiet /\ ~crossed =>
        /\ \A v, w \in Calls : Apart(v, w)
        /\ \A v \in Calls : Ready(v)
        /\ \A c \in Calls : bmap[c] # 0 => Mated(c)

BridgeInv ==
    /\ TypeOK
    /\ JobInv
    /\ LifeInv
    /\ RoomInv
    /\ ShareInv
    /\ OwnInv
    /\ PairInv
    /\ AliveInv
    /\ TwoInv

-----------------------------------------------------------------------------
Moved(w) == job' \in [Calls -> Jobs] /\ \A v \in Calls : v # w => job'[v] = job[v]
Turns(w, pc, who, bid) ==
    Moved(w) /\ job'[w].pc = pc /\ job'[w].who = who /\ job'[w].bid = bid

LEMMA JobShape ==
  ASSUME NEW pc \in Pcs, NEW who \in Calls \cup {NoCall}, NEW bid \in Nat
  PROVE  /\ Job(pc, who, bid) \in Jobs
         /\ Job(pc, who, bid).pc = pc /\ Job(pc, who, bid).who = who
         /\ Job(pc, who, bid).bid = bid /\ Job(pc, who, bid).peer = NoCall
BY DEF Job, Jobs

LEMMA GotoTurns ==
  ASSUME TypeOK, NEW w \in Calls, NEW pc \in Pcs, NEW who \in Calls \cup {NoCall},
         NEW bid \in Nat, Goto(w, Job(pc, who, bid))
  PROVE  Turns(w, pc, who, bid)
<1>1. Job(pc, who, bid) \in Jobs
  BY JobShape
<1>2. job \in [Calls -> Jobs]
  BY DEF TypeOK
<1>3. job' \in [Calls -> Jobs] /\ job'[w] = Job(pc, who, bid)
      /\ \A v \in Calls : v # w => job'[v] = job[v]
  BY <1>1, <1>2 DEF Goto
<1>4. /\ Job(pc, who, bid).pc = pc /\ Job(pc, who, bid).who = who
      /\ Job(pc, who, bid).bid = bid
  BY JobShape
<1> QED
  BY <1>3, <1>4 DEF Turns, Moved

LEMMA EditTurns ==
  ASSUME TypeOK, NEW w \in Calls, NEW pc \in Pcs, NEW bid \in Nat,
         Goto(w, [job[w] EXCEPT !.pc = pc, !.bid = bid])
  PROVE  Turns(w, pc, job[w].who, bid)
<1>1. job \in [Calls -> Jobs] /\ job[w] \in Jobs
  BY DEF TypeOK
<1> DEFINE j == [job[w] EXCEPT !.pc = pc, !.bid = bid]
<1>2. j \in Jobs /\ j.pc = pc /\ j.who = job[w].who /\ j.bid = bid
  BY <1>1 DEF Jobs
<1>3. job' \in [Calls -> Jobs] /\ job'[w] = j
      /\ \A v \in Calls : v # w => job'[v] = job[v]
  BY <1>1, <1>2 DEF Goto
<1> QED
  BY <1>2, <1>3 DEF Turns, Moved

LEMMA PcTurns ==
  ASSUME TypeOK, NEW w \in Calls, NEW pc \in Pcs, Goto(w, [job[w] EXCEPT !.pc = pc])
  PROVE  Turns(w, pc, job[w].who, job[w].bid)
<1>1. job \in [Calls -> Jobs] /\ job[w] \in Jobs
  BY DEF TypeOK
<1> DEFINE j == [job[w] EXCEPT !.pc = pc]
<1>2. j \in Jobs /\ j.pc = pc /\ j.who = job[w].who /\ j.bid = job[w].bid
  BY <1>1 DEF Jobs
<1>3. job' \in [Calls -> Jobs] /\ job'[w] = j
      /\ \A v \in Calls : v # w => job'[v] = job[v]
  BY <1>1, <1>2 DEF Goto
<1> QED
  BY <1>2, <1>3 DEF Turns, Moved

LEMMA Types ==
  ASSUME TypeOK
  PROVE  /\ \A c \in Calls : /\ job[c] \in Jobs /\ job[c].pc \in Pcs /\ job[c].bid \in Nat
                             /\ job[c].who \in Calls \cup {NoCall}
                             /\ job[c].peer \in Calls \cup {NoCall}
                             /\ dlg[c] \in {"none", "up", "ended"} /\ bmap[c] \in Nat
                             /\ smap[c] \in Nat /\ byes[c] \in Nat /\ ends[c] \in Nat
         /\ ep \subseteq Calls /\ fabric \subseteq Nat \ {0} /\ running \subseteq Nat \ {0}
         /\ made \in Nat /\ refreshes \in Nat /\ NoCall \notin Calls
BY CallsAssumption, BoundAssumption DEF TypeOK, Jobs, Media

LEMMA RemovedKept ==
  ASSUME NEW w \in Calls, Moved(w),
         job[w].pc \notin {"unmap", "release"}, job'[w].pc \notin {"unmap", "release"}
  PROVE  /\ \A v, x \in Calls : Removes(v, x)' <=> Removes(v, x)
         /\ \A x \in Calls : Removed(x)' <=> Removed(x)
<1>1. \A v, x \in Calls : Removes(v, x)' <=> Removes(v, x)
  BY DEF Removes, Moved
<1> QED
  BY <1>1 DEF Removed

LEMMA SingleKept ==
  ASSUME NEW w \in Calls, Moved(w), UNCHANGED pending,
         job[w].pc \notin {"pair", "mapPeer", "repark"},
         job'[w].pc \notin {"pair", "mapPeer", "repark"}
  PROVE  /\ \A v \in Calls : \A x : Holds(v, x)' <=> Holds(v, x)
         /\ \A x \in Calls : Single(x)' <=> Single(x)
<1>1. \A v \in Calls : \A x : Holds(v, x)' <=> Holds(v, x)
  BY DEF Holds, Moved
<1> QED
  BY <1>1 DEF Single

LEMMA SinglePassed ==
  ASSUME NEW w \in Calls, Moved(w), UNCHANGED pending, job'[w].who = job[w].who,
         job[w].pc \in {"pair", "mapPeer", "repark"},
         job'[w].pc \in {"pair", "mapPeer", "repark"}
  PROVE  /\ \A v \in Calls : \A x : Holds(v, x)' <=> Holds(v, x)
         /\ \A x \in Calls : Single(x)' <=> Single(x)
<1>1. \A v \in Calls : \A x : Holds(v, x)' <=> Holds(v, x)
  BY DEF Holds, Moved
<1> QED
  BY <1>1 DEF Single

LEMMA SingleLost ==
  ASSUME RoomInv, NEW w \in Calls, Moved(w), UNCHANGED pending,
         job[w].pc \in {"pair", "mapPeer", "repark"}, job[w].who \in Calls,
         job'[w].pc \notin {"pair", "mapPeer", "repark"}
  PROVE  /\ \A v \in Calls : \A x : Holds(v, x)' <=> Holds(v, x) /\ v # w
         /\ \A x \in Calls : Single(x)' <=> Single(x) /\ x # job[w].who
         /\ Single(job[w].who)
<1>1. \A v \in Calls : \A x : Holds(v, x)' <=> Holds(v, x) /\ v # w
  BY DEF Holds, Moved
<1>2. Holds(w, job[w].who) /\ \A v \in Calls : Holds(v, job[w].who) => v = w
  BY DEF RoomInv, Holds
<1>3. pending # job[w].who
  BY <1>2 DEF RoomInv
<1>4. \A x \in Calls : x # job[w].who => ~Holds(w, x)
  BY DEF Holds
<1> QED
  BY <1>1, <1>2, <1>3, <1>4 DEF Single

LEMMA RewritesKept ==
  ASSUME NEW w \in Calls, Moved(w),
         job[w].pc \notin {"rebridge", "remapOwn", "remapPeer"},
         job'[w].pc \notin {"rebridge", "remapOwn", "remapPeer"}
  PROVE  \A v, c \in Calls : Rewrites(v, c)' <=> Rewrites(v, c)
BY DEF Rewrites, Moved

(* A bridge stays claimed, and a session served, over a step that lets go  *)
(* of none.                                                                *)
LEMMA ClaimedKept ==
  ASSUME NEW w \in Calls, Moved(w), UNCHANGED bmap,
         job[w].pc \notin {"mapPeer", "mapOwn", "release", "unmap"},
         \A c \in Calls : dlg[c] # "ended" => dlg'[c] # "ended"
  PROVE  \A b : Claimed(b) => Claimed(b)'
<1>1. \A v \in Calls : \A b : InHand(v, b) => InHand(v, b)'
  BY DEF InHand, Moved
<1>2. \A c \in Calls : ToUnmap(c) => ToUnmap(c)'
  BY DEF ToUnmap, Moved
<1> QED
  BY <1>1, <1>2 DEF Claimed

LEMMA ServedKept ==
  ASSUME \A x \in Calls : Removed(x) => Removed(x)', UNCHANGED smap,
         \A c \in Calls : dlg[c] # "ended" => dlg'[c] # "ended"
  PROVE  \A s : Served(s) => Served(s)'
BY DEF Served

LEMMA OwnKept ==
  ASSUME OwnInv, NEW w \in Calls, Moved(w), UNCHANGED <<refreshes, fabric, running>>,
         job'[w].pc \notin Rebuilding \cup {"apply", "commit"},
         \A b \in fabric : Claimed(b) => Claimed(b)',
         \A s \in running : Served(s) => Served(s)'
  PROVE  OwnInv'
BY DEF OwnInv, Moved

LEMMA TwoKept ==
  ASSUME TwoInv, NEW w \in Calls, Moved(w), Quiet' => Quiet, UNCHANGED <<bmap, crossed>>,
         job[w].pc \notin Rebuilding \cup {"mapOwn"},
         job'[w].pc \notin Rebuilding \cup {"mapOwn"}
  PROVE  TwoInv'
<1> SUFFICES ASSUME Quiet, ~crossed
             PROVE  /\ \A u, v \in Calls : Apart(u, v)'
                    /\ \A v \in Calls : Ready(v)'
                    /\ \A c \in Calls : bmap[c] # 0 => Mated(c)'
  BY DEF TwoInv
<1>1. \A u, v \in Calls : Apart(u, v)'
  BY DEF TwoInv, Apart, Moved
<1>2. \A v \in Calls : Ready(v)'
  BY DEF TwoInv, Ready, Rebuilding, Moved
<1>3. \A c \in Calls : bmap[c] # 0 => Mated(c)'
  BY DEF TwoInv, Mated, Rebuilding, Moved
<1> QED
  BY <1>1, <1>2, <1>3

(* An INVITE is negotiated: the call has an endpoint and nothing else. *)
LEMMA InviteNegotiatedInv ==
  ASSUME BridgeInv, NEW w \in Calls, InviteNegotiated(w)
  PROVE  BridgeInv'
<1> USE DEF BridgeInv
<1>t. TypeOK
  OBVIOUS
<1>1. job[w].pc = "new" /\ Turns(w, "attach", NoCall, 0)
  BY <1>t, GotoTurns, Types DEF InviteNegotiated, AtPc, Pcs, Rest
<1>2. UNCHANGED <<dlg, codec, pending, bmap, fabric, smap, running, leg, armed, cdr, byes,
                  ends, made, refreshes, crossed>>
  BY DEF InviteNegotiated, mediaVars, dlgVars, reinviteVars
<1>3. ep' = ep \cup {w}
  BY DEF InviteNegotiated
<1>4. TypeOK'
  BY <1>1, <1>2, <1>3, <1>t DEF TypeOK, Turns, Moved, Media
<1>5. Moved(w) /\ (Quiet' <=> Quiet)
  BY <1>1, <1>2 DEF Turns, Quiet
<1>r. /\ \A v, x \in Calls : Removes(v, x)' <=> Removes(v, x)
      /\ \A x \in Calls : Removed(x)' <=> Removed(x)
  BY <1>1, <1>5, RemovedKept DEF Turns
<1>s. /\ \A v \in Calls : \A x : Holds(v, x)' <=> Holds(v, x)
      /\ \A x \in Calls : Single(x)' <=> Single(x)
  BY <1>1, <1>2, <1>5, SingleKept DEF Turns
<1>v. \A v, c \in Calls : Rewrites(v, c)' <=> Rewrites(v, c)
  BY <1>1, <1>5, RewritesKept DEF Turns
<1>6. JobInv'
  BY <1>1, <1>3, Types DEF JobInv, Writers, Rebuilding, Turns, Moved
<1>7. LifeInv'
  BY <1>1, <1>2, <1>3, <1>r, Types DEF LifeInv, Early, Rebuilding, Turns, Moved
<1>8. RoomInv'
  BY <1>1, <1>2, <1>3, <1>s, Types DEF RoomInv, Early, Rebuilding, JobInv, Writers, Turns, Moved
<1>9. ShareInv'
  <2>1. Fresh'
    BY <1>1, <1>2, <1>3, Types DEF ShareInv, Fresh, Writers, Turns, Moved
  <2>2. \A u \in Calls : Alone(u)'
    BY <1>1, <1>2, <1>3, Types DEF ShareInv, Alone, Fresh, Distinct, Writers, Turns, Moved
  <2>3. \A u, v \in Calls : Distinct(u, v)'
    BY <1>1, <1>2, <1>3, Types DEF ShareInv, Distinct, Fresh, Alone, Writers, Turns, Moved
  <2>4. \A x, y, z \in Calls : Two(x, y, z)'
    BY <1>1, <1>2, <1>3, Types DEF ShareInv, Two, Alone, Writers, Turns, Moved
  <2> QED
    BY <2>1, <2>2, <2>3, <2>4 DEF ShareInv
<1>10. OwnInv'
  <2>1. \A b : Claimed(b) => Claimed(b)'
    BY <1>1, <1>2, <1>3, <1>5, <1>r, ClaimedKept DEF Turns
  <2>2. \A s : Served(s) => Served(s)'
    BY <1>1, <1>2, <1>3, <1>5, <1>r, ServedKept DEF Turns
  <2> QED
    BY <2>1, <2>2, <1>1, <1>2, <1>3, <1>5, <1>r, OwnKept DEF Turns, Rebuilding
<1>11. PairInv'
  BY <1>1, <1>2, <1>3, <1>5, <1>s, Types DEF PairInv, Partnered, Turns, Moved
<1>12. AliveInv'
  BY <1>1, <1>2, <1>3, <1>5, <1>v, Types DEF AliveInv, Writers, Turns, Moved
<1>13. TwoInv'
  BY <1>1, <1>2, <1>3, <1>5, TwoKept DEF Turns, Rebuilding
<1> QED
  BY <1>4, <1>6, <1>7, <1>8, <1>9, <1>10, <1>11, <1>12, <1>13

(* The session of a conference caller is new and is in its own table. *)
LEMMA JoinConferenceInv ==
  ASSUME BridgeInv, NEW w \in Calls, JoinConference(w)
  PROVE  BridgeInv'
<1> USE DEF BridgeInv
<1>t. TypeOK
  OBVIOUS
<1>1. job[w].pc = "attach" /\ Turns(w, "insert", NoCall, 0)
  BY <1>t, GotoTurns, Types DEF JoinConference, AtPc, Pcs, Rest
<1>2. UNCHANGED <<dlg, codec, ep, pending, bmap, fabric, leg, armed, cdr, byes, ends,
                  refreshes, crossed>>
  BY DEF JoinConference, mediaVars, dlgVars, reinviteVars
<1>3. /\ made' = made + 1 /\ running' = running \cup {made'} /\ smap' \in [Calls -> Nat]
      /\ smap'[w] = made' /\ \A c \in Calls : c # w => smap'[c] = smap[c]
  BY <1>t, Types DEF JoinConference, TypeOK
<1>4. TypeOK'
  BY <1>1, <1>2, <1>3, <1>t DEF TypeOK, Turns, Moved, Media
<1>5. Moved(w) /\ (Quiet' <=> Quiet)
  BY <1>1, <1>2 DEF Turns, Quiet
<1>r. /\ \A v, x \in Calls : Removes(v, x)' <=> Removes(v, x)
      /\ \A x \in Calls : Removed(x)' <=> Removed(x)
  BY <1>1, <1>5, RemovedKept DEF Turns
<1>s. /\ \A v \in Calls : \A x : Holds(v, x)' <=> Holds(v, x)
      /\ \A x \in Calls : Single(x)' <=> Single(x)
  BY <1>1, <1>2, <1>5, SingleKept DEF Turns
<1>v. \A v, c \in Calls : Rewrites(v, c)' <=> Rewrites(v, c)
  BY <1>1, <1>5, RewritesKept DEF Turns
<1>z. smap[w] = 0 /\ dlg[w] = "none"
  BY <1>1 DEF RoomInv, LifeInv, Early
<1>6. JobInv'
  BY <1>1, <1>3, <1>z, Types DEF JobInv, Writers, Rebuilding, Turns, Moved
<1>7. LifeInv'
  BY <1>1, <1>2, <1>3, <1>r, <1>z, Types DEF LifeInv, Early, Rebuilding, Turns, Moved
<1>8. RoomInv'
  BY <1>1, <1>2, <1>3, <1>s, <1>z, Types DEF RoomInv, Early, Rebuilding, JobInv, Writers,
     Turns, Moved
<1>9. ShareInv'
  <2>1. Fresh'
    BY <1>1, <1>2, <1>3, <1>z, Types DEF ShareInv, Fresh, Writers, Turns, Moved
  <2>2. \A u \in Calls : Alone(u)'
    BY <1>1, <1>2, <1>3, <1>z, Types DEF ShareInv, Alone, Fresh, Distinct, Writers, Turns, Moved
  <2>3. \A u, v \in Calls : Distinct(u, v)'
    BY <1>1, <1>2, <1>3, <1>z, Types DEF ShareInv, Distinct, Fresh, Alone, Writers, Turns, Moved
  <2>4. \A x, y, z \in Calls : Two(x, y, z)'
    BY <1>1, <1>2, <1>3, <1>z, Types DEF ShareInv, Two, Alone, Writers, Turns, Moved
  <2> QED
    BY <2>1, <2>2, <2>3, <2>4 DEF ShareInv
<1>10. OwnInv'
  <2>1. \A b : Claimed(b) => Claimed(b)'
    BY <1>1, <1>2, <1>3, <1>5, <1>r, <1>z, ClaimedKept DEF Turns
  <2>2. \A s \in running : Served(s) => Served(s)'
    BY <1>1, <1>2, <1>3, <1>5, <1>r, <1>z, Types DEF Served
  <2>3. \A s : s = made' => Served(s)'
    BY <1>1, <1>2, <1>3, <1>5, <1>r, <1>z DEF Served
  <2> QED
    BY <2>1, <2>2, <2>3, <1>1, <1>2, <1>3, <1>5, <1>r, <1>z DEF OwnInv, Rebuilding, Turns, Moved
<1>11. PairInv'
  BY <1>1, <1>2, <1>3, <1>5, <1>s, <1>z, Types DEF PairInv, Partnered, Turns, Moved
<1>12. AliveInv'
  BY <1>1, <1>2, <1>3, <1>5, <1>v, <1>z, Types DEF AliveInv, Writers, Turns, Moved
<1>13. TwoInv'
  BY <1>1, <1>2, <1>3, <1>5, <1>z, TwoKept DEF Turns, Rebuilding
<1> QED
  BY <1>4, <1>6, <1>7, <1>8, <1>9, <1>10, <1>11, <1>12, <1>13

(* Parking: the room was empty, so nobody else waits in it. *)
LEMMA ParkLegInv ==
  ASSUME BridgeInv, NEW w \in Calls, ParkLeg(w)
  PROVE  BridgeInv'
<1> USE DEF BridgeInv
<1>t. TypeOK
  OBVIOUS
<1>1. job[w].pc = "attach" /\ Turns(w, "insert", NoCall, 0)
  BY <1>t, GotoTurns, Types DEF ParkLeg, AtPc, Pcs, Rest
<1>2. UNCHANGED <<dlg, codec, ep, bmap, fabric, smap, running, leg, armed, cdr, byes, ends,
                  made, refreshes, crossed>>
  BY DEF ParkLeg, mediaVars, dlgVars, reinviteVars
<1>3. pending = NoCall /\ pending' = w
  BY DEF ParkLeg
<1>4. TypeOK'
  BY <1>1, <1>2, <1>3, <1>t DEF TypeOK, Turns, Moved, Media
<1>5. Moved(w) /\ (Quiet' <=> Quiet)
  BY <1>1, <1>2 DEF Turns, Quiet
<1>r. /\ \A v, x \in Calls : Removes(v, x)' <=> Removes(v, x)
      /\ \A x \in Calls : Removed(x)' <=> Removed(x)
  BY <1>1, <1>5, RemovedKept DEF Turns
<1>v. \A v, c \in Calls : Rewrites(v, c)' <=> Rewrites(v, c)
  BY <1>1, <1>5, RewritesKept DEF Turns
<1>z. ~Single(w) /\ pending # w /\ \A v \in Calls : ~Holds(v, w)
  BY <1>1 DEF RoomInv, Early, Single
<1>s. /\ \A v \in Calls : \A x : Holds(v, x)' <=> Holds(v, x)
      /\ \A x \in Calls : Single(x)' <=> Single(x) \/ x = w
  BY <1>1, <1>3, <1>5, Types DEF Turns, Moved, Holds, Single
<1>6. JobInv'
  BY <1>1, <1>3, <1>z, Types DEF JobInv, Writers, Rebuilding, Turns, Moved
<1>7. LifeInv'
  BY <1>1, <1>2, <1>3, <1>r, <1>z, Types DEF LifeInv, Early, Rebuilding, Turns, Moved
<1>8. RoomInv'
  BY <1>1, <1>2, <1>3, <1>z, <1>s, Types DEF RoomInv, LifeInv, JobInv, Early, Rebuilding,
     Writers, Turns, Moved
<1>9. ShareInv'
  <2>1. Fresh'
    BY <1>1, <1>2, <1>3, <1>z, Types DEF ShareInv, Fresh, Writers, Turns, Moved
  <2>2. \A u \in Calls : Alone(u)'
    BY <1>1, <1>2, <1>3, <1>z, Types DEF ShareInv, Alone, Fresh, Distinct, Writers, Turns, Moved
  <2>3. \A u, v \in Calls : Distinct(u, v)'
    BY <1>1, <1>2, <1>3, <1>z, Types DEF ShareInv, Distinct, Fresh, Alone, Writers, Turns, Moved
  <2>4. \A x, y, z \in Calls : Two(x, y, z)'
    BY <1>1, <1>2, <1>3, <1>z, Types DEF ShareInv, Two, Alone, Writers, Turns, Moved
  <2> QED
    BY <2>1, <2>2, <2>3, <2>4 DEF ShareInv
<1>10. OwnInv'
  <2>1. \A b : Claimed(b) => Claimed(b)'
    BY <1>1, <1>2, <1>3, <1>5, <1>r, <1>z, ClaimedKept DEF Turns
  <2>2. \A s : Served(s) => Served(s)'
    BY <1>1, <1>2, <1>3, <1>5, <1>r, <1>z, ServedKept DEF Turns
  <2> QED
    BY <2>1, <2>2, <1>1, <1>2, <1>3, <1>5, <1>r, <1>z, OwnKept DEF Turns, Rebuilding
<1>11. PairInv'
  BY <1>1, <1>2, <1>3, <1>5, <1>z, <1>s, Types DEF PairInv, Partnered, Turns, Moved
<1>12. AliveInv'
  BY <1>1, <1>2, <1>3, <1>5, <1>v, <1>z, Types DEF AliveInv, Writers, Turns, Moved
<1>13. TwoInv'
  BY <1>1, <1>2, <1>3, <1>5, <1>z, TwoKept DEF Turns, Rebuilding
<1> QED
  BY <1>4, <1>6, <1>7, <1>8, <1>9, <1>10, <1>11, <1>12, <1>13

(* The parked leg passes from the room into one worker's hand. *)
LEMMA TakePendingInv ==
  ASSUME BridgeInv, NEW w \in Calls, TakePending(w)
  PROVE  BridgeInv'
<1> USE DEF BridgeInv
<1>t. TypeOK
  OBVIOUS
<1>1. job[w].pc = "attach" /\ Turns(w, "pair", pending, 0)
  BY <1>t, GotoTurns DEF TakePending, AtPc, Pcs, Rest, TypeOK
<1>2. UNCHANGED <<dlg, codec, ep, bmap, fabric, smap, running, leg, armed, cdr, byes, ends,
                  made, refreshes, crossed>>
  BY DEF TakePending, mediaVars, dlgVars, reinviteVars
<1>3. pending \in Calls /\ pending' = NoCall
  BY <1>t DEF TakePending, TypeOK
<1>4. TypeOK'
  BY <1>1, <1>2, <1>3, <1>t DEF TypeOK, Turns, Moved, Media
<1>5. Moved(w) /\ (Quiet' <=> Quiet)
  BY <1>1, <1>2 DEF Turns, Quiet
<1>r. /\ \A v, x \in Calls : Removes(v, x)' <=> Removes(v, x)
      /\ \A x \in Calls : Removed(x)' <=> Removed(x)
  BY <1>1, <1>5, RemovedKept DEF Turns
<1>v. \A v, c \in Calls : Rewrites(v, c)' <=> Rewrites(v, c)
  BY <1>1, <1>5, RewritesKept DEF Turns
<1>z. ~Single(w) /\ pending # w /\ \A v \in Calls : ~Holds(v, w)
  BY <1>1 DEF RoomInv, Early, Single
<1>s. /\ \A v \in Calls : \A x : Holds(v, x)' <=> Holds(v, x) \/ (v = w /\ x = pending)
      /\ \A x \in Calls : Single(x)' <=> Single(x)
  <2>1. \A v \in Calls : \A x : Holds(v, x)' <=> Holds(v, x) \/ (v = w /\ x = pending)
    BY <1>1, <1>3, <1>5, Types DEF Turns, Moved, Holds
  <2> QED
    BY <2>1, <1>3, Types DEF Single
<1>6. JobInv'
  BY <1>1, <1>3, <1>z, Types DEF JobInv, Writers, Rebuilding, Turns, Moved
<1>7. LifeInv'
  BY <1>1, <1>2, <1>3, <1>r, <1>z, Types DEF LifeInv, Early, Rebuilding, Turns, Moved
<1>8. RoomInv'
  BY <1>1, <1>2, <1>3, <1>z, <1>s, Types DEF RoomInv, Early, Rebuilding, JobInv, Writers,
     Turns, Moved
<1>9. ShareInv'
  <2>1. Fresh'
    BY <1>1, <1>2, <1>3, <1>z, Types DEF ShareInv, Fresh, Writers, Turns, Moved
  <2>2. \A u \in Calls : Alone(u)'
    BY <1>1, <1>2, <1>3, <1>z, Types DEF ShareInv, Alone, Fresh, Distinct, Writers, Turns, Moved
  <2>3. \A u, v \in Calls : Distinct(u, v)'
    BY <1>1, <1>2, <1>3, <1>z, Types DEF ShareInv, Distinct, Fresh, Alone, Writers, Turns, Moved
  <2>4. \A x, y, z \in Calls : Two(x, y, z)'
    BY <1>1, <1>2, <1>3, <1>z, Types DEF ShareInv, Two, Alone, Writers, Turns, Moved
  <2> QED
    BY <2>1, <2>2, <2>3, <2>4 DEF ShareInv
<1>10. OwnInv'
  <2>1. \A b : Claimed(b) => Claimed(b)'
    BY <1>1, <1>2, <1>3, <1>5, <1>r, <1>z, ClaimedKept DEF Turns
  <2>2. \A s : Served(s) => Served(s)'
    BY <1>1, <1>2, <1>3, <1>5, <1>r, <1>z, ServedKept DEF Turns
  <2> QED
    BY <2>1, <2>2, <1>1, <1>2, <1>3, <1>5, <1>r, <1>z, OwnKept DEF Turns, Rebuilding
<1>11. PairInv'
  BY <1>1, <1>2, <1>3, <1>5, <1>z, <1>s, Types DEF PairInv, Partnered, Turns, Moved
<1>12. AliveInv'
  BY <1>1, <1>2, <1>3, <1>5, <1>v, <1>z, Types DEF AliveInv, Writers, Turns, Moved
<1>13. TwoInv'
  BY <1>1, <1>2, <1>3, <1>5, <1>z, TwoKept DEF Turns, Rebuilding
<1> QED
  BY <1>4, <1>6, <1>7, <1>8, <1>9, <1>10, <1>11, <1>12, <1>13

(* The bridge is new: no map entry and no other worker has it. *)
LEMMA BridgeLegsInv ==
  ASSUME BridgeInv, NEW w \in Calls, BridgeLegs(w)
  PROVE  BridgeInv'
<1> USE DEF BridgeInv
<1>t. TypeOK
  OBVIOUS
<1>1. job[w].pc = "pair" /\ Turns(w, "mapPeer", job[w].who, made + 1)
  BY <1>t, GotoTurns, Types DEF BridgeLegs, AtPc, Pcs, Rest, BridgeUp
<1>2. UNCHANGED <<dlg, codec, ep, pending, bmap, smap, running, leg, armed, cdr, byes, ends,
                  refreshes, crossed>>
  BY DEF BridgeLegs, mediaVars, dlgVars, reinviteVars
<1>3. {job[w].who, w} \subseteq ep /\ made' = made + 1 /\ fabric' = fabric \cup {made'}
  BY DEF BridgeLegs, BridgeUp
<1>4. TypeOK'
  BY <1>1, <1>2, <1>3, <1>t DEF TypeOK, Turns, Moved, Media
<1>5. Moved(w) /\ (Quiet' <=> Quiet)
  BY <1>1, <1>2 DEF Turns, Quiet
<1>r. /\ \A v, x \in Calls : Removes(v, x)' <=> Removes(v, x)
      /\ \A x \in Calls : Removed(x)' <=> Removed(x)
  BY <1>1, <1>5, RemovedKept DEF Turns
<1>s. /\ \A v \in Calls : \A x : Holds(v, x)' <=> Holds(v, x)
      /\ \A x \in Calls : Single(x)' <=> Single(x)
  BY <1>1, <1>2, <1>5, SinglePassed DEF Turns
<1>v. \A v, c \in Calls : Rewrites(v, c)' <=> Rewrites(v, c)
  BY <1>1, <1>5, RewritesKept DEF Turns
<1>6. JobInv'
  BY <1>1, <1>3, Types DEF JobInv, Writers, Rebuilding, Turns, Moved
<1>7. LifeInv'
  BY <1>1, <1>2, <1>3, <1>r, Types DEF LifeInv, Early, Rebuilding, Turns, Moved
<1>8. RoomInv'
  BY <1>1, <1>2, <1>3, <1>s, Types DEF RoomInv, Early, Rebuilding, JobInv, Writers, Turns, Moved
<1>9. ShareInv'
  <2>1. Fresh'
    BY <1>1, <1>2, <1>3, Types DEF ShareInv, Fresh, Writers, Turns, Moved
  <2>2. \A u \in Calls : Alone(u)'
    BY <1>1, <1>2, <1>3, Types DEF ShareInv, Alone, Fresh, Distinct, Writers, Turns, Moved
  <2>3. \A u, v \in Calls : Distinct(u, v)'
    BY <1>1, <1>2, <1>3, Types DEF ShareInv, Distinct, Fresh, Alone, Writers, Turns, Moved
  <2>4. \A x, y, z \in Calls : Two(x, y, z)'
    BY <1>1, <1>2, <1>3, Types DEF ShareInv, Two, Alone, Writers, Turns, Moved
  <2> QED
    BY <2>1, <2>2, <2>3, <2>4 DEF ShareInv
<1>10. OwnInv'
  <2>1. \A b : Claimed(b) => Claimed(b)'
    BY <1>1, <1>2, <1>3, <1>5, <1>r, ClaimedKept DEF Turns
  <2>2. \A s : Served(s) => Served(s)'
    BY <1>1, <1>2, <1>3, <1>5, <1>r, ServedKept DEF Turns
  <2>3. \A b : b = made' => Claimed(b)'
    BY <1>1, <1>2, <1>3, <1>5, <1>r DEF Claimed, InHand, Turns
  <2> QED
    BY <2>1, <2>2, <2>3, <1>1, <1>2, <1>3, <1>5, <1>r DEF OwnInv, Rebuilding, Turns, Moved
<1>11. PairInv'
  BY <1>1, <1>2, <1>3, <1>5, <1>s, Types DEF PairInv, Partnered, Turns, Moved
<1>12. AliveInv'
  BY <1>1, <1>2, <1>3, <1>5, <1>v, Types DEF AliveInv, Writers, Turns, Moved
<1>13. TwoInv'
  BY <1>1, <1>2, <1>3, <1>5, TwoKept DEF Turns, Rebuilding
<1> QED
  BY <1>4, <1>6, <1>7, <1>8, <1>9, <1>10, <1>11, <1>12, <1>13

(* The peer, which had no bridge, is put on the new one. *)
LEMMA MapPeerInv ==
  ASSUME BridgeInv, NEW w \in Calls, MapPeer(w)
  PROVE  BridgeInv'
<1> USE DEF BridgeInv
<1>t. TypeOK
  OBVIOUS
<1>j. job[w].pc = "mapPeer" /\ job[w].who \in Calls \ {w}
  BY DEF MapPeer, AtPc, JobInv, Writers, Rebuilding
<1>1. job[w].pc = "mapPeer" /\ Turns(w, "mapOwn", job[w].who, job[w].bid)
  BY <1>t, PcTurns DEF MapPeer, AtPc, Pcs, Rest
<1>2. UNCHANGED <<dlg, codec, ep, pending, fabric, smap, running, leg, armed, cdr, byes, ends,
                  made, refreshes, crossed>>
  BY DEF MapPeer, mediaVars, dlgVars, reinviteVars
<1>3. /\ bmap' \in [Calls -> Nat] /\ bmap'[job[w].who] = job[w].bid
      /\ \A c \in Calls : c # job[w].who => bmap'[c] = bmap[c]
  BY <1>t, <1>1, Types DEF MapPeer, TypeOK, JobInv, Writers
<1>4. TypeOK'
  BY <1>1, <1>2, <1>j, <1>3, <1>t DEF TypeOK, Turns, Moved, Media
<1>5. Moved(w) /\ (Quiet' <=> Quiet)
  BY <1>1, <1>2 DEF Turns, Quiet
<1>r. /\ \A v, x \in Calls : Removes(v, x)' <=> Removes(v, x)
      /\ \A x \in Calls : Removed(x)' <=> Removed(x)
  BY <1>1, <1>5, RemovedKept DEF Turns
<1>s. /\ \A v \in Calls : \A x : Holds(v, x)' <=> Holds(v, x) /\ v # w
      /\ \A x \in Calls : Single(x)' <=> Single(x) /\ x # job[w].who
      /\ Single(job[w].who)
  BY <1>1, <1>2, <1>5, <1>j, SingleLost DEF Turns
<1>v. \A v, c \in Calls : Rewrites(v, c)' <=> Rewrites(v, c)
  BY <1>1, <1>5, RewritesKept DEF Turns
<1>z. bmap[job[w].who] = 0 /\ job[w].bid # 0
  BY <1>1, <1>j, <1>s DEF RoomInv, JobInv, Writers
<1>6. JobInv'
  BY <1>1, <1>j, <1>3, <1>z, Types DEF JobInv, Writers, Rebuilding, Turns, Moved
<1>7. LifeInv'
  BY <1>1, <1>2, <1>j, <1>3, <1>r, <1>z, Types DEF LifeInv, Early, Rebuilding, Turns, Moved
<1>8. RoomInv'
  BY <1>1, <1>2, <1>j, <1>3, <1>s, <1>z, Types DEF RoomInv, Early, Rebuilding, JobInv, Writers,
     Turns, Moved
<1>9. ShareInv'
  <2>1. Fresh'
    BY <1>1, <1>2, <1>j, <1>3, <1>z, Types DEF ShareInv, Fresh, Writers, Turns, Moved
  <2>2. \A u \in Calls : Alone(u)'
    BY <1>1, <1>2, <1>j, <1>3, <1>z, Types DEF ShareInv, Alone, Fresh, Distinct, Writers,
       Turns, Moved
  <2>3. \A u, v \in Calls : Distinct(u, v)'
    BY <1>1, <1>2, <1>j, <1>3, <1>z, Types DEF ShareInv, Distinct, Fresh, Alone, Writers,
       Turns, Moved
  <2>4. \A x, y, z \in Calls : Two(x, y, z)'
    BY <1>1, <1>2, <1>j, <1>3, <1>z, Types DEF ShareInv, Two, Alone, Writers, Turns, Moved
  <2> QED
    BY <2>1, <2>2, <2>3, <2>4 DEF ShareInv
<1>10. OwnInv'
  <2>1. \A v \in Calls : \A b : InHand(v, b) => InHand(v, b)'
    BY <1>1, <1>2, <1>j, <1>3, <1>5, <1>r, <1>z DEF InHand, Turns, Moved
  <2>2. \A c \in Calls : ToUnmap(c) => ToUnmap(c)'
    BY <1>1, <1>2, <1>j, <1>3, <1>5, <1>r, <1>z DEF ToUnmap, Turns, Moved
  <2>3. \A b \in fabric : Claimed(b) => Claimed(b)'
    BY <2>1, <2>2, <1>1, <1>2, <1>j, <1>3, <1>5, <1>r, <1>z, Types DEF Claimed
  <2>4. \A s : Served(s) => Served(s)'
    BY <1>1, <1>2, <1>j, <1>3, <1>5, <1>r, <1>z, ServedKept DEF Turns
  <2> QED
    BY <2>3, <2>4, <1>1, <1>2, <1>j, <1>3, <1>5, <1>r, <1>z, OwnKept DEF Rebuilding, Turns
<1>11. PairInv'
  BY <1>1, <1>2, <1>j, <1>3, <1>5, <1>s, <1>z, Types DEF PairInv, Partnered, Turns, Moved
<1>12. AliveInv'
  BY <1>1, <1>2, <1>j, <1>3, <1>5, <1>v, <1>z, Types DEF AliveInv, Writers, Turns, Moved
<1>13. TwoInv'
  <2> SUFFICES ASSUME Quiet, ~crossed
               PROVE  /\ \A u, v \in Calls : Apart(u, v)'
                      /\ \A v \in Calls : Ready(v)'
                      /\ \A c \in Calls : bmap'[c] # 0 => Mated(c)'
    BY <1>1, <1>2, <1>j, <1>3, <1>5, <1>z DEF TwoInv
  <2>1. \A u, v \in Calls : Apart(u, v)'
    BY <1>1, <1>2, <1>j, <1>3, <1>5, <1>z DEF TwoInv, Apart, Rebuilding, Turns, Moved
  <2>2. ASSUME NEW v \in Calls PROVE Ready(v)'
    <3>1. Ready(v) /\ Ready(w) /\ Alone(w)
      BY DEF TwoInv, ShareInv
    <3>2. /\ job[v].pc \in Rebuilding \cup {"mapOwn"} => job[v].who \in Calls
          /\ job[v].pc \in {"remapPeer", "mapOwn"} => job[v].bid # 0
          /\ job[v].pc \in Rebuilding => dlg[job[v].who] # "none"
      BY DEF JobInv, LifeInv, Writers
    <3> QED
      BY <3>1, <3>2, <1>1, <1>2, <1>j, <1>3, <1>5, <1>z DEF Ready, Alone, Rebuilding, Turns,
         Moved
  <2>3. ASSUME NEW c \in Calls, bmap'[c] # 0 PROVE Mated(c)'
    <3>1. Ready(w) /\ (bmap[c] # 0 => Mated(c))
      BY DEF TwoInv
    <3> QED
      BY <3>1, <2>3, <1>1, <1>2, <1>j, <1>3, <1>5, <1>z DEF Ready, Mated, Turns, Moved
  <2> QED
    BY <2>1, <2>2, <2>3
<1> QED
  BY <1>4, <1>6, <1>7, <1>8, <1>9, <1>10, <1>11, <1>12, <1>13

(* The worker's own leg joins the peer on it. *)
LEMMA MapOwnInv ==
  ASSUME BridgeInv, NEW w \in Calls, MapOwn(w)
  PROVE  BridgeInv'
<1> USE DEF BridgeInv
<1>t. TypeOK
  OBVIOUS
<1>j. job[w].pc = "mapOwn" /\ job[w].who \in Calls \ {w}
  BY DEF MapOwn, AtPc, JobInv, Writers, Rebuilding
<1>1. job[w].pc = "mapOwn" /\ Turns(w, "insert", NoCall, 0)
  BY <1>t, GotoTurns, Types DEF MapOwn, AtPc, Pcs, Rest
<1>2. UNCHANGED <<dlg, codec, ep, pending, fabric, smap, running, leg, armed, cdr, byes, ends,
                  made, refreshes, crossed>>
  BY DEF MapOwn, mediaVars, dlgVars, reinviteVars
<1>3. /\ bmap' \in [Calls -> Nat] /\ bmap'[w] = job[w].bid
      /\ \A c \in Calls : c # w => bmap'[c] = bmap[c]
  BY <1>t, <1>1, Types DEF MapOwn, TypeOK, JobInv, Writers
<1>4. TypeOK'
  BY <1>1, <1>2, <1>j, <1>3, <1>t DEF TypeOK, Turns, Moved, Media
<1>5. Moved(w) /\ (Quiet' <=> Quiet)
  BY <1>1, <1>2 DEF Turns, Quiet
<1>r. /\ \A v, x \in Calls : Removes(v, x)' <=> Removes(v, x)
      /\ \A x \in Calls : Removed(x)' <=> Removed(x)
  BY <1>1, <1>5, RemovedKept DEF Turns
<1>s. /\ \A v \in Calls : \A x : Holds(v, x)' <=> Holds(v, x)
      /\ \A x \in Calls : Single(x)' <=> Single(x)
  BY <1>1, <1>2, <1>5, SingleKept DEF Turns
<1>v. \A v, c \in Calls : Rewrites(v, c)' <=> Rewrites(v, c)
  BY <1>1, <1>5, RewritesKept DEF Turns
<1>z. bmap[w] = 0 /\ dlg[w] = "none" /\ job[w].bid # 0
  BY <1>1 DEF RoomInv, LifeInv, JobInv, Writers, Early
<1>6. JobInv'
  BY <1>1, <1>j, <1>3, <1>z, Types DEF JobInv, Writers, Rebuilding, Turns, Moved
<1>7. LifeInv'
  BY <1>1, <1>2, <1>j, <1>3, <1>r, <1>z, Types DEF LifeInv, Early, Rebuilding, Turns, Moved
<1>8. RoomInv'
  BY <1>1, <1>2, <1>j, <1>3, <1>s, <1>z, Types DEF RoomInv, Early, Rebuilding, JobInv, Writers,
     Turns, Moved
<1>9. ShareInv'
  <2>1. Fresh'
    BY <1>1, <1>2, <1>j, <1>3, <1>z, Types DEF ShareInv, Fresh, Writers, Turns, Moved
  <2>2. \A u \in Calls : Alone(u)'
    BY <1>1, <1>2, <1>j, <1>3, <1>z, Types DEF ShareInv, Alone, Fresh, Distinct, Writers,
       Turns, Moved
  <2>3. \A u, v \in Calls : Distinct(u, v)'
    BY <1>1, <1>2, <1>j, <1>3, <1>z, Types DEF ShareInv, Distinct, Fresh, Alone, Writers,
       Turns, Moved
  <2>4. \A x, y, z \in Calls : Two(x, y, z)'
    BY <1>1, <1>2, <1>j, <1>3, <1>z, Types DEF ShareInv, Two, Alone, Writers, Turns, Moved
  <2> QED
    BY <2>1, <2>2, <2>3, <2>4 DEF ShareInv
<1>10. OwnInv'
  <2>1. \A v \in Calls : \A b : InHand(v, b) => InHand(v, b)' \/ (v = w /\ b = job[w].bid)
    BY <1>1, <1>2, <1>j, <1>3, <1>5, <1>r, <1>z DEF InHand, Turns, Moved
  <2>2. \A c \in Calls : ToUnmap(c) => ToUnmap(c)'
    BY <1>1, <1>2, <1>j, <1>3, <1>5, <1>r, <1>z DEF ToUnmap, Turns, Moved
  <2>3. \A b \in fabric : Claimed(b) => Claimed(b)'
    BY <2>1, <2>2, <1>1, <1>2, <1>j, <1>3, <1>5, <1>r, <1>z, Types DEF Claimed
  <2>4. \A s : Served(s) => Served(s)'
    BY <1>1, <1>2, <1>j, <1>3, <1>5, <1>r, <1>z, ServedKept DEF Turns
  <2> QED
    BY <2>3, <2>4, <1>1, <1>2, <1>j, <1>3, <1>5, <1>r, <1>z, OwnKept DEF Rebuilding, Turns
<1>11. PairInv'
  BY <1>1, <1>2, <1>j, <1>3, <1>5, <1>s, <1>z, Types DEF PairInv, Partnered, Turns, Moved
<1>12. AliveInv'
  BY <1>1, <1>2, <1>j, <1>3, <1>5, <1>v, <1>z, Types DEF AliveInv, Writers, Turns, Moved
<1>13. TwoInv'
  <2> SUFFICES ASSUME Quiet, ~crossed
               PROVE  /\ \A u, v \in Calls : Apart(u, v)'
                      /\ \A v \in Calls : Ready(v)'
                      /\ \A c \in Calls : bmap'[c] # 0 => Mated(c)'
    BY <1>1, <1>2, <1>j, <1>3, <1>5, <1>z DEF TwoInv
  <2>1. \A u, v \in Calls : Apart(u, v)'
    BY <1>1, <1>2, <1>j, <1>3, <1>5, <1>z DEF TwoInv, Apart, Rebuilding, Turns, Moved
  <2>2. ASSUME NEW v \in Calls PROVE Ready(v)'
    <3>1. Ready(v) /\ Ready(w) /\ Alone(w)
      BY DEF TwoInv, ShareInv
    <3>2. /\ job[v].pc \in Rebuilding \cup {"mapOwn"} => job[v].who \in Calls
          /\ job[v].pc \in {"remapPeer", "mapOwn"} => job[v].bid # 0
          /\ job[v].pc \in Rebuilding => dlg[job[v].who] # "none"
      BY DEF JobInv, LifeInv, Writers
    <3> QED
      BY <3>1, <3>2, <1>1, <1>2, <1>j, <1>3, <1>5, <1>z DEF Ready, Alone, Rebuilding, Turns,
         Moved
  <2>3. ASSUME NEW c \in Calls, bmap'[c] # 0 PROVE Mated(c)'
    <3>1. Ready(w) /\ (bmap[c] # 0 => Mated(c))
      BY DEF TwoInv
    <3> QED
      BY <3>1, <2>3, <1>1, <1>2, <1>j, <1>3, <1>5, <1>z DEF Ready, Mated, Turns, Moved
  <2> QED
    BY <2>1, <2>2, <2>3
<1> QED
  BY <1>4, <1>6, <1>7, <1>8, <1>9, <1>10, <1>11, <1>12, <1>13

(* One new session, in the tables of both legs. *)
LEMMA TranscodeLegsInv ==
  ASSUME BridgeInv, NEW w \in Calls, TranscodeLegs(w)
  PROVE  BridgeInv'
<1> USE DEF BridgeInv
<1>t. TypeOK
  OBVIOUS
<1>j. job[w].pc = "pair" /\ job[w].who \in Calls \ {w}
  BY DEF TranscodeLegs, AtPc, JobInv, Writers, Rebuilding
<1>1. job[w].pc = "pair" /\ Turns(w, "insert", NoCall, 0)
  BY <1>t, GotoTurns, Types DEF TranscodeLegs, AtPc, Pcs, Rest
<1>2. UNCHANGED <<dlg, codec, ep, pending, bmap, fabric, leg, armed, cdr, byes, ends,
                  refreshes, crossed>>
  BY DEF TranscodeLegs, mediaVars, dlgVars, reinviteVars
<1>3. /\ made' = made + 1 /\ running' = running \cup {made'} /\ smap' \in [Calls -> Nat]
      /\ smap'[w] = made' /\ smap'[job[w].who] = made'
      /\ \A c \in Calls : c # w /\ c # job[w].who => smap'[c] = smap[c]
  BY <1>t, <1>j, Types DEF TranscodeLegs, TypeOK
<1>4. TypeOK'
  BY <1>1, <1>2, <1>j, <1>3, <1>t DEF TypeOK, Turns, Moved, Media
<1>5. Moved(w) /\ (Quiet' <=> Quiet)
  BY <1>1, <1>2 DEF Turns, Quiet
<1>r. /\ \A v, x \in Calls : Removes(v, x)' <=> Removes(v, x)
      /\ \A x \in Calls : Removed(x)' <=> Removed(x)
  BY <1>1, <1>5, RemovedKept DEF Turns
<1>s. /\ \A v \in Calls : \A x : Holds(v, x)' <=> Holds(v, x) /\ v # w
      /\ \A x \in Calls : Single(x)' <=> Single(x) /\ x # job[w].who
      /\ Single(job[w].who)
  BY <1>1, <1>2, <1>5, <1>j, SingleLost DEF Turns
<1>v. \A v, c \in Calls : Rewrites(v, c)' <=> Rewrites(v, c)
  BY <1>1, <1>5, RewritesKept DEF Turns
<1>z. smap[w] = 0 /\ smap[job[w].who] = 0 /\ dlg[w] = "none"
  BY <1>1, <1>j, <1>s DEF RoomInv, LifeInv, Early
<1>6. JobInv'
  BY <1>1, <1>j, <1>3, <1>z, Types DEF JobInv, Writers, Rebuilding, Turns, Moved
<1>7. LifeInv'
  BY <1>1, <1>2, <1>j, <1>3, <1>r, <1>z, Types DEF LifeInv, Early, Rebuilding, Turns, Moved
<1>8. RoomInv'
  BY <1>1, <1>2, <1>j, <1>3, <1>s, <1>z, Types DEF RoomInv, Early, Rebuilding, JobInv, Writers,
     Turns, Moved
<1>9. ShareInv'
  <2>1. Fresh'
    BY <1>1, <1>2, <1>j, <1>3, <1>z, Types DEF ShareInv, Fresh, Writers, Turns, Moved
  <2>2. \A u \in Calls : Alone(u)'
    BY <1>1, <1>2, <1>j, <1>3, <1>z, Types DEF ShareInv, Alone, Fresh, Distinct, Writers,
       Turns, Moved
  <2>3. \A u, v \in Calls : Distinct(u, v)'
    BY <1>1, <1>2, <1>j, <1>3, <1>z, Types DEF ShareInv, Distinct, Fresh, Alone, Writers,
       Turns, Moved
  <2>4. \A x, y, z \in Calls : Two(x, y, z)'
    BY <1>1, <1>2, <1>j, <1>3, <1>z, Types DEF ShareInv, Two, Alone, Writers, Turns, Moved
  <2> QED
    BY <2>1, <2>2, <2>3, <2>4 DEF ShareInv
<1>10. OwnInv'
  <2>1. \A b : Claimed(b) => Claimed(b)'
    BY <1>1, <1>2, <1>j, <1>3, <1>5, <1>r, <1>z, ClaimedKept DEF Turns
  <2>2. \A s \in running : Served(s) => Served(s)'
    BY <1>1, <1>2, <1>j, <1>3, <1>5, <1>r, <1>z, Types DEF Served
  <2>3. \A s : s = made' => Served(s)'
    BY <1>1, <1>2, <1>j, <1>3, <1>5, <1>r, <1>z DEF Served
  <2> QED
    BY <2>1, <2>2, <2>3, <1>1, <1>2, <1>j, <1>3, <1>5, <1>r, <1>z DEF OwnInv, Rebuilding,
       Turns, Moved
<1>11. PairInv'
  BY <1>1, <1>2, <1>j, <1>3, <1>5, <1>s, <1>z, Types DEF PairInv, Partnered, Turns, Moved
<1>12. AliveInv'
  BY <1>1, <1>2, <1>j, <1>3, <1>5, <1>v, <1>z, Types DEF AliveInv, Writers, Turns, Moved
<1>13. TwoInv'
  BY <1>1, <1>2, <1>j, <1>3, <1>5, <1>z, TwoKept DEF Turns, Rebuilding
<1> QED
  BY <1>4, <1>6, <1>7, <1>8, <1>9, <1>10, <1>11, <1>12, <1>13

(* A pairing fails: the worker still holds the leg. *)
LEMMA PairingFailsInv ==
  ASSUME BridgeInv, NEW w \in Calls, PairingFails(w)
  PROVE  BridgeInv'
<1> USE DEF BridgeInv
<1>t. TypeOK
  OBVIOUS
<1>1. job[w].pc = "pair" /\ Turns(w, "repark", job[w].who, job[w].bid)
  BY <1>t, PcTurns DEF PairingFails, AtPc, Pcs, Rest
<1>2. UNCHANGED <<dlg, codec, ep, pending, bmap, fabric, smap, running, leg, armed, cdr, byes,
                  ends, made, refreshes, crossed>>
  BY DEF PairingFails, mediaVars, dlgVars, reinviteVars
<1>4. TypeOK'
  BY <1>1, <1>2, <1>t DEF TypeOK, Turns, Moved, Media
<1>5. Moved(w) /\ (Quiet' <=> Quiet)
  BY <1>1, <1>2 DEF Turns, Quiet
<1>r. /\ \A v, x \in Calls : Removes(v, x)' <=> Removes(v, x)
      /\ \A x \in Calls : Removed(x)' <=> Removed(x)
  BY <1>1, <1>5, RemovedKept DEF Turns
<1>s. /\ \A v \in Calls : \A x : Holds(v, x)' <=> Holds(v, x)
      /\ \A x \in Calls : Single(x)' <=> Single(x)
  BY <1>1, <1>2, <1>5, SinglePassed DEF Turns
<1>v. \A v, c \in Calls : Rewrites(v, c)' <=> Rewrites(v, c)
  BY <1>1, <1>5, RewritesKept DEF Turns
<1>6. JobInv'
  BY <1>1, Types DEF JobInv, Writers, Rebuilding, Turns, Moved
<1>7. LifeInv'
  BY <1>1, <1>2, <1>r, Types DEF LifeInv, Early, Rebuilding, Turns, Moved
<1>8. RoomInv'
  BY <1>1, <1>2, <1>s, Types DEF RoomInv, Early, Rebuilding, JobInv, Writers, Turns, Moved
<1>9. ShareInv'
  <2>1. Fresh'
    BY <1>1, <1>2, Types DEF ShareInv, Fresh, Writers, Turns, Moved
  <2>2. \A u \in Calls : Alone(u)'
    BY <1>1, <1>2, Types DEF ShareInv, Alone, Fresh, Distinct, Writers, Turns, Moved
  <2>3. \A u, v \in Calls : Distinct(u, v)'
    BY <1>1, <1>2, Types DEF ShareInv, Distinct, Fresh, Alone, Writers, Turns, Moved
  <2>4. \A x, y, z \in Calls : Two(x, y, z)'
    BY <1>1, <1>2, Types DEF ShareInv, Two, Alone, Writers, Turns, Moved
  <2> QED
    BY <2>1, <2>2, <2>3, <2>4 DEF ShareInv
<1>10. OwnInv'
  <2>1. \A b : Claimed(b) => Claimed(b)'
    BY <1>1, <1>2, <1>5, <1>r, ClaimedKept DEF Turns
  <2>2. \A s : Served(s) => Served(s)'
    BY <1>1, <1>2, <1>5, <1>r, ServedKept DEF Turns
  <2> QED
    BY <2>1, <2>2, <1>1, <1>2, <1>5, <1>r, OwnKept DEF Turns, Rebuilding
<1>11. PairInv'
  BY <1>1, <1>2, <1>5, <1>s, Types DEF PairInv, Partnered, Turns, Moved
<1>12. AliveInv'
  BY <1>1, <1>2, <1>5, <1>v, Types DEF AliveInv, Writers, Turns, Moved
<1>13. TwoInv'
  BY <1>1, <1>2, <1>5, TwoKept DEF Turns, Rebuilding
<1> QED
  BY <1>4, <1>6, <1>7, <1>8, <1>9, <1>10, <1>11, <1>12, <1>13

(* The leg goes back to the room, in place of whoever waits there. *)
LEMMA ReparkInv ==
  ASSUME BridgeInv, NEW w \in Calls, Repark(w)
  PROVE  BridgeInv'
<1> USE DEF BridgeInv
<1>t. TypeOK
  OBVIOUS
<1>j. job[w].pc = "repark" /\ job[w].who \in Calls \ {w}
  BY DEF Repark, AtPc, JobInv, Writers, Rebuilding
<1>1. job[w].pc = "repark" /\ Turns(w, "rejected", NoCall, 0)
  BY <1>t, GotoTurns, Types DEF Repark, AtPc, Pcs, Rest
<1>2. UNCHANGED <<dlg, codec, bmap, fabric, smap, running, leg, armed, cdr, byes, ends, made,
                  refreshes, crossed>>
  BY DEF Repark, mediaVars, dlgVars, reinviteVars
<1>3. pending' = job[w].who /\ ep' = ep \ {w}
  BY DEF Repark
<1>4. TypeOK'
  BY <1>1, <1>2, <1>j, <1>3, <1>t DEF TypeOK, Turns, Moved, Media
<1>5. Moved(w) /\ (Quiet' <=> Quiet)
  BY <1>1, <1>2 DEF Turns, Quiet
<1>r. /\ \A v, x \in Calls : Removes(v, x)' <=> Removes(v, x)
      /\ \A x \in Calls : Removed(x)' <=> Removed(x)
  BY <1>1, <1>5, RemovedKept DEF Turns
<1>v. \A v, c \in Calls : Rewrites(v, c)' <=> Rewrites(v, c)
  BY <1>1, <1>5, RewritesKept DEF Turns
<1>s. /\ \A v \in Calls : \A x : Holds(v, x)' <=> Holds(v, x) /\ v # w
      /\ \A x \in Calls : Single(x)' => Single(x)
      /\ Holds(w, job[w].who)
  <2>1. \A v \in Calls : \A x : Holds(v, x)' <=> Holds(v, x) /\ v # w
    BY <1>1, <1>3, <1>5, Types DEF Turns, Moved, Holds
  <2>2. Holds(w, job[w].who)
    BY <1>1 DEF Holds
  <2> QED
    BY <2>1, <2>2, <1>3 DEF Single
<1>z. ~Removed(w)
  BY <1>1 DEF LifeInv, Removed, Removes, Early
<1>6. JobInv'
  BY <1>1, <1>j, <1>3, <1>z, Types DEF JobInv, Writers, Rebuilding, Turns, Moved
<1>7. LifeInv'
  BY <1>1, <1>2, <1>j, <1>3, <1>r, <1>z, Types DEF LifeInv, Early, Rebuilding, Turns, Moved
<1>8. RoomInv'
  BY <1>1, <1>2, <1>j, <1>3, <1>s, <1>z, Types DEF RoomInv, Early, Rebuilding, JobInv, Writers,
     Turns, Moved
<1>9. ShareInv'
  <2>1. Fresh'
    BY <1>1, <1>2, <1>j, <1>3, <1>z, Types DEF ShareInv, Fresh, Writers, Turns, Moved
  <2>2. \A u \in Calls : Alone(u)'
    BY <1>1, <1>2, <1>j, <1>3, <1>z, Types DEF ShareInv, Alone, Fresh, Distinct, Writers,
       Turns, Moved
  <2>3. \A u, v \in Calls : Distinct(u, v)'
    BY <1>1, <1>2, <1>j, <1>3, <1>z, Types DEF ShareInv, Distinct, Fresh, Alone, Writers,
       Turns, Moved
  <2>4. \A x, y, z \in Calls : Two(x, y, z)'
    BY <1>1, <1>2, <1>j, <1>3, <1>z, Types DEF ShareInv, Two, Alone, Writers, Turns, Moved
  <2> QED
    BY <2>1, <2>2, <2>3, <2>4 DEF ShareInv
<1>10. OwnInv'
  <2>1. \A b : Claimed(b) => Claimed(b)'
    BY <1>1, <1>2, <1>j, <1>3, <1>5, <1>r, <1>z, ClaimedKept DEF Turns
  <2>2. \A s : Served(s) => Served(s)'
    BY <1>1, <1>2, <1>j, <1>3, <1>5, <1>r, <1>z, ServedKept DEF Turns
  <2> QED
    BY <2>1, <2>2, <1>1, <1>2, <1>j, <1>3, <1>5, <1>r, <1>z, OwnKept DEF Turns, Rebuilding
<1>11. PairInv'
  BY <1>1, <1>2, <1>j, <1>3, <1>5, <1>s, <1>z, Types DEF PairInv, Partnered, Turns, Moved
<1>12. AliveInv'
  BY <1>1, <1>2, <1>j, <1>3, <1>5, <1>v, <1>z, Types DEF AliveInv, Writers, Turns, Moved
<1>13. TwoInv'
  BY <1>1, <1>2, <1>j, <1>3, <1>5, <1>z, TwoKept DEF Turns, Rebuilding
<1> QED
  BY <1>4, <1>6, <1>7, <1>8, <1>9, <1>10, <1>11, <1>12, <1>13

(* The dialog is up. *)
LEMMA InsertDialogInv ==
  ASSUME BridgeInv, NEW w \in Calls, InsertDialog(w)
  PROVE  BridgeInv'
<1> USE DEF BridgeInv
<1>t. TypeOK
  OBVIOUS
<1>1. job[w].pc = "insert" /\ Turns(w, "arm", NoCall, 0)
  BY <1>t, GotoTurns, Types DEF InsertDialog, AtPc, Pcs, Rest
<1>2. UNCHANGED <<codec, ep, pending, bmap, fabric, smap, running, leg, armed, cdr, byes, ends,
                  made, refreshes, crossed>>
  BY DEF InsertDialog, mediaVars, dlgVars, reinviteVars
<1>3. dlg' \in [Calls -> {"none", "up", "ended"}] /\ dlg'[w] = "up"
      /\ \A c \in Calls : c # w => dlg'[c] = dlg[c]
  BY <1>t DEF InsertDialog, TypeOK
<1>4. TypeOK'
  BY <1>1, <1>2, <1>3, <1>t DEF TypeOK, Turns, Moved, Media
<1>5. Moved(w) /\ (Quiet' <=> Quiet)
  BY <1>1, <1>2 DEF Turns, Quiet
<1>r. /\ \A v, x \in Calls : Removes(v, x)' <=> Removes(v, x)
      /\ \A x \in Calls : Removed(x)' <=> Removed(x)
  BY <1>1, <1>5, RemovedKept DEF Turns
<1>s. /\ \A v \in Calls : \A x : Holds(v, x)' <=> Holds(v, x)
      /\ \A x \in Calls : Single(x)' <=> Single(x)
  BY <1>1, <1>2, <1>5, SingleKept DEF Turns
<1>v. \A v, c \in Calls : Rewrites(v, c)' <=> Rewrites(v, c)
  BY <1>1, <1>5, RewritesKept DEF Turns
<1>6. JobInv'
  BY <1>1, <1>3, Types DEF JobInv, Writers, Rebuilding, Turns, Moved
<1>7. LifeInv'
  BY <1>1, <1>2, <1>3, <1>r, Types DEF LifeInv, JobInv, Early, Rebuilding, Turns, Moved
<1>8. RoomInv'
  BY <1>1, <1>2, <1>3, <1>s, Types DEF RoomInv, Early, Rebuilding, JobInv, Writers, Turns, Moved
<1>9. ShareInv'
  <2>1. Fresh'
    BY <1>1, <1>2, <1>3, Types DEF ShareInv, Fresh, Writers, Turns, Moved
  <2>2. \A u \in Calls : Alone(u)'
    BY <1>1, <1>2, <1>3, Types DEF ShareInv, Alone, Fresh, Distinct, Writers, Turns, Moved
  <2>3. \A u, v \in Calls : Distinct(u, v)'
    BY <1>1, <1>2, <1>3, Types DEF ShareInv, Distinct, Fresh, Alone, Writers, Turns, Moved
  <2>4. \A x, y, z \in Calls : Two(x, y, z)'
    BY <1>1, <1>2, <1>3, Types DEF ShareInv, Two, Alone, Writers, Turns, Moved
  <2> QED
    BY <2>1, <2>2, <2>3, <2>4 DEF ShareInv
<1>10. OwnInv'
  <2>1. \A b : Claimed(b) => Claimed(b)'
    BY <1>1, <1>2, <1>3, <1>5, <1>r, ClaimedKept DEF Turns
  <2>2. \A s : Served(s) => Served(s)'
    BY <1>1, <1>2, <1>3, <1>5, <1>r, ServedKept DEF Turns
  <2> QED
    BY <2>1, <2>2, <1>1, <1>2, <1>3, <1>5, <1>r, OwnKept DEF Turns, Rebuilding
<1>11. PairInv'
  BY <1>1, <1>2, <1>3, <1>5, <1>s, Types DEF PairInv, Partnered, Turns, Moved
<1>12. AliveInv'
  BY <1>1, <1>2, <1>3, <1>5, <1>v, Types DEF AliveInv, Writers, Turns, Moved
<1>13. TwoInv'
  BY <1>1, <1>2, <1>3, <1>5, TwoKept DEF Turns, Rebuilding
<1> QED
  BY <1>4, <1>6, <1>7, <1>8, <1>9, <1>10, <1>11, <1>12, <1>13

(* Its timers are armed. *)
LEMMA ArmDialogInv ==
  ASSUME BridgeInv, NEW w \in Calls, ArmDialog(w)
  PROVE  BridgeInv'
<1> USE DEF BridgeInv
<1>t. TypeOK
  OBVIOUS
<1>1. job[w].pc = "arm" /\ Turns(w, "idle", NoCall, 0)
  BY <1>t, GotoTurns, Types DEF ArmDialog, AtPc, Pcs, Rest
<1>2. UNCHANGED <<dlg, codec, ep, pending, bmap, fabric, smap, running, byes, ends, made,
                  refreshes, crossed>>
  BY DEF ArmDialog, mediaVars, dlgVars, reinviteVars
<1>3. leg' = leg \cup {w} /\ armed' = armed \cup {w}
      /\ cdr' = [cdr EXCEPT ![w] = "pending"]
  BY DEF ArmDialog
<1>4. TypeOK'
  BY <1>1, <1>2, <1>3, <1>t DEF TypeOK, Turns, Moved, Media
<1>5. Moved(w) /\ (Quiet' <=> Quiet)
  BY <1>1, <1>2 DEF Turns, Quiet
<1>r. /\ \A v, x \in Calls : Removes(v, x)' <=> Removes(v, x)
      /\ \A x \in Calls : Removed(x)' <=> Removed(x)
  BY <1>1, <1>5, RemovedKept DEF Turns
<1>s. /\ \A v \in Calls : \A x : Holds(v, x)' <=> Holds(v, x)
      /\ \A x \in Calls : Single(x)' <=> Single(x)
  BY <1>1, <1>2, <1>5, SingleKept DEF Turns
<1>v. \A v, c \in Calls : Rewrites(v, c)' <=> Rewrites(v, c)
  BY <1>1, <1>5, RewritesKept DEF Turns
<1>6. JobInv'
  BY <1>1, <1>3, Types DEF JobInv, Writers, Rebuilding, Turns, Moved
<1>7. LifeInv'
  BY <1>1, <1>2, <1>3, <1>r, Types DEF LifeInv, Early, Rebuilding, Turns, Moved
<1>8. RoomInv'
  BY <1>1, <1>2, <1>3, <1>s, Types DEF RoomInv, Early, Rebuilding, JobInv, Writers, Turns, Moved
<1>9. ShareInv'
  <2>1. Fresh'
    BY <1>1, <1>2, <1>3, Types DEF ShareInv, Fresh, Writers, Turns, Moved
  <2>2. \A u \in Calls : Alone(u)'
    BY <1>1, <1>2, <1>3, Types DEF ShareInv, Alone, Fresh, Distinct, Writers, Turns, Moved
  <2>3. \A u, v \in Calls : Distinct(u, v)'
    BY <1>1, <1>2, <1>3, Types DEF ShareInv, Distinct, Fresh, Alone, Writers, Turns, Moved
  <2>4. \A x, y, z \in Calls : Two(x, y, z)'
    BY <1>1, <1>2, <1>3, Types DEF ShareInv, Two, Alone, Writers, Turns, Moved
  <2> QED
    BY <2>1, <2>2, <2>3, <2>4 DEF ShareInv
<1>10. OwnInv'
  <2>1. \A b : Claimed(b) => Claimed(b)'
    BY <1>1, <1>2, <1>3, <1>5, <1>r, ClaimedKept DEF Turns
  <2>2. \A s : Served(s) => Served(s)'
    BY <1>1, <1>2, <1>3, <1>5, <1>r, ServedKept DEF Turns
  <2> QED
    BY <2>1, <2>2, <1>1, <1>2, <1>3, <1>5, <1>r, OwnKept DEF Turns, Rebuilding
<1>11. PairInv'
  BY <1>1, <1>2, <1>3, <1>5, <1>s, Types DEF PairInv, Partnered, Turns, Moved
<1>12. AliveInv'
  BY <1>1, <1>2, <1>3, <1>5, <1>v, Types DEF AliveInv, Writers, Turns, Moved
<1>13. TwoInv'
  BY <1>1, <1>2, <1>3, <1>5, TwoKept DEF Turns, Rebuilding
<1> QED
  BY <1>4, <1>6, <1>7, <1>8, <1>9, <1>10, <1>11, <1>12, <1>13

(* A refresh ends; the dialog may be gone by then. *)
LEMMA CommitRefreshInv ==
  ASSUME BridgeInv, NEW w \in Calls, CommitRefresh(w)
  PROVE  BridgeInv'
<1> USE DEF BridgeInv
<1>t. TypeOK
  OBVIOUS
<1>1. job[w].pc = "commit" /\ Turns(w, "idle", NoCall, 0)
  BY <1>t, GotoTurns, Types DEF CommitRefresh, AtPc, Pcs, Rest
<1>2. UNCHANGED <<dlg, codec, ep, pending, bmap, fabric, smap, running, leg, cdr, byes, ends,
                  made, refreshes, crossed>>
  BY DEF CommitRefresh, mediaVars, dlgVars, reinviteVars
<1>3. armed' = armed \cup {w}
  BY DEF CommitRefresh
<1>4. TypeOK'
  BY <1>1, <1>2, <1>3, <1>t DEF TypeOK, Turns, Moved, Media
<1>5. Moved(w) /\ (Quiet' <=> Quiet)
  BY <1>1, <1>2 DEF Turns, Quiet
<1>r. /\ \A v, x \in Calls : Removes(v, x)' <=> Removes(v, x)
      /\ \A x \in Calls : Removed(x)' <=> Removed(x)
  BY <1>1, <1>5, RemovedKept DEF Turns
<1>s. /\ \A v \in Calls : \A x : Holds(v, x)' <=> Holds(v, x)
      /\ \A x \in Calls : Single(x)' <=> Single(x)
  BY <1>1, <1>2, <1>5, SingleKept DEF Turns
<1>v. \A v, c \in Calls : Rewrites(v, c)' <=> Rewrites(v, c)
  BY <1>1, <1>5, RewritesKept DEF Turns
<1>6. JobInv'
  BY <1>1, <1>3, Types DEF JobInv, Writers, Rebuilding, Turns, Moved
<1>7. LifeInv'
  BY <1>1, <1>2, <1>3, <1>r, Types DEF LifeInv, Early, Rebuilding, Turns, Moved
<1>8. RoomInv'
  BY <1>1, <1>2, <1>3, <1>s, Types DEF RoomInv, Early, Rebuilding, JobInv, Writers, Turns, Moved
<1>9. ShareInv'
  <2>1. Fresh'
    BY <1>1, <1>2, <1>3, Types DEF ShareInv, Fresh, Writers, Turns, Moved
  <2>2. \A u \in Calls : Alone(u)'
    BY <1>1, <1>2, <1>3, Types DEF ShareInv, Alone, Fresh, Distinct, Writers, Turns, Moved
  <2>3. \A u, v \in Calls : Distinct(u, v)'
    BY <1>1, <1>2, <1>3, Types DEF ShareInv, Distinct, Fresh, Alone, Writers, Turns, Moved
  <2>4. \A x, y, z \in Calls : Two(x, y, z)'
    BY <1>1, <1>2, <1>3, Types DEF ShareInv, Two, Alone, Writers, Turns, Moved
  <2> QED
    BY <2>1, <2>2, <2>3, <2>4 DEF ShareInv
<1>10. OwnInv'
  BY <1>1, <1>2, <1>3, <1>5, <1>r, Types DEF OwnInv, Rebuilding, Turns, Moved
<1>11. PairInv'
  BY <1>1, <1>2, <1>3, <1>5, <1>s, Types DEF PairInv, Partnered, Turns, Moved
<1>12. AliveInv'
  BY <1>1, <1>2, <1>3, <1>5, <1>v, Types DEF AliveInv, Writers, Turns, Moved
<1>13. TwoInv'
  BY <1>1, <1>2, <1>3, <1>5, TwoKept DEF Turns, Rebuilding
<1> QED
  BY <1>4, <1>6, <1>7, <1>8, <1>9, <1>10, <1>11, <1>12, <1>13

(* A re-INVITE: from here on nothing is said about ownership. *)
LEMMA ReinviteStartsInv ==
  ASSUME BridgeInv, NEW w \in Calls, ReinviteStarts(w)
  PROVE  BridgeInv'
<1> USE DEF BridgeInv
<1>t. TypeOK
  OBVIOUS
<1>1. job[w].pc = "idle" /\ Turns(w, "apply", NoCall, 0)
  BY <1>t, GotoTurns, Types DEF ReinviteStarts, AtPc, Pcs, Rest
<1>2. UNCHANGED <<dlg, codec, ep, pending, bmap, fabric, smap, running, leg, armed, cdr, byes,
                  ends, made, crossed>>
  BY DEF ReinviteStarts, mediaVars, dlgVars, reinviteVars
<1>3. refreshes' = refreshes + 1 /\ refreshes' \in 0 .. MaxRefresh /\ dlg[w] = "up"
  BY <1>t, Types, BoundAssumption DEF ReinviteStarts, TypeOK
<1>4. TypeOK'
  BY <1>1, <1>2, <1>3, <1>t DEF TypeOK, Turns, Moved, Media
<1>5. Moved(w) /\ (Quiet' <=> Quiet)
  BY <1>1, <1>2 DEF Turns, Quiet
<1>r. /\ \A v, x \in Calls : Removes(v, x)' <=> Removes(v, x)
      /\ \A x \in Calls : Removed(x)' <=> Removed(x)
  BY <1>1, <1>5, RemovedKept DEF Turns
<1>s. /\ \A v \in Calls : \A x : Holds(v, x)' <=> Holds(v, x)
      /\ \A x \in Calls : Single(x)' <=> Single(x)
  BY <1>1, <1>2, <1>5, SingleKept DEF Turns
<1>v. \A v, c \in Calls : Rewrites(v, c)' <=> Rewrites(v, c)
  BY <1>1, <1>5, RewritesKept DEF Turns
<1>z. refreshes' # 0
  BY <1>3, Types
<1>6. JobInv'
  BY <1>1, <1>3, <1>z, Types DEF JobInv, Writers, Rebuilding, Turns, Moved
<1>7. LifeInv'
  BY <1>1, <1>2, <1>3, <1>r, <1>z, Types DEF LifeInv, Early, Rebuilding, Turns, Moved
<1>8. RoomInv'
  BY <1>1, <1>2, <1>3, <1>s, <1>z, Types DEF RoomInv, Early, Rebuilding, JobInv, Writers,
     Turns, Moved
<1>9. ShareInv'
  <2>1. Fresh'
    BY <1>1, <1>2, <1>3, <1>z, Types DEF ShareInv, Fresh, Writers, Turns, Moved
  <2>2. \A u \in Calls : Alone(u)'
    BY <1>1, <1>2, <1>3, <1>z, Types DEF ShareInv, Alone, Fresh, Distinct, Writers, Turns, Moved
  <2>3. \A u, v \in Calls : Distinct(u, v)'
    BY <1>1, <1>2, <1>3, <1>z, Types DEF ShareInv, Distinct, Fresh, Alone, Writers, Turns, Moved
  <2>4. \A x, y, z \in Calls : Two(x, y, z)'
    BY <1>1, <1>2, <1>3, <1>z, Types DEF ShareInv, Two, Alone, Writers, Turns, Moved
  <2> QED
    BY <2>1, <2>2, <2>3, <2>4 DEF ShareInv
<1>10. OwnInv'
  BY <1>z DEF OwnInv
<1>11. PairInv'
  BY <1>z DEF PairInv
<1>12. AliveInv'
  BY <1>1, <1>2, <1>3, <1>5, <1>v, <1>z, Types DEF AliveInv, Writers, Turns, Moved
<1>13. TwoInv'
  BY <1>1, <1>2, <1>3, <1>5, <1>z, TwoKept DEF Turns, Rebuilding
<1> QED
  BY <1>4, <1>6, <1>7, <1>8, <1>9, <1>10, <1>11, <1>12, <1>13

(* The old bridge goes; both its legs are about to be mapped again. *)
LEMMA ReleasesBridgeInv ==
  ASSUME BridgeInv, NEW w \in Calls, ReleasesBridge(w)
  PROVE  BridgeInv'
<1> USE DEF BridgeInv
<1>t. TypeOK
  OBVIOUS
<1>j. job[w].pc = "unbridge" /\ job[w].who \in Calls \ {w}
  BY SMTT(30) DEF ReleasesBridge, AtPc, JobInv, Writers, Rebuilding
<1>1. job[w].pc = "unbridge" /\ Turns(w, "rebridge", job[w].who, 0)
  BY <1>t, EditTurns DEF ReleasesBridge, AtPc, Pcs, Rest
<1>2. UNCHANGED <<dlg, codec, ep, pending, bmap, smap, running, leg, armed, cdr, byes, ends,
                  made, refreshes, crossed>>
  BY DEF ReleasesBridge, mediaVars, dlgVars, reinviteVars
<1>3. fabric' = fabric \ {job[w].bid}
  BY DEF ReleasesBridge
<1>4. TypeOK'
  BY <1>1, <1>2, <1>j, <1>3, <1>t DEF TypeOK, Turns, Moved, Media
<1>5. Moved(w) /\ (Quiet' <=> Quiet)
  BY <1>1, <1>2 DEF Turns, Quiet
<1>r. /\ \A v, x \in Calls : Removes(v, x)' <=> Removes(v, x)
      /\ \A x \in Calls : Removed(x)' <=> Removed(x)
  BY <1>1, <1>5, RemovedKept DEF Turns
<1>s. /\ \A v \in Calls : \A x : Holds(v, x)' <=> Holds(v, x)
      /\ \A x \in Calls : Single(x)' <=> Single(x)
  BY <1>1, <1>2, <1>5, SingleKept DEF Turns
<1>z. refreshes # 0 /\ refreshes' # 0
  BY <1>1, <1>2, Types DEF OwnInv, Rebuilding
<1>6. JobInv'
  BY <1>1, <1>j, <1>3, <1>z, Types DEF JobInv, Writers, Rebuilding, Turns, Moved
<1>7. LifeInv'
  BY <1>1, <1>2, <1>j, <1>3, <1>r, <1>z, Types DEF LifeInv, Early, Rebuilding, Turns, Moved
<1>8. RoomInv'
  BY <1>1, <1>2, <1>j, <1>3, <1>s, <1>z, Types DEF RoomInv, Early, Rebuilding, JobInv, Writers,
     Turns, Moved
<1>9. ShareInv'
  <2>1. Fresh'
    BY <1>1, <1>2, <1>j, <1>3, <1>z, Types DEF ShareInv, Fresh, Writers, Turns, Moved
  <2>2. \A u \in Calls : Alone(u)'
    BY <1>1, <1>2, <1>j, <1>3, <1>z, Types DEF ShareInv, Alone, Fresh, Distinct, Writers,
       Turns, Moved
  <2>3. \A u, v \in Calls : Distinct(u, v)'
    BY <1>1, <1>2, <1>j, <1>3, <1>z, Types DEF ShareInv, Distinct, Fresh, Alone, Writers,
       Turns, Moved
  <2>4. \A x, y, z \in Calls : Two(x, y, z)'
    BY <1>1, <1>2, <1>j, <1>3, <1>z, Types DEF ShareInv, Two, Alone, Writers, Turns, Moved
  <2> QED
    BY <2>1, <2>2, <2>3, <2>4 DEF ShareInv
<1>10. OwnInv'
  BY <1>z DEF OwnInv
<1>11. PairInv'
  BY <1>z DEF PairInv
<1>12. AliveInv'
  <2> SUFFICES ASSUME Quiet
               PROVE  /\ \A v \in Calls : job'[v].pc \in Writers => job'[v].bid \in fabric'
                      /\ \A c \in Calls :
                            bmap[c] # 0 => bmap[c] \in fabric' \/ \E v \in Calls : Rewrites(v,
                            c)'
    BY <1>1, <1>2, <1>j, <1>3, <1>5, <1>z DEF AliveInv
  <2>1. Alone(w) /\ \A v \in Calls : Distinct(v, w)
    BY DEF ShareInv
  <2>2. ASSUME NEW v \in Calls, job'[v].pc \in Writers PROVE job'[v].bid \in fabric'
    BY <2>1, <2>2, <1>1, <1>2, <1>j, <1>3, <1>5, <1>z DEF AliveInv, Distinct, Writers, Turns,
       Moved
  <2>3. \A v, c \in Calls : Rewrites(v, c) => Rewrites(v, c)'
    BY <1>1, <1>2, <1>j, <1>3, <1>5, <1>z DEF Rewrites, Turns, Moved
  <2>4. \A c \in Calls : bmap[c] = job[w].bid => Rewrites(w, c)'
    BY <2>1, <1>1, <1>2, <1>j, <1>3, <1>5, <1>z DEF Alone, Rewrites, Turns
  <2> QED
    BY <2>2, <2>3, <2>4, <1>1, <1>2, <1>j, <1>3, <1>5, <1>z DEF AliveInv
<1>13. TwoInv'
  <2> SUFFICES ASSUME Quiet, ~crossed'
               PROVE  /\ \A u, v \in Calls : Apart(u, v)'
                      /\ \A v \in Calls : Ready(v)'
                      /\ \A c \in Calls : bmap'[c] # 0 => Mated(c)'
    BY <1>1, <1>2, <1>j, <1>3, <1>5, <1>z DEF TwoInv
  <2>0. /\ ~crossed /\ Ready(w) /\ Alone(w) /\ \A u, v \in Calls : Apart(u, v)
        /\ \A v \in Calls : Ready(v) /\ Alone(v) /\ Distinct(w, v) /\ Distinct(v, w)
        /\ \A x, y, z \in Calls : Two(x, y, z)
        /\ \A c \in Calls : bmap[c] # 0 => Mated(c)
    BY <1>1, <1>2, <1>j, <1>3, <1>5, <1>z DEF TwoInv, ShareInv
  <2>1. \A u, v \in Calls : Apart(u, v)'
    BY <1>1, <1>2, <1>j, <1>3, <1>5, <1>z DEF TwoInv, Apart, Rebuilding, Turns, Moved
  <2>2. ASSUME NEW v \in Calls PROVE Ready(v)'
    <3>1. /\ job[v].pc \in Rebuilding \cup {"mapOwn"} => job[v].who \in Calls \ {v}
          /\ job[v].pc \in {"remapPeer", "mapOwn"} => job[v].bid # 0
      BY DEF JobInv, Writers
    <3> QED
      BY <3>1, <2>0, <1>1, <1>2, <1>j, <1>3, <1>5, <1>z, Types DEF Apart, Ready, Alone,
         Rebuilding, Writers, Distinct, Two, Turns, Moved
  <2>3. ASSUME NEW c \in Calls, bmap'[c] # 0 PROVE Mated(c)'
    <3> QED
      BY <2>0, <2>3, <1>1, <1>2, <1>j, <1>3, <1>5, <1>z DEF Ready, Mated, Two, Turns, Moved
  <2> QED
    BY <2>1, <2>2, <2>3
<1> QED
  BY <1>4, <1>6, <1>7, <1>8, <1>9, <1>10, <1>11, <1>12, <1>13

(* The new bridge is in the worker's hand alone. *)
LEMMA RebuildsBridgeInv ==
  ASSUME BridgeInv, NEW w \in Calls, RebuildsBridge(w)
  PROVE  BridgeInv'
<1> USE DEF BridgeInv
<1>t. TypeOK
  OBVIOUS
<1>j. job[w].pc = "rebridge" /\ job[w].who \in Calls \ {w}
  BY DEF RebuildsBridge, AtPc, JobInv, Writers, Rebuilding
<1>g. made + 1 \in Nat /\ Goto(w, [job[w] EXCEPT !.pc = "remapOwn", !.bid = made + 1])
  BY <1>t, Types, SMTT(30) DEF RebuildsBridge, BridgeUp
<1>1. job[w].pc = "rebridge" /\ Turns(w, "remapOwn", job[w].who, made + 1)
  BY <1>t, <1>g, EditTurns DEF RebuildsBridge, AtPc, Pcs, Rest
<1>2. UNCHANGED <<dlg, codec, ep, pending, bmap, smap, running, leg, armed, cdr, byes, ends,
                  refreshes, crossed>>
  BY DEF RebuildsBridge, mediaVars, dlgVars, reinviteVars
<1>3. made' = made + 1 /\ fabric' = fabric \cup {made'}
  BY DEF RebuildsBridge, BridgeUp
<1>4. TypeOK'
  BY <1>1, <1>2, <1>j, <1>3, <1>t DEF TypeOK, Turns, Moved, Media
<1>5. Moved(w) /\ (Quiet' <=> Quiet)
  BY <1>1, <1>2 DEF Turns, Quiet
<1>r. /\ \A v, x \in Calls : Removes(v, x)' <=> Removes(v, x)
      /\ \A x \in Calls : Removed(x)' <=> Removed(x)
  BY <1>1, <1>5, RemovedKept DEF Turns
<1>s. /\ \A v \in Calls : \A x : Holds(v, x)' <=> Holds(v, x)
      /\ \A x \in Calls : Single(x)' <=> Single(x)
  BY <1>1, <1>2, <1>5, SingleKept DEF Turns
<1>z. refreshes # 0 /\ refreshes' # 0
  BY <1>1, <1>2, Types DEF OwnInv, Rebuilding
<1>v. \A v, c \in Calls : Rewrites(v, c)' <=> Rewrites(v, c)
  BY <1>1, <1>5 DEF Rewrites, Turns, Moved
<1>6. JobInv'
  BY <1>1, <1>j, <1>3, <1>z, Types DEF JobInv, Writers, Rebuilding, Turns, Moved
<1>7. LifeInv'
  BY <1>1, <1>2, <1>j, <1>3, <1>r, <1>z, Types DEF LifeInv, Early, Rebuilding, Turns, Moved
<1>8. RoomInv'
  BY <1>1, <1>2, <1>j, <1>3, <1>s, <1>z, Types DEF RoomInv, Early, Rebuilding, JobInv, Writers,
     Turns, Moved
<1>9. ShareInv'
  <2>1. Fresh'
    BY <1>1, <1>2, <1>j, <1>3, <1>z, Types DEF ShareInv, Fresh, Writers, Turns, Moved
  <2>2. \A u \in Calls : Alone(u)'
    BY <1>1, <1>2, <1>j, <1>3, <1>z, Types DEF ShareInv, Alone, Fresh, Distinct, Writers,
       Turns, Moved
  <2>3. \A u, v \in Calls : Distinct(u, v)'
    BY <1>1, <1>2, <1>j, <1>3, <1>z, Types DEF ShareInv, Distinct, Fresh, Alone, Writers,
       Turns, Moved
  <2>4. \A x, y, z \in Calls : Two(x, y, z)'
    BY <1>1, <1>2, <1>j, <1>3, <1>z, Types DEF ShareInv, Two, Alone, Writers, Turns, Moved
  <2> QED
    BY <2>1, <2>2, <2>3, <2>4 DEF ShareInv
<1>10. OwnInv'
  BY <1>z DEF OwnInv
<1>11. PairInv'
  BY <1>z DEF PairInv
<1>12. AliveInv'
  BY <1>1, <1>2, <1>j, <1>3, <1>5, <1>z, <1>v, Types DEF AliveInv, Writers, Turns, Moved
<1>13. TwoInv'
  <2> SUFFICES ASSUME Quiet, ~crossed'
               PROVE  /\ \A u, v \in Calls : Apart(u, v)'
                      /\ \A v \in Calls : Ready(v)'
                      /\ \A c \in Calls : bmap'[c] # 0 => Mated(c)'
    BY <1>1, <1>2, <1>j, <1>3, <1>5, <1>z DEF TwoInv
  <2>0. /\ ~crossed /\ Ready(w) /\ Alone(w) /\ \A u, v \in Calls : Apart(u, v)
        /\ \A v \in Calls : Ready(v) /\ Alone(v) /\ Distinct(w, v) /\ Distinct(v, w)
        /\ \A x, y, z \in Calls : Two(x, y, z)
        /\ \A c \in Calls : bmap[c] # 0 => Mated(c)
    BY <1>1, <1>2, <1>j, <1>3, <1>5, <1>z DEF TwoInv, ShareInv
  <2>1. \A u, v \in Calls : Apart(u, v)'
    BY <1>1, <1>2, <1>j, <1>3, <1>5, <1>z DEF TwoInv, Apart, Rebuilding, Turns, Moved
  <2>2. ASSUME NEW v \in Calls PROVE Ready(v)'
    <3>1. /\ job[v].pc \in Rebuilding \cup {"mapOwn"} => job[v].who \in Calls \ {v}
          /\ job[v].pc \in {"remapPeer", "mapOwn"} => job[v].bid # 0
      BY DEF JobInv, Writers
    <3> QED
      BY <3>1, <2>0, <1>1, <1>2, <1>j, <1>3, <1>5, <1>z, Types DEF Apart, Ready, Alone,
         Rebuilding, Writers, Distinct, Two, Turns, Moved
  <2>3. ASSUME NEW c \in Calls, bmap'[c] # 0 PROVE Mated(c)'
    <3> QED
      BY <2>0, <2>3, <1>1, <1>2, <1>j, <1>3, <1>5, <1>z DEF Ready, Mated, Two, Turns, Moved
  <2> QED
    BY <2>1, <2>2, <2>3
<1> QED
  BY <1>4, <1>6, <1>7, <1>8, <1>9, <1>10, <1>11, <1>12, <1>13

(* No new bridge: both legs are taken off the old one. *)
LEMMA RebuildFailsInv ==
  ASSUME BridgeInv, NEW w \in Calls, RebuildFails(w)
  PROVE  BridgeInv'
<1> USE DEF BridgeInv
<1>t. TypeOK
  OBVIOUS
<1>j. job[w].pc = "rebridge" /\ job[w].who \in Calls \ {w}
  BY DEF RebuildFails, AtPc, JobInv, Writers, Rebuilding
<1>1. job[w].pc = "rebridge" /\ Turns(w, "commit", NoCall, 0)
  BY <1>t, GotoTurns, Types DEF RebuildFails, AtPc, Pcs, Rest
<1>2. UNCHANGED <<dlg, codec, ep, pending, fabric, smap, running, leg, armed, cdr, byes, ends,
                  made, refreshes, crossed>>
  BY DEF RebuildFails, mediaVars, dlgVars, reinviteVars
<1>3. /\ bmap' \in [Calls -> Nat] /\ bmap'[w] = 0 /\ bmap'[job[w].who] = 0
      /\ \A c \in Calls : c # w /\ c # job[w].who => bmap'[c] = bmap[c]
  BY <1>t, <1>j DEF RebuildFails, TypeOK
<1>4. TypeOK'
  BY <1>1, <1>2, <1>j, <1>3, <1>t DEF TypeOK, Turns, Moved, Media
<1>5. Moved(w) /\ (Quiet' <=> Quiet)
  BY <1>1, <1>2 DEF Turns, Quiet
<1>r. /\ \A v, x \in Calls : Removes(v, x)' <=> Removes(v, x)
      /\ \A x \in Calls : Removed(x)' <=> Removed(x)
  BY <1>1, <1>5, RemovedKept DEF Turns
<1>s. /\ \A v \in Calls : \A x : Holds(v, x)' <=> Holds(v, x)
      /\ \A x \in Calls : Single(x)' <=> Single(x)
  BY <1>1, <1>2, <1>5, SingleKept DEF Turns
<1>z. refreshes # 0 /\ refreshes' # 0
  BY <1>1, <1>2, Types DEF OwnInv, Rebuilding
<1>6. JobInv'
  BY <1>1, <1>j, <1>3, <1>z, Types DEF JobInv, Writers, Rebuilding, Turns, Moved
<1>7. LifeInv'
  BY <1>1, <1>2, <1>j, <1>3, <1>r, <1>z, Types DEF LifeInv, Early, Rebuilding, Turns, Moved
<1>8. RoomInv'
  BY <1>1, <1>2, <1>j, <1>3, <1>s, <1>z, Types DEF RoomInv, Early, Rebuilding, JobInv, Writers,
     Turns, Moved
<1>9. ShareInv'
  <2>1. Fresh'
    BY <1>1, <1>2, <1>j, <1>3, <1>z, Types DEF ShareInv, Fresh, Writers, Turns, Moved
  <2>2. \A u \in Calls : Alone(u)'
    BY <1>1, <1>2, <1>j, <1>3, <1>z, Types DEF JobInv, ShareInv, Alone, Writers, Turns, Moved
  <2>3. \A u, v \in Calls : Distinct(u, v)'
    BY <1>1, <1>2, <1>j, <1>3, <1>z, Types DEF ShareInv, Distinct, Fresh, Alone, Writers,
       Turns, Moved
  <2>4. \A x, y, z \in Calls : Two(x, y, z)'
    BY <1>1, <1>2, <1>j, <1>3, <1>z, Types DEF ShareInv, Two, Alone, Writers, Turns, Moved
  <2> QED
    BY <2>1, <2>2, <2>3, <2>4 DEF ShareInv
<1>10. OwnInv'
  BY <1>z DEF OwnInv
<1>11. PairInv'
  BY <1>z DEF PairInv
<1>12. AliveInv'
  <2>1. \A v, c \in Calls : bmap'[c] # 0 /\ Rewrites(v, c) => Rewrites(v, c)'
    BY <1>1, <1>2, <1>j, <1>3, <1>5, <1>z DEF Rewrites, Turns, Moved
  <2> QED
    BY <2>1, <1>1, <1>2, <1>j, <1>3, <1>5, <1>z DEF AliveInv, Writers, Turns, Moved
<1>13. TwoInv'
  <2> SUFFICES ASSUME Quiet, ~crossed'
               PROVE  /\ \A u, v \in Calls : Apart(u, v)'
                      /\ \A v \in Calls : Ready(v)'
                      /\ \A c \in Calls : bmap'[c] # 0 => Mated(c)'
    BY <1>1, <1>2, <1>j, <1>3, <1>5, <1>z DEF TwoInv
  <2>0. /\ ~crossed /\ Ready(w) /\ Alone(w) /\ \A u, v \in Calls : Apart(u, v)
        /\ \A v \in Calls : Ready(v) /\ Alone(v) /\ Distinct(w, v) /\ Distinct(v, w)
        /\ \A x, y, z \in Calls : Two(x, y, z)
        /\ \A c \in Calls : bmap[c] # 0 => Mated(c)
    BY <1>1, <1>2, <1>j, <1>3, <1>5, <1>z DEF TwoInv, ShareInv
  <2>1. \A u, v \in Calls : Apart(u, v)'
    BY <1>1, <1>2, <1>j, <1>3, <1>5, <1>z DEF TwoInv, Apart, Rebuilding, Turns, Moved
  <2>2. ASSUME NEW v \in Calls PROVE Ready(v)'
    <3>1. /\ job[v].pc \in Rebuilding \cup {"mapOwn"} => job[v].who \in Calls \ {v}
          /\ job[v].pc \in {"remapPeer", "mapOwn"} => job[v].bid # 0
      BY DEF JobInv, Writers
    <3> QED
      BY <3>1, <2>0, <1>1, <1>2, <1>j, <1>3, <1>5, <1>z, Types, SMTT(30) DEF Apart, Ready, Alone,
         Rebuilding, Writers, Distinct, Two, Turns, Moved
  <2>3. ASSUME NEW c \in Calls, bmap'[c] # 0 PROVE Mated(c)'
    <3> QED
      BY <2>0, <2>3, <1>1, <1>2, <1>j, <1>3, <1>5, <1>z, SMTT(30) DEF Ready, Mated, Two, Turns, Moved
  <2> QED
    BY <2>1, <2>2, <2>3
<1> QED
  BY <1>4, <1>6, <1>7, <1>8, <1>9, <1>10, <1>11, <1>12, <1>13

(* The worker's leg moves first ... *)
LEMMA RemapOwnInv ==
  ASSUME BridgeInv, NEW w \in Calls, RemapOwn(w)
  PROVE  BridgeInv'
<1> USE DEF BridgeInv
<1>t. TypeOK
  OBVIOUS
<1>j. job[w].pc = "remapOwn" /\ job[w].who \in Calls \ {w}
  BY DEF RemapOwn, AtPc, JobInv, Writers, Rebuilding
<1>1. job[w].pc = "remapOwn" /\ Turns(w, "remapPeer", job[w].who, job[w].bid)
  BY <1>t, PcTurns DEF RemapOwn, AtPc, Pcs, Rest
<1>2. UNCHANGED <<dlg, codec, ep, pending, fabric, smap, running, leg, armed, cdr, byes, ends,
                  made, refreshes, crossed>>
  BY DEF RemapOwn, mediaVars, dlgVars, reinviteVars
<1>3. /\ bmap' \in [Calls -> Nat] /\ bmap'[w] = job[w].bid
      /\ \A c \in Calls : c # w => bmap'[c] = bmap[c]
  BY <1>t, <1>1, Types DEF RemapOwn, TypeOK, JobInv, Writers
<1>4. TypeOK'
  BY <1>1, <1>2, <1>j, <1>3, <1>t DEF TypeOK, Turns, Moved, Media
<1>5. Moved(w) /\ (Quiet' <=> Quiet)
  BY <1>1, <1>2 DEF Turns, Quiet
<1>r. /\ \A v, x \in Calls : Removes(v, x)' <=> Removes(v, x)
      /\ \A x \in Calls : Removed(x)' <=> Removed(x)
  BY <1>1, <1>5, RemovedKept DEF Turns
<1>s. /\ \A v \in Calls : \A x : Holds(v, x)' <=> Holds(v, x)
      /\ \A x \in Calls : Single(x)' <=> Single(x)
  BY <1>1, <1>2, <1>5, SingleKept DEF Turns
<1>z. refreshes # 0 /\ refreshes' # 0
  BY <1>1, <1>2, Types DEF OwnInv, Rebuilding
<1>6. JobInv'
  BY <1>1, <1>j, <1>3, <1>z, Types DEF JobInv, Writers, Rebuilding, Turns, Moved
<1>7. LifeInv'
  BY <1>1, <1>2, <1>j, <1>3, <1>r, <1>z, Types DEF LifeInv, Early, Rebuilding, Turns, Moved
<1>8. RoomInv'
  BY <1>1, <1>2, <1>j, <1>3, <1>s, <1>z, Types DEF RoomInv, Early, Rebuilding, JobInv, Writers,
     Turns, Moved
<1>9. ShareInv'
  <2>1. Fresh'
    BY <1>1, <1>2, <1>j, <1>3, <1>z, Types DEF ShareInv, Fresh, Writers, Turns, Moved
  <2>2. \A u \in Calls : Alone(u)'
    BY <1>1, <1>2, <1>j, <1>3, <1>z, Types DEF ShareInv, Alone, Fresh, Distinct, Writers,
       Turns, Moved
  <2>3. \A u, v \in Calls : Distinct(u, v)'
    BY <1>1, <1>2, <1>j, <1>3, <1>z, Types DEF ShareInv, Distinct, Fresh, Alone, Writers,
       Turns, Moved
  <2>4. \A x, y, z \in Calls : Two(x, y, z)'
    BY <1>1, <1>2, <1>j, <1>3, <1>z, Types DEF ShareInv, Two, Alone, Writers, Turns, Moved
  <2> QED
    BY <2>1, <2>2, <2>3, <2>4 DEF ShareInv
<1>10. OwnInv'
  BY <1>z DEF OwnInv
<1>11. PairInv'
  BY <1>z DEF PairInv
<1>12. AliveInv'
  <2>1. \A v, c \in Calls : Rewrites(v, c) /\ c # w => Rewrites(v, c)'
    BY <1>1, <1>2, <1>j, <1>3, <1>5, <1>z DEF Rewrites, Turns, Moved
  <2> QED
    BY <2>1, <1>1, <1>2, <1>j, <1>3, <1>5, <1>z DEF AliveInv, Writers, Turns, Moved
<1>13. TwoInv'
  <2> SUFFICES ASSUME Quiet, ~crossed'
               PROVE  /\ \A u, v \in Calls : Apart(u, v)'
                      /\ \A v \in Calls : Ready(v)'
                      /\ \A c \in Calls : bmap'[c] # 0 => Mated(c)'
    BY <1>1, <1>2, <1>j, <1>3, <1>5, <1>z DEF TwoInv
  <2>0. /\ ~crossed /\ Ready(w) /\ Alone(w) /\ \A u, v \in Calls : Apart(u, v)
        /\ \A v \in Calls : Ready(v) /\ Alone(v) /\ Distinct(w, v) /\ Distinct(v, w)
        /\ \A x, y, z \in Calls : Two(x, y, z)
        /\ \A c \in Calls : bmap[c] # 0 => Mated(c)
    BY <1>1, <1>2, <1>j, <1>3, <1>5, <1>z DEF TwoInv, ShareInv
  <2>1. \A u, v \in Calls : Apart(u, v)'
    BY <1>1, <1>2, <1>j, <1>3, <1>5, <1>z DEF TwoInv, Apart, Rebuilding, Turns, Moved
  <2>2. ASSUME NEW v \in Calls PROVE Ready(v)'
    <3>1. /\ job[v].pc \in Rebuilding \cup {"mapOwn"} => job[v].who \in Calls \ {v}
          /\ job[v].pc \in {"remapPeer", "mapOwn"} => job[v].bid # 0
      BY DEF JobInv, Writers
    <3> QED
      BY <3>1, <2>0, <1>1, <1>2, <1>j, <1>3, <1>5, <1>z, Types, SMTT(30) DEF Apart, Ready, Alone,
         Rebuilding, Writers, Distinct, Two, Turns, Moved
  <2>3. ASSUME NEW c \in Calls, bmap'[c] # 0 PROVE Mated(c)'
    <3> QED
      BY <2>0, <2>3, <1>1, <1>2, <1>j, <1>3, <1>5, <1>z DEF Ready, Mated, Two, Turns, Moved
  <2> QED
    BY <2>1, <2>2, <2>3
<1> QED
  BY <1>4, <1>6, <1>7, <1>8, <1>9, <1>10, <1>11, <1>12, <1>13

(* ... and the peer follows. *)
LEMMA RemapPeerInv ==
  ASSUME BridgeInv, NEW w \in Calls, RemapPeer(w)
  PROVE  BridgeInv'
<1> USE DEF BridgeInv
<1>t. TypeOK
  OBVIOUS
<1>j. job[w].pc = "remapPeer" /\ job[w].who \in Calls \ {w}
  BY DEF RemapPeer, AtPc, JobInv, Writers, Rebuilding
<1>1. job[w].pc = "remapPeer" /\ Turns(w, "commit", NoCall, 0)
  BY <1>t, GotoTurns, Types DEF RemapPeer, AtPc, Pcs, Rest
<1>2. UNCHANGED <<dlg, codec, ep, pending, fabric, smap, running, leg, armed, cdr, byes, ends,
                  made, refreshes, crossed>>
  BY DEF RemapPeer, mediaVars, dlgVars, reinviteVars
<1>3. /\ bmap' \in [Calls -> Nat] /\ bmap'[job[w].who] = job[w].bid
      /\ \A c \in Calls : c # job[w].who => bmap'[c] = bmap[c]
  BY <1>t, <1>j, Types DEF RemapPeer, TypeOK, JobInv, Writers
<1>4. TypeOK'
  BY <1>1, <1>2, <1>j, <1>3, <1>t DEF TypeOK, Turns, Moved, Media
<1>5. Moved(w) /\ (Quiet' <=> Quiet)
  BY <1>1, <1>2 DEF Turns, Quiet
<1>r. /\ \A v, x \in Calls : Removes(v, x)' <=> Removes(v, x)
      /\ \A x \in Calls : Removed(x)' <=> Removed(x)
  BY <1>1, <1>5, RemovedKept DEF Turns
<1>s. /\ \A v \in Calls : \A x : Holds(v, x)' <=> Holds(v, x)
      /\ \A x \in Calls : Single(x)' <=> Single(x)
  BY <1>1, <1>2, <1>5, SingleKept DEF Turns
<1>z. refreshes # 0 /\ refreshes' # 0
  BY <1>1, <1>2, Types DEF OwnInv, Rebuilding
<1>6. JobInv'
  BY <1>1, <1>j, <1>3, <1>z, Types DEF JobInv, Writers, Rebuilding, Turns, Moved
<1>7. LifeInv'
  BY <1>1, <1>2, <1>j, <1>3, <1>r, <1>z, Types DEF LifeInv, Early, Rebuilding, Turns, Moved
<1>8. RoomInv'
  BY <1>1, <1>2, <1>j, <1>3, <1>s, <1>z, Types DEF RoomInv, LifeInv, JobInv, Early, Rebuilding,
     Writers, Turns, Moved
<1>9. ShareInv'
  <2>1. Fresh'
    BY <1>1, <1>2, <1>j, <1>3, <1>z, Types DEF ShareInv, Fresh, Writers, Turns, Moved
  <2>2. \A u \in Calls : Alone(u)'
    BY <1>1, <1>2, <1>j, <1>3, <1>z, Types DEF ShareInv, Alone, Fresh, Distinct, Writers,
       Turns, Moved
  <2>3. \A u, v \in Calls : Distinct(u, v)'
    BY <1>1, <1>2, <1>j, <1>3, <1>z, Types DEF ShareInv, Distinct, Fresh, Alone, Writers,
       Turns, Moved
  <2>4. \A x, y, z \in Calls : Two(x, y, z)'
    BY <1>1, <1>2, <1>j, <1>3, <1>z, Types DEF ShareInv, Two, Alone, Writers, Turns, Moved
  <2> QED
    BY <2>1, <2>2, <2>3, <2>4 DEF ShareInv
<1>10. OwnInv'
  BY <1>z DEF OwnInv
<1>11. PairInv'
  BY <1>z DEF PairInv
<1>12. AliveInv'
  <2>1. \A v, c \in Calls : Rewrites(v, c) /\ c # job[w].who => Rewrites(v, c)'
    BY <1>1, <1>2, <1>j, <1>3, <1>5, <1>z DEF Rewrites, Turns, Moved
  <2> QED
    BY <2>1, <1>1, <1>2, <1>j, <1>3, <1>5, <1>z DEF AliveInv, Writers, Turns, Moved
<1>13. TwoInv'
  <2> SUFFICES ASSUME Quiet, ~crossed'
               PROVE  /\ \A u, v \in Calls : Apart(u, v)'
                      /\ \A v \in Calls : Ready(v)'
                      /\ \A c \in Calls : bmap'[c] # 0 => Mated(c)'
    BY <1>1, <1>2, <1>j, <1>3, <1>5, <1>z DEF TwoInv
  <2>0. /\ ~crossed /\ Ready(w) /\ Alone(w) /\ \A u, v \in Calls : Apart(u, v)
        /\ \A v \in Calls : Ready(v) /\ Alone(v) /\ Distinct(w, v) /\ Distinct(v, w)
        /\ \A x, y, z \in Calls : Two(x, y, z)
        /\ \A c \in Calls : bmap[c] # 0 => Mated(c)
    BY <1>1, <1>2, <1>j, <1>3, <1>5, <1>z DEF TwoInv, ShareInv
  <2>1. \A u, v \in Calls : Apart(u, v)'
    BY <1>1, <1>2, <1>j, <1>3, <1>5, <1>z DEF TwoInv, Apart, Rebuilding, Turns, Moved
  <2>2. ASSUME NEW v \in Calls PROVE Ready(v)'
    <3>1. /\ job[v].pc \in Rebuilding \cup {"mapOwn"} => job[v].who \in Calls \ {v}
          /\ job[v].pc \in {"remapPeer", "mapOwn"} => job[v].bid # 0
      BY DEF JobInv, Writers
    <3> QED
      BY <3>1, <2>0, <1>1, <1>2, <1>j, <1>3, <1>5, <1>z, Types DEF Apart, Ready, Alone,
         Rebuilding, Writers, Distinct, Two, Turns, Moved
  <2>3. ASSUME NEW c \in Calls, bmap'[c] # 0 PROVE Mated(c)'
    <3> QED
      BY <2>0, <2>3, <1>1, <1>2, <1>j, <1>3, <1>5, <1>z DEF Ready, Mated, Two, Turns, Moved
  <2> QED
    BY <2>1, <2>2, <2>3
<1> QED
  BY <1>4, <1>6, <1>7, <1>8, <1>9, <1>10, <1>11, <1>12, <1>13

(* apply_leg_media: nothing to rebuild, ... *)
LEMMA ApplyNothing ==
  ASSUME BridgeInv, NEW w \in Calls, job[w].pc = "apply", leg' = leg \cup {w},
         Goto(w, Job("commit", NoCall, 0)), smap' = [smap EXCEPT ![w] = 0] \/ smap' = smap,
         UNCHANGED <<codec, ep, pending, bmap, fabric, running, made, dlg, armed, cdr, byes,
                     ends,
                     refreshes, crossed>>
  PROVE  BridgeInv'
<1> USE DEF BridgeInv
<1>t. TypeOK
  OBVIOUS
<1>1. job[w].pc = "apply" /\ Turns(w, "commit", NoCall, 0)
  BY <1>t, GotoTurns, Types DEF BridgeInv, AtPc, Pcs, Rest
<1>2. UNCHANGED <<dlg, codec, ep, pending, bmap, fabric, running, armed, cdr, byes, ends, made,
                  refreshes, crossed>>
  BY DEF BridgeInv, mediaVars, dlgVars, reinviteVars
<1>3. /\ leg' = leg \cup {w} /\ smap' \in [Calls -> Nat]
      /\ \A c \in Calls : smap'[c] = smap[c] \/ smap'[c] = 0
  BY <1>t DEF TypeOK
<1>4. TypeOK'
  BY <1>1, <1>2, <1>3, <1>t DEF TypeOK, Turns, Moved, Media
<1>5. Moved(w) /\ (Quiet' <=> Quiet)
  BY <1>1, <1>2 DEF Turns, Quiet
<1>r. /\ \A v, x \in Calls : Removes(v, x)' <=> Removes(v, x)
      /\ \A x \in Calls : Removed(x)' <=> Removed(x)
  BY <1>1, <1>5, RemovedKept DEF Turns
<1>s. /\ \A v \in Calls : \A x : Holds(v, x)' <=> Holds(v, x)
      /\ \A x \in Calls : Single(x)' <=> Single(x)
  BY <1>1, <1>2, <1>5, SingleKept DEF Turns
<1>v. \A v, c \in Calls : Rewrites(v, c)' <=> Rewrites(v, c)
  BY <1>1, <1>5, RewritesKept DEF Turns
<1>z. refreshes # 0 /\ refreshes' # 0
  BY <1>1, <1>2, Types DEF OwnInv, Rebuilding
<1>6. JobInv'
  BY <1>1, <1>3, <1>z, Types DEF JobInv, Writers, Rebuilding, Turns, Moved
<1>7. LifeInv'
  BY <1>1, <1>2, <1>3, <1>r, <1>z, Types DEF LifeInv, Early, Rebuilding, Turns, Moved
<1>8. RoomInv'
  BY <1>1, <1>2, <1>3, <1>s, <1>z, Types DEF RoomInv, Early, Rebuilding, JobInv, Writers,
     Turns, Moved
<1>9. ShareInv'
  <2>1. Fresh'
    BY <1>1, <1>2, <1>3, <1>z, Types DEF ShareInv, Fresh, Writers, Turns, Moved
  <2>2. \A u \in Calls : Alone(u)'
    BY <1>1, <1>2, <1>3, <1>z, Types DEF ShareInv, Alone, Fresh, Distinct, Writers, Turns, Moved
  <2>3. \A u, v \in Calls : Distinct(u, v)'
    BY <1>1, <1>2, <1>3, <1>z, Types DEF ShareInv, Distinct, Fresh, Alone, Writers, Turns, Moved
  <2>4. \A x, y, z \in Calls : Two(x, y, z)'
    BY <1>1, <1>2, <1>3, <1>z, Types DEF ShareInv, Two, Alone, Writers, Turns, Moved
  <2> QED
    BY <2>1, <2>2, <2>3, <2>4 DEF ShareInv
<1>10. OwnInv'
  BY <1>z DEF OwnInv
<1>11. PairInv'
  BY <1>z DEF PairInv
<1>12. AliveInv'
  BY <1>1, <1>2, <1>3, <1>5, <1>v, <1>z, Types DEF AliveInv, Writers, Turns, Moved
<1>13. TwoInv'
  BY <1>1, <1>2, <1>3, <1>5, <1>z, TwoKept DEF Turns, Rebuilding
<1> QED
  BY <1>4, <1>6, <1>7, <1>8, <1>9, <1>10, <1>11, <1>12, <1>13

(* ... or a bridge that w and the peer p are on. *)
LEMMA ApplyRebuild ==
  ASSUME BridgeInv, NEW w \in Calls, job[w].pc = "apply", leg' = leg \cup {w},
         NEW p \in Calls \ {w}, p \in leg, bmap[w] # 0, bmap[p] = bmap[w],
         Goto(w, Job("unbridge", p, bmap[w])), crossed' = (crossed \/ Rebuilds(p, w)),
         UNCHANGED <<codec, ep, pending, bmap, fabric, smap, running, made, dlg, armed, cdr,
                     byes,
                     ends, refreshes>>
  PROVE  BridgeInv'
<1> USE DEF BridgeInv
<1>t. TypeOK
  OBVIOUS
<1>1. job[w].pc = "apply" /\ Turns(w, "unbridge", p, bmap[w])
  BY <1>t, GotoTurns, Types DEF BridgeInv, AtPc, Pcs, Rest
<1>2. UNCHANGED <<dlg, codec, ep, pending, bmap, fabric, smap, running, armed, cdr, byes, ends,
                  made, refreshes>>
  BY DEF BridgeInv, mediaVars, dlgVars, reinviteVars
<1>3. leg' = leg \cup {w} /\ crossed' = (crossed \/ Rebuilds(p, w)) /\ p \in leg
      /\ bmap[w] # 0 /\ bmap[p] = bmap[w] /\ p \in Calls \ {w}
  OBVIOUS
<1>4. TypeOK'
  BY <1>1, <1>2, <1>3, <1>t DEF TypeOK, Turns, Moved, Rebuilds
<1>5. Moved(w) /\ (Quiet' <=> Quiet)
  BY <1>1, <1>2 DEF Turns, Quiet
<1>r. /\ \A v, x \in Calls : Removes(v, x)' <=> Removes(v, x)
      /\ \A x \in Calls : Removed(x)' <=> Removed(x)
  BY <1>1, <1>5, RemovedKept DEF Turns
<1>s. /\ \A v \in Calls : \A x : Holds(v, x)' <=> Holds(v, x)
      /\ \A x \in Calls : Single(x)' <=> Single(x)
  BY <1>1, <1>2, <1>5, SingleKept DEF Turns
<1>v. \A v, c \in Calls : Rewrites(v, c)' <=> Rewrites(v, c)
  BY <1>1, <1>5, RewritesKept DEF Turns
<1>z. refreshes # 0 /\ refreshes' # 0
  BY <1>1, <1>2, Types DEF OwnInv, Rebuilding
<1>6. JobInv'
  BY <1>1, <1>3, <1>z, Types DEF JobInv, Writers, Rebuilding, Turns, Moved
<1>7. LifeInv'
  BY <1>1, <1>2, <1>3, <1>r, <1>z, Types DEF LifeInv, Early, Rebuilding, Turns, Moved
<1>8. RoomInv'
  BY <1>1, <1>2, <1>3, <1>s, <1>z, Types DEF RoomInv, Early, Rebuilding, JobInv, Writers,
     Turns, Moved
<1>9. ShareInv'
  <2>1. Fresh'
    BY <1>1, <1>2, <1>3, <1>z, Types DEF ShareInv, Fresh, Writers, Turns, Moved
  <2>2. \A u \in Calls : Alone(u)'
    BY <1>1, <1>2, <1>3, <1>z, Types DEF ShareInv, Alone, Two, Turns, Moved
  <2>3. \A u, v \in Calls : Distinct(u, v)'
    BY <1>1, <1>2, <1>3, <1>z, Types DEF JobInv, ShareInv, Distinct, Fresh, Alone, Writers,
       Turns, Moved
  <2>4. \A x, y, z \in Calls : Two(x, y, z)'
    BY <1>1, <1>2, <1>3, <1>z, Types DEF ShareInv, Two, Alone, Writers, Turns, Moved
  <2> QED
    BY <2>1, <2>2, <2>3, <2>4 DEF ShareInv
<1>10. OwnInv'
  BY <1>z DEF OwnInv
<1>11. PairInv'
  BY <1>z DEF PairInv
<1>12. AliveInv'
  BY <1>1, <1>2, <1>3, <1>5, <1>v, <1>z, Types DEF AliveInv, Writers, Turns, Moved
<1>13. TwoInv'
  <2> SUFFICES ASSUME Quiet, ~crossed'
               PROVE  /\ \A u, v \in Calls : Apart(u, v)'
                      /\ \A v \in Calls : Ready(v)'
                      /\ \A c \in Calls : bmap'[c] # 0 => Mated(c)'
    BY <1>1, <1>2, <1>3, <1>5, <1>z DEF TwoInv
  <2>0. /\ ~crossed /\ Ready(w) /\ Alone(w) /\ \A u, v \in Calls : Apart(u, v)
        /\ \A v \in Calls : Ready(v) /\ Alone(v) /\ Distinct(w, v) /\ Distinct(v, w)
        /\ \A x, y, z \in Calls : Two(x, y, z)
        /\ \A c \in Calls : bmap[c] # 0 => Mated(c)
    BY <1>1, <1>2, <1>3, <1>5, <1>z DEF TwoInv, ShareInv
  <2>1. \A u, v \in Calls : Apart(u, v)'
    <3> SUFFICES ASSUME NEW u \in Calls, u # w, job[u].pc \in Rebuilding
                 PROVE  u # p /\ job[u].who # w /\ job[u].who # p
      BY <2>0, <1>1, <1>2, <1>3, <1>5, <1>z DEF Apart, Rebuilding, Turns, Moved
    <3>1. job[u].who \in Calls \ {u} /\ Ready(u) /\ Alone(u)
      BY <2>0 DEF JobInv
    <3>2. ~(u = p /\ job[u].who = w)
      BY <1>1, <1>2, <1>3, <1>5, <1>z, <2>0 DEF Rebuilds, Rebuilding
    <3>3. \A c \in Calls : bmap[c] = bmap[w] => c = w \/ c = p
      BY <2>0, <1>1, <1>2, <1>3, <1>5, <1>z DEF Two
    <3>4. CASE job[u].pc = "remapPeer"
      BY <3>1, <3>4, <1>1, <1>2, <1>3, <1>5, <1>z DEF Ready, Alone
    <3>5. CASE job[u].pc # "remapPeer"
      <4>1. bmap[u] # 0 /\ bmap[u] = bmap[job[u].who]
        BY <3>1, <3>5 DEF Ready, Rebuilding
      <4> QED
        BY <4>1, <3>1, <3>2, <3>3, <1>1, <1>2, <1>3, <1>5, <1>z
    <3> QED
      BY <3>4, <3>5
  <2>2. ASSUME NEW v \in Calls PROVE Ready(v)'
    <3>1. /\ job[v].pc \in Rebuilding \cup {"mapOwn"} => job[v].who \in Calls \ {v}
          /\ job[v].pc \in {"remapPeer", "mapOwn"} => job[v].bid # 0
      BY DEF JobInv, Writers
    <3> QED
      BY <3>1, <2>0, <1>1, <1>2, <1>3, <1>5, <1>z, Types DEF Apart, Ready, Alone, Rebuilding,
         Writers, Distinct, Two, Turns, Moved
  <2>3. ASSUME NEW c \in Calls, bmap'[c] # 0 PROVE Mated(c)'
    <3> QED
      BY <2>0, <2>3, <1>1, <1>2, <1>3, <1>5, <1>z DEF Ready, Mated, Two, Turns, Moved
  <2> QED
    BY <2>1, <2>2, <2>3
<1> QED
  BY <1>4, <1>6, <1>7, <1>8, <1>9, <1>10, <1>11, <1>12, <1>13

LEMMA ApplyLegMediaInv ==
  ASSUME BridgeInv, NEW w \in Calls, ApplyLegMedia(w)
  PROVE  BridgeInv'
<1> DEFINE others == {c \in Calls \ {w} : bmap[c] = bmap[w]}
<1>1. /\ job[w].pc = "apply" /\ leg' = leg \cup {w}
      /\ UNCHANGED <<codec, ep, pending, bmap, fabric, running, made, dlg, armed, cdr, byes, ends,
                     refreshes>>
  BY DEF ApplyLegMedia, AtPc
<1>2. CASE /\ Goto(w, Job("commit", NoCall, 0)) /\ UNCHANGED crossed
           /\ smap' = [smap EXCEPT ![w] = 0] \/ smap' = smap
  BY <1>1, <1>2, ApplyNothing
<1>3. CASE \E p \in others \cap leg :
             /\ bmap[w] # 0 /\ Goto(w, Job("unbridge", p, bmap[w]))
             /\ crossed' = (crossed \/ Rebuilds(p, w)) /\ UNCHANGED smap
  BY <1>1, <1>3, ApplyRebuild
<1> QED
  BY <1>2, <1>3 DEF ApplyLegMedia

(* A record is taken out of the table: its media is to be released. *)
LEMMA RemoveRecordInv ==
  ASSUME BridgeInv, NEW w \in Calls, NEW x \in Calls, RemoveRecord(x), dlg[x] = "up",
         x = w \/ dlg[w] = "ended", job[w].pc \in {"idle", "peer"},
         Moved(w), job'[w].pc = "unmap", job'[w].who = x, job'[w].bid <= made,
         UNCHANGED <<codec, ep, mediaVars, cdr, byes, reinviteVars>>
  PROVE  BridgeInv'
<1> USE DEF BridgeInv
<1>t. TypeOK
  OBVIOUS
<1>1. /\ UNCHANGED <<codec, ep, bmap, fabric, smap, running, made, cdr, byes, refreshes, crossed>>
      /\ job[w].pc \in {"idle", "peer"} /\ job'[w].pc = "unmap" /\ job'[w].who = x
      /\ job'[w].bid <= made /\ Moved(w) /\ dlg[x] = "up" /\ (x = w \/ dlg[w] = "ended")
  BY DEF mediaVars, reinviteVars
<1>2. /\ dlg' \in [Calls -> {"none", "up", "ended"}] /\ ends' \in [Calls -> Nat]
      /\ dlg'[x] = "ended" /\ \A c \in Calls : c # x => dlg'[c] = dlg[c] /\ ends'[c] = ends[c]
      /\ ends'[x] = ends[x] + 1 /\ armed' = armed \ {x} /\ leg' = leg \ {x}
      /\ pending' \in {pending, NoCall} /\ pending' # x
  BY <1>t, CallsAssumption DEF RemoveRecord, TypeOK
<1>3. TypeOK'
  BY <1>1, <1>2, <1>t DEF TypeOK, Moved
<1>4. ends[x] = 0 /\ byes[x] = 0 /\ ~Removed(x)
  BY <1>1, Types DEF LifeInv, Removed, Removes
<1>5. /\ \A v, y \in Calls : Removes(v, y)' <=> Removes(v, y) \/ (v = w /\ y = x)
      /\ \A y \in Calls : Removed(y)' <=> Removed(y) \/ y = x
  <2>1. \A v, y \in Calls : Removes(v, y)' <=> Removes(v, y) \/ (v = w /\ y = x)
    BY <1>1 DEF Removes, Moved
  <2> QED
    BY <2>1 DEF Removed
<1>6. /\ \A v \in Calls : \A y : Holds(v, y)' <=> Holds(v, y)
      /\ \A y \in Calls : Single(y)' => Single(y)
  <2>1. \A v \in Calls : \A y : Holds(v, y)' <=> Holds(v, y)
    BY <1>1 DEF Holds, Moved
  <2> QED
    BY <2>1, <1>2, Types DEF Single
<1>7. JobInv'
  BY <1>1, Types DEF JobInv, Writers, Rebuilding, Moved
<1>8. LifeInv'
  <2>1. \A v \in Calls : ~Removes(v, x)
    BY <1>4 DEF Removed
  <2> QED
    BY <2>1, <1>1, <1>2, <1>4, <1>5, Types DEF LifeInv, JobInv, Early, Rebuilding, Writers,
       Moved
<1>9. RoomInv'
  BY <1>1, <1>2, <1>6, Types DEF RoomInv, JobInv, Early, Rebuilding, Writers, Moved
<1>10. ShareInv'
  BY <1>1, <1>2, Types DEF ShareInv, Fresh, Alone, Distinct, Two, Writers, Moved
<1>11. OwnInv'
  <2>1. \A v \in Calls : \A b : InHand(v, b) => InHand(v, b)'
    BY <1>1 DEF InHand, Moved
  <2>2. \A c \in Calls : ToUnmap(c) \/ c = x => ToUnmap(c)'
    BY <1>1 DEF ToUnmap, Moved
  <2>3. \A b \in fabric : Claimed(b) => Claimed(b)'
    BY <2>1, <2>2, <1>1, <1>2 DEF Claimed
  <2>4. \A s : Served(s) => Served(s)'
    BY <1>1, <1>2, <1>5 DEF Served
  <2> QED
    BY <2>3, <2>4, <1>1, OwnKept DEF Rebuilding
<1>12. ~Quiet'
  BY <1>2, <1>4 DEF Quiet
<1> QED
  BY <1>3, <1>7, <1>8, <1>9, <1>10, <1>11, <1>12 DEF PairInv, AliveInv, TwoInv

LEMMA EndsCallInv ==
  ASSUME BridgeInv, NEW w \in Calls, EndsCall(w)
  PROVE  BridgeInv'
<1>1. PICK bye \in BOOLEAN : Goto(w, [Job("unmap", w, 0) EXCEPT !.bye = bye])
  BY DEF EndsCall
<1> DEFINE j == [Job("unmap", w, 0) EXCEPT !.bye = bye]
<1>2. j \in Jobs /\ j.pc = "unmap" /\ j.who = w /\ j.bid = 0
  BY DEF Job, Jobs, Pcs
<1>3. Moved(w) /\ job'[w] = j
  BY <1>1, <1>2 DEF BridgeInv, TypeOK, Goto, Moved
<1>4. made \in Nat
  BY DEF BridgeInv, TypeOK
<1>5. job'[w].pc = "unmap" /\ job'[w].who = w /\ job'[w].bid <= made
  BY <1>2, <1>3, <1>4
<1>6. /\ job[w].pc = "idle" /\ dlg[w] = "up" /\ RemoveRecord(w)
      /\ UNCHANGED <<codec, ep, mediaVars, cdr, byes, reinviteVars>>
  BY DEF EndsCall, AtPc
<1> HIDE DEF j
<1> QED
  BY <1>3, <1>5, <1>6, RemoveRecordInv

(* The other leg is gone already: the worker is done. *)
LEMMA PeerGone ==
  ASSUME BridgeInv, NEW w \in Calls, job[w].pc = "peer", dlg[w] = "ended",
         Goto(w, Job("idle", NoCall, 0)), cdr' = [cdr EXCEPT ![w] = Written(w)],
         UNCHANGED <<dlg, ends, armed, leg, pending, codec, ep, mediaVars, byes, reinviteVars>>
  PROVE  BridgeInv'
<1> USE DEF BridgeInv
<1>t. TypeOK
  OBVIOUS
<1>1. job[w].pc = "peer" /\ Turns(w, "idle", NoCall, 0)
  BY <1>t, GotoTurns, Types DEF BridgeInv, AtPc, Pcs, Rest
<1>2. UNCHANGED <<dlg, codec, ep, pending, bmap, fabric, smap, running, leg, armed, byes, ends,
                  made, refreshes, crossed>>
  BY DEF BridgeInv, mediaVars, dlgVars, reinviteVars
<1>3. cdr' \in [Calls -> {"none", "pending", "row"}]
  BY <1>t DEF TypeOK, Written
<1>4. TypeOK'
  BY <1>1, <1>2, <1>3, <1>t DEF TypeOK, Turns, Moved, Media
<1>5. Moved(w) /\ (Quiet' <=> Quiet)
  BY <1>1, <1>2 DEF Turns, Quiet
<1>r. /\ \A v, x \in Calls : Removes(v, x)' <=> Removes(v, x)
      /\ \A x \in Calls : Removed(x)' <=> Removed(x)
  BY <1>1, <1>5, RemovedKept DEF Turns
<1>s. /\ \A v \in Calls : \A x : Holds(v, x)' <=> Holds(v, x)
      /\ \A x \in Calls : Single(x)' <=> Single(x)
  BY <1>1, <1>2, <1>5, SingleKept DEF Turns
<1>v. \A v, c \in Calls : Rewrites(v, c)' <=> Rewrites(v, c)
  BY <1>1, <1>5, RewritesKept DEF Turns
<1>q. ~Quiet'
  BY <1>2 DEF Quiet, LifeInv
<1>6. JobInv'
  BY <1>1, <1>3, <1>q, Types DEF JobInv, Writers, Rebuilding, Turns, Moved
<1>7. LifeInv'
  BY <1>1, <1>2, <1>3, <1>r, <1>q, Types DEF LifeInv, Early, Rebuilding, Turns, Moved
<1>8. RoomInv'
  BY <1>1, <1>2, <1>3, <1>s, <1>q, Types DEF RoomInv, Early, Rebuilding, JobInv, Writers,
     Turns, Moved
<1>9. ShareInv'
  <2>1. Fresh'
    BY <1>1, <1>2, <1>3, <1>q, Types DEF ShareInv, Fresh, Writers, Turns, Moved
  <2>2. \A u \in Calls : Alone(u)'
    BY <1>1, <1>2, <1>3, <1>q, Types DEF ShareInv, Alone, Fresh, Distinct, Writers, Turns, Moved
  <2>3. \A u, v \in Calls : Distinct(u, v)'
    BY <1>1, <1>2, <1>3, <1>q, Types DEF ShareInv, Distinct, Fresh, Alone, Writers, Turns, Moved
  <2>4. \A x, y, z \in Calls : Two(x, y, z)'
    BY <1>1, <1>2, <1>3, <1>q, Types DEF ShareInv, Two, Alone, Writers, Turns, Moved
  <2> QED
    BY <2>1, <2>2, <2>3, <2>4 DEF ShareInv
<1>10. OwnInv'
  <2>1. \A b : Claimed(b) => Claimed(b)'
    BY <1>1, <1>2, <1>3, <1>5, <1>r, <1>q, ClaimedKept DEF Turns
  <2>2. \A s : Served(s) => Served(s)'
    BY <1>1, <1>2, <1>3, <1>5, <1>r, <1>q, ServedKept DEF Turns
  <2> QED
    BY <2>1, <2>2, <1>1, <1>2, <1>3, <1>5, <1>r, <1>q, OwnKept DEF Turns, Rebuilding
<1>11. PairInv'
  BY <1>q DEF PairInv
<1>12. AliveInv'
  BY <1>q DEF AliveInv
<1>13. TwoInv'
  BY <1>q DEF TwoInv
<1> QED
  BY <1>4, <1>6, <1>7, <1>8, <1>9, <1>10, <1>11, <1>12, <1>13

(* The other leg of the bridge is ended, unless it was already. *)
LEMMA EndsPeerInv ==
  ASSUME BridgeInv, NEW w \in Calls, EndsPeer(w)
  PROVE  BridgeInv'
<1> USE DEF BridgeInv
<1>t. TypeOK
  OBVIOUS
<1>1. job[w].pc = "peer" /\ job[w].who \in Calls \ {w} /\ dlg[w] = "ended"
  BY DEF EndsPeer, AtPc, JobInv, LifeInv
<1>2. CASE dlg[job[w].who] = "up"
  <2>1. Turns(w, "unmap", job[w].who, job[w].bid)
    BY <1>t, <1>2, PcTurns DEF EndsPeer, Pcs
  <2>2. job[w].bid <= made
    BY DEF ShareInv, Fresh
  <2> QED
    BY <1>1, <1>2, <2>1, <2>2, RemoveRecordInv DEF EndsPeer, Turns
<1>3. CASE dlg[job[w].who] # "up"
  BY <1>1, <1>3, PeerGone DEF EndsPeer
<1> QED
  BY <1>2, <1>3

(* The bridge is taken out of the map, for both legs. *)
LEMMA UnmapBridgeInv ==
  ASSUME BridgeInv, NEW w \in Calls, UnmapBridge(w)
  PROVE  BridgeInv'
<1> USE DEF BridgeInv
<1>t. TypeOK
  OBVIOUS
<1>j. PICK x \in Calls : job[w].pc = "unmap" /\ job[w].who = x /\ dlg[x] = "ended"
  BY DEF UnmapBridge, AtPc, JobInv, LifeInv
<1> DEFINE others == {c \in Calls \ {x} : bmap[x] # 0 /\ bmap[c] = bmap[x]}
<1>g. PICK p \in IF others = {} THEN {NoCall} ELSE others :
        /\ bmap' = [c \in Calls |-> IF c = x \/ c \in others THEN 0 ELSE bmap[c]]
        /\ Goto(w, [job[w] EXCEPT !.pc = "release", !.bid = bmap[x],
                        !.peer = IF x = w THEN p ELSE NoCall])
  BY <1>j DEF UnmapBridge
<1>p. p \in (Calls \ {x}) \cup {NoCall}
  OBVIOUS
<1> DEFINE j == [job[w] EXCEPT !.pc = "release", !.bid = bmap[x],
                     !.peer = IF x = w THEN p ELSE NoCall]
<1>h. /\ j \in Jobs /\ j.pc = "release" /\ j.who = x /\ j.bid = bmap[x]
      /\ j.peer # NoCall => x = w /\ j.peer \in Calls \ {w}
  BY <1>j, <1>p, <1>t, Types, ZenonT(60) DEF Jobs, Pcs
<1>i. job' \in [Calls -> Jobs] /\ job'[w] = j /\ \A v \in Calls : v # w => job'[v] = job[v]
  BY <1>g, <1>h, <1>t DEF TypeOK, Goto
<1> HIDE DEF j
<1>1. /\ Turns(w, "release", x, bmap[x]) /\ Moved(w)
      /\ job'[w].peer # NoCall => x = w /\ job'[w].peer \in Calls \ {w}
  BY <1>h, <1>i DEF Turns, Moved
<1>2. UNCHANGED <<dlg, codec, ep, pending, fabric, smap, running, leg, armed, cdr, byes, ends,
                  made, refreshes, crossed>>
  BY DEF UnmapBridge, mediaVars, dlgVars, reinviteVars
<1>3. /\ bmap' \in [Calls -> Nat] /\ bmap'[x] = 0
      /\ \A c \in Calls : bmap'[c] = bmap[c] \/ (bmap'[c] = 0 /\ bmap[c] = bmap[x])
  BY <1>g, <1>t, Types DEF TypeOK
<1>4. TypeOK'
  BY <1>1, <1>2, <1>3, <1>t DEF TypeOK, Turns, Moved
<1>r. /\ \A v, y \in Calls : Removes(v, y)' <=> Removes(v, y)
      /\ \A y \in Calls : Removed(y)' <=> Removed(y)
  <2>1. \A v, y \in Calls : Removes(v, y)' <=> Removes(v, y)
    BY <1>1, <1>j DEF Removes, Turns, Moved
  <2> QED
    BY <2>1 DEF Removed
<1>s. /\ \A v \in Calls : \A y : Holds(v, y)' <=> Holds(v, y)
      /\ \A y \in Calls : Single(y)' <=> Single(y)
  BY <1>1, <1>2, <1>j, SingleKept DEF Turns
<1>5. JobInv'
  BY <1>1, <1>j, Types DEF JobInv, Writers, Rebuilding, Turns, Moved
<1>6. LifeInv'
  BY <1>1, <1>2, <1>j, <1>r, Types DEF LifeInv, JobInv, Early, Rebuilding, Writers, Turns, Moved
<1>7. RoomInv'
  BY <1>1, <1>2, <1>3, <1>j, <1>s, Types DEF RoomInv, JobInv, Early, Rebuilding, Writers,
     Turns, Moved
<1>8. ShareInv'
  <2>1. Fresh'
    BY <1>1, <1>2, <1>3, Types DEF ShareInv, Fresh, Turns, Moved
  <2>2. \A u \in Calls : Alone(u)'
    BY <1>1, <1>3, <1>j, Types DEF ShareInv, JobInv, Alone, Writers, Turns, Moved
  <2>3. \A u, v \in Calls : Distinct(u, v)'
    BY <1>1, <1>j DEF ShareInv, Distinct, Writers, Turns, Moved
  <2>4. \A u, v, y \in Calls : Two(u, v, y)'
    BY <1>3 DEF ShareInv, Two
  <2> QED
    BY <2>1, <2>2, <2>3, <2>4 DEF ShareInv
<1>9. OwnInv'
  <2>1. \A v \in Calls : \A b : InHand(v, b) => InHand(v, b)'
    BY <1>1, <1>j DEF InHand, Turns, Moved
  <2>2. \A b : b = bmap[x] => InHand(w, b)'
    BY <1>1 DEF InHand, Turns
  <2>3. \A c \in Calls : ToUnmap(c) => ToUnmap(c)' \/ c = x
    BY <1>1, <1>j DEF ToUnmap, Turns, Moved
  <2>4. \A b \in fabric : Claimed(b) => Claimed(b)'
    BY <2>1, <2>2, <2>3, <1>2, <1>3 DEF Claimed
  <2>5. \A s : Served(s) => Served(s)'
    BY <1>2, <1>r, ServedKept
  <2> QED
    BY <2>4, <2>5, <1>1, <1>2, OwnKept DEF Rebuilding, Turns
<1>10. ~Quiet'
  BY <1>2, <1>j DEF Quiet, LifeInv
<1> QED
  BY <1>4, <1>5, <1>6, <1>7, <1>8, <1>9, <1>10 DEF PairInv, AliveInv, TwoInv

(* Bridge, sessions and endpoint of x are released. *)
LEMMA ReleaseMediaInv ==
  ASSUME BridgeInv, NEW w \in Calls, ReleaseMedia(w)
  PROVE  BridgeInv'
<1> USE DEF BridgeInv
<1>t. TypeOK
  OBVIOUS
<1>j. PICK x \in Calls : job[w].pc = "release" /\ job[w].who = x /\ dlg[x] = "ended"
  BY DEF ReleaseMedia, AtPc, JobInv, LifeInv
<1>1. /\ Moved(w) /\ job'[w].bid <= made
      /\ job'[w].pc \in {"peer", "idle"} /\ (job'[w].pc = "peer" => job'[w].who \in Calls \ {w})
  <2>1. CASE job[w].peer # NoCall
    <3> DEFINE j == [job[w] EXCEPT !.pc = "peer", !.who = job[w].peer]
    <3>1. job[w].peer \in Calls \ {w}
      BY <2>1, <1>j DEF JobInv
    <3>2. j \in Jobs /\ j.pc = "peer" /\ j.who = job[w].peer /\ j.bid = job[w].bid
      BY <3>1, <1>t, Types, ZenonT(60) DEF Jobs, Pcs
    <3>3. Moved(w) /\ job'[w] = j
      BY <2>1, <1>t, <3>2 DEF ReleaseMedia, TypeOK, Goto, Moved
    <3> QED
      BY <3>1, <3>2, <3>3 DEF ShareInv, Fresh
  <2>2. CASE job[w].peer = NoCall
    <3>1. Turns(w, "idle", NoCall, 0)
      BY <2>2, <1>t, GotoTurns DEF ReleaseMedia, Pcs, Rest
    <3> QED
      BY <3>1, <1>t, Types DEF Turns
  <2> QED
    BY <2>1, <2>2
<1>2. UNCHANGED <<dlg, codec, pending, bmap, leg, armed, ends, made, refreshes, crossed>>
  BY DEF ReleaseMedia, reinviteVars
<1>3. /\ fabric' = fabric \ {job[w].bid} /\ ep' = ep \ {x} /\ running' = running \ {smap[x]}
      /\ smap' \in [Calls -> Nat] /\ smap'[x] = 0
      /\ \A c \in Calls : c # x => smap'[c] = smap[c]
  BY <1>t, <1>j DEF ReleaseMedia, StopSessions, TypeOK
<1>4. /\ byes' \in [Calls -> Nat] /\ byes'[x] \in {byes[x], byes[x] + 1}
      /\ \A c \in Calls : c # x => byes'[c] = byes[c]
  BY <1>t, <1>j DEF ReleaseMedia, TypeOK
<1>5. cdr' \in [Calls -> {"none", "pending", "row"}]
  BY <1>t DEF ReleaseMedia, TypeOK, Written
<1>6. TypeOK'
  BY <1>1, <1>2, <1>3, <1>4, <1>5, <1>t DEF TypeOK, Moved, Media
<1>r. /\ \A v, y \in Calls : Removes(v, y)' <=> Removes(v, y) /\ v # w
      /\ \A y \in Calls : Removed(y)' <=> Removed(y) /\ y # x
      /\ Removed(x)
  <2>1. \A v, y \in Calls : Removes(v, y)' <=> Removes(v, y) /\ v # w
    BY <1>1, <1>j DEF Removes, Moved
  <2>2. \A y \in Calls : Removes(w, y) <=> y = x
    BY <1>j DEF Removes
  <2>3. \A v \in Calls : Removes(v, x) => v = w
    BY <2>2 DEF LifeInv
  <2> QED
    BY <2>1, <2>2, <2>3 DEF Removed
<1>s. /\ \A v \in Calls : \A y : Holds(v, y)' <=> Holds(v, y)
      /\ \A y \in Calls : Single(y)' <=> Single(y)
  BY <1>1, <1>2, <1>j, SingleKept
<1>7. JobInv'
  BY <1>1, Types DEF JobInv, Writers, Rebuilding, Moved
<1>8. LifeInv'
  <2>1. byes[x] = 0 /\ ends[x] = 1 /\ job[x].pc \notin Early /\ dlg[w] = "ended"
    BY <1>j, <1>r DEF LifeInv
  <2> QED
    BY <2>1, <1>1, <1>2, <1>3, <1>4, <1>j, <1>r, Types DEF LifeInv, JobInv, Early, Rebuilding,
       Writers, Moved
<1>9. RoomInv'
  BY <1>1, <1>2, <1>3, <1>j, <1>s, Types DEF RoomInv, JobInv, Early, Rebuilding, Writers, Moved
<1>10. ShareInv'
  BY <1>1, <1>2, <1>3, Types DEF ShareInv, Fresh, Alone, Distinct, Two, Writers, Moved
<1>11. OwnInv'
  <2>1. \A v \in Calls : \A b : InHand(v, b) => InHand(v, b)' \/ b = job[w].bid
    BY <1>1, <1>j DEF InHand, Moved
  <2>2. \A c \in Calls : ToUnmap(c) => ToUnmap(c)'
    BY <1>1, <1>j DEF ToUnmap, Moved
  <2>3. \A b \in fabric' : Claimed(b) => Claimed(b)'
    BY <2>1, <2>2, <1>2, <1>3 DEF Claimed
  <2>4. \A s \in running' : Served(s) => Served(s)'
    BY <1>2, <1>3, <1>r DEF Served
  <2> QED
    BY <2>3, <2>4, <1>1, <1>2, <1>3 DEF OwnInv, Rebuilding, Moved
<1>12. ~Quiet'
  BY <1>2, <1>j DEF Quiet, LifeInv
<1> QED
  BY <1>6, <1>7, <1>8, <1>9, <1>10, <1>11, <1>12 DEF PairInv, AliveInv, TwoInv

-----------------------------------------------------------------------------
LEMMA InitInv == Init => BridgeInv
<1> SUFFICES ASSUME Init PROVE BridgeInv
  OBVIOUS
<1>1. \A c \in Calls : /\ job[c] \in Jobs /\ job[c].pc = "new" /\ job[c].bid = 0
                       /\ dlg[c] = "none" /\ bmap[c] = 0 /\ smap[c] = 0 /\ ends[c] = 0
                       /\ byes[c] = 0
  BY JobShape DEF Init, Job, Jobs, Pcs, Rest
<1>2. TypeOK
  <2>1. job \in [Calls -> Jobs]
    BY <1>1 DEF Init
  <2>2. /\ dlg \in [Calls -> {"none", "up", "ended"}]
        /\ cdr \in [Calls -> {"none", "pending", "row"}]
        /\ codec \in [Calls -> Codecs]
    BY DEF Init
  <2>3. /\ bmap \in [Calls -> Nat] /\ smap \in [Calls -> Nat] /\ byes \in [Calls -> Nat]
        /\ ends \in [Calls -> Nat] /\ made \in Nat /\ refreshes \in 0 .. MaxRefresh
    BY BoundAssumption DEF Init
  <2> QED
    BY <2>1, <2>2, <2>3 DEF Init, TypeOK
<1>3. \A v, x \in Calls : ~Removes(v, x) /\ ~Holds(v, x)
  BY <1>1 DEF Removes, Holds
<1>4. \A x \in Calls : ~Removed(x) /\ ~Single(x)
  BY <1>3, CallsAssumption DEF Removed, Single, Init
<1>5. JobInv /\ LifeInv /\ RoomInv
  <2>1. JobInv
    BY <1>1 DEF JobInv, Writers, Rebuilding
  <2>2. LifeInv
    BY <1>1, <1>3, <1>4 DEF LifeInv, Early, Rebuilding, Init
  <2>3. RoomInv
    BY <1>1, <1>3, <1>4 DEF RoomInv, Early, Rebuilding
  <2> QED
    BY <2>1, <2>2, <2>3
<1>6. ShareInv
  BY <1>1 DEF ShareInv, Fresh, Alone, Distinct, Two, Writers, Init
<1>7. OwnInv
  BY <1>1 DEF OwnInv, Rebuilding, Init
<1>8. PairInv /\ AliveInv
  BY <1>1 DEF PairInv, AliveInv, Writers
<1>9. TwoInv
  BY <1>1 DEF TwoInv, Apart, Ready, Rebuilding
<1> QED
  BY <1>2, <1>5, <1>6, <1>7, <1>8, <1>9 DEF BridgeInv

LEMMA StutterInv == BridgeInv /\ UNCHANGED vars => BridgeInv'
<1> SUFFICES ASSUME BridgeInv, UNCHANGED vars PROVE BridgeInv'
  OBVIOUS
<1> USE DEF vars, BridgeInv
<1>1. TypeOK' /\ JobInv'
  BY DEF TypeOK, JobInv
<1>2. LifeInv' /\ RoomInv'
  BY DEF LifeInv, RoomInv, Removed, Removes, Single, Holds
<1>3. ShareInv' /\ OwnInv'
  BY DEF ShareInv, Fresh, Alone, Distinct, Two, OwnInv, Claimed, Served, InHand, ToUnmap,
     Removed,
     Removes
<1>4. PairInv' /\ AliveInv'
  BY DEF PairInv, AliveInv, Quiet, Partnered, Single, Holds, Rewrites
<1>5. TwoInv'
  BY DEF TwoInv, Quiet, Apart, Ready, Mated
<1> QED
  BY <1>1, <1>2, <1>3, <1>4, <1>5

LEMMA StepInv == BridgeInv /\ [Next]_vars => BridgeInv'
<1> SUFFICES ASSUME BridgeInv, Next PROVE BridgeInv'
  BY StutterInv
<1>1. PICK w \in Calls : Attach(w) \/ Teardown(w) \/ Refresh(w)
  BY DEF Next
<1>2. CASE Attach(w)
  BY <1>2, InviteNegotiatedInv, JoinConferenceInv, ParkLegInv, TakePendingInv, BridgeLegsInv,
     MapPeerInv, MapOwnInv, TranscodeLegsInv, PairingFailsInv, ReparkInv, InsertDialogInv,
     ArmDialogInv DEF Attach
<1>3. CASE Teardown(w)
  BY <1>3, EndsCallInv, UnmapBridgeInv, ReleaseMediaInv, EndsPeerInv DEF Teardown
<1>4. CASE Refresh(w)
  BY <1>4, ReinviteStartsInv, ApplyLegMediaInv, ReleasesBridgeInv, RebuildsBridgeInv,
     RebuildFailsInv, RemapOwnInv, RemapPeerInv, CommitRefreshInv DEF Refresh
<1> QED
  BY <1>1, <1>2, <1>3, <1>4

LEMMA PairHasTwo ==
  ASSUME NEW c, NEW d, c # d
  PROVE  Cardinality({c, d}) = 2
<1>1. IsFiniteSet({c}) /\ Cardinality({c}) = 1
  BY FS_Singleton
<1>2. {c, d} = {c} \cup {d} /\ d \notin {c}
  OBVIOUS
<1> QED
  BY <1>1, <1>2, FS_AddElement

LEMMA InvSound == BridgeInv => BridgesSound
<1> SUFFICES ASSUME BridgeInv PROVE BridgesSound
  OBVIOUS
<1> USE DEF BridgeInv
<1>1. EndedOnce
  BY Types DEF EndedOnce, LifeInv
<1>2. ASSUME AtRest
      PROVE  \A x \in Calls : /\ job[x].pc \in Rest /\ ~Removed(x) /\ ~ToUnmap(x)
                              /\ Single(x) => pending = x
                              /\ \A b : ~InHand(x, b)
                              /\ \A v \in Calls : ~Rewrites(v, x)
  BY <1>2 DEF AtRest, Rest, Removed, Removes, ToUnmap, Single, Holds, InHand, Rewrites
<1>3. ASSUME AtRest, NEW c \in Calls, bmap[c] # 0 \/ smap[c] # 0, dlg[c] # "ended"
      PROVE  c \in Up
  BY <1>2, <1>3, Types DEF LifeInv, RoomInv, Up, Rest, Early
<1>4. BridgesOwned
  <2> SUFFICES ASSUME AtRest, refreshes = 0, NEW b \in fabric
               PROVE  \E c \in Up : bmap[c] = b
    BY DEF BridgesOwned
  <2>1. b # 0 /\ Claimed(b)
    BY Types DEF OwnInv
  <2> QED
    BY <2>1, <1>2, <1>3 DEF Claimed
<1>5. EndpointsOwned
  <2> SUFFICES ASSUME AtRest PROVE ep = Up
    BY DEF EndpointsOwned
  <2>1. \A c \in Calls : c \in ep <=> dlg[c] = "up"
    BY <1>2 DEF LifeInv, Early, Rest
  <2> QED
    BY <2>1, Types DEF Up
<1>6. SessionsOwned
  <2> SUFFICES ASSUME AtRest, refreshes = 0, NEW s \in running
               PROVE  \E c \in Up : smap[c] = s
    BY DEF SessionsOwned
  <2>1. s # 0 /\ Served(s)
    BY Types DEF OwnInv
  <2> QED
    BY <2>1, <1>2, <1>3 DEF Served
<1>7. PairedUp
  <2> SUFFICES ASSUME AtRest, refreshes = 0,
                      \A c \in Calls : ends[c] = 0 /\ ~AtPc(c, "rejected"), NEW c \in Up
               PROVE  Partnered(c) \/ pending = c
    BY DEF PairedUp
  <2>1. Quiet /\ \A v \in Calls : job[v].pc \notin {"repark", "rejected"}
    BY <1>2 DEF Quiet, AtPc, Rest
  <2>2. Partnered(c) \/ Single(c)
    BY <2>1 DEF PairInv, Up
  <2> QED
    BY <2>2, <1>2 DEF Up
<1>8. BridgedAlive
  <2> SUFFICES ASSUME AtRest, \A c \in Calls : ends[c] = 0, NEW c \in Calls, bmap[c] # 0
               PROVE  /\ bmap[c] \in fabric
                      /\ crossed \/ Cardinality({d \in Calls : bmap[d] = bmap[c]}) = 2
    BY DEF BridgedAlive, Up
  <2>1. Quiet
    BY DEF Quiet
  <2>2. bmap[c] \in fabric
    BY <2>1, <1>2 DEF AliveInv
  <2>3. ASSUME ~crossed PROVE Cardinality({d \in Calls : bmap[d] = bmap[c]}) = 2
    <3>1. Mated(c)
      BY <2>1, <2>3 DEF TwoInv
    <3>2. PICK d \in Calls \ {c} : bmap[d] = bmap[c]
      BY <3>1, <1>2 DEF Mated, Rest
    <3>3. \A e \in Calls : bmap[e] = bmap[c] => e = c \/ e = d
      BY <3>2 DEF ShareInv, Two
    <3>4. {e \in Calls : bmap[e] = bmap[c]} = {c, d}
      BY <3>2, <3>3
    <3> QED
      BY <3>2, <3>4, PairHasTwo
  <2> QED
    BY <2>2, <2>3
<1> QED
  BY <1>1, <1>4, <1>5, <1>6, <1>7, <1>8 DEF BridgesSound

-----------------------------------------------------------------------------
(* Whatever calls, codecs, failures and re-INVITEs there are, the state of  *)
(* the workers and the shared maps keeps its type (UasServer).             *)
THEOREM BridgesAreTyped == Spec => []TypeOK
<1>1. BridgeInv => TypeOK
  BY DEF BridgeInv
<1> QED
  BY <1>1, InitInv, StepInv, PTL DEF Spec

(* For any number of calls, codecs, failures and re-INVITEs: each dialog   *)
(* is ended once and the endpoints are those of the live dialogs, always;  *)
(* bridges and sessions are owned while nothing was refreshed, racing      *)
(* callers paired while nothing ended, failed or was refreshed, and a      *)
(* refreshed leg on a live bridge while nothing ended (uas.rs:             *)
(* rendezvous_pair, apply_leg_media, finish_teardown).                     *)
THEOREM BridgesAreSound == Spec => []BridgesSound
BY InitInv, StepInv, InvSound, PTL DEF Spec
==============================================================================
