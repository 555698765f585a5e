--------------------------- MODULE StreamTransport ---------------------------
(***************************************************************************)
(* SIP over TCP and TLS (smiths-sip transport/tcp.rs, tls.rs, stream.rs,   *)
(* proxy.rs): the accept loop, the pool of peers, the reader and the       *)
(* writer task of every connection and the `send` that looks a peer up and *)
(* dials it when it is not in the pool.                                    *)
(*                                                                         *)
(* A message is a unit in a queue; its bytes and its framing are left out, *)
(* except that what the reader takes off the socket ends in a partial      *)
(* message or in one that must close the connection.                       *)
(***************************************************************************)
EXTENDS Integers, FiniteSets, Sequences, Functions

CONSTANTS
    StreamPeers,      \* socket addresses of peers
    StreamSenders,    \* concurrent callers of send
    ConnectStages,    \* steps of the configured ProxyConnector
    MaxConnections,   \* ConnLimits::max_connections, 0 for no cap
    StreamQueueDepth, \* WRITE_QUEUE_DEPTH
    InboxDepth,       \* capacity of the channel to the UAS
    MaxConns,         \* bound: connections
    MaxSends,         \* bound: calls of send
    MaxReads          \* bound: reads with data

(* The handshakes after which the stream carries SIP. *)
DirectConnector == <<"dial">>
Socks5Connector == <<"dial", "method", "auth", "reply">>
HttpConnectConnector == <<"dial", "status">>

ASSUME StreamAssumption ==
    /\ ConnectStages \in {DirectConnector, Socks5Connector, HttpConnectConnector}
    /\ MaxConnections \in Nat /\ StreamQueueDepth \in Nat \ {0} /\ InboxDepth \in Nat \ {0}
    /\ MaxConns \in Nat /\ MaxSends \in Nat /\ MaxReads \in Nat

VARIABLES
    streamKind,    \* "tcp" or "tls"
    handshaking,   \* peers in a TLS handshake
    streams,       \* connection -> its socket, tasks, queue and token, oldest first
    pool,          \* peers: peer -> the connection its sender belongs to
    sends,         \* caller -> where in `send` it is
    inbox,         \* messages waiting for the UAS
    streamStopping,      \* the transport-wide token
    sent, reads    \* calls of send, reads with data

streamVars == <<streamKind, handshaking, streams, pool, sends, inbox, streamStopping, sent, reads>>

Conns == DOMAIN streams
NotSending == [at |-> "idle", peer |-> "none", conn |-> 0, stages |-> <<>>, redialled |-> FALSE]

StreamInit ==
    /\ streamKind \in {"tcp", "tls"}
    /\ handshaking = {} /\ streams = <<>> /\ pool = <<>>
    /\ sends = [s \in StreamSenders |-> NotSending]
    /\ inbox = 0 /\ streamStopping = FALSE /\ sent = 0 /\ reads = 0

Cancelled(c) == streamStopping \/ streams[c].cancel
PoolWithout(p) == Restrict(pool, DOMAIN pool \ {p})
PoolWith(p, c) == [q \in DOMAIN pool \cup {p} |-> IF q = p THEN c ELSE pool[q]]

-----------------------------------------------------------------------------
(* register_stream: the pool entry first, then the two tasks. *)

NewStream(p) ==
    [peer |-> p, reader |-> "reading", writer |-> "waiting", cancel |-> FALSE, queue |-> 0,
     peerOpen |-> TRUE, parsed |-> 0, ending |-> "partial"]

(* An entry that is there is kept: the pool goes on naming the old         *)
(* connection.                                                             *)
RegisterStreamMut(p) ==
    /\ streams' = Append(streams, NewStream(p))
    /\ pool' = IF p \in DOMAIN pool THEN pool ELSE PoolWith(p, Len(streams) + 1)

RegisterStream(p) ==
    /\ streams' = Append(streams, NewStream(p))
    /\ pool' = PoolWith(p, Len(streams) + 1)

Admits == MaxConnections = 0 \/ Cardinality(DOMAIN pool) < MaxConnections

(* An address has one inbound connection at a time, but the engine may not *)
(* have noticed yet that the earlier one closed.                           *)
Connects(p) ==
    /\ ~streamStopping /\ Admits
    /\ p \notin handshaking
    /\ \A c \in Conns : streams[c].peer = p => ~streams[c].peerOpen

(* The accept loops: tcp registers at once, tls when the handshake, which  *)
(* runs off the loop, is over.                                             *)
AcceptTcp(p) ==
    /\ streamKind = "tcp" /\ Connects(p) /\ Len(streams) < MaxConns
    /\ RegisterStream(p)
    /\ UNCHANGED <<streamKind, handshaking, sends, inbox, streamStopping, sent, reads>>

AcceptTls(p) ==
    /\ streamKind = "tls" /\ Connects(p)
    /\ handshaking' = handshaking \cup {p}
    /\ UNCHANGED <<streamKind, streams, pool, sends, inbox, streamStopping, sent, reads>>

TlsHandshake(p) ==
    /\ p \in handshaking /\ Len(streams) < MaxConns
    /\ handshaking' = handshaking \ {p}
    /\ RegisterStream(p) \/ UNCHANGED <<streams, pool>>
    /\ UNCHANGED <<streamKind, sends, inbox, streamStopping, sent, reads>>

-----------------------------------------------------------------------------
(* send *)

SendStarts(s, p) ==
    /\ sends[s].at = "idle" /\ sent < MaxSends
    /\ sent' = sent + 1
    /\ sends' = [sends EXCEPT ![s] =
           IF p \in DOMAIN pool
           THEN [NotSending EXCEPT !.at = "push", !.peer = p, !.conn = pool[p]]
           ELSE IF streamKind = "tcp" THEN [NotSending EXCEPT !.at = "evict", !.peer = p]
           ELSE NotSending]
    /\ UNCHANGED <<streamKind, handshaking, streams, pool, inbox, streamStopping, reads>>

(* The channel of the connection has room, or its writer is gone; a full   *)
(* one makes the caller wait.                                              *)
SendPushes(s) ==
    LET c == sends[s].conn IN
    /\ sends[s].at = "push"
    /\ \/ /\ streams[c].writer # "done" /\ streams[c].queue < StreamQueueDepth
          /\ streams' = [streams EXCEPT ![c].queue = @ + 1]
          /\ sends' = [sends EXCEPT ![s] = NotSending]
       \/ /\ streams[c].writer = "done"
          /\ sends' = [sends EXCEPT ![s] = IF streamKind = "tcp" /\ ~@.redialled
                                           THEN [@ EXCEPT !.at = "evict"] ELSE NotSending]
          /\ UNCHANGED streams
    /\ UNCHANGED <<streamKind, handshaking, pool, inbox, streamStopping, sent, reads>>

SendEvicts(s) ==
    /\ sends[s].at = "evict"
    /\ pool' = PoolWithout(sends[s].peer)
    /\ sends' = [sends EXCEPT ![s].at = "connect", ![s].stages = ConnectStages]
    /\ UNCHANGED <<streamKind, handshaking, streams, inbox, streamStopping, sent, reads>>

(* The connector dials, and talks to its proxy; each step may fail. *)
ConnectStep(s) ==
    /\ sends[s].at = "connect" /\ sends[s].stages # <<>>
    /\ \/ sends' = [sends EXCEPT ![s].stages = Tail(@)]
       \/ sends' = [sends EXCEPT ![s] = NotSending]
    /\ UNCHANGED <<streamKind, handshaking, streams, pool, inbox, streamStopping, sent, reads>>

SendRegisters(s) ==
    /\ sends[s].at = "connect" /\ sends[s].stages = <<>> /\ Len(streams) < MaxConns
    /\ RegisterStream(sends[s].peer)
    /\ sends' = [sends EXCEPT ![s].at = "push", ![s].conn = Len(streams) + 1,
                              ![s].redialled = TRUE]
    /\ UNCHANGED <<streamKind, handshaking, inbox, streamStopping, sent, reads>>

-----------------------------------------------------------------------------
(* spawn_writer *)

(* The select is biased: a cancelled writer leaves its queue unread.  Its  *)
(* own slot holds a sender, so the channel never closes under it.          *)
WriterCancelled(c) ==
    /\ streams[c].writer = "waiting" /\ Cancelled(c)
    /\ streams' = [streams EXCEPT ![c].writer = "closing"]
    /\ UNCHANGED <<streamKind, handshaking, pool, sends, inbox, streamStopping, sent, reads>>

WriterTakes(c) ==
    /\ streams[c].writer = "waiting" /\ ~Cancelled(c) /\ streams[c].queue > 0
    /\ streams' = [streams EXCEPT ![c].writer = "writing", ![c].queue = @ - 1]
    /\ UNCHANGED <<streamKind, handshaking, pool, sends, inbox, streamStopping, sent, reads>>

(* write_all ends; an error ends the task.  A write is not cancelled and has no         *)
(* deadline: while the peer does not read, it does not end.                             *)
WriterWrites(c) ==
    /\ streams[c].writer = "writing"
    /\ \/ streams' = [streams EXCEPT ![c].writer = "waiting"]
       \/ streams' = [streams EXCEPT ![c].writer = "closing"]
    /\ UNCHANGED <<streamKind, handshaking, pool, sends, inbox, streamStopping, sent, reads>>

(* shutdown of the socket has ended, and the entry goes, only while it is still this    *)
(* connection's.                                                                        *)
WriterLeavesPool(c) ==
    /\ streams[c].writer = "closing"
    /\ streams' = [streams EXCEPT ![c].writer = "left"]
    /\ pool' = IF streams[c].peer \in DOMAIN pool /\ pool[streams[c].peer] = c
               THEN PoolWithout(streams[c].peer) ELSE pool
    /\ UNCHANGED <<streamKind, handshaking, sends, inbox, streamStopping, sent, reads>>

WriterEnds(c) ==
    /\ streams[c].writer = "left"
    /\ streams' = [streams EXCEPT ![c].writer = "done", ![c].cancel = TRUE]
    /\ UNCHANGED <<streamKind, handshaking, pool, sends, inbox, streamStopping, sent, reads>>

-----------------------------------------------------------------------------
(* spawn_framed_reader *)

(* The token, a close or an error of the socket: the reader ends and       *)
(* cancels the connection.                                                 *)
StreamReaderEnds(c) ==
    /\ streams[c].reader = "reading" /\ (Cancelled(c) \/ ~streams[c].peerOpen)
    /\ streams' = [streams EXCEPT ![c].reader = "done", ![c].cancel = TRUE]
    /\ UNCHANGED <<streamKind, handshaking, pool, sends, inbox, streamStopping, sent, reads>>

(* The idle budget is spent.  The clock the two tasks touch is left out: a *)
(* reader that waits may be out of time.                                   *)
IdleTimeout(c) ==
    /\ streams[c].reader = "reading" /\ ~Cancelled(c)
    /\ streams' = [streams EXCEPT ![c].reader = "done", ![c].cancel = TRUE]
    /\ UNCHANGED <<streamKind, handshaking, pool, sends, inbox, streamStopping, sent, reads>>

StreamReads(c, n, ending) ==
    /\ streams[c].reader = "reading" /\ ~Cancelled(c) /\ streams[c].peerOpen /\ reads < MaxReads
    /\ reads' = reads + 1
    /\ streams' = [streams EXCEPT ![c].reader = "framing", ![c].parsed = n, ![c].ending = ending]
    /\ UNCHANGED <<streamKind, handshaking, pool, sends, inbox, streamStopping, sent>>

(* A whole message goes to the UAS, when its channel has room; once the    *)
(* transport stops the UAS may be gone.                                    *)
ReaderDelivers(c) ==
    /\ streams[c].reader = "framing" /\ streams[c].parsed > 0
    /\ \/ /\ inbox < InboxDepth
          /\ inbox' = inbox + 1
          /\ streams' = [streams EXCEPT ![c].parsed = @ - 1]
       \/ /\ streamStopping
          /\ streams' = [streams EXCEPT ![c].reader = "done", ![c].cancel = TRUE]
          /\ UNCHANGED inbox
    /\ UNCHANGED <<streamKind, handshaking, pool, sends, streamStopping, sent, reads>>

OverflowClosesMut(c) ==
    /\ streams[c].reader = "framing" /\ streams[c].parsed = 0 /\ streams[c].ending # "partial"
    /\ streams' = [streams EXCEPT ![c].reader = "done"]
    /\ UNCHANGED <<streamKind, handshaking, pool, sends, inbox, streamStopping, sent, reads>>

(* A malformed Content-Length and an oversized message cancel, a partial   *)
(* one waits for more.                                                     *)
OverflowCloses(c) ==
    /\ streams[c].reader = "framing" /\ streams[c].parsed = 0 /\ streams[c].ending # "partial"
    /\ streams' = [streams EXCEPT ![c].reader = "done", ![c].cancel = TRUE]
    /\ UNCHANGED <<streamKind, handshaking, pool, sends, inbox, streamStopping, sent, reads>>

PartialWaits(c) ==
    /\ streams[c].reader = "framing" /\ streams[c].parsed = 0 /\ streams[c].ending = "partial"
    /\ streams' = [streams EXCEPT ![c].reader = "reading"]
    /\ UNCHANGED <<streamKind, handshaking, pool, sends, inbox, streamStopping, sent, reads>>

-----------------------------------------------------------------------------
(* The rest of the world *)

PeerCloses(c) ==
    /\ streams[c].peerOpen
    /\ streams' = [streams EXCEPT ![c].peerOpen = FALSE]
    /\ UNCHANGED <<streamKind, handshaking, pool, sends, inbox, streamStopping, sent, reads>>

UasReceives ==
    /\ inbox > 0
    /\ inbox' = inbox - 1
    /\ UNCHANGED <<streamKind, handshaking, streams, pool, sends, streamStopping, sent, reads>>

StreamShutdown ==
    /\ ~streamStopping
    /\ streamStopping' = TRUE
    /\ UNCHANGED <<streamKind, handshaking, streams, pool, sends, inbox, sent, reads>>

StreamNext ==
    \/ \E p \in StreamPeers : AcceptTcp(p) \/ AcceptTls(p) \/ TlsHandshake(p)
    \/ \E s \in StreamSenders, p \in StreamPeers : SendStarts(s, p)
    \/ \E s \in StreamSenders : SendPushes(s) \/ SendEvicts(s) \/ ConnectStep(s) \/ SendRegisters(s)
    \/ \E c \in Conns :
         \/ WriterCancelled(c) \/ WriterTakes(c) \/ WriterWrites(c)
         \/ WriterLeavesPool(c) \/ WriterEnds(c)
         \/ StreamReaderEnds(c) \/ IdleTimeout(c) \/ ReaderDelivers(c)
         \/ OverflowCloses(c) \/ PartialWaits(c)
         \/ \E n \in 0..1, ending \in {"partial", "overflow"} : StreamReads(c, n, ending)
         \/ PeerCloses(c)
    \/ UasReceives \/ StreamShutdown

(* The runtime runs a task that can go on; the UAS drains its channel.     *)
(* Nothing is assumed of a write or of closing the socket: a peer that     *)
(* does not read holds them up for ever.                                   *)
StreamFairness ==
    /\ WF_streamVars(UasReceives)
    /\ \A c \in 1..MaxConns :
         /\ WF_streamVars(c \in Conns /\ (WriterCancelled(c) \/ WriterEnds(c)))
         /\ WF_streamVars(c \in Conns /\ StreamReaderEnds(c))
         /\ SF_streamVars(c \in Conns /\ ReaderDelivers(c))
         /\ WF_streamVars(c \in Conns /\ (OverflowCloses(c) \/ PartialWaits(c)))

StreamSpec == StreamInit /\ [][StreamNext]_streamVars /\ StreamFairness

-----------------------------------------------------------------------------
(* A pool entry names the newest connection of its peer or one whose       *)
(* writer still runs: a message handed to the pool is never queued behind  *)
(* a connection nobody will take out of it.                                *)
PoolServed ==
    \A p \in DOMAIN pool :
        /\ streams[pool[p]].peer = p
        /\ streams[pool[p]].writer \notin {"left", "done"}
        /\ \A c \in Conns : c > pool[p] /\ streams[c].peer = p => streams[c].writer \in {"left", "done"}

(* The writer of a connection is not held up by its peer. *)
NotBlocked(c) == c \in Conns => streams[c].writer \notin {"writing", "closing"}

(* "whichever side finishes first ... cancels the other, and the writer    *)
(* removes the peer's pool entry on its way out": a connection that has    *)
(* lost a task loses the other one, and its pool entry, unless its own     *)
(* peer has stopped reading: a write the peer does not take is outside the *)
(* cancellation, and nothing then ends it (spawn_writer).                  *)
ConnectionsUnwind ==
    \A c \in 1..MaxConns :
        []<>NotBlocked(c) =>
            ((c \in Conns /\ (streams[c].reader = "done" \/ streams[c].writer = "done"))
               ~> (c \in Conns /\ streams[c].reader = "done" /\ streams[c].writer = "done"
                               /\ c \notin Range(pool)))
=============================================================================
