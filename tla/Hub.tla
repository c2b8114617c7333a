---------------------------------- MODULE Hub ----------------------------------
(***************************************************************************)
(* The realtime hub of wa-core (internal/ws/hub.go) in a deployment of     *)
(* several server instances that share one Redis channel.                  *)
(*                                                                         *)
(* Every goroutine of the code is an actor here: the caller of Broadcast,  *)
(* the consumeRedis loop of an instance, the read pump and the write pump  *)
(* of each WebSocket client, the SSE handler of each stream, and the       *)
(* goroutine that runs Close at shutdown.  A step is what the code does    *)
(* between two points where another goroutine can be seen: one critical    *)
(* section of h.mu or c.mu, one channel operation, one socket call.        *)
(***************************************************************************)
EXTENDS Naturals, Sequences, FiniteSets

CONSTANTS
  Hubs,         \* running instances of wa-core, one Hub each
  Clients,      \* WebSocket connections; each is upgraded at most once
  Streams,      \* SSE requests; each subscribes at most once
  Events,       \* broadcasts; each is one call of Broadcast
  HubOf,        \* the instance a connection or a stream is made to
  Origin,       \* the instance whose Broadcast is called with an event
  Linked,       \* the instances started with a Redis URL
  QueueSize,    \* clientQueueSize
  StreamSize,   \* the buffer of a subscriber's channel
  MaxAttempts,  \* bound: how often Redis may accept an event (the driver retries)
  Closable,     \* bound: the instances whose shutdown is explored
  Nil

ASSUME HubAssumption ==
  /\ HubOf \in [Clients \cup Streams -> Hubs]
  /\ Origin \in [Events -> Hubs]
  /\ Linked \subseteq Hubs
  /\ Closable \subseteq Hubs
  /\ QueueSize \in Nat \ {0}
  /\ StreamSize \in Nat \ {0}
  /\ MaxAttempts \in [Events -> Nat \ {0}]
  /\ Clients \cap Streams = {}
  /\ Nil \notin Clients \cup Events

VARIABLES
  registered,   \* the clients maps of all hubs
  closed,       \* client.closed: the send channel has been closed
  send,         \* client.send
  conn,         \* the socket: "new", "open", "lost" (peer gone), "closed"
  reader,       \* the read pump of a client
  writer,       \* the write pump of a client
  writing,      \* the payload the write pump has taken and not yet written
  stream,       \* a stream: "new", "open", "gone"
  inbox,        \* the subscriber channel of a stream
  phase,        \* progress of the Broadcast call of an event
  attempts,     \* how often Redis has accepted an event
  limbo,        \* timed out publishes that may still reach Redis
  channel,      \* what Redis has delivered to an instance's subscription
  consuming,    \* the event an instance's consumeRedis loop is emitting
  pending,      \* emitLocal: the rest of the snapshot it still has to serve
  rejected,     \* emitLocal: the client whose enqueue has just failed
  shut,         \* Close: "up", "closing", "down"
  closing,      \* closeClients: unregistered and not yet closed
  received,     \* history: what the peer of a client got, in order
  offered,      \* history: what emitLocal tried to enqueue to a client
  prior         \* history: calls at the same hub that had returned when an
                \* event's Broadcast began

memberVars == <<registered, closed>>
clientVars == <<memberVars, send, conn, reader, writer, writing, received>>
streamVars == <<stream, inbox>>
callVars   == <<phase, prior>>
redisVars  == <<attempts, limbo, channel, consuming>>
emitVars   == <<pending, rejected, offered>>
shutVars   == <<shut, closing>>
hubVars    == <<streamVars, callVars, redisVars, emitVars, shutVars>>
vars == <<clientVars, hubVars>>

ConnState   == {"new", "open", "lost", "closed"}
ReaderState == {"idle", "reading", "removing", "done"}
WriterState == {"idle", "select", "writing", "removing", "leaving", "done"}
CallPhase   == {"idle", "emit", "publish", "done", "failed"}

ClientTypes ==
  /\ registered \subseteq Clients
  /\ closed \in [Clients -> BOOLEAN]
  /\ send \in [Clients -> Seq(Events)]
  /\ \A c \in Clients : Len(send[c]) <= QueueSize
  /\ conn \in [Clients -> ConnState]
  /\ reader \in [Clients -> ReaderState]
  /\ writer \in [Clients -> WriterState]
  /\ writing \in [Clients -> Events \cup {Nil}]
  /\ \A c \in Clients : writer[c] = "writing" => writing[c] # Nil
  /\ received \in [Clients -> Seq(Events)]

StreamTypes ==
  /\ stream \in [Streams -> {"new", "open", "gone"}]
  /\ inbox \in [Streams -> Seq(Events)]
  /\ \A s \in Streams : Len(inbox[s]) <= StreamSize

CallTypes == phase \in [Events -> CallPhase] /\ prior \in [Events -> SUBSET Events]

RedisTypes ==
  /\ attempts \in [Events -> Nat]
  /\ \A e \in Events : attempts[e] <= MaxAttempts[e]
  /\ limbo \subseteq Events
  /\ channel \in [Hubs -> Seq(Events)]
  /\ consuming \in [Hubs -> Events \cup {Nil}]

EmitTypes ==
  /\ pending \in [Hubs -> [Events -> SUBSET (Clients \cup Streams)]]
  /\ rejected \in [Hubs -> [Events -> Clients \cup {Nil}]]
  /\ offered \in [Clients -> Seq(Events)]

ShutTypes == shut \in [Hubs -> {"up", "closing", "down"}] /\ closing \subseteq Clients

TypeOK == ClientTypes /\ StreamTypes /\ CallTypes /\ RedisTypes /\ EmitTypes /\ ShutTypes

Init ==
  /\ registered = {}
  /\ closed = [c \in Clients |-> FALSE]
  /\ send = [c \in Clients |-> <<>>]
  /\ conn = [c \in Clients |-> "new"]
  /\ reader = [c \in Clients |-> "idle"]
  /\ writer = [c \in Clients |-> "idle"]
  /\ writing = [c \in Clients |-> Nil]
  /\ stream = [s \in Streams |-> "new"]
  /\ inbox = [s \in Streams |-> <<>>]
  /\ phase = [e \in Events |-> "idle"]
  /\ attempts = [e \in Events |-> 0]
  /\ limbo = {}
  /\ channel = [h \in Hubs |-> <<>>]
  /\ consuming = [h \in Hubs |-> Nil]
  /\ pending = [h \in Hubs |-> [e \in Events |-> {}]]
  /\ rejected = [h \in Hubs |-> [e \in Events |-> Nil]]
  /\ shut = [h \in Hubs |-> "up"]
  /\ closing = {}
  /\ received = [c \in Clients |-> <<>>]
  /\ offered = [c \in Clients |-> <<>>]
  /\ prior = [e \in Events |-> {}]

--------------------------------------------------------------------------------
(* Registration of clients and streams.                                    *)

\* ServeHTTP: the upgrade succeeded, the client is registered, its pumps run.
AddClient(c) ==
  /\ conn[c] = "new"
  /\ conn' = [conn EXCEPT ![c] = "open"]
  /\ registered' = registered \cup {c}
  /\ reader' = [reader EXCEPT ![c] = "reading"]
  /\ writer' = [writer EXCEPT ![c] = "select"]
  /\ UNCHANGED <<closed, send, writing, received, hubVars>>

\* Faulty variant: closes without asking whether the client was still registered.
RemoveClientBlindly(c) ==
  /\ registered' = registered \ {c}
  /\ closed' = [closed EXCEPT ![c] = TRUE]

\* removeClient: under h.mu, only a registered client is deleted and closed.
RemoveClient(c) ==
  /\ registered' = registered \ {c}
  /\ closed' = [closed EXCEPT ![c] = @ \/ c \in registered]

Subscribe(s) ==
  /\ stream[s] = "new"
  /\ stream' = [stream EXCEPT ![s] = "open"]
  /\ UNCHANGED <<inbox, clientVars, callVars, redisVars, emitVars, shutVars>>

\* The request's context is done: handleSessionStream returns and its deferred
\* unsubscribe deletes the channel from the map.
Unsubscribe(s) ==
  /\ stream[s] = "open"
  /\ stream' = [stream EXCEPT ![s] = "gone"]
  /\ UNCHANGED <<inbox, clientVars, callVars, redisVars, emitVars, shutVars>>

\* The SSE handler takes the next payload and writes it out.
StreamTake(s) ==
  /\ stream[s] = "open"
  /\ inbox[s] # <<>>
  /\ inbox' = [inbox EXCEPT ![s] = Tail(@)]
  /\ UNCHANGED <<stream, clientVars, callVars, redisVars, emitVars, shutVars>>

--------------------------------------------------------------------------------
(* emitLocal: a snapshot under the read lock, then one non-blocking send    *)
(* per subscriber and, after all of those, one enqueue per client.          *)

\* The snapshot of the maps of one hub.
Targets(h) ==
  {c \in registered : HubOf[c] = h} \cup {s \in Streams : stream[s] = "open" /\ HubOf[s] = h}

BeginEmit(h, e) == pending' = [pending EXCEPT ![h][e] = Targets(h)]

Served(h, e, t) == pending' = [pending EXCEPT ![h][e] = @ \ {t}]

EmitStream(h, e, s) ==
  /\ s \in pending[h][e]
  /\ Served(h, e, s)
  /\ inbox' = [inbox EXCEPT ![s] = IF Len(@) < StreamSize THEN Append(@, e) ELSE @]
  /\ UNCHANGED <<stream, rejected, offered, clientVars, callVars, redisVars, shutVars>>

\* Faulty variants: no look at the closed flag; no bound on the queue.
AcceptsClosed(c) == Len(send[c]) < QueueSize
AcceptsFull(c) == ~closed[c]

\* The answer of client.enqueue, given under c.mu.
Accepts(c) == ~closed[c] /\ Len(send[c]) < QueueSize

\* Faulty variant: a plain channel send, which waits for room.
EmitClientBlocking(h, e, c) ==
  /\ c \in pending[h][e]
  /\ pending[h][e] \cap Streams = {}
  /\ Accepts(c)
  /\ Served(h, e, c)
  /\ offered' = [offered EXCEPT ![c] = Append(@, e)]
  /\ send' = [send EXCEPT ![c] = Append(@, e)]
  /\ UNCHANGED <<memberVars, conn, reader, writer, writing, received, rejected,
                 streamVars, callVars, redisVars, shutVars>>

EmitClient(h, e, c) ==
  /\ c \in pending[h][e]
  /\ pending[h][e] \cap Streams = {}
  /\ rejected[h][e] = Nil
  /\ Served(h, e, c)
  /\ offered' = [offered EXCEPT ![c] = Append(@, e)]
  /\ \/ /\ Accepts(c)
        /\ send' = [send EXCEPT ![c] = Append(@, e)]
        /\ UNCHANGED rejected
     \/ /\ ~Accepts(c)
        /\ rejected' = [rejected EXCEPT ![h][e] = c]
        /\ UNCHANGED send
  /\ UNCHANGED <<memberVars, conn, reader, writer, writing, received,
                 streamVars, callVars, redisVars, shutVars>>

\* Faulty variant: the event is dropped and the client stays.
DropForSlow(h, e) ==
  /\ rejected[h][e] # Nil
  /\ rejected' = [rejected EXCEPT ![h][e] = Nil]
  /\ UNCHANGED <<clientVars, pending, offered, streamVars, callVars, redisVars, shutVars>>

\* The slow client is removed before the loop goes on to the next one.
EvictSlow(h, e) ==
  /\ rejected[h][e] # Nil
  /\ RemoveClient(rejected[h][e])
  /\ rejected' = [rejected EXCEPT ![h][e] = Nil]
  /\ UNCHANGED <<send, conn, reader, writer, writing, received, pending, offered,
                 streamVars, callVars, redisVars, shutVars>>

Emitted(h, e) == pending[h][e] = {} /\ rejected[h][e] = Nil

EmitStep(h, e) ==
  \/ \E s \in Streams : EmitStream(h, e, s)
  \/ \E c \in Clients : EmitClient(h, e, c)
  \/ EvictSlow(h, e)

--------------------------------------------------------------------------------
(* Broadcast: emit to this instance, then publish for the others.           *)

Finished(e) == phase[e] \in {"done", "failed"}

BroadcastBegin(e) ==
  /\ phase[e] = "idle"
  /\ phase' = [phase EXCEPT ![e] = "emit"]
  /\ BeginEmit(Origin[e], e)
  /\ prior' = [prior EXCEPT ![e] = {d \in Events : Origin[d] = Origin[e] /\ Finished(d)}]
  /\ UNCHANGED <<rejected, offered, clientVars, streamVars, redisVars, shutVars>>

BroadcastEmitted(e) ==
  /\ phase[e] = "emit"
  /\ Emitted(Origin[e], e)
  /\ phase' = [phase EXCEPT ![e] = IF Origin[e] \in Linked THEN "publish" ELSE "done"]
  /\ UNCHANGED <<prior, clientVars, streamVars, redisVars, emitVars, shutVars>>

\* Redis hands an accepted event to every subscription that is open, that of the
\* publishing instance included.
RedisAccepts(e) ==
  /\ attempts[e] < MaxAttempts[e]
  /\ attempts' = [attempts EXCEPT ![e] = @ + 1]
  /\ channel' = [h \in Hubs |-> IF h \in Linked /\ shut[h] # "down"
                                THEN Append(channel[h], e) ELSE channel[h]]

PublishOk(e) ==
  /\ phase[e] = "publish"
  /\ shut[Origin[e]] # "down"
  /\ RedisAccepts(e)
  /\ phase' = [phase EXCEPT ![e] = "done"]
  /\ UNCHANGED <<prior, limbo, consuming, clientVars, streamVars, emitVars, shutVars>>

\* The reply was lost and the driver sends the command again.
PublishRetry(e) ==
  /\ phase[e] = "publish"
  /\ shut[Origin[e]] # "down"
  /\ RedisAccepts(e)
  /\ UNCHANGED <<limbo, consuming, callVars, clientVars, streamVars, emitVars, shutVars>>

\* Publish returns an error, which is only logged.  After a timeout the command
\* may still be on its way.
PublishFail(e) ==
  /\ phase[e] = "publish"
  /\ phase' = [phase EXCEPT ![e] = "failed"]
  /\ limbo' \in {limbo, limbo \cup {e}}
  /\ UNCHANGED <<prior, attempts, channel, consuming, clientVars, streamVars, emitVars, shutVars>>

LateArrival(e) ==
  /\ e \in limbo
  /\ RedisAccepts(e)
  /\ limbo' = limbo \ {e}
  /\ UNCHANGED <<consuming, callVars, clientVars, streamVars, emitVars, shutVars>>

--------------------------------------------------------------------------------
(* consumeRedis: one goroutine per instance.                                *)

\* Faulty variant: no look at the source of an envelope.
ForEveryInstance(h, e) == TRUE

\* An envelope whose source is this instance is skipped.
ForThisInstance(h, e) == Origin[e] # h

ConsumeRedis(h) ==
  /\ consuming[h] = Nil
  /\ channel[h] # <<>>
  /\ channel' = [channel EXCEPT ![h] = Tail(@)]
  /\ LET e == Head(channel[h]) IN
       \/ /\ ForThisInstance(h, e)
          /\ consuming' = [consuming EXCEPT ![h] = e]
          /\ BeginEmit(h, e)
       \/ /\ ~ForThisInstance(h, e)
          /\ UNCHANGED <<consuming, pending>>
  /\ UNCHANGED <<attempts, limbo, rejected, offered, clientVars, streamVars, callVars, shutVars>>

\* Faulty variant: the loop does not wait for its emission (go h.emitLocal).
ConsumeDetached(h) ==
  /\ consuming[h] # Nil
  /\ consuming' = [consuming EXCEPT ![h] = Nil]
  /\ UNCHANGED <<attempts, limbo, channel, clientVars, streamVars, callVars, emitVars, shutVars>>

ConsumeDone(h) ==
  /\ consuming[h] # Nil
  /\ Emitted(h, consuming[h])
  /\ consuming' = [consuming EXCEPT ![h] = Nil]
  /\ UNCHANGED <<attempts, limbo, channel, clientVars, streamVars, callVars, emitVars, shutVars>>

\* A subscription that reconnects, or whose buffer is full, loses messages.
RedisLoss(h) ==
  /\ channel[h] # <<>>
  /\ channel' = [channel EXCEPT ![h] = Tail(@)]
  /\ UNCHANGED <<attempts, limbo, consuming, clientVars, streamVars, callVars, emitVars, shutVars>>

--------------------------------------------------------------------------------
(* The write pump of a client.                                              *)

WriterGoes(c, from, to) == writer[c] = from /\ writer' = [writer EXCEPT ![c] = to]

WriterTake(c) ==
  /\ WriterGoes(c, "select", "writing")
  /\ send[c] # <<>>
  /\ writing' = [writing EXCEPT ![c] = Head(send[c])]
  /\ send' = [send EXCEPT ![c] = Tail(@)]
  /\ UNCHANGED <<memberVars, conn, reader, received, hubVars>>

\* The socket took the payload; a peer that is gone never sees it.
WriteOk(c) ==
  /\ WriterGoes(c, "writing", "select")
  /\ writing' = [writing EXCEPT ![c] = Nil]
  /\ received' = IF conn[c] = "open"
                 THEN [received EXCEPT ![c] = Append(@, writing[c])] ELSE received
  /\ UNCHANGED <<memberVars, send, conn, reader, hubVars>>

\* The write failed or ran into its deadline.
WriteError(c) ==
  /\ WriterGoes(c, "writing", "removing")
  /\ writing' = [writing EXCEPT ![c] = Nil]
  /\ UNCHANGED <<memberVars, send, conn, reader, received, hubVars>>

PingError(c) ==
  /\ WriterGoes(c, "select", "removing")
  /\ UNCHANGED <<memberVars, send, conn, reader, writing, received, hubVars>>

\* Faulty variant: the pump leaves without removing its client.
WriterLeavesOnly(c) ==
  /\ WriterGoes(c, "removing", "leaving")
  /\ UNCHANGED <<memberVars, send, conn, reader, writing, received, hubVars>>

WriterRemove(c) ==
  /\ WriterGoes(c, "removing", "leaving")
  /\ RemoveClient(c)
  /\ UNCHANGED <<send, conn, reader, writing, received, hubVars>>

\* A receive from the closed and drained channel: the close frame is sent.
WriterSeesClose(c) ==
  /\ WriterGoes(c, "select", "leaving")
  /\ closed[c]
  /\ send[c] = <<>>
  /\ UNCHANGED <<memberVars, send, conn, reader, writing, received, hubVars>>

\* Faulty variant: the deferred conn.Close is missing.
WriterExitOpen(c) ==
  /\ WriterGoes(c, "leaving", "done")
  /\ UNCHANGED <<memberVars, send, conn, reader, writing, received, hubVars>>

\* The deferred conn.Close.
WriterExit(c) ==
  /\ WriterGoes(c, "leaving", "done")
  /\ conn' = [conn EXCEPT ![c] = "closed"]
  /\ UNCHANGED <<memberVars, send, reader, writing, received, hubVars>>

WriterStep(c) ==
  \/ WriterTake(c)   \/ WriteOk(c)         \/ WriteError(c)
  \/ WriterRemove(c) \/ WriterSeesClose(c) \/ WriterExit(c)

--------------------------------------------------------------------------------
(* The read pump of a client, and its peer.                                 *)

ReaderGoes(c, from, to) == reader[c] = from /\ reader' = [reader EXCEPT ![c] = to]

\* The browser goes away, or the network does.
PeerLost(c) ==
  /\ conn[c] = "open"
  /\ conn' = [conn EXCEPT ![c] = "lost"]
  /\ UNCHANGED <<memberVars, send, reader, writer, writing, received, hubVars>>

\* ReadMessage fails: the socket is closed, or no pong came before the deadline.
ReaderError(c) ==
  /\ ReaderGoes(c, "reading", "removing")
  /\ conn[c] # "open"
  /\ UNCHANGED <<memberVars, send, conn, writer, writing, received, hubVars>>

\* ReadMessage fails although the peer is there: a frame over the read limit.
ReaderAbort(c) ==
  /\ ReaderGoes(c, "reading", "removing")
  /\ conn[c] = "open"
  /\ UNCHANGED <<memberVars, send, conn, writer, writing, received, hubVars>>

\* Faulty variant: the deferred removeClient is missing.
ReaderLeavesOnly(c) ==
  /\ ReaderGoes(c, "removing", "done")
  /\ UNCHANGED <<memberVars, send, conn, writer, writing, received, hubVars>>

ReaderRemove(c) ==
  /\ ReaderGoes(c, "removing", "done")
  /\ RemoveClient(c)
  /\ UNCHANGED <<send, conn, writer, writing, received, hubVars>>

--------------------------------------------------------------------------------
(* Close, deferred by main: all clients leave the map in one critical        *)
(* section and are closed one by one after it.                               *)

CloseBegin(h) ==
  /\ h \in Closable
  /\ shut[h] = "up"
  /\ shut' = [shut EXCEPT ![h] = "closing"]
  /\ LET mine == {c \in registered : HubOf[c] = h} IN
       /\ closing' = closing \cup mine
       /\ registered' = registered \ mine
  /\ UNCHANGED <<closed, send, conn, reader, writer, writing, received,
                 streamVars, callVars, redisVars, emitVars>>

CloseClient(c) ==
  /\ c \in closing
  /\ closed' = [closed EXCEPT ![c] = TRUE]
  /\ closing' = closing \ {c}
  /\ UNCHANGED <<registered, send, conn, reader, writer, writing, received, shut,
                 streamVars, callVars, redisVars, emitVars>>

\* The subscription and the Redis client are closed last.
CloseEnd(h) ==
  /\ shut[h] = "closing"
  /\ \A c \in closing : HubOf[c] # h
  /\ shut' = [shut EXCEPT ![h] = "down"]
  /\ UNCHANGED <<closing, clientVars, streamVars, callVars, redisVars, emitVars>>

--------------------------------------------------------------------------------
ClientNext(c) ==
  \/ AddClient(c) \/ WriterStep(c) \/ PingError(c)
  \/ PeerLost(c)  \/ ReaderError(c) \/ ReaderAbort(c) \/ ReaderRemove(c)
  \/ CloseClient(c)

StreamNext(s) == Subscribe(s) \/ Unsubscribe(s) \/ StreamTake(s)

CallNext(e) ==
  \/ BroadcastBegin(e) \/ BroadcastEmitted(e)
  \/ PublishOk(e) \/ PublishRetry(e) \/ PublishFail(e) \/ LateArrival(e)

HubNext(h) ==
  \/ ConsumeRedis(h) \/ ConsumeDone(h) \/ RedisLoss(h)
  \/ CloseBegin(h) \/ CloseEnd(h)

Next ==
  \/ \E c \in Clients : ClientNext(c)
  \/ \E s \in Streams : StreamNext(s)
  \/ \E e \in Events : CallNext(e)
  \/ \E h \in Hubs : HubNext(h)
  \/ \E h \in Hubs, e \in Events : EmitStep(h, e)

Spec == Init /\ [][Next]_vars

\* What the Go scheduler and the socket deadlines guarantee: a goroutine that can
\* run does, a write returns within websocketWriteTimeout, a read of a dead peer
\* within websocketPongTimeout, a publish within its five seconds.  Peers,
\* requests, pings, Redis and the operator owe nothing.
Fairness ==
  /\ \A c \in Clients : /\ WF_vars(WriterStep(c))
                        /\ WF_vars(ReaderError(c))
                        /\ WF_vars(ReaderRemove(c))
                        /\ WF_vars(CloseClient(c))
  /\ \A h \in Hubs, e \in Events : WF_vars(EmitStep(h, e))
  /\ \A e \in Events : WF_vars(BroadcastEmitted(e)) /\ WF_vars(PublishOk(e) \/ PublishFail(e))
  /\ \A h \in Hubs : WF_vars(ConsumeRedis(h)) /\ WF_vars(ConsumeDone(h)) /\ WF_vars(CloseEnd(h))

LiveSpec == Spec /\ Fairness

--------------------------------------------------------------------------------
(* Properties.                                                              *)

Hand(c) == IF writing[c] = Nil THEN <<>> ELSE <<writing[c]>>

\* Everything a client got or is still going to be sent, oldest first.
Line(c) == received[c] \o Hand(c) \o send[c]

\* Who closes a send channel.  A client is in the map, or in the hands of Close,
\* or closed, and never in two of these: removeClient (called by both pumps and by
\* every emission) and closeClients cannot both own the close of one channel, and
\* a client that left the map is never forgotten with its write pump still waiting.
CloseOwnership ==
  \A c \in Clients :
    /\ c \in registered => c \notin closing /\ ~closed[c]
    /\ c \in closing => ~closed[c]
    /\ conn[c] # "new" => c \in registered \cup closing \/ closed[c]
    /\ conn[c] = "new" => c \notin registered \cup closing /\ ~closed[c]

\* A client in the map has a write pump: the pump leaves (after a failed write, a
\* failed ping or a closed channel) only when the client is no longer registered,
\* so an emission never fills the queue of a connection nobody drains.
RegisteredIsServed ==
  \A c \in registered : writer[c] \in {"select", "writing", "removing"}

\* What makes the two above inductive: a pump exists, and an emission has a client
\* among its targets or in its hands, only after the client was added.
PumpsStarted ==
  \A c \in Clients : reader[c] # "idle" \/ writer[c] # "idle" => conn[c] # "new"

TargetsStarted ==
  \A h \in Hubs, e \in Events, c \in Clients :
    c \in pending[h][e] \/ rejected[h][e] = c => conn[c] # "new"

\* A send on a closed channel would panic: an emission that took its snapshot
\* before the client was closed must not put anything in its channel after it.
NoSendOnClosed ==
  [][\A c \in Clients : closed[c] => Len(send'[c]) <= Len(send[c])]_vars

Evicting(c) == \E h \in Hubs, e \in Events : rejected[h][e] = c

\* A client that stays has no gap: as long as it is registered, its pump is fine
\* and no emission is about to evict it, what was offered to it so far is exactly
\* what it got, holds in the pump and finds in its queue, in this order.
NoGap ==
  \A c \in registered :
    conn[c] = "open" /\ writer[c] # "removing" /\ ~Evicting(c) => offered[c] = Line(c)

Copies(e, q) == Cardinality({i \in DOMAIN q : q[i] = e})

\* The instance that broadcasts an event gives it to each of its clients at most
\* once, although Redis hands it the event again, and more than once after a retry;
\* on another instance a client gets it at most as often as Redis accepted it.
NoEcho ==
  \A c \in Clients, e \in Events :
    Copies(e, Line(c)) <= (IF Origin[e] = HubOf[c] THEN 1 ELSE attempts[e])

\* Two broadcasts of one instance, the second begun after the first had returned,
\* reach every client in that order, on the other instances too, unless the
\* publish of the first failed and came through late.
BroadcastOrder ==
  \A c \in Clients :
    \A i, j \in DOMAIN Line(c) :
      LET e == Line(c)[i]
          d == Line(c)[j]
      IN i < j /\ d \in prior[e] => phase[d] = "failed" /\ Origin[d] # HubOf[c]

\* No client, however slow or dead, keeps a Broadcast from returning.
BroadcastReturns == \A e \in Events : phase[e] # "idle" ~> Finished(e)

\* A connection whose peer is gone is unregistered and both its goroutines end.
DeadPeerForgotten ==
  \A c \in Clients :
    conn[c] = "lost" ~> c \notin registered /\ reader[c] = "done" /\ writer[c] = "done"

\* Close gets through, and every client it took out of the map is closed down.
CloseEndsPumps ==
  \A c \in Clients : c \in closing ~> conn[c] = "closed" /\ reader[c] = "done"

================================================================================
