------------------------------- MODULE HubProofs -------------------------------
(***************************************************************************)
(* Theorems about Hub, for any number of instances, connections, streams   *)
(* and events, any queue sizes and any number of retries: types and the    *)
(* owners of the channels first, then what is delivered, that is, nothing  *)
(* is sent on a closed channel, a client that stays has no gap, no         *)
(* broadcast reaches a client twice, and broadcasts keep their order.      *)
(***************************************************************************)
EXTENDS Hub, SequenceTheorems, FiniteSetTheorems, TLAPS

--------------------------------------------------------------------------------
(* Type correctness.  Each group of variables keeps its types under a step  *)
(* that leaves the group alone, so a step owes only the groups it touches.  *)

LEMMA InitTypeOK == Init => TypeOK
  BY HubAssumption DEF HubAssumption, Init, TypeOK, ClientTypes, StreamTypes, CallTypes,
     RedisTypes, EmitTypes, ShutTypes, ConnState, ReaderState, WriterState, CallPhase

LEMMA SameTypes ==
  ASSUME TypeOK
  PROVE  /\ UNCHANGED clientVars => ClientTypes'
         /\ UNCHANGED streamVars => StreamTypes'
         /\ UNCHANGED callVars   => CallTypes'
         /\ UNCHANGED redisVars  => RedisTypes'
         /\ UNCHANGED emitVars   => EmitTypes'
         /\ UNCHANGED shutVars   => ShutTypes'
<1>1. UNCHANGED clientVars => ClientTypes'
  BY DEF TypeOK, ClientTypes, clientVars, memberVars
<1>2. UNCHANGED streamVars => StreamTypes'
  BY DEF TypeOK, StreamTypes, streamVars
<1>3. UNCHANGED callVars => CallTypes'
  BY DEF TypeOK, CallTypes, callVars
<1>4. UNCHANGED redisVars => RedisTypes'
  BY DEF TypeOK, RedisTypes, redisVars
<1>5. UNCHANGED emitVars => EmitTypes'
  BY DEF TypeOK, EmitTypes, emitVars
<1>6. UNCHANGED shutVars => ShutTypes'
  BY DEF TypeOK, ShutTypes, shutVars
<1>7. QED BY <1>1, <1>2, <1>3, <1>4, <1>5, <1>6

LEMMA RemoveTypes ==
  ASSUME ClientTypes, NEW c \in Clients, RemoveClient(c)
  PROVE  registered' \subseteq Clients /\ closed' \in [Clients -> BOOLEAN]
  BY DEF ClientTypes, RemoveClient

\* The pumps, the peer and Close keep the types of one client's state.
LEMMA ClientTypeOK ==
  ASSUME TypeOK, NEW c \in Clients, ClientNext(c)
  PROVE  TypeOK'
<1> USE DEF ClientTypes, ConnState, ReaderState, WriterState, WriterGoes, ReaderGoes,
        memberVars
<1>0. ClientTypes
  BY DEF TypeOK
<1>1. ASSUME ClientTypes', UNCHANGED hubVars
      PROVE  TypeOK'
  BY <1>1, SameTypes DEF TypeOK, hubVars
<1>2. CASE AddClient(c)
  BY <1>0, <1>1, <1>2 DEF AddClient
<1>3. CASE WriterTake(c)
  <2>1. /\ Head(send[c]) \in Events
        /\ Tail(send[c]) \in Seq(Events)
        /\ Len(Tail(send[c])) <= QueueSize
    BY <1>0, <1>3, HeadTailProperties, HubAssumption DEF WriterTake, HubAssumption
  <2>2. Head(send[c]) # Nil
    BY <2>1, HubAssumption DEF HubAssumption
  <2>3. QED BY <1>0, <1>1, <1>3, <2>1, <2>2 DEF WriterTake
<1>4. CASE WriteOk(c)
  <2>1. writing[c] \in Events
    BY <1>0, <1>4 DEF WriteOk
  <2>2. received' \in [Clients -> Seq(Events)]
    BY <1>0, <1>4, <2>1 DEF WriteOk
  <2>3. QED BY <1>0, <1>1, <1>4, <2>2 DEF WriteOk
<1>5. CASE WriteError(c)
  BY <1>0, <1>1, <1>5 DEF WriteError
<1>6. CASE WriterRemove(c)
  BY <1>0, <1>1, <1>6, RemoveTypes DEF WriterRemove
<1>7. CASE WriterSeesClose(c)
  BY <1>0, <1>1, <1>7 DEF WriterSeesClose
<1>8. CASE WriterExit(c)
  BY <1>0, <1>1, <1>8 DEF WriterExit
<1>9. CASE PingError(c)
  BY <1>0, <1>1, <1>9 DEF PingError
<1>10. CASE PeerLost(c)
  BY <1>0, <1>1, <1>10 DEF PeerLost
<1>11. CASE ReaderError(c)
  BY <1>0, <1>1, <1>11 DEF ReaderError
<1>12. CASE ReaderAbort(c)
  BY <1>0, <1>1, <1>12 DEF ReaderAbort
<1>13. CASE ReaderRemove(c)
  BY <1>0, <1>1, <1>13, RemoveTypes DEF ReaderRemove
<1>14. CASE CloseClient(c)
  <2>1. ClientTypes'
    BY <1>0, <1>14 DEF CloseClient
  <2>2. ShutTypes'
    BY <1>14 DEF CloseClient, TypeOK, ShutTypes
  <2>3. QED BY <1>14, <2>1, <2>2, SameTypes DEF CloseClient, TypeOK
<1>15. QED
  BY <1>2, <1>3, <1>4, <1>5, <1>6, <1>7, <1>8, <1>9, <1>10, <1>11, <1>12, <1>13, <1>14
  DEF ClientNext, WriterStep

LEMMA StreamTypeOK ==
  ASSUME TypeOK, NEW s \in Streams, StreamNext(s)
  PROVE  TypeOK'
<1>1. StreamTypes'
  <2> USE DEF TypeOK, StreamTypes
  <2>1. CASE Subscribe(s)   BY <2>1 DEF Subscribe
  <2>2. CASE Unsubscribe(s) BY <2>2 DEF Unsubscribe
  <2>3. CASE StreamTake(s)
    <3>1. Tail(inbox[s]) \in Seq(Events) /\ Len(Tail(inbox[s])) <= StreamSize
      BY <2>3, HeadTailProperties, HubAssumption DEF StreamTake, HubAssumption
    <3>2. QED BY <2>3, <3>1 DEF StreamTake
  <2>4. QED BY <2>1, <2>2, <2>3 DEF StreamNext
<1>2. UNCHANGED <<clientVars, callVars, redisVars, emitVars, shutVars>>
  BY DEF StreamNext, Subscribe, Unsubscribe, StreamTake
<1>3. QED BY <1>1, <1>2, SameTypes DEF TypeOK

LEMMA ServedTypes ==
  ASSUME EmitTypes, NEW h \in Hubs, NEW e \in Events, NEW t, Served(h, e, t)
  PROVE  pending' \in [Hubs -> [Events -> SUBSET (Clients \cup Streams)]]
  BY DEF EmitTypes, Served

LEMMA BeginEmitTypes ==
  ASSUME TypeOK, NEW h \in Hubs, NEW e \in Events, BeginEmit(h, e)
  PROVE  pending' \in [Hubs -> [Events -> SUBSET (Clients \cup Streams)]]
<1>1. Targets(h) \subseteq Clients \cup Streams
  BY DEF TypeOK, ClientTypes, Targets
<1>2. QED BY <1>1 DEF TypeOK, EmitTypes, BeginEmit

LEMMA EmitTypeOK ==
  ASSUME TypeOK, NEW h \in Hubs, NEW e \in Events, EmitStep(h, e)
  PROVE  TypeOK'
<1>0. ClientTypes /\ StreamTypes /\ EmitTypes
  BY DEF TypeOK
<1>1. ASSUME NEW s \in Streams, EmitStream(h, e, s)
      PROVE  TypeOK'
  <2>1. EmitTypes'
    BY <1>0, <1>1, ServedTypes DEF EmitTypes, EmitStream
  <2>2. CASE Len(inbox[s]) < StreamSize
    <3>1. Append(inbox[s], e) \in Seq(Events) /\ Len(Append(inbox[s], e)) <= StreamSize
      BY <1>0, <2>2, HubAssumption DEF StreamTypes, HubAssumption
    <3>2. StreamTypes'
      BY <1>0, <1>1, <2>2, <3>1 DEF StreamTypes, EmitStream
    <3>3. QED BY <1>1, <2>1, <3>2, SameTypes DEF TypeOK, EmitStream
  <2>3. CASE ~(Len(inbox[s]) < StreamSize)
    <3>1. inbox' = inbox
      BY <1>0, <1>1, <2>3 DEF StreamTypes, EmitStream
    <3>2. QED BY <1>1, <2>1, <3>1, SameTypes DEF TypeOK, EmitStream, streamVars
  <2>4. QED BY <2>2, <2>3
<1>2. ASSUME NEW c \in Clients, EmitClient(h, e, c)
      PROVE  TypeOK'
  <2>1. pending' \in [Hubs -> [Events -> SUBSET (Clients \cup Streams)]]
    BY <1>0, <1>2, ServedTypes DEF EmitClient
  <2>2. offered' \in [Clients -> Seq(Events)]
    BY <1>0, <1>2 DEF EmitClient, EmitTypes
  <2>3. CASE Accepts(c)
    <3>1. Append(send[c], e) \in Seq(Events) /\ Len(Append(send[c], e)) <= QueueSize
      BY <1>0, <2>3, HubAssumption DEF ClientTypes, Accepts, HubAssumption
    <3>2. send' = [send EXCEPT ![c] = Append(@, e)] /\ rejected' = rejected
      BY <1>2, <2>3 DEF EmitClient
    <3>3. ClientTypes'
      BY <1>0, <1>2, <3>1, <3>2 DEF ClientTypes, EmitClient, memberVars
    <3>4. EmitTypes'
      BY <1>0, <2>1, <2>2, <3>2 DEF EmitTypes
    <3>5. QED BY <1>2, <3>3, <3>4, SameTypes DEF TypeOK, EmitClient
  <2>4. CASE ~Accepts(c)
    <3>1. send' = send /\ rejected' = [rejected EXCEPT ![h][e] = c]
      BY <1>2, <2>4 DEF EmitClient
    <3>2. EmitTypes'
      BY <1>0, <2>1, <2>2, <3>1 DEF EmitTypes
    <3>3. UNCHANGED clientVars
      BY <1>2, <3>1 DEF EmitClient, clientVars
    <3>4. QED BY <1>2, <3>2, <3>3, SameTypes DEF TypeOK, EmitClient
  <2>5. QED BY <2>3, <2>4
<1>3. CASE EvictSlow(h, e)
  <2>1. rejected[h][e] \in Clients
    BY <1>0, <1>3 DEF EvictSlow, EmitTypes
  <2>2. ClientTypes'
    BY <1>0, <1>3, <2>1, RemoveTypes DEF EvictSlow, ClientTypes
  <2>3. EmitTypes'
    BY <1>0, <1>3 DEF EvictSlow, EmitTypes
  <2>4. QED BY <1>3, <2>2, <2>3, SameTypes DEF TypeOK, EvictSlow
<1>4. QED BY <1>1, <1>2, <1>3 DEF EmitStep

LEMMA RedisAcceptsTypes ==
  ASSUME RedisTypes, NEW e \in Events, RedisAccepts(e)
  PROVE  /\ attempts' \in [Events -> Nat]
         /\ \A d \in Events : attempts'[d] <= MaxAttempts[d]
         /\ channel' \in [Hubs -> Seq(Events)]
<1>1. attempts' \in [Events -> Nat]
  BY DEF RedisTypes, RedisAccepts
<1>2. MaxAttempts[e] \in Nat
  BY HubAssumption DEF HubAssumption
<1>3. \A d \in Events : attempts'[d] <= MaxAttempts[d]
  BY <1>2 DEF RedisTypes, RedisAccepts
<1>4. \A h \in Hubs : Append(channel[h], e) \in Seq(Events)
  BY DEF RedisTypes
<1>5. channel' \in [Hubs -> Seq(Events)]
  BY <1>4 DEF RedisTypes, RedisAccepts
<1>6. QED BY <1>1, <1>3, <1>5

LEMMA CallTypeOK ==
  ASSUME TypeOK, NEW e \in Events, CallNext(e)
  PROVE  TypeOK'
<1> USE DEF TypeOK, CallTypes, CallPhase
<1>1. CASE BroadcastBegin(e)
  <2>1. Origin[e] \in Hubs
    BY HubAssumption DEF HubAssumption
  <2>2. EmitTypes'
    BY <1>1, <2>1, BeginEmitTypes DEF BroadcastBegin, EmitTypes
  <2>3. CallTypes'
    BY <1>1 DEF BroadcastBegin
  <2>4. QED BY <1>1, <2>2, <2>3, SameTypes DEF BroadcastBegin
<1>2. CASE BroadcastEmitted(e)
  <2>1. CallTypes'
    BY <1>2 DEF BroadcastEmitted
  <2>2. QED BY <1>2, <2>1, SameTypes DEF BroadcastEmitted
<1>3. CASE PublishOk(e)
  <2>1. RedisTypes'
    BY <1>3, RedisAcceptsTypes DEF PublishOk, RedisTypes
  <2>2. QED BY <1>3, <2>1, SameTypes DEF PublishOk
<1>4. CASE PublishRetry(e)
  <2>1. RedisTypes'
    BY <1>4, RedisAcceptsTypes DEF PublishRetry, RedisTypes
  <2>2. QED BY <1>4, <2>1, SameTypes DEF PublishRetry
<1>5. CASE PublishFail(e)
  <2>1. RedisTypes'
    BY <1>5 DEF PublishFail, RedisTypes
  <2>2. QED BY <1>5, <2>1, SameTypes DEF PublishFail
<1>6. CASE LateArrival(e)
  <2>1. RedisTypes'
    BY <1>6, RedisAcceptsTypes DEF LateArrival, RedisTypes
  <2>2. QED BY <1>6, <2>1, SameTypes DEF LateArrival
<1>7. QED BY <1>1, <1>2, <1>3, <1>4, <1>5, <1>6 DEF CallNext

LEMMA HubTypeOK ==
  ASSUME TypeOK, NEW h \in Hubs, HubNext(h)
  PROVE  TypeOK'
<1>0. RedisTypes /\ EmitTypes /\ ShutTypes /\ ClientTypes
  BY DEF TypeOK
<1>1. CASE ConsumeRedis(h)
  <2> DEFINE e == Head(channel[h])
  <2>1. e \in Events /\ Tail(channel[h]) \in Seq(Events)
    BY <1>0, <1>1, HeadTailProperties DEF ConsumeRedis, RedisTypes
  <2>2. channel' \in [Hubs -> Seq(Events)]
    BY <1>0, <1>1, <2>1 DEF ConsumeRedis, RedisTypes
  <2>3. consuming' \in [Hubs -> Events \cup {Nil}]
    BY <1>0, <1>1, <2>1 DEF ConsumeRedis, RedisTypes
  <2>4. pending' \in [Hubs -> [Events -> SUBSET (Clients \cup Streams)]]
    BY <1>0, <1>1, <2>1, BeginEmitTypes DEF ConsumeRedis, EmitTypes
  <2>5. RedisTypes' /\ EmitTypes'
    BY <1>0, <1>1, <2>2, <2>3, <2>4 DEF ConsumeRedis, RedisTypes, EmitTypes
  <2>6. QED BY <1>1, <2>5, SameTypes DEF ConsumeRedis, TypeOK
<1>2. CASE ConsumeDone(h)
  <2>1. RedisTypes'
    BY <1>0, <1>2 DEF ConsumeDone, RedisTypes
  <2>2. QED BY <1>2, <2>1, SameTypes DEF ConsumeDone, TypeOK
<1>3. CASE RedisLoss(h)
  <2>1. RedisTypes'
    BY <1>0, <1>3, HeadTailProperties DEF RedisLoss, RedisTypes
  <2>2. QED BY <1>3, <2>1, SameTypes DEF RedisLoss, TypeOK
<1>4. CASE CloseBegin(h)
  <2>1. ClientTypes' /\ ShutTypes'
    BY <1>0, <1>4 DEF CloseBegin, ClientTypes, ShutTypes
  <2>2. QED BY <1>4, <2>1, SameTypes DEF CloseBegin, TypeOK
<1>5. CASE CloseEnd(h)
  <2>1. ShutTypes'
    BY <1>0, <1>5 DEF CloseEnd, ShutTypes
  <2>2. QED BY <1>5, <2>1, SameTypes DEF CloseEnd, TypeOK
<1>6. QED BY <1>1, <1>2, <1>3, <1>4, <1>5 DEF HubNext

LEMMA NextTypeOK ==
  ASSUME TypeOK, [Next]_vars
  PROVE  TypeOK'
<1>1. CASE Next
  BY <1>1, ClientTypeOK, StreamTypeOK, CallTypeOK, HubTypeOK, EmitTypeOK DEF Next
<1>2. CASE UNCHANGED vars
  BY <1>2, SameTypes DEF vars, hubVars, TypeOK
<1>3. QED BY <1>1, <1>2

\* Every variable keeps its type: in particular no client's queue and no stream's
\* buffer ever holds more than its channel was made for.
THEOREM TypeCorrect == Spec => []TypeOK
<1>1. TypeOK /\ [Next]_vars => TypeOK'
  BY NextTypeOK
<1>2. QED BY InitTypeOK, <1>1, PTL DEF Spec

--------------------------------------------------------------------------------
(* Who closes a channel, and which write pumps are left.                    *)

\* The part of the state that the ownership of a close is about.
ownerVars == <<registered, closed, closing, conn, writer>>

\* removeClient moves a client from the map to closed, or finds it gone already.
LEMMA RemoveKeepsOwnership ==
  ASSUME ClientTypes, CloseOwnership, NEW c \in Clients, RemoveClient(c),
         conn[c] # "new", UNCHANGED <<closing, conn>>
  PROVE  CloseOwnership' /\ c \notin registered' /\ registered' \subseteq registered
  BY DEF ClientTypes, CloseOwnership, RemoveClient

LEMMA SameOwnership ==
  ASSUME CloseOwnership, RegisteredIsServed, PumpsStarted, UNCHANGED <<ownerVars, reader>>
  PROVE  CloseOwnership' /\ RegisteredIsServed' /\ PumpsStarted'
  BY DEF ownerVars, CloseOwnership, RegisteredIsServed, PumpsStarted

LEMMA BeginEmitTargets ==
  ASSUME TypeOK, CloseOwnership, TargetsStarted, NEW h \in Hubs, NEW e \in Events,
         BeginEmit(h, e), UNCHANGED <<rejected, conn>>
  PROVE  TargetsStarted'
<1>1. \A c \in Targets(h) \cap Clients : conn[c] # "new"
  BY HubAssumption DEF HubAssumption, Targets, TypeOK, ClientTypes, CloseOwnership
<1>2. QED BY <1>1 DEF TypeOK, EmitTypes, BeginEmit, TargetsStarted

\* A pump runs, and an emission has a target, only after the client was added.
LEMMA PumpOwnership ==
  ASSUME TypeOK, CloseOwnership, RegisteredIsServed, PumpsStarted,
         NEW c \in Clients, ClientNext(c)
  PROVE  CloseOwnership' /\ RegisteredIsServed' /\ PumpsStarted'
<1> USE DEF WriterGoes, ReaderGoes, hubVars, shutVars, memberVars
<1>0. ClientTypes /\ closing \subseteq Clients
  BY DEF TypeOK, ShutTypes
<1>1. CASE AddClient(c)
  BY <1>0, <1>1 DEF AddClient, ClientTypes, CloseOwnership, RegisteredIsServed, PumpsStarted
<1>2. CASE WriterTake(c) \/ WriteOk(c) \/ WriteError(c) \/ PingError(c)
  BY <1>0, <1>2 DEF WriterTake, WriteOk, WriteError, PingError, ClientTypes,
                   CloseOwnership, RegisteredIsServed, PumpsStarted
<1>3. CASE WriterRemove(c)
  <2>1. CloseOwnership' /\ c \notin registered' /\ registered' \subseteq registered
    BY <1>0, <1>3, RemoveKeepsOwnership DEF WriterRemove, PumpsStarted
  <2>2. QED BY <1>0, <1>3, <2>1 DEF WriterRemove, ClientTypes, RegisteredIsServed, PumpsStarted
<1>4. CASE WriterSeesClose(c)
  <2>1. c \notin registered
    BY <1>4 DEF WriterSeesClose, CloseOwnership
  <2>2. QED BY <1>0, <1>4, <2>1 DEF WriterSeesClose, ClientTypes, CloseOwnership,
                                   RegisteredIsServed, PumpsStarted
<1>5. CASE WriterExit(c)
  <2>1. c \notin registered /\ conn[c] # "new"
    BY <1>5 DEF WriterExit, RegisteredIsServed, PumpsStarted
  <2>2. QED BY <1>0, <1>5, <2>1 DEF WriterExit, ClientTypes, CloseOwnership,
                                   RegisteredIsServed, PumpsStarted
<1>6. CASE PeerLost(c)
  BY <1>0, <1>6 DEF PeerLost, ClientTypes, CloseOwnership, RegisteredIsServed, PumpsStarted
<1>7. CASE ReaderError(c) \/ ReaderAbort(c)
  BY <1>0, <1>7 DEF ReaderError, ReaderAbort, ClientTypes, CloseOwnership,
                   RegisteredIsServed, PumpsStarted
<1>8. CASE ReaderRemove(c)
  <2>1. CloseOwnership' /\ registered' \subseteq registered
    BY <1>0, <1>8, RemoveKeepsOwnership DEF ReaderRemove, PumpsStarted
  <2>2. QED BY <1>0, <1>8, <2>1 DEF ReaderRemove, ClientTypes, RegisteredIsServed, PumpsStarted
<1>9. CASE CloseClient(c)
  BY <1>0, <1>9 DEF CloseClient, ClientTypes, CloseOwnership, RegisteredIsServed, PumpsStarted
<1>10. QED
  BY <1>1, <1>2, <1>3, <1>4, <1>5, <1>6, <1>7, <1>8, <1>9 DEF ClientNext, WriterStep

LEMMA EmitOwnership ==
  ASSUME TypeOK, CloseOwnership, RegisteredIsServed, PumpsStarted, TargetsStarted,
         NEW h \in Hubs, NEW e \in Events, EmitStep(h, e)
  PROVE  CloseOwnership' /\ RegisteredIsServed' /\ PumpsStarted' /\ TargetsStarted'
<1>0. ClientTypes /\ EmitTypes
  BY DEF TypeOK
<1>1. CASE EvictSlow(h, e)
  <2> DEFINE c == rejected[h][e]
  <2>1. c \in Clients /\ conn[c] # "new"
    BY <1>0, <1>1 DEF EvictSlow, EmitTypes, TargetsStarted
  <2>2. CloseOwnership' /\ registered' \subseteq registered
    BY <1>0, <1>1, <2>1, RemoveKeepsOwnership DEF EvictSlow, shutVars
  <2>3. TargetsStarted'
    BY <1>0, <1>1, HubAssumption DEF HubAssumption, EvictSlow, EmitTypes, TargetsStarted
  <2>4. QED BY <1>1, <2>2, <2>3 DEF EvictSlow, RegisteredIsServed, PumpsStarted
<1>2. ASSUME NEW c \in Clients, EmitClient(h, e, c)
      PROVE  /\ UNCHANGED <<ownerVars, reader>>
             /\ TargetsStarted'
  <2>1. conn[c] # "new"
    BY <1>2 DEF EmitClient, TargetsStarted
  <2>2. UNCHANGED <<ownerVars, reader>>
    BY <1>2 DEF EmitClient, ownerVars, memberVars, shutVars
  <2>3. pending' = [pending EXCEPT ![h][e] = @ \ {c}]
    BY <1>2 DEF EmitClient, Served
  <2>4. rejected' = rejected \/ rejected' = [rejected EXCEPT ![h][e] = c]
    BY <1>2 DEF EmitClient
  <2>5. QED BY <1>0, <2>1, <2>2, <2>3, <2>4 DEF ownerVars, EmitTypes, TargetsStarted
<1>3. ASSUME NEW s \in Streams, EmitStream(h, e, s)
      PROVE  /\ UNCHANGED <<ownerVars, reader>>
             /\ TargetsStarted'
  BY <1>0, <1>3 DEF EmitStream, Served, EmitTypes, TargetsStarted, ownerVars, clientVars,
                    memberVars, shutVars
<1>4. QED BY <1>1, <1>2, <1>3, SameOwnership DEF EmitStep

LEMMA CallOwnership ==
  ASSUME TypeOK, CloseOwnership, RegisteredIsServed, PumpsStarted, TargetsStarted,
         NEW e \in Events, CallNext(e)
  PROVE  CloseOwnership' /\ RegisteredIsServed' /\ PumpsStarted' /\ TargetsStarted'
<1>1. UNCHANGED <<ownerVars, reader>>
  BY DEF CallNext, BroadcastBegin, BroadcastEmitted, PublishOk, PublishRetry, PublishFail,
         LateArrival, ownerVars, clientVars, memberVars, shutVars
<1>2. CASE BroadcastBegin(e)
  <2>1. Origin[e] \in Hubs
    BY HubAssumption DEF HubAssumption
  <2>2. QED BY <1>1, <1>2, <2>1, SameOwnership, BeginEmitTargets DEF BroadcastBegin, ownerVars
<1>3. CASE UNCHANGED <<pending, rejected>>
  BY <1>1, <1>3, SameOwnership DEF TargetsStarted, ownerVars
<1>4. QED
  BY <1>2, <1>3 DEF CallNext, BroadcastEmitted, PublishOk, PublishRetry, PublishFail,
                    LateArrival, emitVars

LEMMA HubOwnership ==
  ASSUME TypeOK, CloseOwnership, RegisteredIsServed, PumpsStarted, TargetsStarted,
         NEW h \in Hubs, HubNext(h)
  PROVE  CloseOwnership' /\ RegisteredIsServed' /\ PumpsStarted' /\ TargetsStarted'
<1>1. CASE ConsumeRedis(h)
  <2>1. UNCHANGED <<ownerVars, reader, rejected>>
    BY <1>1 DEF ConsumeRedis, ownerVars, clientVars, memberVars, shutVars
  <2>2. CASE UNCHANGED pending
    BY <2>1, <2>2, SameOwnership DEF TargetsStarted, ownerVars
  <2>3. CASE BeginEmit(h, Head(channel[h]))
    <3>1. Head(channel[h]) \in Events
      BY <1>1, HeadTailProperties DEF ConsumeRedis, TypeOK, RedisTypes
    <3>2. QED BY <2>1, <2>3, <3>1, SameOwnership, BeginEmitTargets DEF ownerVars
  <2>4. QED BY <1>1, <2>2, <2>3 DEF ConsumeRedis
<1>2. CASE CloseBegin(h)
  <2>1. UNCHANGED <<closed, conn, writer, reader, pending, rejected>>
    BY <1>2 DEF CloseBegin, emitVars
  <2>2. TargetsStarted' /\ PumpsStarted'
    BY <2>1 DEF TargetsStarted, PumpsStarted
  <2>3. CloseOwnership' /\ RegisteredIsServed'
    BY <1>2, <2>1 DEF CloseBegin, CloseOwnership, RegisteredIsServed
  <2>4. QED BY <2>2, <2>3
<1>3. CASE ConsumeDone(h) \/ RedisLoss(h) \/ CloseEnd(h)
  <2>1. UNCHANGED <<ownerVars, reader, pending, rejected>>
    BY <1>3 DEF ConsumeDone, RedisLoss, CloseEnd, ownerVars, clientVars, memberVars,
                shutVars, emitVars
  <2>2. QED BY <2>1, SameOwnership DEF TargetsStarted, ownerVars
<1>4. QED BY <1>1, <1>2, <1>3 DEF HubNext

PumpInv == TypeOK /\ CloseOwnership /\ RegisteredIsServed /\ PumpsStarted /\ TargetsStarted

LEMMA PumpInvariant == Spec => []PumpInv
<1>1. Init => PumpInv
  BY InitTypeOK, HubAssumption
  DEF HubAssumption, Init, PumpInv, CloseOwnership, RegisteredIsServed, PumpsStarted, TargetsStarted
<1>2. PumpInv /\ [Next]_vars => PumpInv'
  <2> SUFFICES ASSUME PumpInv, [Next]_vars PROVE PumpInv'
    OBVIOUS
  <2> USE DEF PumpInv
  <2>1. TypeOK'
    BY NextTypeOK
  <2>2. ASSUME NEW c \in Clients, ClientNext(c)
        PROVE  TargetsStarted'
    <3>1. UNCHANGED <<pending, rejected>> /\ \A d \in Clients : conn[d] # "new" => conn'[d] # "new"
      BY <2>2 DEF ClientNext, WriterStep, AddClient, WriterTake, WriteOk, WriteError, WriterRemove,
         WriterSeesClose, WriterExit, PingError, PeerLost, ReaderError, ReaderAbort, ReaderRemove,
         CloseClient, hubVars, emitVars, TypeOK, ClientTypes
    <3>2. QED BY <3>1 DEF TargetsStarted
  <2>3. ASSUME NEW s \in Streams, StreamNext(s)
        PROVE  PumpInv'
    <3>1. UNCHANGED <<ownerVars, reader, pending, rejected>>
      BY <2>3 DEF StreamNext, Subscribe, Unsubscribe, StreamTake, ownerVars, clientVars,
                  memberVars, shutVars, emitVars
    <3>2. QED BY <2>1, <3>1, SameOwnership DEF TargetsStarted, ownerVars
  <2>4. CASE UNCHANGED vars
    <3>1. UNCHANGED <<ownerVars, reader, pending, rejected>>
      BY <2>4 DEF vars, hubVars, ownerVars, clientVars, memberVars, shutVars, emitVars
    <3>2. QED BY <2>1, <3>1, SameOwnership DEF TargetsStarted, ownerVars
  <2>5. QED
    BY <2>1, <2>2, <2>3, <2>4, PumpOwnership, EmitOwnership, CallOwnership, HubOwnership DEF Next
<1>3. QED BY <1>1, <1>2, PTL DEF Spec

\* The close of a client's channel has one owner at a time, and nobody loses it.
THEOREM OneCloser == Spec => []CloseOwnership
  BY PumpInvariant, PTL DEF PumpInv

\* A client that an emission can find in the map has a pump that drains its queue.
THEOREM RegisteredServed == Spec => []RegisteredIsServed
  BY PumpInvariant, PTL DEF PumpInv

--------------------------------------------------------------------------------
(* Counting and finding the elements of a sequence.                         *)

Holds(q, e) == \E i \in DOMAIN q : q[i] = e

\* An e stands before a d.
Precedes(q, e, d) == \E i, j \in DOMAIN q : i < j /\ q[i] = e /\ q[j] = d

LEMMA PlacesFinite ==
  ASSUME NEW S, NEW q \in Seq(S), NEW e
  PROVE  IsFiniteSet({i \in DOMAIN q : q[i] = e}) /\ Copies(e, q) \in Nat
<1>1. DOMAIN q = 1 .. Len(q) /\ Len(q) \in Nat
  BY LenProperties
<1>2. IsFiniteSet(DOMAIN q)
  BY <1>1, FS_Interval
<1>3. IsFiniteSet({i \in DOMAIN q : q[i] = e})
  BY <1>2, FS_Subset
<1>4. QED BY <1>3, FS_CardinalityType DEF Copies

LEMMA CopiesConcat ==
  ASSUME NEW S, NEW p \in Seq(S), NEW q \in Seq(S), NEW e
  PROVE  Copies(e, p \o q) = Copies(e, p) + Copies(e, q)
<1> DEFINE m == Len(p)
           A == {i \in DOMAIN p : p[i] = e}
           B == {i \in DOMAIN q : q[i] = e}
           C == {i \in m+1 .. m+Len(q) : (p \o q)[i] = e}
<1>1. m \in Nat /\ Len(q) \in Nat /\ DOMAIN p = 1 .. m /\ DOMAIN q = 1 .. Len(q)
  BY LenProperties
<1>2. /\ p \o q \in Seq(S) /\ Len(p \o q) = m + Len(q)
      /\ \A i \in 1 .. m + Len(q) : (p \o q)[i] = IF i <= m THEN p[i] ELSE q[i - m]
  BY ConcatProperties
<1>3. DOMAIN (p \o q) = 1 .. m + Len(q)
  BY <1>2, LenProperties
<1>4. {i \in DOMAIN (p \o q) : (p \o q)[i] = e} = A \cup C
  BY <1>1, <1>2, <1>3
<1>5. A \cap C = {}
  BY <1>1
<1>6. IsFiniteSet(A) /\ IsFiniteSet(B)
  BY PlacesFinite
<1>7. IsFiniteSet(C) /\ Cardinality(C) = Cardinality(B)
  <2> DEFINE f == [j \in B |-> j + m]
  <2>1. f \in [B -> C]
    BY <1>1, <1>2
  <2>2. \A i, j \in B : f[i] = f[j] => i = j
    BY <1>1
  <2>3. \A k \in C : k - m \in B /\ f[k - m] = k
    BY <1>1, <1>2
  <2>4. f \in Bijection(B, C)
    BY <2>1, <2>2, <2>3 DEF Bijection, Injection, IsInjective, Surjection
  <2>5. ExistsBijection(B, C)
    BY <2>4 DEF ExistsBijection
  <2>6. QED BY <1>6, <2>5, FS_Bijection
<1>8. Cardinality(A \cup C) = Cardinality(A) + Cardinality(B)
  <2> HIDE DEF A, B, C
  <2>1. Cardinality(A \cup C) = Cardinality(A) + Cardinality(C) - Cardinality(A \cap C)
    BY <1>6, <1>7, FS_Union
  <2>2. Cardinality(A) \in Nat /\ Cardinality(C) \in Nat /\ Cardinality({}) = 0
    BY <1>6, <1>7, FS_EmptySet, FS_CardinalityType
  <2>3. Cardinality(A \cap C) = Cardinality({})
    BY <1>5, Zenon
  <2>4. QED BY <1>7, <2>1, <2>2, <2>3
<1>9. Copies(e, p \o q) = Cardinality(A \cup C)
  BY <1>4 DEF Copies
<1>10. Copies(e, p) = Cardinality(A) /\ Copies(e, q) = Cardinality(B)
  BY DEF Copies
<1>11. QED BY <1>8, <1>9, <1>10

LEMMA CopiesOne ==
  ASSUME NEW d, NEW e
  PROVE  /\ Copies(e, <<>>) = 0
         /\ Copies(e, <<d>>) = IF d = e THEN 1 ELSE 0
<1>1. {i \in DOMAIN <<>> : <<>>[i] = e} = {}
  OBVIOUS
<1>2. {i \in DOMAIN <<d>> : <<d>>[i] = e} = IF d = e THEN {1} ELSE {}
  OBVIOUS
<1>3. QED BY <1>1, <1>2, FS_EmptySet, FS_Singleton DEF Copies

LEMMA CopiesAppend ==
  ASSUME NEW S, NEW q \in Seq(S), NEW d \in S, NEW e
  PROVE  Copies(e, Append(q, d)) = Copies(e, q) + (IF d = e THEN 1 ELSE 0)
<1>1. Append(q, d) = q \o <<d>>
  BY AppendIsConcat
<1>2. <<d>> \in Seq(S)
  OBVIOUS
<1>3. Copies(e, q \o <<d>>) = Copies(e, q) + Copies(e, <<d>>)
  BY <1>2, CopiesConcat
<1>4. QED BY <1>1, <1>3, CopiesOne

LEMMA CopiesTail ==
  ASSUME NEW S, NEW q \in Seq(S), q # <<>>, NEW e
  PROVE  Copies(e, q) = Copies(e, Tail(q)) + (IF Head(q) = e THEN 1 ELSE 0)
<1>1. Head(q) \in S /\ Tail(q) \in Seq(S)
  BY HeadTailProperties
<1>2. <<Head(q)>> \in Seq(S)
  BY <1>1
<1>3. q = <<Head(q)>> \o Tail(q)
  BY <1>1
<1>4. Copies(e, q) = Copies(e, <<Head(q)>>) + Copies(e, Tail(q))
  BY <1>1, <1>2, <1>3, CopiesConcat
<1>5. Copies(e, Tail(q)) \in Nat
  BY <1>1, PlacesFinite
<1>6. QED BY <1>4, <1>5, CopiesOne

\* What leaves the middle of a queue only takes copies away.
LEMMA CopiesDrop ==
  ASSUME NEW S, NEW p \in Seq(S), NEW q \in Seq(S), NEW d \in S, NEW e
  PROVE  Copies(e, p \o q) <= Copies(e, p \o <<d>> \o q)
<1>1. <<d>> \in Seq(S)
  OBVIOUS
<1>2. p \o <<d>> \in Seq(S)
  BY <1>1, ConcatProperties
<1>3. /\ Copies(e, (p \o <<d>>) \o q) = Copies(e, p \o <<d>>) + Copies(e, q)
      /\ Copies(e, p \o <<d>>) = Copies(e, p) + Copies(e, <<d>>)
  <2>1. Copies(e, p \o <<d>>) = Copies(e, p) + Copies(e, <<d>>)
    BY <1>1, CopiesConcat
  <2>2. Copies(e, (p \o <<d>>) \o q) = Copies(e, p \o <<d>>) + Copies(e, q)
    BY <1>2, CopiesConcat
  <2>3. QED BY <2>1, <2>2
<1>4. Copies(e, p \o q) = Copies(e, p) + Copies(e, q)
  BY CopiesConcat
<1>5. Copies(e, p) \in Nat /\ Copies(e, q) \in Nat
  BY PlacesFinite
<1>6. QED BY <1>3, <1>4, <1>5, CopiesOne

LEMMA SplitHead ==
  ASSUME NEW S, NEW q \in Seq(S), q # <<>>
  PROVE  /\ Head(q) \in S /\ Tail(q) \in Seq(S) /\ <<Head(q)>> \in Seq(S)
         /\ q = <<Head(q)>> \o Tail(q)
<1>1. Head(q) \in S /\ Tail(q) \in Seq(S)
  BY HeadTailProperties
<1>2. QED BY <1>1

LEMMA ConcatOfAppend ==
  ASSUME NEW S, NEW p \in Seq(S), NEW q \in Seq(S), NEW d \in S
  PROVE  p \o Append(q, d) = Append(p \o q, d)
  OBVIOUS

\* The same for the order of two elements, and for their presence.
LEMMA HoldsAppend ==
  ASSUME NEW S, NEW q \in Seq(S), NEW d \in S, NEW e
  PROVE  Holds(Append(q, d), e) <=> Holds(q, e) \/ d = e
<1>1. DOMAIN q = 1 .. Len(q) /\ DOMAIN Append(q, d) = 1 .. Len(q) + 1 /\ Len(q) \in Nat
  BY LenProperties, AppendProperties
<1>2. \A i \in 1 .. Len(q) : Append(q, d)[i] = q[i]
  BY AppendProperties
<1>3. Append(q, d)[Len(q) + 1] = d
  BY AppendProperties
<1>4. QED BY <1>1, <1>2, <1>3 DEF Holds

LEMMA PrecedesAppend ==
  ASSUME NEW S, NEW q \in Seq(S), NEW d \in S, NEW a, NEW b, Precedes(Append(q, d), a, b)
  PROVE  Precedes(q, a, b) \/ (Holds(q, a) /\ b = d)
<1>1. DOMAIN q = 1 .. Len(q) /\ DOMAIN Append(q, d) = 1 .. Len(q) + 1 /\ Len(q) \in Nat
  BY LenProperties, AppendProperties
<1>2. \A i \in 1 .. Len(q) : Append(q, d)[i] = q[i]
  BY AppendProperties
<1>3. Append(q, d)[Len(q) + 1] = d
  BY AppendProperties
<1>4. PICK i, j \in 1 .. Len(q) + 1 : i < j /\ Append(q, d)[i] = a /\ Append(q, d)[j] = b
  BY <1>1 DEF Precedes
<1>5. i \in 1 .. Len(q) /\ q[i] = a
  BY <1>1, <1>2, <1>4
<1>6. CASE j = Len(q) + 1
  BY <1>1, <1>3, <1>4, <1>5, <1>6 DEF Holds
<1>7. CASE j # Len(q) + 1
  BY <1>1, <1>2, <1>4, <1>5, <1>7 DEF Precedes
<1>8. QED BY <1>6, <1>7

\* The head stands before whatever the tail holds.
LEMMA TailParts ==
  ASSUME NEW S, NEW q \in Seq(S), q # <<>>, NEW a, NEW b
  PROVE  /\ Holds(q, Head(q))
         /\ Holds(Tail(q), b) => Holds(q, b) /\ Precedes(q, Head(q), b)
         /\ Precedes(Tail(q), a, b) => Precedes(q, a, b)
<1>1. /\ DOMAIN q = 1 .. Len(q) /\ DOMAIN Tail(q) = 1 .. Len(q) - 1
      /\ Len(q) \in Nat /\ Len(q) > 0
      /\ \A i \in 1 .. Len(q) - 1 : Tail(q)[i] = q[i + 1]
      /\ Head(q) = q[1]
  BY LenProperties, HeadTailProperties, EmptySeq
<1>2. Holds(q, Head(q))
  BY <1>1 DEF Holds
<1>3. ASSUME Holds(Tail(q), b)
      PROVE  Holds(q, b) /\ Precedes(q, Head(q), b)
  <2>1. PICK i \in 1 .. Len(q) - 1 : q[i + 1] = b
    BY <1>1, <1>3 DEF Holds
  <2>2. i + 1 \in 1 .. Len(q) /\ 1 \in 1 .. Len(q) /\ 1 < i + 1
    BY <1>1
  <2>3. QED BY <1>1, <2>1, <2>2 DEF Holds, Precedes
<1>4. ASSUME Precedes(Tail(q), a, b)
      PROVE  Precedes(q, a, b)
  <2>1. PICK i, j \in 1 .. Len(q) - 1 : i < j /\ q[i + 1] = a /\ q[j + 1] = b
    BY <1>1, <1>4 DEF Precedes
  <2>2. i + 1 \in 1 .. Len(q) /\ j + 1 \in 1 .. Len(q) /\ i + 1 < j + 1
    BY <1>1, <2>1
  <2>3. QED BY <1>1, <2>1, <2>2 DEF Precedes
<1>5. QED BY <1>2, <1>3, <1>4

LEMMA DropParts ==
  ASSUME NEW S, NEW p \in Seq(S), NEW q \in Seq(S), NEW d \in S, NEW a, NEW b
  PROVE  /\ Holds(p \o q, a) => Holds(p \o <<d>> \o q, a)
         /\ Precedes(p \o q, a, b) => Precedes(p \o <<d>> \o q, a, b)
<1> DEFINE m == Len(p)
           n == Len(q)
           short == p \o q
           long == p \o <<d>> \o q
           f == [i \in 1 .. m + n |-> IF i <= m THEN i ELSE i + 1]
<1>1. m \in Nat /\ n \in Nat
  OBVIOUS
<1>2. DOMAIN short = 1 .. m + n /\ DOMAIN long = 1 .. m + n + 1
  OBVIOUS
<1>3. \A i \in 1 .. m + n : f[i] \in 1 .. m + n + 1 /\ long[f[i]] = short[i]
  OBVIOUS
<1>4. \A i, j \in 1 .. m + n : i < j => f[i] < f[j]
  BY <1>1
<1> HIDE DEF f, short, long
<1>5. Holds(short, a) => Holds(long, a)
  BY <1>2, <1>3 DEF Holds
<1>6. Precedes(short, a, b) => Precedes(long, a, b)
  BY <1>2, <1>3, <1>4 DEF Precedes
<1>7. QED BY <1>5, <1>6 DEF short, long
--------------------------------------------------------------------------------
(* What a step can do to a client's line.                                   *)

\* The pump holds a payload only while it writes it.
HandEmpty == \A c \in Clients : writer[c] # "writing" => writing[c] = Nil

\* Nothing has been offered, sent or received before a client is added.
FreshClients ==
  \A c \in Clients : conn[c] = "new" =>
    offered[c] = <<>> /\ received[c] = <<>> /\ writing[c] = Nil /\ send[c] = <<>>

LineVars(c) == <<received[c], writing[c], send[c]>>

\* A write that the peer never sees: the payload leaves the middle of the line.
Dropped(c) ==
  /\ writing[c] \in Events
  /\ received'[c] = received[c] /\ writing'[c] = Nil /\ send'[c] = send[c]

\* The pump moves a payload on, from the queue or to a peer that is there.
Moved(c) ==
  \/ /\ send[c] # <<>> /\ writing[c] = Nil
     /\ received'[c] = received[c] /\ writing'[c] = Head(send[c]) /\ send'[c] = Tail(send[c])
  \/ /\ writing[c] \in Events /\ conn[c] = "open"
     /\ received'[c] = Append(received[c], writing[c]) /\ writing'[c] = Nil
     /\ send'[c] = send[c]

Enqueued(c, e) ==
  /\ received'[c] = received[c] /\ writing'[c] = writing[c]
  /\ send'[c] = Append(send[c], e)

LEMMA CallFrame ==
  ASSUME NEW e \in Events, CallNext(e)
  PROVE  UNCHANGED <<clientVars, rejected, offered, consuming>>
  BY DEF CallNext, BroadcastBegin, BroadcastEmitted, PublishOk, PublishRetry, PublishFail,
         LateArrival, clientVars, redisVars, emitVars

LEMMA StreamFrame ==
  ASSUME NEW s \in Streams, StreamNext(s)
  PROVE  UNCHANGED <<clientVars, callVars, redisVars, emitVars>>
  BY DEF StreamNext, Subscribe, Unsubscribe, StreamTake

LEMMA HubFrame ==
  ASSUME NEW h \in Hubs, HubNext(h)
  PROVE  /\ UNCHANGED <<send, conn, writer, writing, received, callVars, attempts, limbo,
                        rejected, offered>>
         /\ registered' \subseteq registered
  BY DEF HubNext, ConsumeRedis, ConsumeDone, RedisLoss, CloseBegin, CloseEnd,
         clientVars, memberVars, callVars, redisVars, emitVars

LEMMA ClientFrame ==
  ASSUME NEW c \in Clients, ClientNext(c)
  PROVE  UNCHANGED <<callVars, redisVars, emitVars>>
  BY DEF ClientNext, WriterStep, AddClient, WriterTake, WriteOk, WriteError, WriterRemove,
     WriterSeesClose, WriterExit, PingError, PeerLost, ReaderError, ReaderAbort, ReaderRemove,
     CloseClient, hubVars

LEMMA EmitFrame ==
  ASSUME NEW h \in Hubs, NEW e \in Events, EmitStep(h, e)
  PROVE  /\ UNCHANGED <<conn, writer, writing, received, callVars, redisVars>>
         /\ registered' \subseteq registered
  BY DEF EmitStep, EmitStream, EmitClient, EvictSlow, RemoveClient, clientVars, memberVars

LEMMA ClientLine ==
  ASSUME TypeOK, PumpsStarted, HandEmpty, NEW c \in Clients, NEW d \in Clients, ClientNext(d)
  PROVE  /\ UNCHANGED LineVars(c) \/ Dropped(c) \/ Moved(c)
         /\ HandEmpty'
<1> USE DEF TypeOK, ClientTypes, WriterGoes, LineVars, HandEmpty
<1>1. CASE UNCHANGED <<send, writing, received>>
  <2>1. ~WriteOk(d) /\ ~WriteError(d)
    BY <1>1 DEF WriteOk, WriteError
  <2>2. (\E w : writer[d] # "writing" /\ writer' = [writer EXCEPT ![d] = w]) \/ writer' = writer
    BY <2>1 DEF PumpsStarted, ClientNext, WriterStep, AddClient, WriterTake, WriterRemove, WriterSeesClose,
      WriterExit, PingError, PeerLost, ReaderError, ReaderAbort, ReaderRemove, CloseClient
  <2>3. QED BY <1>1, <2>2
<1>2. CASE WriterTake(d)
  BY <1>2 DEF WriterTake, Moved
<1>3. CASE WriteOk(d)
  BY <1>3 DEF WriteOk, Moved, Dropped
<1>4. CASE WriteError(d)
  BY <1>4 DEF WriteError, Dropped
<1>5. QED
  BY <1>1, <1>2, <1>3, <1>4 DEF ClientNext, WriterStep, AddClient, WriterRemove,
     WriterSeesClose, WriterExit, PingError, PeerLost, ReaderError, ReaderAbort, ReaderRemove,
     CloseClient

\* The rest of the system only ever adds to the end of a queue, and only to one
\* that is open.
LEMMA EmitLine ==
  ASSUME TypeOK, NEW c \in Clients, NEW h \in Hubs, NEW e \in Events, EmitStep(h, e)
  PROVE  UNCHANGED LineVars(c) \/ (EmitClient(h, e, c) /\ Accepts(c) /\ Enqueued(c, e))
<1> USE DEF TypeOK, ClientTypes, LineVars
<1>1. CASE UNCHANGED send
  BY <1>1, EmitFrame
<1>2. ASSUME NEW d \in Clients, EmitClient(h, e, d), Accepts(d)
      PROVE  UNCHANGED LineVars(c) \/ (d = c /\ Enqueued(c, e))
  <2>1. UNCHANGED <<received, writing>> /\ send' = [send EXCEPT ![d] = Append(@, e)]
    BY <1>2 DEF EmitClient
  <2>2. QED BY <2>1 DEF Enqueued
<1>3. QED BY <1>1, <1>2 DEF EmitStep, EmitStream, EmitClient, EvictSlow, clientVars

LEMMA LineSteps ==
  ASSUME TypeOK, PumpsStarted, HandEmpty, NEW c \in Clients, [Next]_vars
  PROVE  \/ UNCHANGED LineVars(c) \/ Dropped(c) \/ Moved(c)
         \/ \E h \in Hubs, e \in Events : EmitClient(h, e, c) /\ Accepts(c) /\ Enqueued(c, e)
<1>1. ASSUME NEW d \in Clients, ClientNext(d)
      PROVE  UNCHANGED LineVars(c) \/ Dropped(c) \/ Moved(c)
  BY <1>1, ClientLine
<1>2. ASSUME NEW s \in Streams, StreamNext(s)
      PROVE  UNCHANGED LineVars(c)
  BY <1>2, StreamFrame DEF clientVars, LineVars
<1>3. ASSUME NEW e \in Events, CallNext(e)
      PROVE  UNCHANGED LineVars(c)
  BY <1>3, CallFrame DEF clientVars, LineVars
<1>4. ASSUME NEW h \in Hubs, HubNext(h)
      PROVE  UNCHANGED LineVars(c)
  BY <1>4, HubFrame DEF LineVars
<1>5. CASE UNCHANGED vars
  BY <1>5 DEF vars, clientVars, LineVars
<1>6. QED BY <1>1, <1>2, <1>3, <1>4, <1>5, EmitLine DEF Next

LEMMA HandEmptyStep ==
  ASSUME TypeOK, PumpsStarted, HandEmpty, [Next]_vars
  PROVE  HandEmpty'
<1>1. ASSUME NEW c \in Clients, ClientNext(c)
      PROVE  HandEmpty'
  BY <1>1, ClientLine
<1>2. CASE UNCHANGED <<writer, writing>>
  BY <1>2 DEF HandEmpty
<1>3. QED
  BY <1>1, <1>2, StreamFrame, CallFrame, HubFrame, EmitFrame DEF Next, vars, clientVars

HandInv == PumpInv /\ HandEmpty

LEMMA HandInvariant == Spec => []HandInv
<1>1. Init => HandEmpty
  BY DEF Init, HandEmpty
<1>2. PumpInv /\ HandEmpty /\ [Next]_vars => HandEmpty'
  BY HandEmptyStep DEF PumpInv
<1>3. QED BY <1>1, <1>2, PumpInvariant, PTL DEF Spec, HandInv

\* What each of these makes of a line.
LEMMA LineParts ==
  ASSUME TypeOK, NEW c \in Clients
  PROVE  /\ received[c] \in Seq(Events) /\ send[c] \in Seq(Events) /\ Hand(c) \in Seq(Events)
         /\ Line(c) \in Seq(Events)
         /\ writing[c] = Nil => Line(c) = received[c] \o send[c]
         /\ writing[c] # Nil => /\ writing[c] \in Events
                                /\ Line(c) = received[c] \o <<writing[c]>> \o send[c]
<1>1. received[c] \in Seq(Events) /\ send[c] \in Seq(Events) /\ writing[c] \in Events \cup {Nil}
  BY DEF TypeOK, ClientTypes
<1>2. Hand(c) \in Seq(Events)
  BY <1>1 DEF Hand
<1>3. ASSUME writing[c] = Nil
      PROVE  Line(c) = received[c] \o send[c]
  <2>1. received[c] \o <<>> = received[c]
    BY <1>1, ConcatEmptySeq
  <2>2. Hand(c) = <<>>
    BY <1>3 DEF Hand
  <2>3. QED BY <2>1, <2>2 DEF Line
<1>4. ASSUME writing[c] # Nil
      PROVE  writing[c] \in Events /\ Line(c) = received[c] \o <<writing[c]>> \o send[c]
  <2>1. Hand(c) = <<writing[c]>>
    BY <1>4 DEF Hand
  <2>2. QED BY <1>1, <1>4, <2>1 DEF Line
<1>5. Line(c) \in Seq(Events)
  BY <1>1, <1>2, ConcatProperties DEF Line
<1>6. QED BY <1>1, <1>2, <1>3, <1>4, <1>5, Zenon

LEMMA MovedLine ==
  ASSUME TypeOK, TypeOK', NEW c \in Clients, Moved(c)
  PROVE  Line(c)' = Line(c)
<1>0. received[c] \in Seq(Events) /\ send[c] \in Seq(Events)
  BY LineParts
<1>1. CASE send[c] # <<>> /\ writing[c] = Nil /\ received'[c] = received[c]
           /\ writing'[c] = Head(send[c]) /\ send'[c] = Tail(send[c])
  <2>1. /\ Head(send[c]) \in Events /\ Tail(send[c]) \in Seq(Events)
        /\ <<Head(send[c])>> \in Seq(Events)
    BY <1>0, <1>1, SplitHead
  <2>2. Head(send[c]) # Nil
    BY <2>1, HubAssumption DEF HubAssumption
  <2>3. Line(c)' = received[c] \o <<Head(send[c])>> \o Tail(send[c])
    BY <1>1, <2>2 DEF Line, Hand
  <2>4. Line(c)' = received[c] \o (<<Head(send[c])>> \o Tail(send[c]))
    <3> DEFINE p == received[c]
               q == <<Head(send[c])>>
               r == Tail(send[c])
    <3>1. p \in Seq(Events) /\ q \in Seq(Events) /\ r \in Seq(Events)
      BY <1>0, <2>1
    <3> HIDE DEF p, q, r
    <3>2. (p \o q) \o r = p \o (q \o r)
      BY <3>1, ConcatAssociative
    <3>3. QED BY <2>3, <3>2 DEF p, q, r
  <2>5. Line(c) = received[c] \o send[c]
    BY <1>1, LineParts
  <2>6. send[c] = <<Head(send[c])>> \o Tail(send[c])
    BY <1>0, <1>1, SplitHead
  <2>7. QED BY <2>4, <2>5, <2>6
<1>2. CASE writing[c] \in Events /\ received'[c] = Append(received[c], writing[c])
           /\ writing'[c] = Nil /\ send'[c] = send[c]
  <2>1. writing[c] # Nil
    BY <1>2, HubAssumption DEF HubAssumption
  <2>2. Line(c)' = Append(received[c], writing[c]) \o <<>> \o send[c]
    BY <1>2 DEF Line, Hand
  <2>3. Append(received[c], writing[c]) = received[c] \o <<writing[c]>>
    BY <1>2, LineParts, AppendIsConcat
  <2>4. Line(c) = received[c] \o <<writing[c]>> \o send[c]
    BY <2>1, LineParts
  <2>5. Append(received[c], writing[c]) \o <<>> = Append(received[c], writing[c])
    BY <1>2, LineParts, ConcatEmptySeq, AppendProperties
  <2>6. QED BY <2>2, <2>3, <2>4, <2>5
<1>3. QED BY <1>1, <1>2 DEF Moved

LEMMA EnqueuedLine ==
  ASSUME TypeOK, NEW c \in Clients, NEW e \in Events, Enqueued(c, e)
  PROVE  Line(c)' = Append(Line(c), e)
<1>1. Line(c)' = received[c] \o Hand(c) \o Append(send[c], e)
  BY DEF Enqueued, Line, Hand
<1>2. received[c] \o Hand(c) \in Seq(Events) /\ send[c] \in Seq(Events)
  BY LineParts, ConcatProperties
<1>3. (received[c] \o Hand(c)) \o Append(send[c], e) = Append((received[c] \o Hand(c)) \o send[c], e)
  <2> DEFINE p == received[c] \o Hand(c)
             q == send[c]
  <2>1. p \in Seq(Events) /\ q \in Seq(Events)
    BY <1>2
  <2> HIDE DEF p, q
  <2>2. p \o Append(q, e) = Append(p \o q, e)
    BY <2>1, ConcatOfAppend
  <2>3. QED BY <2>2 DEF p, q
<1>4. QED BY <1>1, <1>3 DEF Line

LEMMA DroppedLine ==
  ASSUME TypeOK, NEW c \in Clients, Dropped(c)
  PROVE  /\ Line(c) = received[c] \o <<writing[c]>> \o send[c]
         /\ Line(c)' = received[c] \o send[c]
<1>1. writing[c] # Nil
  BY HubAssumption DEF HubAssumption, Dropped
<1>2. Line(c)' = received[c] \o <<>> \o send[c]
  BY DEF Dropped, Line, Hand
<1>3. received[c] \o <<>> = received[c]
  BY LineParts, ConcatEmptySeq
<1>4. QED BY <1>1, <1>2, <1>3, LineParts

--------------------------------------------------------------------------------
(* No send on a closed channel, and no gap.                                 *)

\* A line only grows when enqueue finds the channel open, and this answer and the
\* append are one step; all other steps leave a queue alone or take from it.
THEOREM NothingSentOnClosed == Spec => NoSendOnClosed
<1>1. ASSUME HandInv, [Next]_vars, NEW c \in Clients, closed[c]
      PROVE  Len(send'[c]) <= Len(send[c])
  <2>0. send[c] \in Seq(Events)
    BY <1>1 DEF HandInv, PumpInv, TypeOK, ClientTypes
  <2>1. CASE Moved(c) /\ send[c] # <<>> /\ send'[c] = Tail(send[c])
    BY <2>0, <2>1, HeadTailProperties
  <2>2. CASE send'[c] = send[c]
    BY <2>0, <2>2
  <2>3. QED
    BY <1>1, <2>1, <2>2, LineSteps DEF HandInv, PumpInv, LineVars, Dropped, Moved, Accepts
<1>2. HandInv /\ [Next]_vars => [\A c \in Clients : closed[c] => Len(send'[c]) <= Len(send[c])]_vars
  BY <1>1
<1>3. QED BY <1>2, HandInvariant, PTL DEF Spec, NoSendOnClosed

\* What makes the absence of gaps inductive: a client starts with nothing offered.
GapInv == HandInv /\ FreshClients /\ NoGap

GapFree(c) ==
  c \in registered /\ conn[c] = "open" /\ writer[c] # "removing" /\ ~Evicting(c)
    => offered[c] = Line(c)

LEMMA NoGapByClient ==
  ASSUME registered \subseteq Clients
  PROVE  NoGap <=> \A c \in Clients : GapFree(c)
  BY DEF NoGap, GapFree

\* A step that a client's line does not see, and that only takes the client away
\* from those the property is about.
LEMMA GapKept ==
  ASSUME NEW c \in Clients, GapFree(c), UNCHANGED <<LineVars(c), offered[c]>>,
         conn'[c] = "open" => conn[c] = "open",
         writer[c] = "removing" => writer'[c] = "removing" \/ c \notin registered',
         c \in registered' => c \in registered,
         Evicting(c) => Evicting(c)' \/ c \notin registered'
  PROVE  GapFree(c)'
<1>1. Line(c)' = Line(c)
  BY DEF LineVars, Line, Hand
<1>2. QED BY <1>1 DEF GapFree

LEMMA GapEmit ==
  ASSUME GapInv, NEW h \in Hubs, NEW e \in Events, EmitStep(h, e), NEW c \in Clients
  PROVE  GapFree(c)'
<1> USE DEF GapInv, HandInv, PumpInv
<1>0. /\ offered \in [Clients -> Seq(Events)] /\ registered \subseteq Clients
      /\ rejected \in [Hubs -> [Events -> Clients \cup {Nil}]]
      /\ closed \in [Clients -> BOOLEAN] /\ GapFree(c) /\ Nil \notin Clients
  BY NoGapByClient, HubAssumption DEF HubAssumption, TypeOK, ClientTypes, EmitTypes
<1>1. UNCHANGED <<conn, writer, writing, received>> /\ registered' \subseteq registered
  BY EmitFrame
<1>2. ASSUME NEW s \in Streams, EmitStream(h, e, s)
      PROVE  GapFree(c)'
  <2>1. UNCHANGED <<clientVars, offered, rejected>>
    BY <1>2 DEF EmitStream
  <2>2. QED BY <1>0, <2>1, GapKept DEF clientVars, memberVars, LineVars, Evicting
<1>3. CASE EvictSlow(h, e)
  <2>1. UNCHANGED <<send, offered>> /\ rejected' = [rejected EXCEPT ![h][e] = Nil]
    BY <1>3 DEF EvictSlow
  <2>2. rejected[h][e] \notin registered'
    BY <1>3 DEF EvictSlow, RemoveClient
  <2>3. Evicting(c) => Evicting(c)' \/ c \notin registered'
    BY <1>0, <2>1, <2>2 DEF Evicting
  <2>4. QED BY <1>0, <1>1, <2>1, <2>3, GapKept DEF LineVars
<1>4. ASSUME NEW d \in Clients, EmitClient(h, e, d)
      PROVE  GapFree(c)'
  <2>1. offered' = [offered EXCEPT ![d] = Append(@, e)] /\ rejected[h][e] = Nil
    BY <1>4 DEF EmitClient
  <2>2. rejected' = rejected \/ rejected' = [rejected EXCEPT ![h][e] = d]
    BY <1>4 DEF EmitClient
  <2>3. Evicting(c) => Evicting(c)'
    BY <1>0, <2>1, <2>2 DEF Evicting
  <2>4. CASE c # d
    <3>1. send'[c] = send[c]
      BY <1>4, <2>4 DEF EmitClient, TypeOK, ClientTypes
    <3>2. QED BY <1>0, <1>1, <2>1, <2>3, <2>4, <3>1, GapKept DEF LineVars
  <2>5. CASE c = d /\ Accepts(c)
    <3>1. send' = [send EXCEPT ![d] = Append(@, e)] /\ rejected' = rejected
      BY <1>4, <2>5 DEF EmitClient
    <3>2. Enqueued(c, e)
      BY <1>1, <2>5, <3>1 DEF Enqueued, TypeOK, ClientTypes
    <3>3. Line(c)' = Append(Line(c), e) /\ offered'[c] = Append(offered[c], e)
      BY <1>0, <2>1, <2>5, <3>2, EnqueuedLine
    <3>4. Evicting(c)' <=> Evicting(c)
      BY <3>1 DEF Evicting
    <3>5. QED BY <1>0, <1>1, <3>3, <3>4 DEF GapFree
  <2>6. CASE c = d /\ ~Accepts(c)
    <3>1. rejected' = [rejected EXCEPT ![h][e] = d]
      BY <1>4, <2>6 DEF EmitClient
    <3>2. Evicting(c)'
      BY <1>0, <2>6, <3>1 DEF Evicting
    <3>3. QED BY <3>2 DEF GapFree
  <2>7. QED BY <2>4, <2>5, <2>6
<1>5. QED BY <1>2, <1>3, <1>4 DEF EmitStep

LEMMA GapPump ==
  ASSUME GapInv, NEW d \in Clients, ClientNext(d), NEW c \in Clients
  PROVE  GapFree(c)'
<1> USE DEF GapInv, HandInv, PumpInv
<1>0. /\ registered \subseteq Clients /\ GapFree(c)
      /\ conn \in [Clients -> ConnState] /\ writer \in [Clients -> WriterState]
      /\ offered' = offered /\ rejected' = rejected
  BY NoGapByClient, ClientFrame DEF TypeOK, ClientTypes, emitVars
<1>1. Evicting(c)' <=> Evicting(c)
  BY <1>0 DEF Evicting
<1>2. CASE AddClient(d) /\ c = d
  <2>1. offered[c] = <<>> /\ received[c] = <<>> /\ writing[c] = Nil /\ send[c] = <<>>
    BY <1>2 DEF AddClient, FreshClients
  <2>2. offered'[c] = <<>> /\ received'[c] = <<>> /\ writing'[c] = Nil /\ send'[c] = <<>>
    BY <1>0, <1>2, <2>1 DEF AddClient
  <2>3. Line(c)' = <<>>
    BY <2>2 DEF Line, Hand
  <2>4. QED BY <2>2, <2>3 DEF GapFree
<1>3. CASE ~(AddClient(d) /\ c = d)
  <2>1. conn'[c] = "open" => conn[c] = "open"
    BY <1>0, <1>3 DEF ClientNext, WriterStep, AddClient, WriterTake, WriteOk, WriteError,
       WriterRemove, WriterSeesClose, WriterExit, PingError, PeerLost, ReaderError, ReaderAbort,
       ReaderRemove, CloseClient
  <2>2. c \in registered' => c \in registered
    BY <1>3 DEF ClientNext, WriterStep, AddClient, WriterTake, WriteOk, WriteError,
       WriterRemove, WriterSeesClose, WriterExit, PingError, PeerLost, ReaderError, ReaderAbort,
       ReaderRemove, CloseClient, RemoveClient, memberVars
  <2>3. writer[c] = "removing" => writer'[c] = "removing" \/ c \notin registered'
    <3>1. CASE WriterRemove(d)
      BY <1>0, <3>1 DEF WriterRemove, RemoveClient, WriterGoes
    <3>2. CASE AddClient(d)
      BY <1>0, <1>3, <3>2 DEF AddClient
    <3>3. QED
      BY <1>0, <3>1, <3>2 DEF ClientNext, WriterStep, WriterTake, WriteOk, WriteError,
         WriterSeesClose, WriterExit, PingError, PeerLost, ReaderError, ReaderAbort,
         ReaderRemove, CloseClient, WriterGoes
  <2>4. CASE UNCHANGED LineVars(c)
    BY <1>0, <1>1, <2>1, <2>2, <2>3, <2>4, GapKept
  <2>5. CASE Moved(c)
    <3>1. Line(c)' = Line(c)
      BY <2>5, NextTypeOK, MovedLine DEF Next
    <3>2. QED BY <1>0, <1>1, <2>1, <2>2, <2>3, <3>1 DEF GapFree
  <2>6. CASE Dropped(c)
    <3>1. CASE WriteOk(d) /\ c = d
      <4>1. conn'[c] # "open"
        BY <1>0, <2>6, <3>1 DEF WriteOk, Dropped, TypeOK, ClientTypes
      <4>2. QED BY <4>1 DEF GapFree
    <3>2. CASE WriteError(d) /\ c = d
      <4>1. writer'[c] = "removing"
        BY <1>0, <3>2 DEF WriteError, WriterGoes
      <4>2. QED BY <4>1 DEF GapFree
    <3>3. CASE WriterTake(d)
      <4>1. send[d] # <<>> /\ send'[d] = Tail(send[d]) /\ send[d] \in Seq(Events)
        BY <3>3 DEF WriterTake, TypeOK, ClientTypes
      <4>2. Len(send'[d]) # Len(send[d])
        BY <4>1, HeadTailProperties
      <4>3. c # d
        BY <2>6, <4>2 DEF Dropped
      <4>4. QED BY <2>6, <3>3, <4>3, HubAssumption DEF HubAssumption, WriterTake, Dropped, TypeOK, ClientTypes
    <3>4. writing' # writing
      BY <2>6, HubAssumption DEF HubAssumption, Dropped
    <3>5. c = d \/ WriterTake(d) \/ writing'[c] = writing[c]
      BY DEF ClientNext, WriterStep, AddClient, WriteOk, WriteError, WriterRemove, WriterSeesClose,
         WriterExit, PingError, PeerLost, ReaderError, ReaderAbort, ReaderRemove, CloseClient,
         TypeOK, ClientTypes
    <3>6. QED
      BY <2>6, <3>1, <3>2, <3>3, <3>4, <3>5, HubAssumption
      DEF HubAssumption, Dropped, ClientNext, WriterStep, AddClient, WriterRemove, WriterSeesClose,
         WriterExit, PingError, PeerLost, ReaderError, ReaderAbort, ReaderRemove, CloseClient
  <2>7. QED BY <2>4, <2>5, <2>6, ClientLine
<1>4. QED BY <1>2, <1>3

LEMMA FreshStep ==
  ASSUME GapInv, [Next]_vars
  PROVE  FreshClients'
<1> USE DEF GapInv, HandInv, PumpInv
<1>1. TypeOK /\ TypeOK'
  BY NextTypeOK
<1>2. SUFFICES ASSUME NEW c \in Clients, conn'[c] = "new"
               PROVE  /\ offered'[c] = <<>> /\ received'[c] = <<>>
                      /\ writing'[c] = Nil /\ send'[c] = <<>>
  BY DEF FreshClients
<1>3. conn[c] = "new"
  <2>1. ASSUME NEW d \in Clients, ClientNext(d)
        PROVE  conn[c] = "new"
    BY <1>1, <1>2, <2>1 DEF ClientNext, WriterStep, AddClient, WriterTake, WriteOk, WriteError,
       WriterRemove, WriterSeesClose, WriterExit, PingError, PeerLost, ReaderError, ReaderAbort,
       ReaderRemove, CloseClient, TypeOK, ClientTypes
  <2>2. CASE UNCHANGED conn
    BY <1>2, <2>2
  <2>3. QED BY <2>1, <2>2, StreamFrame, CallFrame, HubFrame, EmitFrame DEF Next, vars, clientVars
<1>4. offered[c] = <<>> /\ received[c] = <<>> /\ writing[c] = Nil /\ send[c] = <<>>
  BY <1>3 DEF FreshClients
<1>5. \A h \in Hubs, e \in Events : ~EmitClient(h, e, c)
  BY <1>3 DEF TargetsStarted, EmitClient
<1>6. UNCHANGED LineVars(c)
  BY <1>4, <1>5, LineSteps, HubAssumption DEF HubAssumption, Dropped, Moved
<1>7. offered'[c] = offered[c]
  <2>1. CASE UNCHANGED offered
    BY <2>1
  <2>2. ASSUME NEW h \in Hubs, NEW e \in Events, EmitStep(h, e)
        PROVE  offered'[c] = offered[c]
    <3>1. CASE UNCHANGED offered
      BY <3>1
    <3>2. ASSUME NEW d \in Clients, EmitClient(h, e, d)
          PROVE  offered'[c] = offered[c]
      <4>1. offered' = [offered EXCEPT ![d] = Append(@, e)] /\ d # c
        BY <1>5, <3>2 DEF EmitClient
      <4>2. QED BY <4>1
    <3>3. QED BY <2>2, <3>1, <3>2 DEF EmitStep, EmitStream, EvictSlow
  <2>3. QED
    BY <2>1, <2>2, ClientFrame, StreamFrame, CallFrame, HubFrame DEF Next, vars, emitVars, hubVars
<1>8. QED BY <1>4, <1>6, <1>7 DEF LineVars

LEMMA GapRest ==
  ASSUME GapInv, NEW c \in Clients,
         UNCHANGED <<conn, writer, send, writing, received, rejected, offered>>,
         registered' \subseteq registered
  PROVE  GapFree(c)'
<1>1. GapFree(c)
  BY NoGapByClient DEF GapInv, HandInv, PumpInv, TypeOK, ClientTypes
<1>2. UNCHANGED LineVars(c) /\ (Evicting(c) => Evicting(c)')
  BY DEF LineVars, Evicting
<1>3. QED BY <1>1, <1>2, GapKept

LEMMA GapInvariant == Spec => []GapInv
<1>1. Init => FreshClients /\ NoGap
  BY DEF Init, FreshClients, NoGap
<1>2. HandInv /\ HandInv' /\ FreshClients /\ NoGap /\ [Next]_vars => FreshClients' /\ NoGap'
  <2> SUFFICES ASSUME GapInv, HandInv', [Next]_vars PROVE FreshClients' /\ NoGap'
    BY DEF GapInv
  <2>1. FreshClients'
    BY FreshStep
  <2>2. ASSUME NEW c \in Clients
        PROVE  GapFree(c)'
    <3>1. CASE UNCHANGED vars
      BY <3>1, GapRest DEF vars, clientVars, memberVars, hubVars, emitVars
    <3>2. ASSUME NEW s \in Streams, StreamNext(s)
          PROVE  GapFree(c)'
      BY <3>2, StreamFrame, GapRest DEF clientVars, memberVars, emitVars
    <3>3. ASSUME NEW e \in Events, CallNext(e)
          PROVE  GapFree(c)'
      BY <3>3, CallFrame, GapRest DEF clientVars, memberVars
    <3>4. ASSUME NEW h \in Hubs, HubNext(h)
          PROVE  GapFree(c)'
      BY <3>4, HubFrame, GapRest
    <3>5. QED BY <3>1, <3>2, <3>3, <3>4, GapPump, GapEmit DEF Next
  <2>3. registered' \subseteq Clients
    BY DEF HandInv, PumpInv, TypeOK, ClientTypes
  <2>4. NoGap'
    BY <2>2, <2>3 DEF NoGap, GapFree
  <2>5. QED BY <2>1, <2>4
<1>3. QED BY <1>1, <1>2, HandInvariant, PTL DEF Spec, GapInv

\* A client that stays gets everything it was offered, in order and without a gap:
\* dropping a payload and dropping its client are one decision.
THEOREM ClientsHaveNoGap == Spec => []NoGap
  BY GapInvariant, PTL DEF GapInv

--------------------------------------------------------------------------------
(* No echo.                                                                 *)

\* An emission of an instance has only its own clients among its targets.
TargetsOwn ==
  \A h \in Hubs, e \in Events : \A c \in pending[h][e] \cap Clients : HubOf[c] = h

\* A copy that an emission still has to give to the client.
Due(c, e) == IF c \in pending[HubOf[c]][e] THEN 1 ELSE 0

\* What makes the absence of echoes inductive: the copies in a client's line, the
\* one an emission owes it and, from another instance, those that wait in the
\* channel are together no more than what the broadcast and Redis have put there.
EchoBoundFor(c, e) ==
  IF Origin[e] = HubOf[c]
  THEN Copies(e, Line(c)) + Due(c, e) <= (IF phase[e] = "idle" THEN 0 ELSE 1)
  ELSE Copies(e, Line(c)) + Due(c, e) + Copies(e, channel[HubOf[c]]) <= attempts[e]

EchoBound == \A c \in Clients, e \in Events : EchoBoundFor(c, e)

Shrinks == \A h \in Hubs, e \in Events : pending'[h][e] \subseteq pending[h][e]

LEMMA EmitShrinks ==
  ASSUME TypeOK, NEW h \in Hubs, NEW e \in Events, EmitStep(h, e)
  PROVE  Shrinks
<1>1. ASSUME NEW t, Served(h, e, t)
      PROVE  Shrinks
  BY <1>1 DEF Served, TypeOK, EmitTypes, Shrinks
<1>2. pending' = pending \/ \E t : Served(h, e, t)
  BY DEF EmitStep, EmitStream, EmitClient, EvictSlow
<1>3. QED BY <1>1, <1>2 DEF Shrinks

LEMMA EnqueueIsServed ==
  ASSUME TypeOK, TargetsOwn, NEW h \in Hubs, NEW e \in Events, NEW c \in Clients,
         EmitClient(h, e, c)
  PROVE  /\ h = HubOf[c] /\ Due(c, e) = 1 /\ Due(c, e)' = 0
         /\ UNCHANGED <<callVars, redisVars>>
<1>1. h = HubOf[c] /\ c \in pending[h][e]
  BY DEF EmitClient, TargetsOwn
<1>2. c \notin pending'[h][e]
  BY DEF EmitClient, Served, TypeOK, EmitTypes
<1>3. QED BY <1>1, <1>2 DEF EmitClient, Due

LEMMA LineCopies ==
  ASSUME HandInv, [Next]_vars, NEW c \in Clients, NEW e \in Events
  PROVE  \/ Copies(e, Line(c)') <= Copies(e, Line(c))
         \/ /\ \E h \in Hubs : EmitClient(h, e, c)
            /\ Copies(e, Line(c)') = Copies(e, Line(c)) + 1
<1> USE DEF HandInv, PumpInv
<1>1. TypeOK /\ TypeOK' /\ Line(c) \in Seq(Events) /\ Copies(e, Line(c)) \in Nat
  BY NextTypeOK, LineParts, PlacesFinite
<1>2. CASE UNCHANGED LineVars(c)
  <2>1. Line(c)' = Line(c)
    BY <1>2 DEF LineVars, Line, Hand
  <2>2. QED BY <1>1, <2>1
<1>3. CASE Moved(c)
  BY <1>1, <1>3, MovedLine
<1>4. CASE Dropped(c)
  <2>1. /\ Line(c) = received[c] \o <<writing[c]>> \o send[c]
        /\ Line(c)' = received[c] \o send[c]
    BY <1>1, <1>4, DroppedLine
  <2>2. received[c] \in Seq(Events) /\ send[c] \in Seq(Events) /\ writing[c] \in Events
    BY <1>1, <1>4, LineParts DEF Dropped
  <2>3. Copies(e, received[c] \o send[c]) <= Copies(e, received[c] \o <<writing[c]>> \o send[c])
    BY <2>2, CopiesDrop
  <2>4. QED BY <2>1, <2>3
<1>5. ASSUME NEW h \in Hubs, NEW d \in Events, EmitClient(h, d, c), Enqueued(c, d)
      PROVE  \/ Copies(e, Line(c)') <= Copies(e, Line(c))
             \/ /\ \E g \in Hubs : EmitClient(g, e, c)
                /\ Copies(e, Line(c)') = Copies(e, Line(c)) + 1
  <2>1. Line(c)' = Append(Line(c), d)
    BY <1>1, <1>5, EnqueuedLine
  <2>2. Copies(e, Append(Line(c), d)) = Copies(e, Line(c)) + (IF d = e THEN 1 ELSE 0)
    BY <1>1, CopiesAppend
  <2>3. QED BY <1>1, <1>5, <2>1, <2>2
<1>6. QED BY <1>2, <1>3, <1>4, <1>5, LineSteps

LEMMA TargetsOwnStep ==
  ASSUME TypeOK, TargetsOwn, [Next]_vars
  PROVE  TargetsOwn'
<1>1. CASE Shrinks
  BY <1>1 DEF Shrinks, TargetsOwn
<1>2. ASSUME NEW h \in Hubs, NEW e \in Events, BeginEmit(h, e)
      PROVE  TargetsOwn'
  <2>1. \A c \in Targets(h) \cap Clients : HubOf[c] = h
    BY HubAssumption DEF HubAssumption, Targets, TypeOK, ClientTypes
  <2>2. QED BY <1>2, <2>1 DEF BeginEmit, TargetsOwn, TypeOK, EmitTypes
<1>3. CASE UNCHANGED pending
  BY <1>1, <1>3 DEF Shrinks
<1>4. ASSUME NEW e \in Events, CallNext(e)
      PROVE  TargetsOwn'
  BY <1>2, <1>3, <1>4, HubAssumption
  DEF HubAssumption, CallNext, BroadcastBegin, BroadcastEmitted, PublishOk, PublishRetry,
      PublishFail, LateArrival, emitVars
<1>5. ASSUME NEW h \in Hubs, HubNext(h)
      PROVE  TargetsOwn'
  <2>1. CASE ConsumeRedis(h)
    <3>1. Head(channel[h]) \in Events
      BY <2>1, HeadTailProperties DEF ConsumeRedis, TypeOK, RedisTypes
    <3>2. QED BY <1>2, <1>3, <2>1, <3>1 DEF ConsumeRedis
  <2>2. QED BY <1>3, <1>5, <2>1 DEF HubNext, ConsumeDone, RedisLoss, CloseBegin, CloseEnd, emitVars
<1>6. QED
  BY <1>1, <1>3, <1>4, <1>5, ClientFrame, StreamFrame, EmitShrinks DEF Next, vars, hubVars, emitVars

\* The four numbers the bound is about, and what they are made of.
LEMMA EchoTypes ==
  ASSUME TypeOK, NEW c \in Clients, NEW e \in Events
  PROVE  /\ HubOf[c] \in Hubs /\ channel[HubOf[c]] \in Seq(Events)
         /\ Copies(e, Line(c)) \in Nat /\ Due(c, e) \in {0, 1}
         /\ Copies(e, channel[HubOf[c]]) \in Nat /\ attempts[e] \in Nat
<1>1. HubOf[c] \in Hubs
  BY HubAssumption DEF HubAssumption
<1>2. channel[HubOf[c]] \in Seq(Events) /\ Line(c) \in Seq(Events)
  BY <1>1, LineParts DEF TypeOK, RedisTypes
<1>3. Copies(e, Line(c)) \in Nat /\ Copies(e, channel[HubOf[c]]) \in Nat
  BY <1>2, PlacesFinite
<1>4. QED BY <1>1, <1>2, <1>3 DEF Due, TypeOK, RedisTypes

\* A step that neither broadcasts nor has to do with Redis.
LEMMA EchoKept ==
  ASSUME HandInv, TargetsOwn, [Next]_vars, NEW c \in Clients, NEW e \in Events,
         EchoBoundFor(c, e), Shrinks, UNCHANGED <<phase, attempts, channel>>
  PROVE  EchoBoundFor(c, e)'
<1> USE DEF HandInv, PumpInv
<1>1. TypeOK /\ TypeOK'
  BY NextTypeOK
<1>2. /\ Copies(e, Line(c)) \in Nat /\ Due(c, e) \in {0, 1} /\ attempts[e] \in Nat
      /\ Copies(e, channel[HubOf[c]]) \in Nat
  BY <1>1, EchoTypes
<1>3. Due(c, e)' \in {0, 1} /\ Copies(e, Line(c)') \in Nat
  <2>1. received'[c] \in Seq(Events) /\ Hand(c)' \in Seq(Events) /\ send'[c] \in Seq(Events)
    BY <1>1 DEF Hand, TypeOK, ClientTypes
  <2>2. Line(c)' \in Seq(Events)
    BY <2>1, ConcatProperties DEF Line
  <2>3. QED BY <2>2, PlacesFinite DEF Due
<1>4. Due(c, e)' <= Due(c, e)
  BY <1>1, EchoTypes DEF Due, Shrinks
<1>5. Copies(e, Line(c)') + Due(c, e)' <= Copies(e, Line(c)) + Due(c, e)
  BY <1>1, <1>2, <1>4, <1>3, LineCopies, EnqueueIsServed
<1>6. QED BY <1>2, <1>5, <1>3 DEF EchoBoundFor

\* A step of a broadcast, of the consumer or of Close leaves every line alone.
LEMMA EchoCall ==
  ASSUME HandInv, NEW d \in Events, CallNext(d), NEW c \in Clients, NEW e \in Events,
         EchoBoundFor(c, e)
  PROVE  EchoBoundFor(c, e)'
<1> USE DEF HandInv, PumpInv
<1>0. [Next]_vars
  BY DEF Next
<1>1. TypeOK /\ TypeOK'
  BY <1>0, NextTypeOK
<1>2. Line(c)' = Line(c)
  BY CallFrame DEF clientVars, Line, Hand
<1>3. /\ Copies(e, Line(c)) \in Nat /\ Due(c, e) \in {0, 1} /\ attempts[e] \in Nat
      /\ Copies(e, channel[HubOf[c]]) \in Nat
      /\ HubOf[c] \in Hubs /\ channel[HubOf[c]] \in Seq(Events)
  BY <1>1, EchoTypes
<1>4. CASE BroadcastBegin(d)
  <2>1. UNCHANGED <<channel, attempts>>
    BY <1>4 DEF BroadcastBegin, redisVars
  <2>2. CASE Origin[e] = HubOf[c] /\ d = e
    <3>1. phase[e] = "idle" /\ phase'[e] = "emit"
      BY <1>1, <1>4, <2>2 DEF BroadcastBegin, TypeOK, CallTypes
    <3>2. Copies(e, Line(c)) + Due(c, e) <= 0 /\ Due(c, e)' \in {0, 1}
      BY <2>2, <3>1 DEF EchoBoundFor, Due
    <3>3. Copies(e, Line(c)') + Due(c, e)' <= 1
      BY <1>2, <1>3, <3>2
    <3>4. QED BY <2>2, <3>1, <3>3 DEF EchoBoundFor
  <2>3. CASE ~(Origin[e] = HubOf[c] /\ d = e)
    <3>1. pending'[HubOf[c]][e] = pending[HubOf[c]][e]
      BY <1>1, <1>3, <1>4, <2>3, HubAssumption
      DEF HubAssumption, BroadcastBegin, BeginEmit, TypeOK, EmitTypes
    <3>2. Origin[e] = HubOf[c] => phase'[e] = phase[e]
      BY <1>1, <1>4, <2>3 DEF BroadcastBegin, TypeOK, CallTypes
    <3>3. QED BY <1>2, <1>3, <2>1, <3>1, <3>2 DEF EchoBoundFor, Due
  <2>4. QED BY <2>2, <2>3
<1>5. CASE ~BroadcastBegin(d)
  <2>1. pending' = pending /\ (phase[e] = "idle" <=> phase'[e] = "idle")
    BY <1>1, <1>5 DEF CallNext, BroadcastEmitted, PublishOk, PublishRetry, PublishFail, LateArrival,
       emitVars, callVars, TypeOK, CallTypes
  <2>2. CASE RedisAccepts(d)
    <3>1. attempts'[e] = IF d = e THEN attempts[e] + 1 ELSE attempts[e]
      BY <1>1, <2>2 DEF RedisAccepts, TypeOK, RedisTypes
    <3>2. \/ channel'[HubOf[c]] = channel[HubOf[c]]
          \/ channel'[HubOf[c]] = Append(channel[HubOf[c]], d)
      BY <1>3, <2>2 DEF RedisAccepts
    <3>3. Copies(e, Append(channel[HubOf[c]], d))
            = Copies(e, channel[HubOf[c]]) + (IF d = e THEN 1 ELSE 0)
      <4> DEFINE q == channel[HubOf[c]]
      <4>1. q \in Seq(Events)
        BY <1>3
      <4> HIDE DEF q
      <4>2. Copies(e, Append(q, d)) = Copies(e, q) + (IF d = e THEN 1 ELSE 0)
        BY <4>1, CopiesAppend
      <4>3. QED BY <4>2 DEF q
    <3>4. \/ Copies(e, channel'[HubOf[c]]) = Copies(e, channel[HubOf[c]])
          \/ Copies(e, channel'[HubOf[c]]) = Copies(e, Append(channel[HubOf[c]], d))
      BY <3>2, Zenon
    <3>5. Copies(e, channel'[HubOf[c]]) <= Copies(e, channel[HubOf[c]]) + (IF d = e THEN 1 ELSE 0)
      BY <1>3, <3>4, <3>3
    <3>6. Copies(e, channel'[HubOf[c]]) \in Nat
      BY <1>3, <3>4, <3>3
    <3>7. Due(c, e)' = Due(c, e)
      BY <2>1 DEF Due
    <3>8. QED BY <1>2, <1>3, <2>1, <3>1, <3>5, <3>6, <3>7 DEF EchoBoundFor
  <2>3. CASE UNCHANGED <<channel, attempts>>
    BY <1>2, <1>3, <2>1, <2>3 DEF EchoBoundFor, Due
  <2>4. QED
    BY <1>5, <2>2, <2>3 DEF CallNext, BroadcastEmitted, PublishOk, PublishRetry, PublishFail,
       LateArrival, redisVars
<1>6. QED BY <1>4, <1>5

LEMMA EchoHub ==
  ASSUME HandInv, NEW g \in Hubs, HubNext(g), NEW c \in Clients, NEW e \in Events,
         EchoBoundFor(c, e)
  PROVE  EchoBoundFor(c, e)'
<1> USE DEF HandInv, PumpInv
<1> DEFINE q == channel[HubOf[c]]
<1>1. Line(c)' = Line(c) /\ UNCHANGED <<phase, attempts>>
  BY HubFrame DEF callVars, Line, Hand
<1>2. /\ Copies(e, Line(c)) \in Nat /\ Due(c, e) \in {0, 1} /\ attempts[e] \in Nat
      /\ Copies(e, q) \in Nat /\ HubOf[c] \in Hubs /\ q \in Seq(Events)
  BY EchoTypes
<1>3. CASE (ConsumeRedis(g) \/ RedisLoss(g)) /\ HubOf[c] = g
  <2>1. q # <<>> /\ channel'[HubOf[c]] = Tail(q)
    BY <1>2, <1>3 DEF ConsumeRedis, RedisLoss, TypeOK, RedisTypes
  <2>2. /\ Copies(e, q) = Copies(e, Tail(q)) + (IF Head(q) = e THEN 1 ELSE 0)
        /\ Tail(q) \in Seq(Events) /\ Head(q) \in Events
    <3> HIDE DEF q
    <3>1. QED BY <1>2, <2>1, CopiesTail, HeadTailProperties
  <2>3. Copies(e, Tail(q)) \in Nat
    BY <2>2, PlacesFinite
  <2>4. pending'[HubOf[c]][e] = pending[HubOf[c]][e] \/ (Head(q) = e /\ Origin[e] # HubOf[c])
    BY <1>3, <2>2 DEF ConsumeRedis, RedisLoss, BeginEmit, ForThisInstance, TypeOK, EmitTypes, emitVars
  <2>5. Due(c, e)' = Due(c, e) \/ (Head(q) = e /\ Origin[e] # HubOf[c] /\ Due(c, e)' <= 1)
    BY <2>4 DEF Due
  <2>6. Due(c, e)' \in {0, 1}
    BY DEF Due
  <2>7. CASE Origin[e] = HubOf[c]
    <3>1. Due(c, e)' = Due(c, e)
      BY <2>5, <2>7
    <3>2. QED BY <1>1, <2>7, <3>1 DEF EchoBoundFor
  <2>8. CASE Origin[e] # HubOf[c]
    <3>1. Due(c, e)' + Copies(e, Tail(q)) <= Due(c, e) + Copies(e, q)
      BY <1>2, <2>2, <2>3, <2>5, <2>6
    <3>2. Copies(e, Line(c)) + Due(c, e)' + Copies(e, Tail(q)) <= attempts[e]
      <4> HIDE DEF q
      <4>1. Copies(e, Line(c)) + Due(c, e) + Copies(e, q) <= attempts[e]
        BY <2>8 DEF EchoBoundFor, q
      <4>2. QED BY <1>2, <2>3, <2>6, <3>1, <4>1
    <3>3. QED BY <1>1, <2>1, <2>8, <3>2 DEF EchoBoundFor
  <2>9. QED BY <2>7, <2>8
<1>4. CASE ~((ConsumeRedis(g) \/ RedisLoss(g)) /\ HubOf[c] = g)
  <2>1. pending'[HubOf[c]] = pending[HubOf[c]] /\ channel'[HubOf[c]] = channel[HubOf[c]]
    <3>1. CASE ConsumeRedis(g) \/ RedisLoss(g)
      BY <1>2, <1>4, <3>1 DEF ConsumeRedis, RedisLoss, BeginEmit, TypeOK, EmitTypes, RedisTypes, emitVars
    <3>2. QED BY <3>1 DEF HubNext, ConsumeDone, CloseBegin, CloseEnd, emitVars, redisVars
  <2>2. QED BY <1>1, <2>1 DEF EchoBoundFor, Due
<1>5. QED BY <1>3, <1>4

EchoInv == HandInv /\ TargetsOwn /\ EchoBound

LEMMA EchoInvariant == Spec => []EchoInv
<1>1. Init => TargetsOwn /\ EchoBound
  <2> SUFFICES ASSUME Init PROVE TargetsOwn /\ EchoBound
    OBVIOUS
  <2>1. TargetsOwn
    BY DEF Init, TargetsOwn
  <2>2. ASSUME NEW c \in Clients, NEW e \in Events
        PROVE  EchoBoundFor(c, e)
    <3>1. HubOf[c] \in Hubs
      BY HubAssumption DEF HubAssumption
    <3>2. channel[HubOf[c]] = <<>> /\ Due(c, e) = 0 /\ attempts[e] = 0 /\ phase[e] = "idle"
      BY <3>1 DEF Init, Due
    <3>3. Line(c) = <<>>
      BY DEF Init, Line, Hand
    <3>4. Copies(e, <<>>) = 0
      BY CopiesOne
    <3>5. Copies(e, Line(c)) = 0 /\ Copies(e, channel[HubOf[c]]) = 0
      BY <3>2, <3>3, <3>4
    <3>6. QED BY <3>2, <3>5 DEF EchoBoundFor
  <2>3. QED BY <2>1, <2>2 DEF EchoBound
<1>2. HandInv /\ TargetsOwn /\ EchoBound /\ [Next]_vars => TargetsOwn' /\ EchoBound'
  <2> SUFFICES ASSUME EchoInv, [Next]_vars PROVE TargetsOwn' /\ EchoBound'
    BY DEF EchoInv
  <2> USE DEF EchoInv
  <2>0. TypeOK
    BY DEF HandInv, PumpInv
  <2>1. TargetsOwn'
    BY <2>0, TargetsOwnStep
  <2>2. ASSUME NEW c \in Clients, NEW e \in Events
        PROVE  EchoBoundFor(c, e)'
    <3>0. EchoBoundFor(c, e)
      BY DEF EchoBound
    <3>1. CASE UNCHANGED vars
      BY <3>0, <3>1, EchoKept DEF vars, hubVars, callVars, redisVars, emitVars, Shrinks
    <3>2. ASSUME NEW d \in Clients, ClientNext(d)
          PROVE  EchoBoundFor(c, e)'
      BY <3>0, <3>2, EchoKept, ClientFrame DEF callVars, redisVars, emitVars, Shrinks
    <3>3. ASSUME NEW s \in Streams, StreamNext(s)
          PROVE  EchoBoundFor(c, e)'
      BY <3>0, <3>3, EchoKept, StreamFrame DEF callVars, redisVars, emitVars, Shrinks
    <3>4. ASSUME NEW h \in Hubs, NEW d \in Events, EmitStep(h, d)
          PROVE  EchoBoundFor(c, e)'
      BY <2>0, <3>0, <3>4, EchoKept, EmitFrame, EmitShrinks DEF callVars, redisVars
    <3>5. QED BY <3>0, <3>1, <3>2, <3>3, <3>4, EchoCall, EchoHub DEF Next
  <2>3. QED BY <2>1, <2>2 DEF EchoBound
<1>3. QED BY <1>1, <1>2, HandInvariant, PTL DEF Spec, EchoInv

\* The instance that broadcasts hands an event to a client at most once although
\* Redis gives the event back to it, and another instance at most as often as Redis
\* accepted it: the check of the envelope's source carries the whole of this.
THEOREM NoClientHearsEcho == Spec => []NoEcho
<1>1. EchoInv => NoEcho
  <2> SUFFICES ASSUME EchoInv, NEW c \in Clients, NEW e \in Events
               PROVE  Copies(e, Line(c)) <= (IF Origin[e] = HubOf[c] THEN 1 ELSE attempts[e])
    BY DEF NoEcho
  <2>1. /\ Copies(e, Line(c)) \in Nat /\ Due(c, e) \in {0, 1} /\ attempts[e] \in Nat
        /\ Copies(e, channel[HubOf[c]]) \in Nat
    BY EchoTypes DEF EchoInv, HandInv, PumpInv
  <2>2. EchoBoundFor(c, e)
    BY DEF EchoInv, EchoBound
  <2>3. QED BY <2>1, <2>2 DEF EchoBoundFor
<1>2. QED BY <1>1, EchoInvariant, PTL

--------------------------------------------------------------------------------
(* The order of two broadcasts of one instance.                             *)

\* A broadcast that had returned before another began, and can still come after it.
Late(e, d) == d \in prior[e] => phase[d] = "failed"

\* The calls of one instance.
PriorFinished ==
  \A e \in Events : \A d \in prior[e] : Finished(d) /\ Origin[d] = Origin[e] /\ d # e

\* Redis gets a publish after its call has returned only when the call has failed.
LimboFailed == \A e \in limbo : phase[e] = "failed"

\* A call goes on to publish when its own emission has no target left.
OriginEmitted ==
  \A e \in Events : phase[e] \notin {"idle", "emit"} => pending[Origin[e]][e] = {}

\* consumeRedis works on one event at a time.
OneConsumed ==
  \A h \in Hubs, e \in Events : pending[h][e] # {} /\ Origin[e] # h => consuming[h] = e

\* An event that was not broadcast yet is nowhere.
IdleUnseen ==
  \A e \in Events : phase[e] = "idle" =>
    /\ \A h \in Hubs : ~Holds(channel[h], e) /\ pending[h][e] = {}
    /\ \A c \in Clients : ~Holds(Line(c), e)

CallInv == PriorFinished /\ LimboFailed /\ OriginEmitted /\ OneConsumed /\ IdleUnseen

\* The way of an event from Redis to a client: the channel, the emission, the line.
Arrived(h, e) == pending[h][e] # {} \/ \E c \in Clients : HubOf[c] = h /\ Holds(Line(c), e)

ChannelOrder ==
  \A h \in Hubs, e, d \in Events : Precedes(channel[h], e, d) => Late(e, d)

ArrivedOrder ==
  \A h \in Hubs, e, d \in Events :
    Origin[e] # h /\ Arrived(h, e) /\ Holds(channel[h], d) => Late(e, d)

DueOrder ==
  \A c \in Clients, e, d \in Events :
    Origin[d] # HubOf[c] /\ Holds(Line(c), e) /\ c \in pending[HubOf[c]][d] => Late(e, d)

LineOrder ==
  \A c \in Clients, e, d \in Events :
    Precedes(Line(c), e, d) /\ d \in prior[e] => phase[d] = "failed" /\ Origin[d] # HubOf[c]

WayInv == ChannelOrder /\ ArrivedOrder /\ DueOrder /\ LineOrder

OrderInv == HandInv /\ TargetsOwn /\ CallInv /\ WayInv

\* What a line holds after a step it held before, or is just being given.
LEMMA LineHolds ==
  ASSUME HandInv, [Next]_vars, NEW c \in Clients, NEW a, NEW b
  PROVE  /\ Holds(Line(c)', a) => Holds(Line(c), a) \/ \E h \in Hubs : EmitClient(h, a, c)
         /\ Precedes(Line(c)', a, b) =>
              Precedes(Line(c), a, b) \/ (Holds(Line(c), a) /\ \E h \in Hubs : EmitClient(h, b, c))
<1> USE DEF HandInv, PumpInv
<1>1. TypeOK /\ TypeOK' /\ Line(c) \in Seq(Events)
  BY NextTypeOK, LineParts
<1>2. CASE Line(c)' = Line(c)
  BY <1>2
<1>3. CASE Dropped(c)
  <2>1. /\ Line(c) = received[c] \o <<writing[c]>> \o send[c]
        /\ Line(c)' = received[c] \o send[c]
    BY <1>1, <1>3, DroppedLine
  <2>2. received[c] \in Seq(Events) /\ send[c] \in Seq(Events) /\ writing[c] \in Events
    BY <1>1, <1>3, LineParts DEF Dropped
  <2>3. /\ Holds(received[c] \o send[c], a) => Holds(received[c] \o <<writing[c]>> \o send[c], a)
        /\ Precedes(received[c] \o send[c], a, b)
             => Precedes(received[c] \o <<writing[c]>> \o send[c], a, b)
    BY <2>2, DropParts
  <2>4. QED BY <2>1, <2>3
<1>4. ASSUME NEW h \in Hubs, NEW x \in Events, EmitClient(h, x, c), Enqueued(c, x)
      PROVE  /\ Holds(Line(c)', a) => Holds(Line(c), a) \/ EmitClient(h, a, c)
             /\ Precedes(Line(c)', a, b) =>
                  Precedes(Line(c), a, b) \/ (Holds(Line(c), a) /\ EmitClient(h, b, c))
  <2>1. Line(c)' = Append(Line(c), x)
    BY <1>1, <1>4, EnqueuedLine
  <2>2. Holds(Append(Line(c), x), a) <=> Holds(Line(c), a) \/ x = a
    BY <1>1, HoldsAppend
  <2>3. Precedes(Append(Line(c), x), a, b)
          => Precedes(Line(c), a, b) \/ (Holds(Line(c), a) /\ b = x)
    BY <1>1, PrecedesAppend
  <2>4. QED BY <1>4, <2>1, <2>2, <2>3
<1>5. QED
  BY <1>1, <1>2, <1>3, <1>4, LineSteps, MovedLine DEF LineVars, Line, Hand

LEMMA QuietCalls ==
  ASSUME OrderInv, [Next]_vars, Shrinks, UNCHANGED <<callVars, redisVars>>
  PROVE  CallInv'
<1> USE DEF OrderInv, CallInv, callVars, redisVars
<1>1. TypeOK /\ TypeOK'
  BY NextTypeOK DEF HandInv, PumpInv
<1>2. PriorFinished' /\ LimboFailed'
  BY DEF PriorFinished, LimboFailed, Finished
<1>3. OriginEmitted' /\ OneConsumed'
  BY HubAssumption DEF HubAssumption, OriginEmitted, OneConsumed, Shrinks
<1>4. IdleUnseen'
  <2> SUFFICES ASSUME NEW e \in Events, phase[e] = "idle"
               PROVE  /\ \A h \in Hubs : ~Holds(channel[h], e) /\ pending'[h][e] = {}
                      /\ \A c \in Clients : ~Holds(Line(c)', e)
    BY DEF IdleUnseen
  <2>1. \A h \in Hubs : ~Holds(channel[h], e) /\ pending[h][e] = {}
    BY DEF IdleUnseen
  <2>2. \A c \in Clients, h \in Hubs : ~EmitClient(h, e, c)
    BY <2>1 DEF EmitClient
  <2>3. \A c \in Clients : ~Holds(Line(c), e)
    BY DEF IdleUnseen
  <2>4. \A c \in Clients : ~Holds(Line(c)', e)
    BY <2>2, <2>3, LineHolds
  <2>5. QED BY <2>1, <2>4 DEF Shrinks
<1>5. QED BY <1>2, <1>3, <1>4

LEMMA QuietWay ==
  ASSUME OrderInv, [Next]_vars, Shrinks, UNCHANGED <<callVars, redisVars>>
  PROVE  WayInv'
<1> USE DEF OrderInv, CallInv, WayInv, callVars, redisVars
<1>1. TypeOK
  BY DEF HandInv, PumpInv
<1>2. \A e, d : Late(e, d)' <=> Late(e, d)
  BY DEF Late
<1>3. ChannelOrder'
  BY <1>2 DEF ChannelOrder
<1>4. \A c \in Clients, h \in Hubs, e \in Events :
        EmitClient(h, e, c) => h = HubOf[c] /\ c \in pending[h][e]
  BY DEF EmitClient, TargetsOwn
<1>5. ArrivedOrder'
  <2> SUFFICES ASSUME NEW h \in Hubs, NEW e \in Events, NEW d \in Events, Origin[e] # h,
                      Arrived(h, e)', Holds(channel[h], d)
               PROVE  Late(e, d)
    BY <1>2 DEF ArrivedOrder
  <2>1. CASE pending'[h][e] # {}
    BY <2>1 DEF Shrinks, Arrived, ArrivedOrder
  <2>2. ASSUME NEW c \in Clients, HubOf[c] = h, Holds(Line(c)', e)
        PROVE  Arrived(h, e)
    BY <1>4, <2>2, LineHolds DEF Arrived
  <2>3. QED BY <2>1, <2>2 DEF Arrived, ArrivedOrder
<1>6. DueOrder'
  <2> SUFFICES ASSUME NEW c \in Clients, NEW e \in Events, NEW d \in Events,
                      Origin[d] # HubOf[c], Holds(Line(c)', e), c \in pending'[HubOf[c]][d]
               PROVE  Late(e, d)
    BY <1>2 DEF DueOrder
  <2>0. HubOf[c] \in Hubs
    BY HubAssumption DEF HubAssumption
  <2>1. c \in pending[HubOf[c]][d]
    BY <2>0 DEF Shrinks
  <2>2. CASE Holds(Line(c), e)
    BY <2>1, <2>2 DEF DueOrder
  <2>3. ASSUME NEW h \in Hubs, EmitClient(h, e, c)
        PROVE  Late(e, d)
    <3>1. h = HubOf[c] /\ c \in pending[h][e]
      BY <1>4, <2>3
    <3>2. d \in prior[e] => Origin[e] # h /\ d # e
      BY <3>1 DEF PriorFinished
    <3>3. consuming[h] = d /\ (Origin[e] # h => consuming[h] = e)
      BY <2>0, <2>1, <3>1 DEF OneConsumed
    <3>4. QED BY <3>2, <3>3 DEF Late
  <2>4. QED BY <2>2, <2>3, LineHolds
<1>7. LineOrder'
  <2> SUFFICES ASSUME NEW c \in Clients, NEW e \in Events, NEW d \in Events,
                      Precedes(Line(c)', e, d), d \in prior[e]
               PROVE  phase[d] = "failed" /\ Origin[d] # HubOf[c]
    BY DEF LineOrder
  <2>1. CASE Precedes(Line(c), e, d)
    BY <2>1 DEF LineOrder
  <2>2. ASSUME Holds(Line(c), e), NEW h \in Hubs, EmitClient(h, d, c)
        PROVE  phase[d] = "failed" /\ Origin[d] # HubOf[c]
    <3>1. h = HubOf[c] /\ c \in pending[h][d]
      BY <1>4, <2>2
    <3>2. Origin[d] # h
      BY <3>1 DEF PriorFinished, OriginEmitted, Finished
    <3>3. QED BY <2>2, <3>1, <3>2 DEF DueOrder, Late
  <2>3. QED BY <2>1, <2>2, LineHolds
<1>8. QED BY <1>3, <1>5, <1>6, <1>7

\* What the calls leave alone: a broadcast that had returned stays returned.
LEMMA CallPrior ==
  ASSUME OrderInv, NEW x \in Events, CallNext(x)
  PROVE  /\ \A e, d \in Events : Late(e, d) /\ phase[e] # "idle" => Late(e, d)'
         /\ PriorFinished'
<1> USE DEF OrderInv, CallInv, HandInv, PumpInv, TypeOK, CallTypes
<1>1. CASE BroadcastBegin(x)
  <2>1. phase[x] = "idle" /\ phase' = [phase EXCEPT ![x] = "emit"]
    BY <1>1 DEF BroadcastBegin
  <2>2. prior' = [prior EXCEPT ![x] = {d \in Events : Origin[d] = Origin[x] /\ Finished(d)}]
    BY <1>1 DEF BroadcastBegin
  <2>3. \A d \in Events : Finished(d) => Finished(d)' /\ d # x
    BY <2>1 DEF Finished
  <2>4. PriorFinished'
    BY <2>2, <2>3 DEF PriorFinished
  <2>5. \A e, d \in Events : Late(e, d) /\ phase[e] # "idle" => Late(e, d)'
    BY <2>1, <2>2 DEF Late
  <2>6. QED BY <2>4, <2>5
<1>2. CASE ~BroadcastBegin(x)
  <2>1. prior' = prior
    BY <1>2 DEF CallNext, BroadcastEmitted, PublishOk, PublishRetry, PublishFail, LateArrival, callVars
  <2>2. phase' = phase \/ (~Finished(x) /\ \E v \in CallPhase : phase' = [phase EXCEPT ![x] = v])
    BY <1>2 DEF CallNext, BroadcastEmitted, PublishOk, PublishRetry, PublishFail, LateArrival,
       callVars, Finished, CallPhase
  <2>3. \A d \in Events : Finished(d) => phase'[d] = phase[d]
    BY <2>2
  <2>4. PriorFinished'
    BY <2>1, <2>3 DEF PriorFinished, Finished
  <2>5. \A e, d \in Events : d \in prior[e] => phase'[d] = phase[d]
    BY <2>3 DEF PriorFinished
  <2>6. QED BY <2>1, <2>4, <2>5 DEF Late
<1>3. QED BY <1>1, <1>2

\* Where an event is, somebody has broadcast it.
LEMMA SeenStarted ==
  ASSUME OrderInv, NEW e \in Events, NEW h \in Hubs, NEW c \in Clients
  PROVE  /\ Holds(channel[h], e) \/ pending[h][e] # {} \/ Holds(Line(c), e) => phase[e] # "idle"
         /\ Arrived(h, e) => phase[e] # "idle"
  BY DEF OrderInv, CallInv, IdleUnseen, Arrived

LEMMA PrecedesHolds ==
  ASSUME NEW q, NEW a, NEW b, Precedes(q, a, b)
  PROVE  Holds(q, a) /\ Holds(q, b)
  BY DEF Precedes, Holds

LEMMA BeginOrder ==
  ASSUME OrderInv, NEW x \in Events, BroadcastBegin(x)
  PROVE  CallInv' /\ WayInv'
<1> USE DEF OrderInv, CallInv, WayInv
<1>0. TypeOK /\ CallNext(x) /\ Origin \in [Events -> Hubs] /\ HubOf \in [Clients \cup Streams -> Hubs]
  BY HubAssumption DEF HubAssumption, HandInv, PumpInv, CallNext
<1>1. UNCHANGED <<channel, consuming, limbo>> /\ \A c \in Clients : Line(c)' = Line(c)
  BY DEF BroadcastBegin, redisVars, clientVars, Line, Hand
<1>2. phase[x] = "idle" /\ phase' = [phase EXCEPT ![x] = "emit"]
  BY DEF BroadcastBegin
<1>3. \A h \in Hubs, e \in Events : pending'[h][e] = pending[h][e] \/ (e = x /\ h = Origin[x])
  BY <1>0 DEF BroadcastBegin, BeginEmit, TypeOK, EmitTypes
<1>4. phase \in [Events -> CallPhase]
  BY <1>0 DEF TypeOK, CallTypes
<1>5. PriorFinished' /\ \A e, d \in Events : Late(e, d) /\ phase[e] # "idle" => Late(e, d)'
  BY <1>0, CallPrior
<1>6. LimboFailed' /\ OriginEmitted' /\ OneConsumed'
  <2>1. LimboFailed'
    BY <1>0, <1>1, <1>2, <1>4 DEF LimboFailed, TypeOK, RedisTypes
  <2>2. OriginEmitted'
    BY <1>0, <1>2, <1>3, <1>4 DEF OriginEmitted
  <2>3. OneConsumed'
    BY <1>1, <1>3 DEF OneConsumed
  <2>4. QED BY <2>1, <2>2, <2>3
<1>7. IdleUnseen'
  BY <1>0, <1>1, <1>2, <1>3, <1>4 DEF IdleUnseen
<1>8. ChannelOrder'
  BY <1>1, <1>5, PrecedesHolds DEF ChannelOrder, IdleUnseen
<1>9. ArrivedOrder'
  <2> SUFFICES ASSUME NEW h \in Hubs, NEW e \in Events, NEW d \in Events, Origin[e] # h,
                      Arrived(h, e)', Holds(channel[h], d)
               PROVE  Late(e, d)'
    BY <1>1 DEF ArrivedOrder
  <2>1. Arrived(h, e)
    BY <1>1, <1>3 DEF Arrived
  <2>2. Late(e, d) /\ phase[e] # "idle"
    BY <2>1 DEF ArrivedOrder, IdleUnseen, Arrived
  <2>3. QED BY <1>5, <2>2
<1>10. DueOrder'
  <2> SUFFICES ASSUME NEW c \in Clients, NEW e \in Events, NEW d \in Events,
                      Origin[d] # HubOf[c], Holds(Line(c), e), c \in pending'[HubOf[c]][d]
               PROVE  Late(e, d)'
    BY <1>1 DEF DueOrder
  <2>1. c \in pending[HubOf[c]][d]
    BY <1>0, <1>3
  <2>2. Late(e, d) /\ phase[e] # "idle"
    BY <2>1 DEF DueOrder, IdleUnseen
  <2>3. QED BY <1>5, <2>2
<1>11. LineOrder'
  <2> SUFFICES ASSUME NEW c \in Clients, NEW e \in Events, NEW d \in Events,
                      Precedes(Line(c), e, d), d \in prior'[e]
               PROVE  phase'[d] = "failed" /\ Origin[d] # HubOf[c]
    BY <1>1 DEF LineOrder
  <2>1. Holds(Line(c), e)
    BY PrecedesHolds
  <2>2. e # x
    BY <1>2, <2>1 DEF IdleUnseen
  <2>3. d \in prior[e]
    BY <1>0, <2>2 DEF BroadcastBegin, TypeOK, CallTypes
  <2>4. phase[d] = "failed" /\ Origin[d] # HubOf[c]
    BY <2>3 DEF LineOrder
  <2>5. QED BY <1>2, <1>4, <2>4
<1>12. QED BY <1>5, <1>6, <1>7, <1>8, <1>9, <1>10, <1>11

\* The steps of a broadcast after its own emission has begun.
LEMMA PublishOrder ==
  ASSUME OrderInv, NEW x \in Events, CallNext(x), ~BroadcastBegin(x)
  PROVE  CallInv' /\ WayInv'
<1> USE DEF OrderInv, CallInv, WayInv
<1>0. TypeOK /\ Origin \in [Events -> Hubs] /\ HubOf \in [Clients \cup Streams -> Hubs]
  BY HubAssumption DEF HubAssumption, HandInv, PumpInv
<1>1. UNCHANGED <<pending, consuming, prior>> /\ \A c \in Clients : Line(c)' = Line(c)
  BY CallFrame DEF CallNext, BroadcastEmitted, PublishOk, PublishRetry, PublishFail, LateArrival,
     emitVars, callVars, clientVars, Line, Hand
<1>2. phase[x] # "idle" /\ \A e \in Events : phase'[e] = "idle" <=> phase[e] = "idle"
  BY <1>0 DEF CallNext, BroadcastEmitted, PublishOk, PublishRetry, PublishFail, LateArrival,
     LimboFailed, callVars, TypeOK, CallTypes
<1>3. \A d \in Events : phase[d] = "failed" => phase'[d] = "failed"
  BY <1>0 DEF CallNext, BroadcastEmitted, PublishOk, PublishRetry, PublishFail, LateArrival,
     callVars, TypeOK, CallTypes
<1>4. PriorFinished' /\ \A e, d \in Events : Late(e, d) => Late(e, d)'
  BY <1>1, <1>3, CallPrior DEF Late
<1>5. LimboFailed'
  BY <1>0, <1>3 DEF CallNext, BroadcastEmitted, PublishOk, PublishRetry, PublishFail, LateArrival,
     LimboFailed, redisVars, TypeOK, CallTypes, RedisTypes
<1>6. OriginEmitted' /\ OneConsumed'
  <2>1. OriginEmitted'
    BY <1>0, <1>1 DEF CallNext, BroadcastEmitted, Emitted, PublishOk, PublishRetry, PublishFail,
       LateArrival, OriginEmitted, callVars, TypeOK, CallTypes
  <2>2. OneConsumed'
    BY <1>1 DEF OneConsumed
  <2>3. QED BY <2>1, <2>2
\* What Redis accepts is no broadcast that had returned, or one that failed.
<1>7. \A h \in Hubs : \/ channel'[h] = channel[h]
                      \/ /\ channel'[h] = Append(channel[h], x)
                         /\ \A e \in Events : Late(e, x)
  BY <1>0 DEF CallNext, BroadcastEmitted, PublishOk, PublishRetry, PublishFail, LateArrival,
     RedisAccepts, LimboFailed, PriorFinished, Finished, Late, redisVars
<1>8. \A h \in Hubs, a, b \in Events :
        /\ Holds(channel'[h], a) => Holds(channel[h], a) \/ a = x
        /\ Holds(channel'[h], b) => Holds(channel[h], b) \/ Late(a, b)
        /\ Precedes(channel'[h], a, b) => Precedes(channel[h], a, b) \/ Late(a, b)
  <2> TAKE h \in Hubs, a, b \in Events
  <2>0. channel[h] \in Seq(Events)
    BY <1>0 DEF TypeOK, RedisTypes
  <2>1. CASE channel'[h] = channel[h]
    BY <2>1
  <2>2. CASE channel'[h] = Append(channel[h], x) /\ \A e \in Events : Late(e, x)
    <3>1. /\ Holds(Append(channel[h], x), a) <=> Holds(channel[h], a) \/ x = a
          /\ Holds(Append(channel[h], x), b) <=> Holds(channel[h], b) \/ x = b
      BY <2>0, HoldsAppend
    <3>2. Precedes(Append(channel[h], x), a, b) => Precedes(channel[h], a, b) \/ b = x
      BY <2>0, PrecedesAppend
    <3>3. QED BY <2>2, <3>1, <3>2
  <2>3. QED BY <1>7, <2>1, <2>2
<1>9. IdleUnseen'
  BY <1>1, <1>2, <1>8 DEF IdleUnseen
<1>10. ChannelOrder'
  BY <1>4, <1>8 DEF ChannelOrder
<1>11. ArrivedOrder'
  BY <1>1, <1>4, <1>8 DEF ArrivedOrder, Arrived
<1>12. DueOrder'
  BY <1>1, <1>4 DEF DueOrder
<1>13. LineOrder'
  BY <1>1, <1>3 DEF LineOrder
<1>14. QED BY <1>4, <1>5, <1>6, <1>9, <1>10, <1>11, <1>12, <1>13

\* consumeRedis takes the head of its channel: what was behind it in the channel
\* is behind it on its way to the clients.
LEMMA ConsumeOrder ==
  ASSUME OrderInv, NEW g \in Hubs, ConsumeRedis(g) \/ RedisLoss(g)
  PROVE  CallInv' /\ WayInv'
<1> USE DEF OrderInv, CallInv, WayInv
<1> DEFINE x == Head(channel[g])
           Takes == /\ consuming[g] = Nil /\ ForThisInstance(g, x)
                    /\ consuming' = [consuming EXCEPT ![g] = x] /\ BeginEmit(g, x)
<1>0. TypeOK /\ Origin \in [Events -> Hubs] /\ HubOf \in [Clients \cup Streams -> Hubs]
      /\ Nil \notin Events
  BY HubAssumption DEF HubAssumption, HandInv, PumpInv
<1>1. channel[g] \in Seq(Events) /\ channel[g] # <<>> /\ x \in Events
  BY <1>0, HeadTailProperties DEF ConsumeRedis, RedisLoss, TypeOK, RedisTypes
<1>2. UNCHANGED <<phase, prior, limbo>> /\ \A c \in Clients : Line(c)' = Line(c)
  BY DEF ConsumeRedis, RedisLoss, callVars, clientVars, Line, Hand
<1>3. \A e, d : Late(e, d)' <=> Late(e, d)
  BY <1>2 DEF Late
<1>4. /\ Holds(channel[g], x)
      /\ \A h \in Hubs, a, b \in Events :
           /\ Holds(channel'[h], b) => Holds(channel[h], b) /\ (h = g => Precedes(channel[g], x, b))
           /\ Precedes(channel'[h], a, b) => Precedes(channel[h], a, b)
  <2>1. channel' = [channel EXCEPT ![g] = Tail(@)]
    BY DEF ConsumeRedis, RedisLoss
  <2>2. \A a, b \in Events :
          /\ Holds(channel[g], x)
          /\ Holds(Tail(channel[g]), b) => Holds(channel[g], b) /\ Precedes(channel[g], x, b)
          /\ Precedes(Tail(channel[g]), a, b) => Precedes(channel[g], a, b)
    BY <1>1, TailParts
  <2>3. QED BY <1>0, <1>1, <2>1, <2>2 DEF TypeOK, RedisTypes
<1>5. UNCHANGED <<pending, consuming>> \/ Takes
  BY DEF ConsumeRedis, RedisLoss, emitVars
<1>6. \A h \in Hubs, e \in Events :
        pending'[h][e] = pending[h][e] \/ (Takes /\ h = g /\ e = x /\ Origin[x] # g)
  BY <1>0, <1>1, <1>5 DEF BeginEmit, ForThisInstance, TypeOK, EmitTypes
<1>7. Takes => \A e \in Events : Origin[e] # g => pending[g][e] = {}
  BY <1>0 DEF OneConsumed
<1>8. PriorFinished' /\ LimboFailed'
  BY <1>2 DEF PriorFinished, LimboFailed, Finished
<1>9. OriginEmitted'
  BY <1>0, <1>2, <1>6 DEF OriginEmitted
<1>10. OneConsumed'
  <2>1. CASE UNCHANGED <<pending, consuming>>
    BY <2>1 DEF OneConsumed
  <2>2. CASE Takes
    <3>1. consuming'[g] = x /\ \A h \in Hubs : h # g => consuming'[h] = consuming[h]
      BY <1>0, <2>2 DEF TypeOK, RedisTypes
    <3>2. \A e \in Events : pending'[g][e] # {} /\ Origin[e] # g => e = x
      BY <1>6, <1>7, <2>2
    <3>3. \A h \in Hubs, e \in Events : h # g => pending'[h][e] = pending[h][e]
      BY <1>6
    <3>4. QED BY <3>1, <3>2, <3>3 DEF OneConsumed
  <2>3. QED BY <1>5, <2>1, <2>2
<1>11. IdleUnseen'
  BY <1>2, <1>4, <1>6 DEF IdleUnseen
<1>12. ChannelOrder'
  BY <1>3, <1>4 DEF ChannelOrder
<1>13. ArrivedOrder'
  <2> SUFFICES ASSUME NEW h \in Hubs, NEW e \in Events, NEW d \in Events, Origin[e] # h,
                      Arrived(h, e)', Holds(channel'[h], d)
               PROVE  Late(e, d)
    BY <1>3 DEF ArrivedOrder
  <2>1. Arrived(h, e) \/ (h = g /\ e = x)
    BY <1>2, <1>6 DEF Arrived
  <2>2. QED BY <1>1, <1>4, <2>1 DEF ArrivedOrder, ChannelOrder
<1>14. DueOrder'
  <2> SUFFICES ASSUME NEW c \in Clients, NEW e \in Events, NEW d \in Events,
                      Origin[d] # HubOf[c], Holds(Line(c), e), c \in pending'[HubOf[c]][d]
               PROVE  Late(e, d)
    BY <1>2, <1>3 DEF DueOrder
  <2>0. HubOf[c] \in Hubs
    BY <1>0
  <2>1. CASE c \in pending[HubOf[c]][d]
    BY <2>1 DEF DueOrder
  <2>2. CASE HubOf[c] = g /\ d = x
    <3>1. Arrived(g, e) /\ Holds(channel[g], d)
      BY <1>4, <2>2 DEF Arrived
    <3>2. d \in prior[e] => Origin[e] # g
      BY <2>2 DEF PriorFinished
    <3>3. QED BY <3>1, <3>2 DEF ArrivedOrder, Late
  <2>3. QED BY <1>6, <2>0, <2>1, <2>2
<1>15. LineOrder'
  BY <1>2 DEF LineOrder
<1>16. QED BY <1>8, <1>9, <1>10, <1>11, <1>12, <1>13, <1>14, <1>15

LEMMA HubOrder ==
  ASSUME OrderInv, NEW g \in Hubs, HubNext(g)
  PROVE  CallInv' /\ WayInv'
<1>1. CASE ConsumeRedis(g) \/ RedisLoss(g)
  BY <1>1, ConsumeOrder
<1>2. CASE CloseBegin(g) \/ CloseEnd(g)
  <2>1. UNCHANGED <<callVars, redisVars, pending>> /\ [Next]_vars
    BY <1>2 DEF CloseBegin, CloseEnd, emitVars, Next
  <2>2. Shrinks
    BY <2>1 DEF Shrinks
  <2>3. QED BY <2>1, <2>2, QuietCalls, QuietWay
<1>3. CASE ConsumeDone(g)
  <2> USE DEF OrderInv, CallInv, WayInv
  <2>1. TypeOK /\ UNCHANGED <<phase, prior, limbo, channel, pending>>
    BY <1>3 DEF ConsumeDone, callVars, emitVars, HandInv, PumpInv
  <2>2. \A c \in Clients : Line(c)' = Line(c)
    BY <1>3 DEF ConsumeDone, clientVars, Line, Hand
  <2>3. PriorFinished' /\ LimboFailed' /\ OriginEmitted' /\ IdleUnseen'
    BY <2>1, <2>2 DEF PriorFinished, LimboFailed, OriginEmitted, IdleUnseen, Finished
  <2>4. OneConsumed'
    BY <1>3, <2>1 DEF ConsumeDone, Emitted, OneConsumed, TypeOK, RedisTypes
  <2>5. \A e, d : Late(e, d)' <=> Late(e, d)
    BY <2>1 DEF Late
  <2>6. ChannelOrder' /\ ArrivedOrder' /\ DueOrder' /\ LineOrder'
    BY <2>1, <2>2, <2>5 DEF ChannelOrder, ArrivedOrder, DueOrder, LineOrder, Arrived
  <2>7. QED BY <2>3, <2>4, <2>6
<1>4. QED BY <1>1, <1>2, <1>3 DEF HubNext

LEMMA OrderInvariant == Spec => []OrderInv
<1>1. Init => CallInv /\ WayInv
  <2> SUFFICES ASSUME Init PROVE CallInv /\ WayInv
    OBVIOUS
  <2>1. /\ \A h \in Hubs : \A e : ~Holds(channel[h], e)
        /\ \A c \in Clients : \A e : ~Holds(Line(c), e)
        /\ \A h \in Hubs, e \in Events : pending[h][e] = {}
    BY DEF Init, Holds, Line, Hand
  <2>2. /\ \A h \in Hubs : \A e, d : ~Precedes(channel[h], e, d)
        /\ \A c \in Clients : \A e, d : ~Precedes(Line(c), e, d)
    BY <2>1, PrecedesHolds
  <2>3. CallInv
    BY <2>1, HubAssumption DEF HubAssumption, Init, CallInv, PriorFinished, LimboFailed,
       OriginEmitted, OneConsumed, IdleUnseen
  <2>4. ChannelOrder /\ LineOrder
    BY <2>2 DEF ChannelOrder, LineOrder
  <2>5. ArrivedOrder /\ DueOrder
    BY <2>1 DEF ArrivedOrder, DueOrder
  <2>6. QED BY <2>3, <2>4, <2>5 DEF WayInv
<1>2. HandInv /\ TargetsOwn /\ CallInv /\ WayInv /\ [Next]_vars => CallInv' /\ WayInv'
  <2> SUFFICES ASSUME OrderInv, [Next]_vars PROVE CallInv' /\ WayInv'
    BY DEF OrderInv
  <2>1. ASSUME Shrinks, UNCHANGED <<callVars, redisVars>>
        PROVE  CallInv' /\ WayInv'
    BY <2>1, QuietCalls, QuietWay
  <2>2. CASE UNCHANGED vars
    BY <2>1, <2>2 DEF vars, hubVars, emitVars, Shrinks
  <2>3. ASSUME NEW c \in Clients, ClientNext(c)
        PROVE  CallInv' /\ WayInv'
    BY <2>1, <2>3, ClientFrame DEF emitVars, Shrinks
  <2>4. ASSUME NEW s \in Streams, StreamNext(s)
        PROVE  CallInv' /\ WayInv'
    BY <2>1, <2>4, StreamFrame DEF emitVars, Shrinks
  <2>5. ASSUME NEW h \in Hubs, NEW e \in Events, EmitStep(h, e)
        PROVE  CallInv' /\ WayInv'
    BY <2>1, <2>5, EmitFrame, EmitShrinks DEF OrderInv, HandInv, PumpInv
  <2>6. QED BY <2>2, <2>3, <2>4, <2>5, BeginOrder, PublishOrder, HubOrder DEF Next
<1>3. QED BY <1>1, <1>2, EchoInvariant, PTL DEF Spec, OrderInv, EchoInv

\* Two broadcasts of one instance, one begun after the other had returned, reach
\* every client of every instance in that order; the one exception is the publish
\* that failed and came through late, and it does not touch the instance's own clients.
THEOREM BroadcastsInOrder == Spec => []BroadcastOrder
<1>1. OrderInv => BroadcastOrder
  <2> SUFFICES ASSUME OrderInv, NEW c \in Clients, NEW i \in DOMAIN Line(c), NEW j \in DOMAIN Line(c),
                      i < j, Line(c)[j] \in prior[Line(c)[i]]
               PROVE  phase[Line(c)[j]] = "failed" /\ Origin[Line(c)[j]] # HubOf[c]
    BY DEF BroadcastOrder
  <2>1. Line(c) \in Seq(Events)
    BY LineParts DEF OrderInv, HandInv, PumpInv
  <2>2. Line(c)[i] \in Events /\ Line(c)[j] \in Events
    BY <2>1
  <2>3. Precedes(Line(c), Line(c)[i], Line(c)[j])
    BY DEF Precedes
  <2>4. QED BY <2>2, <2>3 DEF OrderInv, WayInv, LineOrder
<1>2. QED BY <1>1, OrderInvariant, PTL
================================================================================
