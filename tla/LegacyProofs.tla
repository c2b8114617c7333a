------------------------------ MODULE LegacyProofs ------------------------------
(***************************************************************************)
(* Proofs about the legacy server (module MCLegacy): its conversations     *)
(* (LegacyInbox), the sockets and threads of its other engine (Baileys),   *)
(* and, with WppSessionsProofs, its sessions; for any number of messages,  *)
(* asynchronous calls, sockets and events.                                 *)
(***************************************************************************)
EXTENDS MCLegacy, WppSessionsProofs, Sequences

--------------------------------------------------------------------------------
(* What the calls of a conversation hold.                                         *)

\* A message is being taken in, up to its being counted; then it only remains to drop the cache.
Taking(k) == k.at \in {"ingest", "avatar", "create", "append", "count"}

\* Calls that have seen the row know that there is one, and rows are never deleted.
Rowed(k) ==
  /\ k.at \in {"open", "list", "load", "look", "zero", "compare", "send", "outcount", "append"}
       => conv.there
  /\ k.saw.there => conv.there
  /\ k.at \in {"list", "count", "outcount"} => k.saw.there

\* A message that is taken in has arrived and was noted.
Itemed(k) ==
  /\ k.left \subseteq arrived
  /\ Taking(k) => k.item # Nil
  /\ k.item # Nil => k.item \in seen /\ (Taking(k) \/ k.at = "drop")
  /\ k.at = "drop" /\ k.item # Nil => k.item \in stored

CallsHold == \A t \in Tasks : Rowed(call[t]) /\ Itemed(call[t])

\* Messages that were noted and are not still to be counted: each was counted at most once.
Counted == {m \in seen : \A t \in Tasks : Taking(call[t]) => call[t].item # m}

Bound == Cardinality(Messages) + Cardinality(Counted)
Bounded == conv.unread <= Bound /\ since <= Bound /\ \A t \in Tasks : call[t].saw.unread <= Bound

CountKept == (~raced => conv.unread = since) /\ (~conv.there => since = 0)

\* A count that the overview shows is the row's, or a call is about to drop the overview.
Explained(v, n, calls) ==
  \/ v = n
  \/ \E t \in Tasks : \/ calls[t].at \in {"append", "count", "drop", "load"}
                      \/ calls[t].at = "compare" /\ calls[t].saw.unread = v
CacheKept ==
  /\ cache # Nil /\ ~stale => Explained(cache, conv.unread, call)
  /\ \A t \in Tasks \ late :
       call[t].at = "cached" => Explained(call[t].saw.unread, conv.unread, call)

--------------------------------------------------------------------------------
(* What the calls about a socket hold.                                            *)

JobHolds(k) ==
  /\ k.at = "free" => k = Engine!Free
  /\ k.at = "say" <=> k.says # <<>>
  /\ k.at = "wait" => k.retry
  /\ k.retry => k.says \in {<<>>, <<"gone">>}
  /\ k.says \in {<<"qr">>, <<"syncing", "ready">>, <<"ready">>} => k.of # Nil

OneRetry ==
  /\ \A j \in Tasks : job[j].retry => reconnecting
  /\ reconnecting => \E j \in Tasks : job[j].retry
  /\ \A i, j \in Tasks : job[i].retry /\ job[j].retry => i = j

SocketsOwned ==
  /\ socket # Nil => socket \in open \ ended
  /\ open \ ended \subseteq {socket} \cup replaced

\* A service that believes in a connection it has not is about to be told.
ToBeTold ==
  ~muddled /\ told \in Engine!Lively =>
    socket # Nil \/ \E j \in Tasks : job[j].retry \/ job[j].says \in {<<"gone">>, <<"failed">>}

--------------------------------------------------------------------------------
(* What the thread of a chat holds.                                               *)

Distinct(s) == \A i, j \in DOMAIN s : s[i].id = s[j].id => i = j

ThreadHolds ==
  /\ Distinct(thread) /\ (~retimed => Engine!Sorted(thread))
  /\ count <= events /\ Cardinality(unread) <= events
  /\ count >= Cardinality(unread \ overlooked)

--------------------------------------------------------------------------------
(* One call of a conversation goes on.                                            *)

\* What a step leaves a call at and with.
Turned(t, at, left, item, saw) ==
  /\ call' \in [Tasks -> Inbox!Task]
  /\ call'[t].at = at /\ call'[t].left = left /\ call'[t].item = item /\ call'[t].saw = saw
  /\ \A u \in Tasks \ {t} : call'[u] = call[u]

\* The modules that are instantiated count as this one does.
LEMMA SameCardinality ==
  \A S : Inbox!Cardinality(S) = Cardinality(S) /\ Engine!Cardinality(S) = Cardinality(S)
  BY DEF Inbox!Cardinality, Engine!Cardinality, Cardinality

LEMMA CardFacts ==
  /\ Cardinality(Messages) \in Nat
  /\ 0 \in Inbox!Unread /\ Inbox!Unread = 0..(2 * Cardinality(Messages))
  /\ Inbox!NoRow \in Inbox!Row /\ ~Inbox!NoRow.there /\ Inbox!NoRow.unread = 0
  <1>1. Cardinality(Messages) \in Nat
    BY LegacyAssumption, FS_CardinalityType DEF LegacyAssumption
  <1>2. 0 \in Inbox!Unread /\ Inbox!Unread = 0..(2 * Cardinality(Messages))
    BY <1>1, SameCardinality DEF Inbox!Unread
  <1> QED BY <1>1, <1>2 DEF Inbox!NoRow, Inbox!Row

LEMMA CallTypes ==
  ASSUME Inbox!TypeOK
  PROVE  /\ conv \in Inbox!Row /\ conv.unread \in Nat /\ arrived \subseteq Messages
         /\ \A t \in Tasks : /\ call[t] \in Inbox!Task /\ call[t].saw \in Inbox!Row
                             /\ call[t].saw.unread \in Nat /\ call[t].left \subseteq Messages
                             /\ call[t].item \in Messages \cup {Nil}
         /\ since \in Nat
  <1>1. \A n \in Inbox!Unread : n \in Nat
    BY CardFacts
  <1>2. conv \in Inbox!Row /\ since \in Nat /\ arrived \subseteq Messages
    BY <1>1 DEF Inbox!TypeOK
  <1>3. \A t \in Tasks : /\ call[t] \in Inbox!Task /\ call[t].saw \in Inbox!Row
                         /\ call[t].left \subseteq Messages /\ call[t].item \in Messages \cup {Nil}
    BY DEF Inbox!TypeOK, Inbox!Task
  <1> QED BY <1>1, <1>2, <1>3 DEF Inbox!Row

LEMMA TurnsOne ==
  ASSUME Inbox!TypeOK, NEW t \in Tasks, NEW new \in Inbox!Task, call' = [call EXCEPT ![t] = new]
  PROVE  Turned(t, new.at, new.left, new.item, new.saw)
  BY DEF Inbox!TypeOK, Turned

LEMMA GoesTurns ==
  ASSUME Inbox!TypeOK, NEW t \in Tasks, NEW at \in Inbox!Awaits, Inbox!Goes(t, at)
  PROVE  Turned(t, at, call[t].left, call[t].item, call[t].saw)
  <1> DEFINE old == call[t]
             new == [old EXCEPT !.at = at]
  <1>1. old \in Inbox!Task
    BY DEF Inbox!TypeOK
  <1>2. call' = [call EXCEPT ![t] = new]
    BY DEF Inbox!Goes
  <1> HIDE DEF old
  <1>3. /\ new \in Inbox!Task /\ new.at = at /\ new.left = old.left /\ new.item = old.item
        /\ new.saw = old.saw
    BY <1>1 DEF Inbox!Task
  <1> HIDE DEF new
  <1>4. Turned(t, at, old.left, old.item, old.saw)
    BY <1>2, <1>3, TurnsOne
  <1> QED BY <1>4 DEF old

LEMMA ReadsTurns ==
  ASSUME Inbox!TypeOK, NEW t \in Tasks, NEW at \in Inbox!Awaits, Inbox!Reads(t, at)
  PROVE  Turned(t, at, call[t].left, call[t].item, conv)
  <1> DEFINE old == call[t]
             new == [old EXCEPT !.at = at, !.saw = conv]
  <1>1. old \in Inbox!Task /\ conv \in Inbox!Row
    BY DEF Inbox!TypeOK
  <1>2. call' = [call EXCEPT ![t] = new]
    BY DEF Inbox!Reads
  <1> HIDE DEF old
  <1>3. /\ new \in Inbox!Task /\ new.at = at /\ new.left = old.left /\ new.item = old.item
        /\ new.saw = conv
    BY <1>1 DEF Inbox!Task
  <1> HIDE DEF new
  <1>4. Turned(t, at, old.left, old.item, conv)
    BY <1>2, <1>3, TurnsOne
  <1> QED BY <1>4 DEF old

LEMMA FreeCall ==
  /\ Inbox!Free \in Inbox!Task /\ Inbox!Free.at = "free" /\ Inbox!Free.left = {}
  /\ Inbox!Free.item = Nil /\ Inbox!Free.saw = Inbox!NoRow
  BY CardFacts DEF Inbox!Free, Inbox!Task, Inbox!Awaits

LEMMA EndsTurns ==
  ASSUME Inbox!TypeOK, NEW t \in Tasks, Inbox!Ends(t)
  PROVE  Turned(t, "free", {}, Nil, Inbox!NoRow)
  BY FreeCall, TurnsOne DEF Inbox!Ends

LEMMA PolledTurns ==
  ASSUME Inbox!TypeOK, NEW t \in Tasks, Inbox!Polled(t)
  PROVE  Turned(t, "next", arrived, call[t].item, call[t].saw)
  <1> DEFINE old == call[t]
             new == [old EXCEPT !.at = "next", !.left = arrived, !.polls = TRUE]
  <1>1. old \in Inbox!Task /\ arrived \subseteq Messages
    BY DEF Inbox!TypeOK
  <1>2. call' = [call EXCEPT ![t] = new]
    BY DEF Inbox!Polled
  <1> HIDE DEF old
  <1>3. /\ new \in Inbox!Task /\ new.at = "next" /\ new.left = arrived /\ new.item = old.item
        /\ new.saw = old.saw
    BY <1>1 DEF Inbox!Task, Inbox!Awaits
  <1> HIDE DEF new
  <1>4. Turned(t, "next", arrived, old.item, old.saw)
    BY <1>2, <1>3, TurnsOne
  <1> QED BY <1>4 DEF old

LEMMA NextMessageTurns ==
  ASSUME Inbox!TypeOK, NEW t \in Tasks, Inbox!NextMessage(t)
  PROVE  \/ seen' = seen /\ Turned(t, "free", {}, Nil, Inbox!NoRow)
         \/ \E m \in call[t].left \ seen :
              /\ seen' = seen \cup {m}
              /\ Turned(t, "ingest", call[t].left \ {m}, m, call[t].saw)
  <1>1. CASE Inbox!Ends(t) /\ seen' = seen
    BY <1>1, EndsTurns
  <1>2. ASSUME NEW m \in call[t].left \ seen, seen' = seen \cup {m},
               call' = [call EXCEPT ![t].at = "ingest", ![t].left = call[t].left \ {m}, ![t].item = m]
        PROVE  Turned(t, "ingest", call[t].left \ {m}, m, call[t].saw)
    <2> DEFINE old == call[t]
               new == [old EXCEPT !.at = "ingest", !.left = old.left \ {m}, !.item = m]
    <2>1. old \in Inbox!Task /\ m \in old.left
      BY <1>2 DEF Inbox!TypeOK
    <2>2. call' = [call EXCEPT ![t] = new]
      BY <1>2
    <2> HIDE DEF old
    <2>3. m \in Messages /\ old.left \ {m} \in SUBSET Messages
      BY <2>1 DEF Inbox!Task
    <2>4. /\ new \in Inbox!Task /\ new.at = "ingest" /\ new.left = old.left \ {m} /\ new.item = m
          /\ new.saw = old.saw
      BY <2>1, <2>3 DEF Inbox!Task, Inbox!Awaits
    <2> HIDE DEF new
    <2>5. Turned(t, "ingest", old.left \ {m}, m, old.saw)
      BY <2>2, <2>4, TurnsOne
    <2> QED BY <2>5 DEF old
  <1> QED BY <1>1, <1>2 DEF Inbox!NextMessage

LEMMA DropTurns ==
  ASSUME Inbox!TypeOK, NEW t \in Tasks, Inbox!Drop(t)
  PROVE  \/ Turned(t, "free", {}, Nil, Inbox!NoRow)
         \/ Turned(t, "next", call[t].left, Nil, Inbox!NoRow)
  <1>1. CASE Inbox!Ends(t)
    BY <1>1, EndsTurns
  <1>2. CASE call' = [call EXCEPT ![t].at = "next", ![t].item = Nil, ![t].saw = Inbox!NoRow]
    <2> DEFINE old == call[t]
               new == [old EXCEPT !.at = "next", !.item = Nil, !.saw = Inbox!NoRow]
    <2>1. old \in Inbox!Task
      BY DEF Inbox!TypeOK
    <2>2. call' = [call EXCEPT ![t] = new]
      BY <1>2
    <2> HIDE DEF old
    <2>3. /\ new \in Inbox!Task /\ new.at = "next" /\ new.left = old.left /\ new.item = Nil
          /\ new.saw = Inbox!NoRow
      BY <2>1, CardFacts DEF Inbox!Task, Inbox!Awaits
    <2> HIDE DEF new
    <2>4. Turned(t, "next", old.left, Nil, Inbox!NoRow)
      BY <2>2, <2>3, TurnsOne
    <2> QED BY <2>4 DEF old
  <1> QED BY <1>1, <1>2 DEF Inbox!Drop

--------------------------------------------------------------------------------
(* A conversation: the frames of a step of one call.                              *)

InboxInv ==
  Inbox!TypeOK /\ CallsHold /\ Inbox!SeenIsKept /\ Bounded /\ CountKept /\ CacheKept

LEMMA InboxFacts ==
  ASSUME InboxInv
  PROVE  /\ Inbox!TypeOK /\ CallsHold /\ Inbox!SeenIsKept /\ Bounded /\ CountKept /\ CacheKept
         /\ \A t \in Tasks : Rowed(call[t]) /\ Itemed(call[t])
         /\ seen \subseteq arrived /\ stored \subseteq arrived /\ failed \subseteq seen
  BY DEF InboxInv, CallsHold, Inbox!TypeOK

\* Nothing that a call holds is taken back.
Grows ==
  /\ conv.there => conv'.there
  /\ arrived \subseteq arrived' /\ seen \subseteq seen' /\ stored \subseteq stored'
  /\ failed \subseteq failed'

LEMMA CallsFrame ==
  ASSUME CallsHold, NEW t \in Tasks, NEW at, NEW left, NEW item, NEW saw,
         Turned(t, at, left, item, saw), Grows, Rowed(call[t])', Itemed(call[t])'
  PROVE  CallsHold'
  <1>1. ASSUME NEW u \in Tasks \ {t} PROVE Rowed(call[u])' /\ Itemed(call[u])'
    <2>1. call'[u] = call[u] /\ Rowed(call[u]) /\ Itemed(call[u])
      BY DEF Turned, CallsHold
    <2>2. Rowed(call[u])'
      BY <2>1 DEF Rowed, Grows
    <2>3. Itemed(call[u])'
      BY <2>1 DEF Itemed, Taking, Grows
    <2> QED BY <2>2, <2>3
  <1> QED BY <1>1 DEF CallsHold

\* A message is passed on by the call that takes it in, which may hand it over.
LEMMA SeenFrame ==
  ASSUME Inbox!SeenIsKept, NEW t \in Tasks, NEW at, NEW left, NEW item, NEW saw,
         Turned(t, at, left, item, saw), Grows, seen' = seen,
         item = call[t].item \/ (item = Nil /\ (call[t].item # Nil => call[t].item \in stored' \cup failed'))
  PROVE  Inbox!SeenIsKept'
  <1>1. \A u \in Tasks : call'[u].item = call[u].item \/ call'[u].item = Nil
    BY DEF Turned
  <1>2. \A u, w \in Tasks : call'[u].item = call'[w].item /\ call'[u].item # Nil => u = w
    BY <1>1 DEF Inbox!SeenIsKept
  <1>3. ASSUME NEW m \in seen
        PROVE  m \in stored' \cup failed' \/ \E u \in Tasks : call'[u].item = m
    <2>1. CASE m \in stored \cup failed
      BY <2>1 DEF Grows
    <2>2. ASSUME NEW u \in Tasks, call[u].item = m
          PROVE  m \in stored' \cup failed' \/ \E w \in Tasks : call'[w].item = m
      <3>1. CASE u # t
        BY <2>2, <3>1 DEF Turned
      <3>2. CASE u = t /\ item = call[t].item
        BY <2>2, <3>2 DEF Turned
      <3>3. CASE u = t /\ item # call[t].item
        BY <2>2, <3>3
      <3> QED BY <3>1, <3>2, <3>3
    <2> QED BY <2>1, <2>2 DEF Inbox!SeenIsKept
  <1> QED BY <1>2, <1>3 DEF Inbox!SeenIsKept

LEMMA CountedFrame ==
  ASSUME NEW t \in Tasks, NEW at, NEW left, NEW item, NEW saw, Turned(t, at, left, item, saw),
         seen \subseteq seen',
         Taking(call'[t]) => \/ call'[t].item \notin seen
                             \/ Taking(call[t]) /\ call'[t].item = call[t].item
  PROVE  Counted \subseteq Counted'
  <1> SUFFICES ASSUME NEW m \in Counted PROVE m \in Counted'
    OBVIOUS
  <1>1. m \in seen /\ \A u \in Tasks : Taking(call[u]) => call[u].item # m
    BY DEF Counted
  <1>2. \A u \in Tasks : Taking(call'[u]) => call'[u].item # m
    BY <1>1 DEF Turned
  <1> QED BY <1>1, <1>2 DEF Counted, Taking

LEMMA BoundGrows ==
  ASSUME Counted \subseteq Counted', seen' \subseteq Messages
  PROVE  /\ Bound \in Nat /\ Bound' \in Nat /\ Bound <= Bound' /\ Bound' <= 2 * Cardinality(Messages)
         /\ (\E m \in Counted' : m \notin Counted) => Bound + 1 <= Bound'
  <1>1. IsFiniteSet(Messages) /\ Counted' \in SUBSET Messages
    BY LegacyAssumption DEF Counted, LegacyAssumption
  <1>2. /\ IsFiniteSet(Counted') /\ Cardinality(Counted') \in Nat /\ Cardinality(Messages) \in Nat
        /\ Cardinality(Counted') <= Cardinality(Messages)
    BY <1>1, FS_Subset, FS_CardinalityType
  <1>3. /\ IsFiniteSet(Counted) /\ Cardinality(Counted) \in Nat
        /\ Cardinality(Counted) <= Cardinality(Counted')
        /\ Cardinality(Counted') = Cardinality(Counted) => Counted' = Counted
    BY <1>2, FS_Subset, FS_CardinalityType
  <1>4. (\E m \in Counted' : m \notin Counted) => Cardinality(Counted) # Cardinality(Counted')
    BY <1>3
  <1> HIDE DEF Counted
  <1> QED BY <1>2, <1>3, <1>4 DEF Bound

LEMMA BoundedFrame ==
  ASSUME InboxInv, NEW t \in Tasks, NEW at, NEW left, NEW item, NEW saw,
         Turned(t, at, left, item, saw), Bound \in Nat, Bound' \in Nat, Bound <= Bound',
         conv'.unread \in Nat, since' \in Nat, saw.unread \in Nat,
         conv'.unread <= Bound', since' <= Bound', saw.unread <= Bound'
  PROVE  Bounded'
  <1>1. ASSUME NEW u \in Tasks PROVE call'[u].saw.unread <= Bound'
    <2>1. CASE u = t
      BY <2>1 DEF Turned
    <2>2. CASE u # t
      <3>1. call'[u] = call[u] /\ call[u].saw.unread <= Bound
        BY <2>2, InboxFacts DEF Turned, Bounded
      <3>2. call[u].saw.unread \in Nat
        BY InboxFacts, CallTypes
      <3> HIDE DEF Bound
      <3> QED BY <3>1, <3>2
    <2> QED BY <2>1, <2>2
  <1> QED BY <1>1 DEF Bounded

\* What explains the overview's count goes on to drop it.
Dropping == {"append", "count", "drop", "load"}
LEMMA ExplainedFrame ==
  ASSUME NEW t \in Tasks, NEW at, NEW left, NEW item, NEW saw, Turned(t, at, left, item, saw),
         NEW v, Explained(v, conv.unread, call),
         conv'.unread = conv.unread \/ at \in Dropping
           \/ (at = "compare" /\ saw.unread = conv.unread),
         call[t].at \in Dropping => at \in Dropping,
         call[t].at = "compare" => at \in Dropping \/ call[t].saw.unread = conv.unread
  PROVE  Explained(v, conv'.unread, call')
  <1>1. CASE at \in Dropping
    BY <1>1 DEF Explained, Dropping, Turned
  <1>2. CASE at \notin Dropping
    <2>1. CASE v = conv.unread
      BY <1>2, <2>1 DEF Explained, Turned
    <2>2. ASSUME NEW u \in Tasks, v # conv.unread,
                 call[u].at \in Dropping \/ (call[u].at = "compare" /\ call[u].saw.unread = v)
          PROVE  Explained(v, conv'.unread, call')
      <3>1. u # t
        BY <1>2, <2>2
      <3>2. call'[u] = call[u]
        BY <3>1 DEF Turned
      <3> QED BY <2>2, <3>2 DEF Explained, Dropping
    <2> QED BY <2>1, <2>2 DEF Explained, Dropping
  <1> QED BY <1>1, <1>2

LEMMA CacheFrame ==
  ASSUME CacheKept, NEW t \in Tasks, NEW at, NEW left, NEW item, NEW saw,
         Turned(t, at, left, item, saw), cache' = cache,
         late \subseteq late',
         conv'.unread = conv.unread \/ at \in Dropping
           \/ (at = "compare" /\ saw.unread = conv.unread),
         call[t].at \in Dropping => at \in Dropping,
         call[t].at = "compare" => at \in Dropping \/ call[t].saw.unread = conv.unread,
         ~stale' => ~stale, at = "cached" => call[t].at = "fill" /\ saw.unread = conv'.unread
  PROVE  CacheKept'
  <1>1. \A v : Explained(v, conv.unread, call) => Explained(v, conv'.unread, call')
    BY ExplainedFrame
  <1>2. cache' # Nil /\ ~stale' => Explained(cache', conv'.unread, call')
    BY <1>1 DEF CacheKept
  <1>3. ASSUME NEW u \in Tasks \ late', call'[u].at = "cached"
        PROVE  Explained(call'[u].saw.unread, conv'.unread, call')
    <2>1. CASE u = t
      BY <1>3, <2>1 DEF Explained, Turned
    <2>2. CASE u # t
      <3>1. call'[u] = call[u] /\ u \in Tasks \ late
        BY <2>2 DEF Turned
      <3> QED BY <1>1, <1>3, <3>1 DEF CacheKept
    <2> QED BY <2>1, <2>2
  <1> QED BY <1>2, <1>3 DEF CacheKept

\* Once every overview in the making is late, and the one kept is stale or gone, nothing is
\* left to explain.
LEMMA AllLate ==
  ASSUME NEW t \in Tasks, NEW at, NEW left, NEW item, NEW saw, Turned(t, at, left, item, saw),
         at # "cached", Inbox!Filling \subseteq late', stale' \/ cache' = Nil
  PROVE  CacheKept'
  <1>1. ASSUME NEW u \in Tasks \ late', call'[u].at = "cached" PROVE FALSE
    BY <1>1 DEF Turned, Inbox!Filling
  <1> QED BY <1>1 DEF CacheKept

--------------------------------------------------------------------------------
(* A conversation: its steps.                                                     *)

\* A call that changes nothing but where it is and what it has read.
Walks(t) ==
  \/ Inbox!Poll(t) \/ Inbox!Polled(t) \/ Inbox!Ingest(t) \/ Inbox!Avatar(t) \/ Inbox!Append(t)
  \/ Inbox!Open(t) \/ Inbox!OpenReads(t) \/ Inbox!LoadFails(t) \/ Inbox!Look(t)
  \/ Inbox!Compare(t) \/ Inbox!Bootstrap(t) \/ Inbox!Send(t) \/ Inbox!Sent(t)
  \/ Inbox!Overview(t) \/ Inbox!Fill(t)

\* It holds what it must, takes in what it took in, and goes on to drop the overview.
WalksTo(t, at, left, item, saw) ==
  /\ Turned(t, at, left, item, saw) /\ Rowed(call[t])' /\ Itemed(call[t])'
  /\ item = call[t].item \/ (item = Nil /\ call[t].item = Nil)
  /\ Taking(call'[t]) => Taking(call[t]) /\ call'[t].item = call[t].item
  /\ saw.unread \in {call[t].saw.unread, conv.unread, 0}
  /\ call[t].at \in Dropping => at \in Dropping
  /\ call[t].at = "compare" => at \in Dropping \/ call[t].saw.unread = conv.unread
  /\ at = "cached" => call[t].at = "fill" /\ saw.unread = conv.unread

LEMMA WalksOn ==
  ASSUME InboxInv, NEW t \in Tasks, Walks(t)
  PROVE  \E at, left, item, saw : WalksTo(t, at, left, item, saw)
  <1> DEFINE c == call[t]
  <1>1. /\ Inbox!TypeOK /\ Rowed(c) /\ Itemed(c) /\ c.left \subseteq arrived
        /\ UNCHANGED <<arrived, seen, conv, stored>>
    BY InboxFacts DEF Itemed, Walks, Inbox!Poll, Inbox!Polled, Inbox!Ingest, Inbox!Avatar,
       Inbox!Append, Inbox!Open, Inbox!OpenReads, Inbox!LoadFails, Inbox!Look, Inbox!Compare,
       Inbox!Bootstrap, Inbox!Send, Inbox!Sent, Inbox!Overview, Inbox!Fill
  <1> HIDE DEF c
  <1>2. CASE Inbox!Poll(t) \/ Inbox!Overview(t) \/ Inbox!Send(t) \/ Inbox!Open(t)
    <2>1. \E at \in {"poll", "fill", "send", "open", "look"} :
            /\ Turned(t, at, c.left, c.item, c.saw) /\ c.at = "free"
            /\ at \in {"send", "open", "look"} => conv.there
      BY <1>1, <1>2, GoesTurns
         DEF Inbox!Poll, Inbox!Overview, Inbox!Send, Inbox!Open, Inbox!Awaits, c
    <2> QED BY <1>1, <2>1 DEF WalksTo, Turned, Rowed, Itemed, Taking, Dropping, c
  <1>3. CASE Inbox!Polled(t)
    <2>1. Turned(t, "next", arrived, c.item, c.saw) /\ c.at = "poll"
      BY <1>1, <1>3, PolledTurns DEF Inbox!Polled, c
    <2> QED BY <1>1, <2>1 DEF WalksTo, Turned, Rowed, Itemed, Taking, Dropping, c
  <1>4. CASE Inbox!Ingest(t)
    <2>1. Turned(t, "avatar", c.left, c.item, conv) /\ c.at = "ingest"
      BY <1>1, <1>4, ReadsTurns DEF Inbox!Ingest, Inbox!Awaits, c
    <2> QED BY <1>1, <2>1 DEF WalksTo, Turned, Rowed, Itemed, Taking, Dropping, c
  <1>5. CASE Inbox!Avatar(t)
    <2>1. /\ c.at = "avatar"
          /\ \/ Turned(t, "create", c.left, c.item, c.saw)
             \/ Turned(t, "append", c.left, c.item, c.saw) /\ c.saw.there
      BY <1>1, <1>5, GoesTurns DEF Inbox!Avatar, Inbox!Awaits, c
    <2>2. CASE Turned(t, "create", c.left, c.item, c.saw)
      BY <1>1, <2>1, <2>2 DEF WalksTo, Turned, Rowed, Itemed, Taking, Dropping, c
    <2>3. CASE Turned(t, "append", c.left, c.item, c.saw) /\ c.saw.there
      BY <1>1, <2>1, <2>3 DEF WalksTo, Turned, Rowed, Itemed, Taking, Dropping, c
    <2> QED BY <2>1, <2>2, <2>3
  <1>6. CASE Inbox!Append(t)
    <2>1. Turned(t, "count", c.left, c.item, conv) /\ c.at = "append"
      BY <1>1, <1>6, ReadsTurns DEF Inbox!Append, Inbox!Awaits, c
    <2> QED BY <1>1, <2>1 DEF WalksTo, Turned, Rowed, Itemed, Taking, Dropping, c
  <1>7. CASE Inbox!OpenReads(t)
    <2>1. /\ c.at = "open"
          /\ \/ Turned(t, "list", c.left, c.item, conv)
             \/ Turned(t, "look", c.left, c.item, c.saw)
      BY <1>1, <1>7, ReadsTurns, GoesTurns DEF Inbox!OpenReads, Inbox!Awaits, c
    <2>2. CASE Turned(t, "list", c.left, c.item, conv)
      BY <1>1, <2>1, <2>2 DEF WalksTo, Turned, Rowed, Itemed, Taking, Dropping, c
    <2>3. CASE Turned(t, "look", c.left, c.item, c.saw)
      BY <1>1, <2>1, <2>3 DEF WalksTo, Turned, Rowed, Itemed, Taking, Dropping, c
    <2> QED BY <2>1, <2>2, <2>3
  <1>8. CASE Inbox!LoadFails(t)
    <2>1. Turned(t, "look", c.left, c.item, c.saw) /\ c.at = "list"
      BY <1>1, <1>8, GoesTurns DEF Inbox!LoadFails, Inbox!Awaits, c
    <2> QED BY <1>1, <2>1 DEF WalksTo, Turned, Rowed, Itemed, Taking, Dropping, c
  <1>9. CASE Inbox!Look(t)
    <2>1. Turned(t, "zero", c.left, c.item, conv) /\ c.at = "look"
      BY <1>1, <1>9, ReadsTurns DEF Inbox!Look, Inbox!Awaits, c
    <2> QED BY <1>1, <2>1 DEF WalksTo, Turned, Rowed, Itemed, Taking, Dropping, c
  <1>10. CASE Inbox!Compare(t)
    <2>1. /\ c.at = "compare"
          /\ \/ Turned(t, "drop", c.left, c.item, c.saw)
             \/ Turned(t, "free", {}, Nil, Inbox!NoRow) /\ conv.unread = c.saw.unread
      BY <1>1, <1>10, EndsTurns, GoesTurns DEF Inbox!Compare, Inbox!Awaits, c
    <2>2. c.item = Nil
      BY <1>1, <2>1 DEF Itemed, Taking
    <2>3. CASE Turned(t, "drop", c.left, c.item, c.saw)
      BY <1>1, <2>1, <2>2, <2>3 DEF WalksTo, Turned, Rowed, Itemed, Taking, Dropping, c
    <2>4. CASE Turned(t, "free", {}, Nil, Inbox!NoRow) /\ conv.unread = c.saw.unread
      BY <1>1, <2>1, <2>2, <2>4, CardFacts DEF WalksTo, Turned, Rowed, Itemed, Taking, Dropping, c
    <2> QED BY <2>1, <2>3, <2>4
  <1>11. CASE Inbox!Bootstrap(t)
    <2>1. Turned(t, "chats", c.left, c.item, conv) /\ c.at = "free"
      BY <1>1, <1>11, ReadsTurns DEF Inbox!Bootstrap, Inbox!Awaits, c
    <2> QED BY <1>1, <2>1 DEF WalksTo, Turned, Rowed, Itemed, Taking, Dropping, c
  <1>12. CASE Inbox!Sent(t)
    <2>1. Turned(t, "outcount", c.left, c.item, conv) /\ c.at = "send"
      BY <1>1, <1>12, ReadsTurns DEF Inbox!Sent, Inbox!Awaits, c
    <2> QED BY <1>1, <2>1 DEF WalksTo, Turned, Rowed, Itemed, Taking, Dropping, c
  <1>13. CASE Inbox!Fill(t)
    <2>1. Turned(t, "cached", c.left, c.item, conv) /\ c.at = "fill"
      BY <1>1, <1>13, ReadsTurns DEF Inbox!Fill, Inbox!Awaits, c
    <2> QED BY <1>1, <2>1 DEF WalksTo, Turned, Rowed, Itemed, Taking, Dropping, c
  <1> QED BY <1>2, <1>3, <1>4, <1>5, <1>6, <1>7, <1>8, <1>9, <1>10, <1>11, <1>12, <1>13 DEF Walks

LEMMA WalksInv == ASSUME InboxInv, NEW t \in Tasks, Walks(t) PROVE InboxInv'
  <1>1. PICK at, left, item, saw : WalksTo(t, at, left, item, saw)
    BY WalksOn
  <1>2. UNCHANGED <<arrived, seen, conv, stored, cache, failed, since, raced, late, stale>>
    BY DEF Inbox!history, Walks, Inbox!Poll, Inbox!Polled, Inbox!Ingest, Inbox!Avatar,
       Inbox!Append, Inbox!Open, Inbox!OpenReads, Inbox!LoadFails, Inbox!Look, Inbox!Compare,
       Inbox!Bootstrap, Inbox!Send, Inbox!Sent, Inbox!Overview, Inbox!Fill
  <1>3. sends' \in 0..MaxSends
    <2>1. sends' = sends \/ (sends < MaxSends /\ sends' = sends + 1)
      BY DEF Walks, Inbox!Poll, Inbox!Polled, Inbox!Ingest, Inbox!Avatar,
         Inbox!Append, Inbox!Open, Inbox!OpenReads, Inbox!LoadFails, Inbox!Look, Inbox!Compare,
         Inbox!Bootstrap, Inbox!Send, Inbox!Sent, Inbox!Overview, Inbox!Fill
    <2>2. sends \in 0..MaxSends /\ MaxSends \in Nat
      BY InboxFacts, LegacyAssumption DEF Inbox!TypeOK, LegacyAssumption
    <2> QED BY <2>1, <2>2
  <1>4. Turned(t, at, left, item, saw) /\ Grows
    BY <1>1, <1>2 DEF WalksTo, Grows
  <1>5. Inbox!TypeOK'
    BY <1>2, <1>3, <1>4, InboxFacts DEF Inbox!TypeOK, Turned
  <1>6. CallsHold'
    BY <1>1, <1>4, InboxFacts, CallsFrame DEF WalksTo
  <1>7. Inbox!SeenIsKept'
    BY <1>1, <1>2, <1>4, InboxFacts, SeenFrame DEF WalksTo
  <1>8. Bounded'
    <2>1. Counted \subseteq Counted' /\ seen' \subseteq Messages
      BY <1>1, <1>2, <1>4, InboxFacts, CallTypes, CountedFrame DEF WalksTo
    <2>2. Bound \in Nat /\ Bound' \in Nat /\ Bound <= Bound'
      BY <2>1, BoundGrows
    <2>3. /\ saw.unread \in {call[t].saw.unread, conv.unread, 0}
          /\ call[t].saw.unread \in Nat /\ conv.unread \in Nat /\ since \in Nat
          /\ call[t].saw.unread <= Bound /\ conv.unread <= Bound /\ since <= Bound
      BY <1>1, InboxFacts, CallTypes DEF WalksTo, Bounded
    <2> HIDE DEF Bound
    <2>4. /\ saw.unread \in Nat /\ saw.unread <= Bound' /\ conv.unread <= Bound' /\ since <= Bound'
      BY <2>2, <2>3
    <2> QED BY <1>2, <1>4, <2>2, <2>3, <2>4, BoundedFrame
  <1>9. CountKept'
    BY <1>2, InboxFacts DEF CountKept
  <1>10. CacheKept'
    BY <1>1, <1>2, <1>4, InboxFacts, CacheFrame DEF WalksTo
  <1> QED BY <1>5, <1>6, <1>7, <1>8, <1>9, <1>10 DEF InboxInv

LEMMA OldBounds ==
  ASSUME InboxInv
  PROVE  /\ Bound \in Nat /\ conv.unread \in 0..Bound /\ since \in 0..Bound /\ 0 \in 0..Bound
         /\ \A t \in Tasks : call[t].saw.unread \in 0..Bound
         /\ \A n \in 0..Cardinality(Messages) : n \in 0..Bound
         /\ \A n \in 0..Bound : n \in Inbox!Unread
  <1>1. Counted \in SUBSET Messages /\ IsFiniteSet(Messages)
    BY InboxFacts, CallTypes, LegacyAssumption DEF Counted, LegacyAssumption
  <1>2. /\ Cardinality(Counted) \in Nat /\ Cardinality(Messages) \in Nat
        /\ Cardinality(Counted) <= Cardinality(Messages)
    BY <1>1, FS_Subset, FS_CardinalityType
  <1>3. /\ conv.unread \in Nat /\ since \in Nat /\ \A t \in Tasks : call[t].saw.unread \in Nat
        /\ conv.unread <= Bound /\ since <= Bound /\ \A t \in Tasks : call[t].saw.unread <= Bound
    BY InboxFacts, CallTypes DEF Bounded
  <1> HIDE DEF Counted
  <1>4. Bound \in Nat /\ Cardinality(Messages) <= Bound /\ Bound <= 2 * Cardinality(Messages)
    BY <1>2 DEF Bound
  <1>5. \A n \in 0..Bound : n \in Inbox!Unread
    BY <1>2, <1>4, CardFacts
  <1> HIDE DEF Bound
  <1> QED BY <1>2, <1>3, <1>4, <1>5

\* Only what was counted is counted in the bound.
LEMMA BoundsKept ==
  ASSUME InboxInv, NEW t \in Tasks, NEW at, NEW left, NEW item, NEW saw,
         Turned(t, at, left, item, saw), seen \subseteq seen', seen' \subseteq Messages,
         Taking(call'[t]) => \/ call'[t].item \notin seen
                             \/ Taking(call[t]) /\ call'[t].item = call[t].item,
         conv'.unread \in 0..Bound, since' \in 0..Bound, saw.unread \in 0..Bound
  PROVE  Bounded' /\ conv'.unread \in Inbox!Unread /\ since' \in Inbox!Unread
  <1>1. Counted \subseteq Counted'
    BY CountedFrame
  <1>2. Bound \in Nat /\ Bound' \in Nat /\ Bound <= Bound'
    BY <1>1, BoundGrows
  <1>3. /\ conv'.unread \in Nat /\ since' \in Nat /\ saw.unread \in Nat
        /\ conv'.unread <= Bound' /\ since' <= Bound' /\ saw.unread <= Bound'
    BY <1>2
  <1> HIDE DEF Bound
  <1>4. Bounded'
    BY <1>2, <1>3, BoundedFrame
  <1> QED BY <1>4, OldBounds

LEMMA NextMessageInv == ASSUME InboxInv, NEW t \in Tasks, Inbox!NextMessage(t) PROVE InboxInv'
  <1>1. /\ UNCHANGED <<arrived, conv, stored, cache, sends, failed, since, raced, late, stale>>
        /\ call[t].at = "next" /\ Itemed(call[t]) /\ Rowed(call[t]) /\ Inbox!TypeOK
    BY InboxFacts DEF Inbox!NextMessage, Inbox!history
  <1>2. call[t].item = Nil
    BY <1>1 DEF Itemed, Taking
  <1>3. CASE seen' = seen /\ Turned(t, "free", {}, Nil, Inbox!NoRow)
    <2>1. Grows
      BY <1>1, <1>3 DEF Grows
    <2>2. CallsHold'
      <3>1. Rowed(call[t])' /\ Itemed(call[t])'
        BY <1>3, CardFacts DEF Rowed, Itemed, Taking, Turned
      <3> QED BY <1>3, <2>1, <3>1, InboxFacts, CallsFrame
    <2>3. Inbox!SeenIsKept'
      BY <1>2, <1>3, <2>1, InboxFacts, SeenFrame
    <2>4. Bounded'
      <3>1. seen' \subseteq Messages /\ Inbox!NoRow.unread \in 0..Bound /\ conv'.unread \in 0..Bound
            /\ since' \in 0..Bound
        BY <1>1, <1>3, InboxFacts, CallTypes, CardFacts, OldBounds
      <3>2. ~Taking(call'[t])
        BY <1>3 DEF Taking, Turned
      <3> QED BY <1>3, <3>1, <3>2, BoundsKept
    <2>5. CountKept'
      BY <1>1, InboxFacts DEF CountKept
    <2>6. CacheKept'
      BY <1>1, <1>3, InboxFacts, CacheFrame DEF Dropping
    <2>7. Inbox!TypeOK'
      BY <1>1, <1>3 DEF Inbox!TypeOK, Turned
    <2> QED BY <2>2, <2>3, <2>4, <2>5, <2>6, <2>7 DEF InboxInv
  <1>4. ASSUME NEW m \in call[t].left \ seen, seen' = seen \cup {m},
               Turned(t, "ingest", call[t].left \ {m}, m, call[t].saw)
        PROVE  InboxInv'
    <2>1. Grows
      BY <1>1, <1>4 DEF Grows
    <2>2. m \in arrived /\ m \in Messages /\ m # Nil
      BY <1>1, <1>4, CallTypes, LegacyAssumption DEF Itemed, LegacyAssumption
    <2>3. CallsHold'
      <3>1. Rowed(call[t])' /\ Itemed(call[t])'
        BY <1>1, <1>4, <2>2 DEF Rowed, Itemed, Taking, Turned
      <3> QED BY <1>4, <2>1, <3>1, InboxFacts, CallsFrame
    <2>4. Inbox!SeenIsKept'
      <3>1. \A u \in Tasks \ {t} : call'[u].item = call[u].item /\ call[u].item # m
        BY <1>4, <2>2, InboxFacts DEF Turned, Itemed
      <3>2. call'[t].item = m
        BY <1>4 DEF Turned
      <3>3. \A u, w \in Tasks : call'[u].item = call'[w].item /\ call'[u].item # Nil => u = w
        BY <3>1, <3>2, InboxFacts DEF Inbox!SeenIsKept
      <3>4. \A x \in seen : x \in stored \cup failed \/ \E u \in Tasks : call'[u].item = x
        BY <1>2, <2>2, <3>1, InboxFacts, CallTypes, LegacyAssumption
           DEF Inbox!SeenIsKept, Inbox!TypeOK, LegacyAssumption
      <3> QED BY <1>1, <1>4, <3>2, <3>3, <3>4 DEF Inbox!SeenIsKept
    <2>5. Bounded'
      <3>1. seen' \subseteq Messages /\ seen \subseteq seen'
        BY <1>1, <1>4, <2>2, InboxFacts, CallTypes
      <3>2. conv'.unread \in 0..Bound /\ since' \in 0..Bound /\ call[t].saw.unread \in 0..Bound
        BY <1>1, OldBounds
      <3>3. call'[t].item \notin seen
        BY <1>4 DEF Turned
      <3> QED BY <1>4, <3>1, <3>2, <3>3, BoundsKept
    <2>6. CountKept'
      BY <1>1, InboxFacts DEF CountKept
    <2>7. CacheKept'
      BY <1>1, <1>4, InboxFacts, CacheFrame DEF Dropping
    <2>8. Inbox!TypeOK'
      BY <1>1, <1>4, <2>2 DEF Inbox!TypeOK, Turned
    <2> QED BY <2>3, <2>4, <2>5, <2>6, <2>7, <2>8 DEF InboxInv
  <1> QED BY <1>1, <1>3, <1>4, NextMessageTurns

LEMMA IngestFailsInv == ASSUME InboxInv, NEW t \in Tasks, Inbox!IngestFails(t) PROVE InboxInv'
  <1>1. /\ UNCHANGED <<arrived, seen, conv, stored, cache, sends, since, raced>>
        /\ failed' = failed \cup {call[t].item} /\ late' = late \cup Inbox!Filling /\ stale' = TRUE
        /\ Taking(call[t]) /\ Itemed(call[t]) /\ Inbox!TypeOK
    BY InboxFacts DEF Inbox!IngestFails, Taking
  <1>2. Turned(t, "free", {}, Nil, Inbox!NoRow)
    BY <1>1, EndsTurns DEF Inbox!IngestFails
  <1>3. Grows
    BY <1>1 DEF Grows
  <1>4. CallsHold'
    <2>1. Rowed(call[t])' /\ Itemed(call[t])'
      BY <1>2, CardFacts DEF Rowed, Itemed, Taking, Turned
    <2> QED BY <1>2, <1>3, <2>1, InboxFacts, CallsFrame
  <1>5. Inbox!SeenIsKept'
    BY <1>1, <1>2, <1>3, InboxFacts, SeenFrame
  <1>6. Bounded'
    <2>1. seen' \subseteq Messages /\ Inbox!NoRow.unread \in 0..Bound /\ conv'.unread \in 0..Bound
          /\ since' \in 0..Bound
      BY <1>1, InboxFacts, CallTypes, CardFacts, OldBounds
    <2>2. ~Taking(call'[t])
      BY <1>2 DEF Taking, Turned
    <2> QED BY <1>1, <1>2, <2>1, <2>2, BoundsKept
  <1>7. CountKept'
    BY <1>1, InboxFacts DEF CountKept
  <1>8. CacheKept'
    BY <1>1, <1>2, AllLate
  <1>9. Inbox!TypeOK'
    <2>1. failed' \subseteq seen' /\ late' \subseteq Tasks
      BY <1>1 DEF Itemed, Inbox!TypeOK, Inbox!Filling
    <2> QED BY <1>1, <1>2, <2>1 DEF Inbox!TypeOK, Turned
  <1> QED BY <1>4, <1>5, <1>6, <1>7, <1>8, <1>9 DEF InboxInv

LEMMA RowUpdates ==
  ASSUME NEW x \in Inbox!Row, NEW n \in Inbox!Unread
  PROVE  /\ [x EXCEPT !.unread = n] \in Inbox!Row
         /\ [x EXCEPT !.unread = n].there = x.there /\ [x EXCEPT !.unread = n].unread = n
  BY DEF Inbox!Row

\* A step that saves the row, by a call that takes in what it took in.
LEMMA SavesInv ==
  ASSUME InboxInv, NEW t \in Tasks, NEW at,
         Turned(t, at, call[t].left, call[t].item, call[t].saw), Rowed(call[t])', Itemed(call[t])',
         Taking(call'[t]) => Taking(call[t]),
         conv' \in Inbox!Row, conv'.there, conv'.unread \in 0..Bound, since' \in 0..Bound,
         stored \subseteq stored', stored' \subseteq arrived, raced' \in BOOLEAN, CountKept',
         CacheKept', late' \subseteq Tasks, stale' \in BOOLEAN, cache' \in Inbox!Unread \cup {Nil},
         UNCHANGED <<arrived, seen, sends, failed>>
  PROVE  InboxInv'
  <1>1. Grows /\ Inbox!TypeOK
    BY InboxFacts DEF Grows
  <1>2. CallsHold'
    BY <1>1, InboxFacts, CallsFrame
  <1>3. Inbox!SeenIsKept'
    BY <1>1, InboxFacts, SeenFrame
  <1>4. Bounded' /\ since' \in Inbox!Unread
    <2>1. seen' \subseteq Messages /\ call[t].saw.unread \in 0..Bound
      BY <1>1, InboxFacts, CallTypes, OldBounds
    <2>2. call'[t].item = call[t].item
      BY DEF Turned
    <2> QED BY <2>1, <2>2, BoundsKept
  <1>5. Inbox!TypeOK'
    BY <1>1, <1>4 DEF Inbox!TypeOK, Turned
  <1> QED BY <1>2, <1>3, <1>4, <1>5 DEF InboxInv

LEMMA CreateInv == ASSUME InboxInv, NEW t \in Tasks, Inbox!Create(t) PROVE InboxInv'
  <1> DEFINE c == call[t]
  <1>1. /\ UNCHANGED <<arrived, seen, stored, cache, sends, failed, since, late, stale>>
        /\ c.at = "create" /\ Itemed(c) /\ Rowed(c) /\ Inbox!TypeOK /\ c.saw \in Inbox!Row
        /\ raced' = (raced \/ c.saw # conv)
    BY InboxFacts, CallTypes DEF Inbox!Create, Inbox!Overtakes
  <1>2. PICK avatar \in BOOLEAN : conv' = [there |-> TRUE, unread |-> c.saw.unread, avatar |-> avatar]
    BY DEF Inbox!Create
  <1>3. Turned(t, "append", c.left, c.item, c.saw)
    BY <1>1, GoesTurns DEF Inbox!Create, Inbox!Awaits
  <1>4. conv' \in Inbox!Row /\ conv'.there /\ conv'.unread = c.saw.unread
    <2>1. c.saw.unread \in Inbox!Unread
      BY <1>1 DEF Inbox!Row
    <2> QED BY <1>2, <2>1 DEF Inbox!Row
  <1>5. Rowed(c)' /\ Itemed(c)' /\ Taking(c)
    BY <1>1, <1>3, <1>4 DEF Rowed, Itemed, Taking, Turned
  <1>6. CountKept'
    BY <1>1, <1>4, InboxFacts DEF CountKept
  <1>7. CacheKept'
    BY <1>1, <1>3, InboxFacts, CacheFrame DEF Dropping
  <1>8. conv'.unread \in 0..Bound /\ since' \in 0..Bound
    BY <1>1, <1>4, OldBounds
  <1>9. /\ stored \subseteq stored' /\ stored' \subseteq arrived /\ raced' \in BOOLEAN
        /\ late' \subseteq Tasks /\ stale' \in BOOLEAN /\ cache' \in Inbox!Unread \cup {Nil}
    BY <1>1 DEF Inbox!TypeOK
  <1> QED BY <1>1, <1>3, <1>4, <1>5, <1>6, <1>7, <1>8, <1>9, SavesInv

LEMMA LoadInv == ASSUME InboxInv, NEW t \in Tasks, Inbox!Load(t) PROVE InboxInv'
  <1> DEFINE c == call[t]
  <1>1. /\ UNCHANGED <<arrived, seen, cache, sends, failed, since, late, stale>> /\ stored' = arrived
        /\ c.at = "list" /\ Itemed(c) /\ Rowed(c) /\ Inbox!TypeOK /\ c.saw \in Inbox!Row
        /\ raced' = (raced \/ c.saw # conv)
    BY InboxFacts, CallTypes DEF Inbox!Load, Inbox!Overtakes
  <1>2. PICK avatar \in {c.saw.avatar, TRUE} : conv' = [c.saw EXCEPT !.avatar = avatar]
    BY DEF Inbox!Load
  <1>3. Turned(t, "load", c.left, c.item, c.saw)
    BY <1>1, GoesTurns DEF Inbox!Load, Inbox!Awaits
  <1>4. avatar \in BOOLEAN
    BY <1>1 DEF Inbox!Row
  <1>5. conv' \in Inbox!Row /\ conv'.there = c.saw.there /\ conv'.unread = c.saw.unread
    <2>1. c.saw \in Inbox!Row
      BY <1>1
    <2> HIDE DEF c
    <2> QED BY <1>2, <1>4, <2>1 DEF Inbox!Row
  <1>6. conv'.there
    BY <1>1, <1>5 DEF Rowed
  <1>7. Rowed(c)' /\ Itemed(c)' /\ ~Taking(call'[t])
    BY <1>1, <1>3, <1>6 DEF Rowed, Itemed, Taking, Turned
  <1>8. CountKept'
    BY <1>1, <1>5, <1>6, InboxFacts DEF CountKept
  <1>9. CacheKept'
    BY <1>1, <1>3, InboxFacts, CacheFrame DEF Dropping
  <1>10. conv'.unread \in 0..Bound /\ since' \in 0..Bound
    BY <1>1, <1>5, OldBounds
  <1>11. /\ stored \subseteq stored' /\ stored' \subseteq arrived /\ raced' \in BOOLEAN
         /\ late' \subseteq Tasks /\ stale' \in BOOLEAN /\ cache' \in Inbox!Unread \cup {Nil}
    BY <1>1 DEF Inbox!TypeOK
  <1> QED BY <1>1, <1>3, <1>5, <1>6, <1>7, <1>8, <1>9, <1>10, <1>11, SavesInv

LEMMA ZeroInv == ASSUME InboxInv, NEW t \in Tasks, Inbox!Zero(t) PROVE InboxInv'
  <1> DEFINE c == call[t]
  <1>1. /\ UNCHANGED <<arrived, seen, stored, cache, sends, failed, raced>> /\ since' = 0
        /\ c.at = "zero" /\ Itemed(c) /\ Rowed(c) /\ Inbox!TypeOK /\ conv \in Inbox!Row
        /\ conv' = [conv EXCEPT !.unread = 0]
    BY InboxFacts, CallTypes DEF Inbox!Zero
  <1>2. Turned(t, "compare", c.left, c.item, c.saw)
    BY <1>1, GoesTurns DEF Inbox!Zero, Inbox!Awaits
  <1>3. conv' \in Inbox!Row /\ conv'.there = conv.there /\ conv'.unread = 0
    <2>1. 0 \in Inbox!Unread
      BY CardFacts
    <2> QED BY <1>1, <2>1, RowUpdates
  <1>4. conv'.there
    BY <1>1, <1>3 DEF Rowed
  <1>5. Rowed(c)' /\ Itemed(c)' /\ ~Taking(call'[t])
    BY <1>1, <1>2, <1>4 DEF Rowed, Itemed, Taking, Turned
  <1>6. CountKept'
    BY <1>1, <1>3, <1>4 DEF CountKept
  <1>7. CacheKept' /\ late' \subseteq Tasks /\ stale' \in BOOLEAN
    <2>1. CASE c.saw.unread = conv.unread
      <3>1. late' = late /\ stale' = stale
        BY <2>1 DEF Inbox!Zero
      <3>2. CacheKept'
        BY <1>1, <1>2, <2>1, <3>1, InboxFacts, CacheFrame DEF Dropping
      <3> QED BY <1>1, <3>1, <3>2 DEF Inbox!TypeOK
    <2>2. CASE c.saw.unread # conv.unread
      <3>1. late' = late \cup Inbox!Filling /\ stale' = TRUE
        BY <2>2 DEF Inbox!Zero
      <3>2. CacheKept'
        BY <1>2, <3>1, AllLate
      <3> QED BY <1>1, <3>1, <3>2 DEF Inbox!TypeOK, Inbox!Filling
    <2> QED BY <2>1, <2>2
  <1>8. conv'.unread \in 0..Bound /\ since' \in 0..Bound
    BY <1>1, <1>3, OldBounds
  <1>9. /\ stored \subseteq stored' /\ stored' \subseteq arrived /\ raced' \in BOOLEAN
        /\ cache' \in Inbox!Unread \cup {Nil}
    BY <1>1 DEF Inbox!TypeOK
  <1> QED BY <1>1, <1>2, <1>3, <1>4, <1>5, <1>6, <1>7, <1>8, <1>9, SavesInv

LEMMA RestoreInv == ASSUME InboxInv, NEW t \in Tasks, Inbox!Restore(t) PROVE InboxInv'
  <1> DEFINE c == call[t]
  <1>1. /\ UNCHANGED <<arrived, seen, stored, cache, sends, failed, late, stale>>
        /\ c.at = "chats" /\ Itemed(c) /\ Rowed(c) /\ Inbox!TypeOK
        /\ raced' = (raced \/ c.saw # conv)
    BY InboxFacts DEF Inbox!Restore, Inbox!Overtakes
  <1>2. PICK n \in 0..Inbox!Cardinality(arrived), avatar \in BOOLEAN :
          /\ conv' = [there |-> TRUE, unread |-> n, avatar |-> avatar]
          /\ since' = n
    BY DEF Inbox!Restore
  <1>3. n \in 0..Cardinality(Messages)
    <2>1. arrived \in SUBSET Messages /\ IsFiniteSet(Messages)
      BY <1>1, CallTypes, LegacyAssumption DEF LegacyAssumption
    <2>2. /\ Cardinality(arrived) <= Cardinality(Messages) /\ Cardinality(arrived) \in Nat
          /\ Cardinality(Messages) \in Nat
      BY <2>1, FS_Subset, FS_CardinalityType
    <2>3. n \in 0..Cardinality(arrived)
      BY <1>2, SameCardinality
    <2> QED BY <2>2, <2>3
  <1>4. Turned(t, "drop", c.left, c.item, c.saw)
    BY <1>1, GoesTurns DEF Inbox!Restore, Inbox!Awaits
  <1>5. n \in 0..Bound /\ n \in Inbox!Unread
    BY <1>3, OldBounds
  <1>6. conv' \in Inbox!Row /\ conv'.there /\ conv'.unread = n
    BY <1>2, <1>5 DEF Inbox!Row
  <1>7. Rowed(c)' /\ Itemed(c)' /\ ~Taking(call'[t])
    BY <1>1, <1>4, <1>6 DEF Rowed, Itemed, Taking, Turned
  <1>8. CountKept'
    BY <1>2, <1>6 DEF CountKept
  <1>9. CacheKept'
    BY <1>1, <1>4, InboxFacts, CacheFrame DEF Dropping
  <1>10. /\ stored \subseteq stored' /\ stored' \subseteq arrived /\ raced' \in BOOLEAN
         /\ late' \subseteq Tasks /\ stale' \in BOOLEAN /\ cache' \in Inbox!Unread \cup {Nil}
    BY <1>1 DEF Inbox!TypeOK
  <1> QED BY <1>1, <1>2, <1>4, <1>5, <1>6, <1>7, <1>8, <1>9, <1>10, SavesInv

LEMMA SentCountInv == ASSUME InboxInv, NEW t \in Tasks, Inbox!SentCount(t) PROVE InboxInv'
  <1> DEFINE c == call[t]
  <1>1. /\ UNCHANGED <<arrived, seen, stored, cache, sends, failed, since, late, stale>>
        /\ c.at = "outcount" /\ Itemed(c) /\ Rowed(c) /\ Inbox!TypeOK /\ conv \in Inbox!Row
        /\ c.saw \in Inbox!Row /\ conv' = [conv EXCEPT !.unread = c.saw.unread]
        /\ raced' = (raced \/ c.saw.unread # conv.unread)
    BY InboxFacts, CallTypes DEF Inbox!SentCount
  <1>2. Turned(t, "drop", c.left, c.item, c.saw)
    BY <1>1, GoesTurns DEF Inbox!SentCount, Inbox!Awaits
  <1>3. conv' \in Inbox!Row /\ conv'.there = conv.there /\ conv'.unread = c.saw.unread
    <2>1. c.saw.unread \in Inbox!Unread
      BY <1>1 DEF Inbox!Row
    <2> QED BY <1>1, <2>1, RowUpdates
  <1>4. conv'.there
    BY <1>1, <1>3 DEF Rowed
  <1>5. Rowed(c)' /\ Itemed(c)' /\ ~Taking(call'[t])
    BY <1>1, <1>2, <1>4 DEF Rowed, Itemed, Taking, Turned
  <1>6. CountKept'
    BY <1>1, <1>3, <1>4, InboxFacts DEF CountKept
  <1>7. CacheKept'
    BY <1>1, <1>2, InboxFacts, CacheFrame DEF Dropping
  <1>8. conv'.unread \in 0..Bound /\ since' \in 0..Bound
    BY <1>1, <1>3, OldBounds
  <1>9. /\ stored \subseteq stored' /\ stored' \subseteq arrived /\ raced' \in BOOLEAN
        /\ late' \subseteq Tasks /\ stale' \in BOOLEAN /\ cache' \in Inbox!Unread \cup {Nil}
    BY <1>1 DEF Inbox!TypeOK
  <1> QED BY <1>1, <1>2, <1>3, <1>4, <1>5, <1>6, <1>7, <1>8, <1>9, SavesInv

\* The message that is counted raises the bound, nobody else taking it in.
LEMMA CountInv == ASSUME InboxInv, NEW t \in Tasks, Inbox!Count(t) PROVE InboxInv'
  <1> DEFINE c == call[t]
  <1>1. /\ UNCHANGED <<arrived, seen, cache, sends, failed, late, stale>>
        /\ c.at = "count" /\ Itemed(c) /\ Rowed(c) /\ Inbox!TypeOK /\ conv \in Inbox!Row
        /\ c.saw \in Inbox!Row /\ c.saw.there
    BY InboxFacts, CallTypes DEF Inbox!Count, Rowed
  <1>2. /\ stored' = stored \cup {c.item} /\ conv' = [conv EXCEPT !.unread = c.saw.unread + 1]
        /\ since' = since + 1 /\ raced' = (raced \/ c.saw.unread # conv.unread)
    BY <1>1 DEF Inbox!Count
  <1>3. Turned(t, "drop", c.left, c.item, c.saw)
    BY <1>1, GoesTurns DEF Inbox!Count, Inbox!Awaits
  <1>4. c.item # Nil /\ c.item \in seen /\ seen \subseteq arrived /\ arrived \subseteq Messages
    BY <1>1, CallTypes DEF Itemed, Taking, Inbox!TypeOK
  <1>5. Grows
    BY <1>1, <1>2 DEF Grows, Inbox!Row
  <1>6. conv'.there
    BY <1>1, <1>5 DEF Grows, Rowed
  <1>7. CallsHold'
    <2>1. Rowed(c)' /\ Itemed(c)'
      BY <1>1, <1>2, <1>3, <1>4, <1>6 DEF Rowed, Itemed, Taking, Turned
    <2> QED BY <1>3, <1>5, <2>1, InboxFacts, CallsFrame
  <1>8. Inbox!SeenIsKept'
    BY <1>1, <1>3, <1>5, InboxFacts, SeenFrame
  <1>9. Bound \in Nat /\ Bound' \in Nat /\ Bound + 1 <= Bound' /\ Bound' <= 2 * Cardinality(Messages)
    <2>1. ~Taking(call'[t]) /\ Taking(c)
      BY <1>1, <1>3 DEF Taking, Turned
    <2>2. Counted \subseteq Counted'
      BY <1>1, <1>3, <2>1, CountedFrame
    <2>3. c.item \notin Counted
      BY <2>1 DEF Counted
    <2>4. \A u \in Tasks : Taking(call'[u]) => call'[u].item # c.item
      <3>1. \A u \in Tasks \ {t} : call'[u] = call[u] /\ call[u].item # c.item
        BY <1>3, <1>4, InboxFacts DEF Turned, Inbox!SeenIsKept
      <3> QED BY <2>1, <3>1
    <2>5. c.item \in Counted'
      BY <1>1, <1>4, <2>4 DEF Counted, Taking
    <2>6. seen' \subseteq Messages
      BY <1>1, <1>4
    <2> QED BY <2>2, <2>3, <2>5, <2>6, BoundGrows
  <1>10. c.saw.unread \in 0..Bound /\ since \in 0..Bound
    BY OldBounds
  <1> HIDE DEF c
  <1>11. c.saw.unread + 1 \in Inbox!Unread /\ c.saw.unread + 1 <= Bound' /\ c.saw.unread + 1 \in Nat
         /\ since + 1 \in Inbox!Unread /\ since + 1 <= Bound' /\ since + 1 \in Nat
         /\ c.saw.unread \in Nat /\ c.saw.unread <= Bound' /\ Bound <= Bound'
    <2> HIDE DEF Bound
    <2> QED BY <1>9, <1>10, CardFacts
  <1>12. /\ conv' \in Inbox!Row /\ conv'.there = conv.there /\ conv'.unread = c.saw.unread + 1
    BY <1>1, <1>2, <1>11, RowUpdates
  <1>13. Bounded'
    BY <1>2, <1>3, <1>9, <1>11, <1>12, BoundedFrame
  <1>14. CountKept'
    BY <1>1, <1>2, <1>6, <1>12, InboxFacts DEF CountKept
  <1>15. CacheKept'
    BY <1>1, <1>3, InboxFacts, CacheFrame DEF Dropping, c
  <1>16. Inbox!TypeOK'
    BY <1>1, <1>2, <1>3, <1>4, <1>6, <1>11, <1>12 DEF Inbox!TypeOK, Turned
  <1> QED BY <1>7, <1>8, <1>13, <1>14, <1>15, <1>16 DEF InboxInv

\* A step that leaves the row and the messages alone, and at whose end nothing is taken in.
LEMMA RestsInv ==
  ASSUME InboxInv, NEW t \in Tasks, NEW at, NEW left, NEW item, NEW saw,
         Turned(t, at, left, item, saw), Rowed(call[t])', Itemed(call[t])', ~Taking(call'[t]),
         item = call[t].item \/ (item = Nil /\ (call[t].item # Nil => call[t].item \in stored)),
         saw.unread \in {call[t].saw.unread, 0}, CacheKept',
         late' \subseteq Tasks, stale' \in BOOLEAN, cache' \in Inbox!Unread \cup {Nil},
         UNCHANGED <<arrived, seen, conv, stored, sends, failed, since, raced>>
  PROVE  InboxInv'
  <1>1. Grows /\ Inbox!TypeOK
    BY InboxFacts DEF Grows
  <1>2. CallsHold'
    BY <1>1, InboxFacts, CallsFrame
  <1>3. Inbox!SeenIsKept'
    BY <1>1, InboxFacts, SeenFrame
  <1>4. Bounded'
    <2>1. /\ seen' \subseteq Messages /\ saw.unread \in 0..Bound /\ conv'.unread \in 0..Bound
          /\ since' \in 0..Bound
      BY <1>1, InboxFacts, CallTypes, OldBounds
    <2> QED BY <2>1, BoundsKept
  <1>5. CountKept'
    BY InboxFacts DEF CountKept
  <1>6. Inbox!TypeOK'
    BY <1>1 DEF Inbox!TypeOK, Turned
  <1> QED BY <1>2, <1>3, <1>4, <1>5, <1>6 DEF InboxInv

LEMMA DropInv == ASSUME InboxInv, NEW t \in Tasks, Inbox!Drop(t) PROVE InboxInv'
  <1>1. /\ UNCHANGED <<arrived, seen, conv, stored, sends, failed, since, raced>>
        /\ cache' = Nil /\ stale' = FALSE /\ late' = Inbox!Filling
        /\ call[t].at = "drop" /\ Itemed(call[t]) /\ Rowed(call[t]) /\ Inbox!TypeOK
    BY InboxFacts DEF Inbox!Drop, Inbox!Invalidates
  <1>2. PICK at \in {"free", "next"}, left \in {{}, call[t].left} :
          Turned(t, at, left, Nil, Inbox!NoRow)
    BY <1>1, DropTurns
  <1>3. Rowed(call[t])' /\ Itemed(call[t])' /\ ~Taking(call'[t])
    BY <1>1, <1>2, CardFacts DEF Rowed, Itemed, Taking, Turned
  <1>4. CacheKept' /\ late' \subseteq Tasks
    BY <1>1, <1>2, AllLate DEF Inbox!Filling
  <1>5. call[t].item # Nil => call[t].item \in stored
    BY <1>1 DEF Itemed
  <1> QED BY <1>1, <1>2, <1>3, <1>4, <1>5, CardFacts, RestsInv

LEMMA LoadInvalidatesInv ==
  ASSUME InboxInv, NEW t \in Tasks, Inbox!LoadInvalidates(t)
  PROVE  InboxInv'
  <1>1. /\ UNCHANGED <<arrived, seen, conv, stored, sends, failed, since, raced>>
        /\ cache' = Nil /\ stale' = FALSE /\ late' = Inbox!Filling
        /\ call[t].at = "load" /\ Itemed(call[t]) /\ Rowed(call[t]) /\ Inbox!TypeOK
    BY InboxFacts DEF Inbox!LoadInvalidates, Inbox!Invalidates
  <1>2. Turned(t, "look", call[t].left, call[t].item, call[t].saw)
    BY <1>1, GoesTurns DEF Inbox!LoadInvalidates, Inbox!Awaits
  <1>3. Rowed(call[t])' /\ Itemed(call[t])' /\ ~Taking(call'[t])
    BY <1>1, <1>2 DEF Rowed, Itemed, Taking, Turned
  <1>4. CacheKept' /\ late' \subseteq Tasks
    BY <1>1, <1>2, AllLate DEF Inbox!Filling
  <1> QED BY <1>1, <1>2, <1>3, <1>4, RestsInv

LEMMA CachedInv == ASSUME InboxInv, NEW t \in Tasks, Inbox!Cached(t) PROVE InboxInv'
  <1>1. /\ UNCHANGED <<arrived, seen, conv, stored, sends, failed, since, raced>>
        /\ cache' = call[t].saw.unread /\ stale' = (t \in late) /\ late' = late \ {t}
        /\ call[t].at = "cached" /\ Itemed(call[t]) /\ Rowed(call[t]) /\ Inbox!TypeOK
    BY InboxFacts DEF Inbox!Cached
  <1>2. Turned(t, "free", {}, Nil, Inbox!NoRow)
    BY <1>1, EndsTurns DEF Inbox!Cached
  <1>3. Rowed(call[t])' /\ Itemed(call[t])' /\ ~Taking(call'[t])
    BY <1>2, CardFacts DEF Rowed, Itemed, Taking, Turned
  <1>4. CacheKept'
    <2>1. \A v : Explained(v, conv.unread, call) => Explained(v, conv'.unread, call')
      BY <1>1, <1>2, ExplainedFrame DEF Dropping
    <2>2. CacheKept
      BY InboxFacts
    <2>3. cache' # Nil /\ ~stale' => Explained(cache', conv'.unread, call')
      BY <1>1, <2>1, <2>2 DEF CacheKept
    <2>4. ASSUME NEW u \in Tasks \ late', call'[u].at = "cached"
          PROVE  Explained(call'[u].saw.unread, conv'.unread, call')
      <3>1. u # t /\ call'[u] = call[u]
        BY <1>2, <2>4 DEF Turned
      <3> QED BY <1>1, <2>1, <2>2, <2>4, <3>1 DEF CacheKept
    <2> QED BY <2>3, <2>4 DEF CacheKept
  <1>5. call[t].item = Nil
    BY <1>1 DEF Itemed, Taking
  <1>6. cache' \in Inbox!Unread /\ late' \subseteq Tasks /\ stale' \in BOOLEAN
    BY <1>1, OldBounds DEF Inbox!TypeOK
  <1> QED BY <1>1, <1>2, <1>3, <1>4, <1>5, <1>6, CardFacts, RestsInv

\* Nobody's step: the calls stand still.
LEMMA StillInv ==
  ASSUME InboxInv,
         \/ \E m \in Messages : Inbox!Arrives(m)
         \/ Inbox!Expire
         \/ UNCHANGED inbox
  PROVE  InboxInv'
  <1>1. /\ UNCHANGED <<seen, conv, stored, call, sends, failed, since, raced, late>>
        /\ arrived \subseteq arrived' /\ arrived' \subseteq Messages
        /\ \/ cache' = Nil /\ stale' = FALSE
           \/ UNCHANGED <<cache, stale>>
    BY InboxFacts, CallTypes DEF Inbox!Arrives, Inbox!Expire, Inbox!history, inbox
  <1>2. Inbox!TypeOK'
    BY <1>1, InboxFacts DEF Inbox!TypeOK
  <1>3. CallsHold'
    BY <1>1, InboxFacts DEF CallsHold, Rowed, Itemed, Taking
  <1>4. Inbox!SeenIsKept'
    BY <1>1, InboxFacts DEF Inbox!SeenIsKept
  <1>5. Bounded'
    <2>1. Counted' = Counted
      BY <1>1 DEF Counted, Taking
    <2> QED BY <1>1, <2>1, InboxFacts DEF Bounded, Bound
  <1>6. CountKept'
    BY <1>1, InboxFacts DEF CountKept
  <1>7. CacheKept'
    BY <1>1, InboxFacts DEF CacheKept, Explained
  <1> QED BY <1>2, <1>3, <1>4, <1>5, <1>6, <1>7 DEF InboxInv

LEMMA InitInbox == Inbox!Init => InboxInv
  <1> SUFFICES ASSUME Inbox!Init PROVE InboxInv
    OBVIOUS
  <1>1. /\ arrived = {} /\ seen = {} /\ stored = {} /\ conv = Inbox!NoRow /\ cache = Nil /\ sends = 0
        /\ failed = {} /\ since = 0 /\ raced = FALSE /\ late = {} /\ stale = FALSE
    BY DEF Inbox!Init
  <1>2. /\ call \in [Tasks -> Inbox!Task]
        /\ \A t \in Tasks : /\ call[t].at = "free" /\ call[t].left = {} /\ call[t].item = Nil
                            /\ call[t].saw = Inbox!NoRow
    BY FreeCall DEF Inbox!Init
  <1>3. 0 \in 0..MaxSends
    BY LegacyAssumption DEF LegacyAssumption
  <1>4. Inbox!TypeOK
    BY <1>1, <1>2, <1>3, CardFacts DEF Inbox!TypeOK
  <1>5. CallsHold
    BY <1>1, <1>2, CardFacts DEF CallsHold, Rowed, Itemed, Taking
  <1>6. Inbox!SeenIsKept
    BY <1>1, <1>2 DEF Inbox!SeenIsKept
  <1>7. Bounded
    <2>1. Counted = {}
      BY <1>1 DEF Counted
    <2>2. Bound = Cardinality(Messages) + 0
      BY <2>1, FS_EmptySet DEF Bound
    <2>3. 0 <= Bound
      BY <2>2, CardFacts
    <2> QED BY <1>1, <1>2, <2>3, CardFacts DEF Bounded
  <1>8. CountKept
    BY <1>1, CardFacts DEF CountKept
  <1>9. CacheKept
    BY <1>1, <1>2 DEF CacheKept
  <1> QED BY <1>4, <1>5, <1>6, <1>7, <1>8, <1>9 DEF InboxInv

LEMMA NextInbox == InboxInv /\ [Inbox!Next]_inbox => InboxInv'
  <1> SUFFICES ASSUME InboxInv, [Inbox!Next]_inbox PROVE InboxInv'
    OBVIOUS
  <1>1. ASSUME NEW t \in Tasks,
               \/ Walks(t) \/ Inbox!NextMessage(t) \/ Inbox!Create(t) \/ Inbox!Count(t)
               \/ Inbox!IngestFails(t) \/ Inbox!Drop(t) \/ Inbox!Load(t) \/ Inbox!LoadInvalidates(t)
               \/ Inbox!Zero(t) \/ Inbox!Restore(t) \/ Inbox!SentCount(t) \/ Inbox!Cached(t)
        PROVE  InboxInv'
    BY <1>1, WalksInv, NextMessageInv, CreateInv, CountInv, IngestFailsInv, DropInv, LoadInv,
       LoadInvalidatesInv, ZeroInv, RestoreInv, SentCountInv, CachedInv
  <1>2. CASE Inbox!Next
    BY <1>1, <1>2, StillInv DEF Inbox!Next, Walks
  <1>3. CASE UNCHANGED inbox
    BY <1>3, StillInv
  <1> QED BY <1>2, <1>3

LEMMA InboxKept ==
  InboxInv => Inbox!TypeOK /\ Inbox!SeenIsKept /\ Inbox!UnreadKept /\ Inbox!CacheExplained
  <1> SUFFICES ASSUME InboxInv
               PROVE  Inbox!TypeOK /\ Inbox!SeenIsKept /\ Inbox!UnreadKept /\ Inbox!CacheExplained
    OBVIOUS
  <1>1. Inbox!UnreadKept
    BY InboxFacts DEF CountKept, Inbox!UnreadKept
  <1>2. Inbox!CacheExplained
    BY InboxFacts DEF CacheKept, Explained, Inbox!CacheExplained, Inbox!Quiet
  <1> QED BY <1>1, <1>2, InboxFacts

--------------------------------------------------------------------------------
(* The sockets of the other engine.                                               *)

JobsHold == \A j \in Tasks : JobHolds(job[j])

SocketTypes ==
  /\ socket \in Runtimes \cup {Nil} /\ ended \subseteq open /\ open \subseteq Runtimes
  /\ reconnecting \in BOOLEAN /\ job \in [Tasks -> Engine!Job]
  /\ told \in Engine!Words \cup {"none"} /\ replaced \subseteq Runtimes /\ muddled \in BOOLEAN

SocketInv == SocketTypes /\ JobsHold /\ OneRetry /\ SocketsOwned /\ ToBeTold

LEMMA SocketFacts ==
  ASSUME SocketInv
  PROVE  /\ SocketTypes /\ JobsHold /\ OneRetry /\ SocketsOwned /\ ToBeTold
         /\ \A j \in Tasks : job[j] \in Engine!Job /\ JobHolds(job[j])
         /\ Nil \notin Runtimes
  BY WppAssumption DEF SocketInv, SocketTypes, JobsHold, WppAssumption

\* The words of the callbacks.
WordLists ==
  {<<>>, <<"qr">>, <<"syncing", "ready">>, <<"ready">>, <<"gone">>, <<"failed">>}

LEMMA JobFacts ==
  ASSUME NEW at \in {"free", "auth", "wait", "say"}, NEW says \in WordLists,
         NEW of \in Runtimes \cup {Nil}, NEW retry \in BOOLEAN
  PROVE  LET k == [at |-> at, says |-> says, of |-> of, retry |-> retry] IN
           /\ k \in Engine!Job /\ k.at = at /\ k.says = says /\ k.of = of /\ k.retry = retry
  BY DEF Engine!Job, WordLists

\* One job becomes another.
Becoming(j, at, says, of, retry) ==
  /\ job' \in [Tasks -> Engine!Job]
  /\ job'[j].at = at /\ job'[j].says = says /\ job'[j].of = of /\ job'[j].retry = retry
  /\ \A i \in Tasks \ {j} : job'[i] = job[i]

LEMMA BecomesOne ==
  ASSUME SocketTypes, NEW j \in Tasks, NEW at \in {"free", "auth", "wait", "say"},
         NEW says \in WordLists, NEW of \in Runtimes \cup {Nil}, NEW retry \in BOOLEAN,
         job' = [job EXCEPT ![j] = [at |-> at, says |-> says, of |-> of, retry |-> retry]]
  PROVE  Becoming(j, at, says, of, retry)
  <1> DEFINE new == [at |-> at, says |-> says, of |-> of, retry |-> retry]
  <1>1. new \in Engine!Job
    BY JobFacts
  <1>2. job' = [job EXCEPT ![j] = new] /\ job \in [Tasks -> Engine!Job]
    BY DEF SocketTypes
  <1> HIDE DEF new
  <1>3. job' \in [Tasks -> Engine!Job] /\ job'[j] = new /\ \A i \in Tasks \ {j} : job'[i] = job[i]
    BY <1>1, <1>2
  <1>4. new.at = at /\ new.says = says /\ new.of = of /\ new.retry = retry
    BY DEF new
  <1> QED BY <1>3, <1>4 DEF Becoming

\* A job that is free holds nothing else.
LEMMA FreeJob ==
  ASSUME NEW k \in Engine!Job, k.at = "free", k.says = <<>>, k.of = Nil, k.retry = FALSE
  PROVE  k = Engine!Free
  BY DEF Engine!Job, Engine!Free

\* The records of the jobs that Says, a close, and a reconnection make of a free one.
IsJob(k) == k = [at |-> k.at, says |-> k.says, of |-> k.of, retry |-> k.retry]

LEMMA FreeSays ==
  ASSUME NEW at, NEW words, NEW s
  PROVE  [Engine!Free EXCEPT !.at = at, !.says = words, !.of = s]
           = [at |-> at, says |-> words, of |-> s, retry |-> FALSE]
  <1> DEFINE f == Engine!Free
             g == [f EXCEPT !.at = at]
             h == [g EXCEPT !.says = words]
             i == [h EXCEPT !.of = s]
  <1>1. IsJob(f) /\ f.at = "free" /\ f.says = <<>> /\ f.of = Nil /\ f.retry = FALSE
    BY DEF IsJob, Engine!Free
  <1> HIDE DEF f
  <1>2. IsJob(g) /\ g.at = at /\ g.says = <<>> /\ g.of = Nil /\ g.retry = FALSE
    BY <1>1 DEF IsJob
  <1> HIDE DEF g
  <1>3. IsJob(h) /\ h.at = at /\ h.says = words /\ h.of = Nil /\ h.retry = FALSE
    BY <1>2 DEF IsJob
  <1> HIDE DEF h
  <1>4. IsJob(i) /\ i.at = at /\ i.says = words /\ i.of = s /\ i.retry = FALSE
    BY <1>3 DEF IsJob
  <1> HIDE DEF i
  <1>5. i = [at |-> at, says |-> words, of |-> s, retry |-> FALSE]
    BY <1>4 DEF IsJob
  <1> QED BY <1>5 DEF f, g, h, i

LEMMA FreeWaits ==
  ASSUME NEW s, NEW yes
  PROVE  [Engine!Free EXCEPT !.at = "wait", !.of = s, !.retry = yes]
           = [at |-> "wait", says |-> <<>>, of |-> s, retry |-> yes]
  <1> DEFINE f == Engine!Free
             g == [f EXCEPT !.at = "wait"]
             h == [g EXCEPT !.of = s]
             i == [h EXCEPT !.retry = yes]
  <1>1. IsJob(f) /\ f.at = "free" /\ f.says = <<>> /\ f.of = Nil /\ f.retry = FALSE
    BY DEF IsJob, Engine!Free
  <1> HIDE DEF f
  <1>2. IsJob(g) /\ g.at = "wait" /\ g.says = <<>> /\ g.of = Nil /\ g.retry = FALSE
    BY <1>1 DEF IsJob
  <1> HIDE DEF g
  <1>3. IsJob(h) /\ h.at = "wait" /\ h.says = <<>> /\ h.of = s /\ h.retry = FALSE
    BY <1>2 DEF IsJob
  <1> HIDE DEF h
  <1>4. IsJob(i) /\ i.at = "wait" /\ i.says = <<>> /\ i.of = s /\ i.retry = yes
    BY <1>3 DEF IsJob
  <1> HIDE DEF i
  <1>5. i = [at |-> "wait", says |-> <<>>, of |-> s, retry |-> yes]
    BY <1>4 DEF IsJob
  <1> QED BY <1>5 DEF f, g, h, i

LEMMA FreeRetries ==
  ASSUME NEW at, NEW yes
  PROVE  [Engine!Free EXCEPT !.at = at, !.retry = yes]
           = [at |-> at, says |-> <<>>, of |-> Nil, retry |-> yes]
  <1> DEFINE f == Engine!Free
             g == [f EXCEPT !.at = at]
             h == [g EXCEPT !.retry = yes]
  <1>1. IsJob(f) /\ f.at = "free" /\ f.says = <<>> /\ f.of = Nil /\ f.retry = FALSE
    BY DEF IsJob, Engine!Free
  <1> HIDE DEF f
  <1>2. IsJob(g) /\ g.at = at /\ g.says = <<>> /\ g.of = Nil /\ g.retry = FALSE
    BY <1>1 DEF IsJob
  <1> HIDE DEF g
  <1>3. IsJob(h) /\ h.at = at /\ h.says = <<>> /\ h.of = Nil /\ h.retry = yes
    BY <1>2 DEF IsJob
  <1> HIDE DEF h
  <1>4. h = [at |-> at, says |-> <<>>, of |-> Nil, retry |-> yes]
    BY <1>3 DEF IsJob
  <1> QED BY <1>4 DEF f, g, h

LEMMA FreeTurns ==
  ASSUME NEW at
  PROVE  [Engine!Free EXCEPT !.at = at]
           = [at |-> at, says |-> <<>>, of |-> Nil, retry |-> FALSE]
  <1> DEFINE f == Engine!Free
             g == [f EXCEPT !.at = at]
  <1>1. IsJob(f) /\ f.at = "free" /\ f.says = <<>> /\ f.of = Nil /\ f.retry = FALSE
    BY DEF IsJob, Engine!Free
  <1> HIDE DEF f
  <1>2. IsJob(g) /\ g.at = at /\ g.says = <<>> /\ g.of = Nil /\ g.retry = FALSE
    BY <1>1 DEF IsJob
  <1> HIDE DEF g
  <1>3. g = [at |-> at, says |-> <<>>, of |-> Nil, retry |-> FALSE]
    BY <1>2 DEF IsJob
  <1> QED BY <1>3 DEF f, g

LEMMA SaysBecomes ==
  ASSUME SocketTypes, NEW j \in Tasks, NEW words \in WordLists, NEW s \in Runtimes \cup {Nil},
         Engine!Says(j, words, s)
  PROVE  Becoming(j, "say", words, s, FALSE)
  <1>1. job' = [job EXCEPT ![j] = [Engine!Free EXCEPT !.at = "say", !.says = words, !.of = s]]
    BY DEF Engine!Says
  <1>2. [Engine!Free EXCEPT !.at = "say", !.says = words, !.of = s]
          = [at |-> "say", says |-> words, of |-> s, retry |-> FALSE]
    BY FreeSays
  <1>3. job' = [job EXCEPT ![j] = [at |-> "say", says |-> words, of |-> s, retry |-> FALSE]]
    BY <1>1, <1>2
  <1> QED BY <1>3, BecomesOne

LEMMA FreesJob ==
  ASSUME SocketTypes, NEW j \in Tasks, job' = [job EXCEPT ![j] = Engine!Free]
  PROVE  Becoming(j, "free", <<>>, Nil, FALSE)
  BY BecomesOne DEF Engine!Free, WordLists

LEMMA FreeJobFacts ==
  Engine!Free.at = "free" /\ Engine!Free.says = <<>> /\ Engine!Free.of = Nil /\ Engine!Free.retry = FALSE
  BY DEF Engine!Free

LEMMA HoldsFree ==
  ASSUME NEW j \in Tasks, Becoming(j, "free", <<>>, Nil, FALSE)
  PROVE  JobHolds(job'[j])
  <1> DEFINE k == job'[j]
  <1>1. k \in Engine!Job /\ k.at = "free" /\ k.says = <<>> /\ k.of = Nil /\ k.retry = FALSE
    BY DEF Becoming
  <1> HIDE DEF k
  <1>2. k = Engine!Free
    BY <1>1, FreeJob
  <1>3. k.says \notin {<<"qr">>, <<"syncing", "ready">>, <<"ready">>}
    BY <1>1
  <1> QED BY <1>1, <1>2, <1>3 DEF JobHolds, k

LEMMA HoldsWord ==
  ASSUME NEW j \in Tasks, NEW words \in {<<"gone">>, <<"failed">>}, NEW s, NEW retry \in BOOLEAN,
         Becoming(j, "say", words, s, retry), retry => words = <<"gone">>
  PROVE  JobHolds(job'[j]) /\ job'[j].says \in {<<"gone">>, <<"failed">>}
  <1> DEFINE k == job'[j]
  <1>1. k.at = "say" /\ k.says = words /\ k.of = s /\ (k.retry <=> retry)
    BY DEF Becoming
  <1> HIDE DEF k
  <1>2. words # <<>> /\ words \notin {<<"qr">>, <<"syncing", "ready">>, <<"ready">>}
    BY DEF Engine!Words
  <1> QED BY <1>1, <1>2 DEF JobHolds, k

LEMMA HoldsRetry ==
  ASSUME NEW j \in Tasks, NEW at \in {"wait", "auth"}, NEW s, Becoming(j, at, <<>>, s, TRUE)
  PROVE  JobHolds(job'[j]) /\ job'[j].retry
  <1> DEFINE k == job'[j]
  <1>1. (k.at = "wait" \/ k.at = "auth") /\ k.says = <<>> /\ k.retry
    BY DEF Becoming
  <1> HIDE DEF k
  <1>2. k.says \notin {<<"qr">>, <<"syncing", "ready">>, <<"ready">>}
    BY <1>1
  <1> QED BY <1>1, <1>2 DEF JobHolds, k

\* What a step of one job must say of it.
LEMMA JobsFrame ==
  ASSUME JobsHold, NEW j \in Tasks, NEW at, NEW says, NEW of, NEW retry,
         Becoming(j, at, says, of, retry), JobHolds(job'[j])
  PROVE  JobsHold'
  BY DEF JobsHold, Becoming, JobHolds

LEMMA RetryStays ==
  ASSUME OneRetry, NEW j \in Tasks, NEW at, NEW says, NEW of, NEW retry,
         Becoming(j, at, says, of, retry), job'[j].retry <=> job[j].retry,
         reconnecting' <=> reconnecting
  PROVE  OneRetry'
  <1>1. \A i \in Tasks : job'[i].retry <=> job[i].retry
    BY DEF Becoming
  <1> QED BY <1>1 DEF OneRetry

LEMMA RetryStarts ==
  ASSUME OneRetry, NEW j \in Tasks, NEW at, NEW says, NEW of, NEW retry,
         Becoming(j, at, says, of, retry), job'[j].retry, ~reconnecting, reconnecting'
  PROVE  OneRetry'
  <1>1. \A i \in Tasks \ {j} : ~job'[i].retry
    BY DEF Becoming, OneRetry
  <1> QED BY <1>1 DEF OneRetry

LEMMA RetryEnds ==
  ASSUME OneRetry, NEW j \in Tasks, NEW at, NEW says, NEW of, NEW retry,
         Becoming(j, at, says, of, retry), ~job'[j].retry, job[j].retry, ~reconnecting'
  PROVE  OneRetry'
  <1>1. \A i \in Tasks \ {j} : ~job'[i].retry
    BY DEF Becoming, OneRetry
  <1> QED BY <1>1 DEF OneRetry

\* The service stays to be told, unless the job was to tell it.
LEMMA ToldFrame ==
  ASSUME ToBeTold, NEW j \in Tasks, NEW at, NEW says, NEW of, NEW retry,
         Becoming(j, at, says, of, retry), told' = told, muddled' = muddled,
         \/ socket' # Nil
         \/ job'[j].retry \/ job'[j].says \in {<<"gone">>, <<"failed">>}
         \/ socket' = socket /\ ~job[j].retry /\ job[j].says \notin {<<"gone">>, <<"failed">>}
  PROVE  ToBeTold'
  <1>1. \A i \in Tasks \ {j} : job'[i] = job[i]
    BY DEF Becoming
  <1> QED BY <1>1 DEF ToBeTold

LEMMA ConnectSocket == ASSUME SocketInv, NEW j \in Tasks, Engine!Connect(j) PROVE SocketInv'
  <1>1. /\ UNCHANGED <<socket, open, ended, reconnecting, told, replaced, muddled>>
        /\ job[j].at = "free"
    BY DEF Engine!Connect
  <1>2. job[j] = Engine!Free
    BY <1>1, SocketFacts DEF JobHolds
  <1>3. job' = [job EXCEPT ![j] = [at |-> "auth", says |-> <<>>, of |-> Nil, retry |-> FALSE]]
    <2>1. job' = [job EXCEPT ![j] = [job[j] EXCEPT !.at = "auth"]]
      BY DEF Engine!Connect
    <2>2. [job[j] EXCEPT !.at = "auth"] = [at |-> "auth", says |-> <<>>, of |-> Nil, retry |-> FALSE]
      BY <1>2, FreeTurns
    <2> QED BY <2>1, <2>2
  <1>4. Becoming(j, "auth", <<>>, Nil, FALSE)
    BY <1>3, SocketFacts, BecomesOne DEF WordLists
  <1>5. JobHolds(job'[j])
    BY <1>4 DEF Becoming, JobHolds
  <1>6. JobsHold'
    BY <1>4, <1>5, SocketFacts, JobsFrame
  <1>7. OneRetry'
    BY <1>1, <1>2, <1>4, SocketFacts, RetryStays DEF Becoming, Engine!Free, SocketTypes
  <1>8. ToBeTold'
    BY <1>1, <1>2, <1>4, SocketFacts, ToldFrame DEF Becoming, Engine!Free
  <1>9. SocketsOwned' /\ SocketTypes'
    BY <1>1, <1>4, SocketFacts DEF SocketsOwned, SocketTypes, Becoming
  <1> QED BY <1>6, <1>7, <1>8, <1>9 DEF SocketInv

LEMMA OpensSocket == ASSUME SocketInv, NEW j \in Tasks, Engine!Opens(j) PROVE SocketInv'
  <1>1. /\ UNCHANGED <<ended, told, muddled>> /\ job[j].at = "auth"
        /\ reconnecting' = (reconnecting /\ ~job[j].retry) /\ job' = [job EXCEPT ![j] = Engine!Free]
    BY DEF Engine!Opens
  <1>2. PICK s \in Runtimes \ open :
          socket' = s /\ open' = open \cup {s} /\ replaced' = (replaced \cup {socket}) \ {s, Nil}
    BY DEF Engine!Opens
  <1>3. Becoming(j, "free", <<>>, Nil, FALSE)
    BY <1>1, SocketFacts, FreesJob
  <1>4. JobHolds(job'[j])
    BY <1>3, HoldsFree
  <1>5. JobsHold'
    BY <1>3, <1>4, SocketFacts, JobsFrame
  <1>6. reconnecting \in BOOLEAN /\ reconnecting' \in BOOLEAN
    BY <1>1, SocketFacts DEF SocketTypes
  <1>7. OneRetry'
    <2>1. ~job'[j].retry
      BY <1>3 DEF Becoming
    <2>2. CASE job[j].retry
      BY <1>1, <1>3, <2>1, <2>2, SocketFacts, RetryEnds
    <2>3. CASE ~job[j].retry
      BY <1>1, <1>3, <2>1, <2>3, SocketFacts, RetryStays
    <2> QED BY <2>2, <2>3
  <1>8. ToBeTold'
    BY <1>2, SocketFacts DEF ToBeTold
  <1>9. SocketTypes'
    BY <1>1, <1>2, <1>3, <1>6, SocketFacts DEF SocketTypes, Becoming
  <1>10. SocketsOwned'
    BY <1>1, <1>2, SocketFacts DEF SocketsOwned, SocketTypes
  <1> QED BY <1>5, <1>7, <1>8, <1>9, <1>10 DEF SocketInv

LEMMA NoCredentialsSocket ==
  ASSUME SocketInv, NEW j \in Tasks, Engine!NoCredentials(j)
  PROVE  SocketInv'
  <1>1. /\ UNCHANGED <<socket, open, ended, reconnecting, told, replaced, muddled>>
        /\ job[j].at = "auth" /\ ~job[j].retry /\ job' = [job EXCEPT ![j] = Engine!Free]
        /\ job[j].says = <<>>
    BY SocketFacts DEF Engine!NoCredentials, JobHolds
  <1>2. Becoming(j, "free", <<>>, Nil, FALSE)
    BY <1>1, SocketFacts, FreesJob
  <1>3. JobHolds(job'[j])
    BY <1>2, HoldsFree
  <1>4. JobsHold'
    BY <1>2, <1>3, SocketFacts, JobsFrame
  <1>5. OneRetry'
    BY <1>1, <1>2, SocketFacts, RetryStays DEF Becoming, SocketTypes
  <1>6. ToBeTold'
    <2>1. job[j].says \notin {<<"gone">>, <<"failed">>}
      BY <1>1
    <2> QED BY <1>1, <1>2, <2>1, SocketFacts, ToldFrame
  <1>7. SocketsOwned' /\ SocketTypes'
    BY <1>1, <1>2, SocketFacts DEF SocketsOwned, SocketTypes, Becoming
  <1> QED BY <1>4, <1>5, <1>6, <1>7 DEF SocketInv

LEMMA UpdateSocket ==
  ASSUME SocketInv, NEW j \in Tasks, NEW s \in Runtimes, Engine!Update(j, s)
  PROVE  SocketInv'
  <1>1. /\ UNCHANGED <<socket, open, ended, reconnecting, told, replaced, muddled>>
        /\ job[j].at = "free" /\ job[j] = Engine!Free
    BY SocketFacts DEF Engine!Update, JobHolds
  <1>2. PICK words \in {<<"qr">>, <<"syncing", "ready">>} : Becoming(j, "say", words, s, FALSE)
    BY SocketFacts, SaysBecomes DEF Engine!Update, WordLists
  <1>3. JobHolds(job'[j])
    BY <1>2, SocketFacts DEF Becoming, JobHolds
  <1>4. JobsHold'
    BY <1>2, <1>3, SocketFacts, JobsFrame
  <1>5. OneRetry'
    BY <1>1, <1>2, SocketFacts, RetryStays DEF Becoming, SocketTypes, Engine!Free
  <1>6. ToBeTold'
    <2>1. ~job[j].retry /\ job[j].says \notin {<<"gone">>, <<"failed">>}
      BY <1>1 DEF Engine!Free
    <2> QED BY <1>1, <1>2, <2>1, SocketFacts, ToldFrame
  <1>7. SocketsOwned' /\ SocketTypes'
    BY <1>1, <1>2, SocketFacts DEF SocketsOwned, SocketTypes, Becoming
  <1> QED BY <1>4, <1>5, <1>6, <1>7 DEF SocketInv

\* What a close leaves of the jobs.
LEMMA AfterCloseJobs ==
  ASSUME SocketInv, NEW j \in Tasks, NEW s \in Runtimes, job[j] = Engine!Free,
         NEW reason \in {"logged out", "restart", "other"}, Engine!AfterClose(j, s, reason)
  PROVE  \/ Becoming(j, "say", <<"failed">>, s, FALSE) /\ reconnecting' = reconnecting
         \/ Becoming(j, "say", <<"gone">>, s, FALSE) /\ reconnecting' = reconnecting
         \/ reconnecting /\ job' = job /\ reconnecting' = reconnecting
         \/ Becoming(j, "wait", <<>>, s, TRUE) /\ ~reconnecting /\ reconnecting' = TRUE
  <1>1. CASE reason = "logged out"
    <2>1. Engine!Says(j, <<"failed">>, s) /\ reconnecting' = reconnecting
      BY <1>1 DEF Engine!AfterClose
    <2> QED BY <2>1, SocketFacts, SaysBecomes DEF WordLists
  <1>2. CASE reason = "other"
    <2>1. Engine!Says(j, <<"gone">>, s) /\ reconnecting' = reconnecting
      BY <1>2 DEF Engine!AfterClose
    <2> QED BY <2>1, SocketFacts, SaysBecomes DEF WordLists
  <1>3. CASE reason = "restart" /\ reconnecting
    BY <1>3 DEF Engine!AfterClose
  <1>4. CASE reason = "restart" /\ ~reconnecting
    <2>1. /\ reconnecting' = TRUE
          /\ job' = [job EXCEPT ![j] = [Engine!Free EXCEPT !.at = "wait", !.of = s, !.retry = TRUE]]
      BY <1>4 DEF Engine!AfterClose
    <2>2. PICK yes : yes = TRUE
      OBVIOUS
    <2>3. job' = [job EXCEPT ![j] = [Engine!Free EXCEPT !.at = "wait", !.of = s, !.retry = yes]]
      BY <2>1, <2>2
    <2>4. [Engine!Free EXCEPT !.at = "wait", !.of = s, !.retry = yes]
            = [at |-> "wait", says |-> <<>>, of |-> s, retry |-> yes]
      BY FreeWaits
    <2>5. job' = [job EXCEPT ![j] = [at |-> "wait", says |-> <<>>, of |-> s, retry |-> yes]]
      BY <2>3, <2>4
    <2>6. yes \in BOOLEAN /\ <<>> \in WordLists
      BY <2>2 DEF WordLists
    <2>7. Becoming(j, "wait", <<>>, s, yes)
      BY <2>5, <2>6, SocketFacts, BecomesOne
    <2>8. Becoming(j, "wait", <<>>, s, TRUE)
      BY <2>2, <2>7
    <2> QED BY <1>4, <2>1, <2>8
  <1> QED BY <1>1, <1>2, <1>3, <1>4

LEMMA CloseSocket ==
  ASSUME SocketInv, NEW j \in Tasks, NEW s \in Runtimes,
         NEW reason \in {"logged out", "restart", "other"}, Engine!Close(j, s, reason)
  PROVE  SocketInv'
  <1>1. /\ job[j].at = "free" /\ socket' = Nil /\ open' = open \ {s} /\ ended' = ended \ {s}
        /\ replaced' = (replaced \cup {socket}) \ {s, Nil} /\ told' = told /\ muddled' = muddled
        /\ Engine!AfterClose(j, s, reason)
    BY DEF Engine!Close
  <1>2. job[j] = Engine!Free
    BY <1>1, SocketFacts DEF JobHolds
  <1>3. SocketsOwned'
    BY <1>1, SocketFacts DEF SocketsOwned, SocketTypes
  <1>4. replaced' \subseteq Runtimes /\ ended' \subseteq open' /\ open' \subseteq Runtimes
    BY <1>1, SocketFacts DEF SocketTypes
  <1>5. ASSUME NEW words \in {<<"failed">>, <<"gone">>}, Becoming(j, "say", words, s, FALSE),
               reconnecting' = reconnecting
        PROVE  SocketInv'
    <2>1. job'[j].says = words /\ ~job'[j].retry
      BY <1>5 DEF Becoming
    <2>2. JobHolds(job'[j])
      BY <1>5, HoldsWord
    <2>3. JobsHold'
      BY <1>5, <2>2, SocketFacts, JobsFrame
    <2>4. ~job[j].retry /\ reconnecting \in BOOLEAN
      BY <1>2, FreeJobFacts, SocketFacts DEF SocketTypes
    <2>5. OneRetry'
      BY <1>5, <2>1, <2>4, SocketFacts, RetryStays
    <2>6. job'[j].says \in {<<"gone">>, <<"failed">>}
      BY <2>1
    <2>7. ToBeTold'
      BY <1>1, <1>5, <2>6, SocketFacts, ToldFrame
    <2>8. SocketTypes'
      BY <1>1, <1>4, <1>5, SocketFacts DEF SocketTypes, Becoming
    <2> QED BY <1>3, <2>3, <2>5, <2>7, <2>8 DEF SocketInv
  <1>6. CASE reconnecting /\ job' = job /\ reconnecting' = reconnecting
    <2>1. JobsHold' /\ OneRetry'
      BY <1>6, SocketFacts DEF JobsHold, OneRetry
    <2>2. ToBeTold'
      BY <1>6, SocketFacts DEF OneRetry, ToBeTold
    <2>3. SocketTypes'
      BY <1>1, <1>4, <1>6, SocketFacts DEF SocketTypes
    <2> QED BY <1>3, <2>1, <2>2, <2>3 DEF SocketInv
  <1>7. CASE Becoming(j, "wait", <<>>, s, TRUE) /\ ~reconnecting /\ reconnecting' = TRUE
    <2>1. job'[j].retry
      BY <1>7 DEF Becoming
    <2>2. JobHolds(job'[j])
      BY <1>7, HoldsRetry
    <2>3. JobsHold'
      BY <1>7, <2>2, SocketFacts, JobsFrame
    <2>4. OneRetry'
      BY <1>7, <2>1, SocketFacts, RetryStarts
    <2>5. ToBeTold'
      BY <1>1, <1>7, <2>1, SocketFacts, ToldFrame
    <2>6. SocketTypes'
      BY <1>1, <1>4, <1>7, SocketFacts DEF SocketTypes, Becoming
    <2> QED BY <1>3, <2>3, <2>4, <2>5, <2>6 DEF SocketInv
  <1> QED BY <1>1, <1>2, <1>5, <1>6, <1>7, AfterCloseJobs

LEMMA WaitedSocket == ASSUME SocketInv, NEW j \in Tasks, Engine!Waited(j) PROVE SocketInv'
  <1>1. /\ UNCHANGED <<socket, open, ended, reconnecting, told, replaced, muddled>>
        /\ job[j].at = "wait" /\ job[j].retry /\ job[j] \in Engine!Job
    BY SocketFacts DEF Engine!Waited, JobHolds
  <1> DEFINE old == job[j]
             mid == [old EXCEPT !.at = "say"]
             new == [mid EXCEPT !.says = <<"gone">>]
  <1>2. job' = [job EXCEPT ![j] = new]
    <2>1. job' = [job EXCEPT ![j].at = "say", ![j].says = <<"gone">>]
      BY DEF Engine!Waited
    <2>2. job \in [Tasks -> Engine!Job]
      BY SocketFacts DEF SocketTypes
    <2> QED BY <2>1, <2>2
  <1>3. old.of \in Runtimes \cup {Nil}
    BY <1>1 DEF Engine!Job
  <1>4. IsJob(old) /\ old.retry = TRUE
    BY <1>1 DEF Engine!Job, IsJob
  <1> HIDE DEF old
  <1>5. IsJob(mid) /\ mid.at = "say" /\ mid.of = old.of /\ mid.retry = TRUE
    BY <1>4 DEF IsJob
  <1> HIDE DEF mid
  <1>6. IsJob(new) /\ new.at = "say" /\ new.says = <<"gone">> /\ new.of = old.of /\ new.retry = TRUE
    BY <1>5 DEF IsJob
  <1> HIDE DEF new
  <1>7. new = [at |-> "say", says |-> <<"gone">>, of |-> old.of, retry |-> TRUE]
    BY <1>6 DEF IsJob
  <1>8. Becoming(j, "say", <<"gone">>, old.of, TRUE)
    <2>1. <<"gone">> \in WordLists
      BY DEF WordLists
    <2> QED BY <1>2, <1>3, <1>7, <2>1, SocketFacts, BecomesOne
  <1>9. job'[j].retry /\ job'[j].says = <<"gone">>
    BY <1>8 DEF Becoming
  <1>10. JobHolds(job'[j])
    BY <1>8 DEF Becoming, JobHolds
  <1>11. JobsHold'
    BY <1>8, <1>10, SocketFacts, JobsFrame
  <1>12. OneRetry'
    BY <1>1, <1>8, <1>9, SocketFacts, RetryStays DEF SocketTypes
  <1>13. ToBeTold'
    BY <1>1, <1>8, <1>9, SocketFacts, ToldFrame
  <1>14. SocketsOwned' /\ SocketTypes'
    BY <1>1, <1>8, SocketFacts DEF SocketsOwned, SocketTypes, Becoming
  <1> QED BY <1>11, <1>12, <1>13, <1>14 DEF SocketInv

LEMMA DisconnectSocket == ASSUME SocketInv, NEW j \in Tasks, Engine!Disconnect(j) PROVE SocketInv'
  <1>1. /\ job[j].at = "free" /\ ended' = ended \cup ({socket} \ {Nil}) /\ socket' = Nil
        /\ UNCHANGED <<open, reconnecting, told, replaced, muddled>>
    BY DEF Engine!Disconnect
  <1>2. Becoming(j, "say", <<"gone">>, Nil, FALSE)
    BY SocketFacts, SaysBecomes DEF Engine!Disconnect, WordLists
  <1>3. ~job[j].retry
    BY <1>1, SocketFacts DEF JobHolds, Engine!Free
  <1>4. JobHolds(job'[j])
    BY <1>2 DEF Becoming, JobHolds
  <1>5. JobsHold'
    BY <1>2, <1>4, SocketFacts, JobsFrame
  <1>6. ~job'[j].retry /\ job'[j].says \in {<<"gone">>, <<"failed">>}
    BY <1>2 DEF Becoming
  <1>7. OneRetry'
    BY <1>1, <1>2, <1>3, <1>6, SocketFacts, RetryStays DEF SocketTypes
  <1>8. ToBeTold'
    BY <1>1, <1>2, <1>6, SocketFacts, ToldFrame
  <1>9. SocketsOwned' /\ SocketTypes'
    BY <1>1, <1>2, SocketFacts DEF SocketsOwned, SocketTypes, Becoming
  <1> QED BY <1>5, <1>7, <1>8, <1>9 DEF SocketInv

\* What a callback that has returned leaves of the jobs.
LEMMA SayJobs ==
  ASSUME SocketInv, NEW j \in Tasks, Engine!Say(j)
  PROVE  \/ /\ job[j].says = <<"syncing", "ready">> /\ ~job[j].retry
            /\ Becoming(j, "say", <<"ready">>, job[j].of, FALSE)
         \/ /\ job[j].says = <<"gone">> /\ job[j].retry /\ socket = Nil
            /\ Becoming(j, "auth", <<>>, Nil, TRUE)
         \/ ~(job[j].retry /\ socket = Nil) /\ Becoming(j, "free", <<>>, Nil, FALSE)
  <1> DEFINE k == job[j]
             again == k.retry /\ socket = Nil
  <1>1. /\ k \in Engine!Job /\ k.at = "say" /\ k.says # <<>>
        /\ k.retry => k.says = <<"gone">>
    BY SocketFacts DEF Engine!Say, JobHolds
  <1>2. k.says \in WordLists \ {<<>>} /\ k.of \in Runtimes \cup {Nil} /\ k.retry \in BOOLEAN
    BY <1>1 DEF Engine!Job, WordLists
  <1>3. job' = [job EXCEPT ![j] = CASE Len(k.says) # 1 -> [k EXCEPT !.says = Tail(k.says)]
                  [] Len(k.says) = 1 /\ again -> [Engine!Free EXCEPT !.at = "auth", !.retry = TRUE]
                  [] OTHER -> Engine!Free]
    BY DEF Engine!Say
  <1>4. IsJob(k)
    BY <1>1 DEF Engine!Job, IsJob
  <1> HIDE DEF k
  <1>5. CASE Len(k.says) # 1
    <2>1. k.says = <<"syncing", "ready">>
      BY <1>2, <1>5 DEF WordLists
    <2>2. ~k.retry
      BY <1>1, <2>1
    <2>3. job' = [job EXCEPT ![j] = [k EXCEPT !.says = Tail(k.says)]]
      BY <1>3, <1>5
    <2> DEFINE new == [k EXCEPT !.says = Tail(k.says)]
    <2>4. /\ IsJob(new) /\ new.at = "say" /\ new.says = Tail(k.says) /\ new.of = k.of
          /\ new.retry = k.retry
      BY <1>1, <1>4 DEF IsJob
    <2>5. job' = [job EXCEPT ![j] = new]
      BY <2>3
    <2> HIDE DEF new
    <2>6. Tail(k.says) = <<"ready">>
      BY <2>1
    <2>7. new.retry = FALSE
      BY <1>2, <2>2, <2>4
    <2>8. new = [at |-> "say", says |-> <<"ready">>, of |-> k.of, retry |-> FALSE]
      BY <2>4, <2>6, <2>7 DEF IsJob
    <2>9. Becoming(j, "say", <<"ready">>, k.of, FALSE)
      <3>1. <<"ready">> \in WordLists
        BY DEF WordLists
      <3> QED BY <1>2, <2>5, <2>8, <3>1, SocketFacts, BecomesOne
    <2> QED BY <2>1, <2>2, <2>9 DEF k
  <1>6. CASE Len(k.says) = 1 /\ again
    <2>1. PICK yes : yes = TRUE
      OBVIOUS
    <2>2. job' = [job EXCEPT ![j] = [Engine!Free EXCEPT !.at = "auth", !.retry = yes]]
      BY <1>3, <1>6, <2>1
    <2>3. [Engine!Free EXCEPT !.at = "auth", !.retry = yes]
            = [at |-> "auth", says |-> <<>>, of |-> Nil, retry |-> yes]
      BY FreeRetries
    <2>4. job' = [job EXCEPT ![j] = [at |-> "auth", says |-> <<>>, of |-> Nil, retry |-> yes]]
      BY <2>2, <2>3
    <2>5. yes \in BOOLEAN /\ <<>> \in WordLists
      BY <2>1 DEF WordLists
    <2>6. Becoming(j, "auth", <<>>, Nil, yes)
      BY <2>4, <2>5, SocketFacts, BecomesOne
    <2>7. Becoming(j, "auth", <<>>, Nil, TRUE)
      BY <2>1, <2>6
    <2> QED BY <1>1, <1>6, <2>7 DEF k
  <1>7. CASE Len(k.says) = 1 /\ ~again
    <2>1. job' = [job EXCEPT ![j] = Engine!Free]
      BY <1>3, <1>7
    <2> QED BY <1>7, <2>1, SocketFacts, FreesJob DEF k
  <1> QED BY <1>5, <1>6, <1>7

LEMMA SaySocket == ASSUME SocketInv, NEW j \in Tasks, Engine!Say(j) PROVE SocketInv'
  <1> DEFINE word == Head(job[j].says)
  <1>1. /\ UNCHANGED <<socket, open, ended, replaced>> /\ told' = word
        /\ muddled' = (muddled \/ socket # IF word \in Engine!Lively THEN job[j].of ELSE Nil)
        /\ reconnecting' = (reconnecting /\ (job[j].retry => (job[j].retry /\ socket = Nil)))
        /\ job[j].at = "say"
    BY DEF Engine!Say
  <1>2. /\ job[j].says \in WordLists \ {<<>>} /\ reconnecting \in BOOLEAN
        /\ job[j].says \in {<<"qr">>, <<"syncing", "ready">>, <<"ready">>} => job[j].of # Nil
    BY <1>1, SocketFacts DEF JobHolds, SocketTypes, Engine!Job, WordLists
  <1>3. word \in Engine!Words /\ (word \in Engine!Lively => job[j].of # Nil)
    BY <1>2 DEF WordLists, Engine!Words, Engine!Lively
  <1>4. ToBeTold'
    BY <1>1, <1>3 DEF ToBeTold
  <1>5. SocketsOwned'
    BY <1>1, SocketFacts DEF SocketsOwned
  <1>6. muddled' \in BOOLEAN /\ reconnecting' \in BOOLEAN
    BY <1>1
  <1> DEFINE types == SocketTypes'
  <1>7. ASSUME job' \in [Tasks -> Engine!Job]
        PROVE  types
    BY <1>1, <1>3, <1>6, <1>7, SocketFacts DEF SocketTypes
  <1> HIDE DEF types
  <1>8. CASE /\ job[j].says = <<"syncing", "ready">> /\ ~job[j].retry
             /\ Becoming(j, "say", <<"ready">>, job[j].of, FALSE)
    <2>1. JobHolds(job'[j])
      <3> DEFINE k == job'[j]
      <3>1. k.at = "say" /\ k.says = <<"ready">> /\ k.of # Nil /\ ~k.retry
        BY <1>2, <1>8 DEF Becoming
      <3> HIDE DEF k
      <3>2. k.says # <<>>
        BY <3>1
      <3> QED BY <3>1, <3>2 DEF JobHolds, k
    <2>2. JobsHold'
      BY <1>8, <2>1, SocketFacts, JobsFrame
    <2>3. ~job'[j].retry /\ job' \in [Tasks -> Engine!Job]
      BY <1>8 DEF Becoming
    <2>4. reconnecting' <=> reconnecting
      BY <1>1, <1>8
    <2>5. OneRetry'
      BY <1>8, <2>3, <2>4, SocketFacts, RetryStays
    <2> QED BY <1>4, <1>5, <1>7, <2>2, <2>3, <2>5 DEF SocketInv, types
  <1>9. CASE /\ job[j].says = <<"gone">> /\ job[j].retry /\ socket = Nil
             /\ Becoming(j, "auth", <<>>, Nil, TRUE)
    <2>1. JobHolds(job'[j]) /\ job'[j].retry
      BY <1>9, HoldsRetry
    <2>2. JobsHold'
      BY <1>9, <2>1, SocketFacts, JobsFrame
    <2>3. job' \in [Tasks -> Engine!Job]
      BY <1>9 DEF Becoming
    <2>4. reconnecting' <=> reconnecting
      BY <1>1, <1>9
    <2>5. OneRetry'
      BY <1>9, <2>1, <2>4, SocketFacts, RetryStays
    <2> QED BY <1>4, <1>5, <1>7, <2>2, <2>3, <2>5 DEF SocketInv, types
  <1>10. CASE ~(job[j].retry /\ socket = Nil) /\ Becoming(j, "free", <<>>, Nil, FALSE)
    <2>1. JobHolds(job'[j])
      BY <1>10, HoldsFree
    <2>2. JobsHold'
      BY <1>10, <2>1, SocketFacts, JobsFrame
    <2>3. ~job'[j].retry /\ job' \in [Tasks -> Engine!Job]
      BY <1>10 DEF Becoming
    <2>4. CASE job[j].retry
      <3>1. ~reconnecting'
        BY <1>1, <1>10, <2>4
      <3>2. OneRetry'
        BY <1>10, <2>3, <2>4, <3>1, SocketFacts, RetryEnds
      <3> QED BY <1>4, <1>5, <1>7, <2>2, <2>3, <3>2 DEF SocketInv, types
    <2>5. CASE ~job[j].retry
      <3>1. reconnecting' <=> reconnecting
        BY <1>1, <2>5
      <3>2. OneRetry'
        BY <1>10, <2>3, <2>5, <3>1, SocketFacts, RetryStays
      <3> QED BY <1>4, <1>5, <1>7, <2>2, <2>3, <3>2 DEF SocketInv, types
    <2> QED BY <2>4, <2>5
  <1> QED BY <1>8, <1>9, <1>10, SayJobs

LEMMA InitSocket == Engine!Init => SocketInv
  <1> SUFFICES ASSUME Engine!Init
               PROVE  SocketInv
    OBVIOUS
  <1>1. /\ socket = Nil /\ open = {} /\ ended = {} /\ reconnecting = FALSE /\ told = "none"
        /\ replaced = {} /\ muddled = FALSE /\ job = [j \in Tasks |-> Engine!Free]
    BY DEF Engine!Init
  <1>2. Engine!Free \in Engine!Job
    BY DEF Engine!Free, Engine!Job
  <1>3. SocketTypes
    BY <1>1, <1>2 DEF SocketTypes
  <1>4. \A j \in Tasks : job[j] = Engine!Free
    BY <1>1
  <1>5. JobHolds(Engine!Free)
    <2> DEFINE k == Engine!Free
    <2>1. k.says \notin {<<"qr">>, <<"syncing", "ready">>, <<"ready">>}
      BY FreeJobFacts
    <2>2. k.at = "free" /\ k.says = <<>> /\ ~k.retry
      BY FreeJobFacts
    <2> HIDE DEF k
    <2>3. k = Engine!Free
      BY DEF k
    <2> QED BY <2>1, <2>2, <2>3 DEF JobHolds
  <1>6. JobsHold
    BY <1>4, <1>5 DEF JobsHold
  <1>7. OneRetry
    BY <1>1, <1>4, FreeJobFacts DEF OneRetry
  <1>8. SocketsOwned /\ ToBeTold
    BY <1>1 DEF SocketsOwned, ToBeTold, Engine!Lively
  <1> QED BY <1>3, <1>6, <1>7, <1>8 DEF SocketInv

LEMMA NextSocket == SocketInv /\ [Engine!SocketNext]_sockets => SocketInv'
  <1> SUFFICES ASSUME SocketInv, [Engine!SocketNext]_sockets
               PROVE  SocketInv'
    OBVIOUS
  <1>1. CASE UNCHANGED sockets
    BY <1>1 DEF sockets, SocketInv, SocketTypes, JobsHold, OneRetry, SocketsOwned, ToBeTold
  <1>2. CASE Engine!SocketNext
    BY <1>2, ConnectSocket, OpensSocket, NoCredentialsSocket, WaitedSocket, SaySocket,
       DisconnectSocket, UpdateSocket, CloseSocket DEF Engine!SocketNext
  <1> QED BY <1>1, <1>2

LEMMA SocketKept == SocketInv => Engine!SocketsKept
  <1> SUFFICES ASSUME SocketInv
               PROVE  Engine!SocketsKept
    OBVIOUS
  <1> DEFINE retries == {j \in Tasks : job[j].retry}
  <1>1. Engine!Cardinality(retries) = IF reconnecting THEN 1 ELSE 0
    <2>1. CASE reconnecting
      <3>1. PICK j \in Tasks : job[j].retry
        BY <2>1, SocketFacts DEF OneRetry
      <3>2. retries = {j}
        BY <3>1, SocketFacts DEF OneRetry
      <3>3. Cardinality(retries) = 1
        BY <3>2, FS_Singleton
      <3> QED BY <2>1, <3>3, SameCardinality
    <2>2. CASE ~reconnecting
      <3>1. retries = {}
        BY <2>2, SocketFacts DEF OneRetry
      <3>2. Cardinality(retries) = 0
        BY <3>1, FS_EmptySet
      <3> QED BY <2>2, <3>2, SameCardinality
    <2> QED BY <2>1, <2>2
  <1>2. ASSUME \A j \in Tasks : job[j].at = "free"
        PROVE  \A j \in Tasks : ~job[j].retry /\ job[j].says \notin {<<"gone">>, <<"failed">>}
    <2> SUFFICES ASSUME NEW j \in Tasks
                 PROVE  ~job[j].retry /\ job[j].says \notin {<<"gone">>, <<"failed">>}
      OBVIOUS
    <2>1. job[j] = Engine!Free
      BY <1>2, SocketFacts DEF JobHolds
    <2>2. job[j].says = <<>> /\ job[j].retry = FALSE
      BY <2>1, FreeJobFacts
    <2> QED BY <2>2
  <1>3. (~muddled /\ told \in Engine!Lively /\ \A j \in Tasks : job[j].at = "free") => socket # Nil
    BY <1>2, SocketFacts DEF ToBeTold
  <1> QED BY <1>1, <1>3, SocketFacts DEF Engine!SocketsKept, SocketsOwned

--------------------------------------------------------------------------------
(* The thread of a chat: sorting.                                                 *)

Items == [id : Engine!ChatMessages, at : {1, 2}]

\* The k-th element comes before the i-th, or is it, in a stable sort by time.
NotAfter(s, k, i) == s[k].at < s[i].at \/ (s[k].at = s[i].at /\ k <= i)

\* Places count, and follow the order of the times.
LEMMA Places ==
  ASSUME NEW n \in Nat, NEW s \in [1..n -> Items]
  PROVE  /\ \A i \in 1..n : Engine!Place(s, i) \in 1..n
         /\ \A k, i \in 1..n : k # i /\ NotAfter(s, k, i) => Engine!Place(s, k) < Engine!Place(s, i)
  <1> DEFINE Up(i) == {k \in 1..n : NotAfter(s, k, i)}
  <1>1. \A i \in 1..n : s[i].at \in {1, 2}
    BY DEF Items
  <1>2. IsFiniteSet(1..n) /\ Cardinality(1..n) = n
    BY FS_Interval
  <1>3. \A i \in 1..n : Engine!Place(s, i) = Cardinality(Up(i))
    BY SameCardinality DEF Engine!Place, NotAfter
  <1>4. ASSUME NEW i \in 1..n
        PROVE  IsFiniteSet(Up(i)) /\ i \in Up(i) /\ Cardinality(Up(i)) \in 1..n
    <2>1. Up(i) \in SUBSET (1..n) /\ i \in Up(i)
      BY <1>1 DEF NotAfter
    <2>2. IsFiniteSet(Up(i)) /\ Cardinality(Up(i)) <= n
      BY <1>2, <2>1, FS_Subset
    <2>3. Cardinality(Up(i)) \in Nat /\ Cardinality(Up(i)) # 0
      BY <2>1, <2>2, FS_CardinalityType, FS_EmptySet
    <2> QED BY <2>1, <2>2, <2>3
  <1>5. ASSUME NEW k \in 1..n, NEW i \in 1..n, k # i, NotAfter(s, k, i)
        PROVE  Cardinality(Up(k)) < Cardinality(Up(i))
    <2>1. Up(k) \in SUBSET Up(i) /\ i \notin Up(k)
      BY <1>1, <1>5 DEF NotAfter
    <2>2. Cardinality(Up(k)) <= Cardinality(Up(i)) /\ Cardinality(Up(i)) # Cardinality(Up(k))
      BY <1>4, <2>1, FS_Subset
    <2>3. Cardinality(Up(k)) \in 1..n /\ Cardinality(Up(i)) \in 1..n
      BY <1>4
    <2> QED BY <2>2, <2>3
  <1> HIDE DEF Up
  <1> QED BY <1>3, <1>4, <1>5

\* Every place is taken, by one element.
LEMMA PlacesTaken ==
  ASSUME NEW n \in Nat, NEW s \in [1..n -> Items]
  PROVE  \A p \in 1..n : \E i \in 1..n : Engine!Place(s, i) = p
  <1> DEFINE f == [i \in 1..n |-> Engine!Place(s, i)]
  <1>1. \A k, i \in 1..n : NotAfter(s, k, i) \/ NotAfter(s, i, k)
    BY DEF NotAfter, Items
  <1>2. \A k, i \in 1..n : Engine!Place(s, k) = Engine!Place(s, i) => k = i
    BY <1>1, Places
  <1>3. f \in Injection(1..n, 1..n)
    BY <1>2, Places DEF Injection, IsInjective
  <1>4. f \in Surjection(1..n, 1..n)
    BY <1>3, FS_Injection, FS_Interval
  <1> QED BY <1>4 DEF Surjection

LEMMA ResortedIsSorted ==
  ASSUME NEW n \in Nat, NEW s \in [1..n -> Items], Distinct(s)
  PROVE  /\ Engine!Resorted(s) \in [1..n -> Items]
         /\ Distinct(Engine!Resorted(s)) /\ Engine!Sorted(Engine!Resorted(s))
  <1> DEFINE c(p) == CHOOSE i \in 1..n : Engine!Place(s, i) = p
             r == Engine!Resorted(s)
  <1>1. \A p \in 1..n : c(p) \in 1..n /\ Engine!Place(s, c(p)) = p
    BY PlacesTaken
  <1>2. r = [p \in 1..n |-> s[c(p)]]
    BY DEF Engine!Resorted
  <1> HIDE DEF c, r
  <1>3. DOMAIN r = 1..n /\ DOMAIN s = 1..n /\ \A p \in 1..n : r[p] = s[c(p)]
    BY <1>2
  <1>4. r \in [1..n -> Items]
    BY <1>1, <1>2
  <1>5. Distinct(r)
    <2> SUFFICES ASSUME NEW p \in 1..n, NEW q \in 1..n, r[p].id = r[q].id
                 PROVE  p = q
      BY <1>3 DEF Distinct
    <2>1. s[c(p)].id = s[c(q)].id /\ c(p) \in 1..n /\ c(q) \in 1..n
      BY <1>1, <1>3
    <2>2. c(p) = c(q)
      BY <1>3, <2>1 DEF Distinct
    <2> QED BY <1>1, <2>2
  <1>6. Engine!Sorted(r)
    <2> SUFFICES ASSUME NEW p \in 1..n, NEW q \in 1..n, p < q
                 PROVE  r[p].at <= r[q].at
      BY <1>3 DEF Engine!Sorted
    <2>1. c(p) \in 1..n /\ c(q) \in 1..n /\ c(p) # c(q)
      BY <1>1
    <2>2. ~NotAfter(s, c(q), c(p))
      BY <1>1, <2>1, Places
    <2>3. s[c(p)].at \in {1, 2} /\ s[c(q)].at \in {1, 2}
      BY <2>1 DEF Items
    <2> QED BY <1>3, <2>2, <2>3 DEF NotAfter
  <1> QED BY <1>4, <1>5, <1>6 DEF r

--------------------------------------------------------------------------------
(* The thread of a chat: its actions.                                             *)

ThreadTypes ==
  /\ thread \in Seq(Items) /\ count \in Nat /\ events \in 0..MaxEvents
  /\ unread \subseteq Messages /\ overlooked \subseteq unread
  /\ reader \in [Tasks -> SUBSET Engine!ChatMessages] /\ retimed \in BOOLEAN

ThreadInv == ThreadTypes /\ ThreadHolds

LEMMA ThreadFacts ==
  ASSUME ThreadInv
  PROVE  /\ ThreadTypes /\ ThreadHolds
         /\ Len(thread) \in Nat /\ thread \in [1..Len(thread) -> Items]
         /\ DOMAIN thread = 1..Len(thread)
         /\ IsFiniteSet(unread) /\ IsFiniteSet(Engine!ChatMessages)
         /\ Cardinality(unread) \in Nat /\ Cardinality(unread \ overlooked) \in Nat
         /\ MaxEvents \in Nat
  <1>1. ThreadTypes /\ ThreadHolds /\ thread \in Seq(Items)
    BY DEF ThreadInv, ThreadTypes
  <1>2. IsFiniteSet(Messages) /\ IsFiniteSet(Own) /\ MaxEvents \in Nat
    BY LegacyAssumption DEF LegacyAssumption
  <1>3. IsFiniteSet(unread) /\ IsFiniteSet(unread \ overlooked)
    BY <1>1, <1>2, FS_Subset DEF ThreadTypes
  <1>4. IsFiniteSet(Engine!ChatMessages)
    BY <1>2, FS_Union DEF Engine!ChatMessages
  <1> QED BY <1>1, <1>2, <1>3, <1>4, FS_CardinalityType

\* What taking down a message leaves of the thread.
LEMMA RecordedHolds ==
  ASSUME ThreadInv, NEW m \in Items
  PROVE  /\ Engine!Recorded(m) \in Seq(Items) /\ Distinct(Engine!Recorded(m))
         /\ \/ m.id \notin Engine!Ids
            \/ Engine!Sorted(thread) /\ \A i \in DOMAIN thread : thread[i].id = m.id => thread[i].at = m.at
            => Engine!Sorted(Engine!Recorded(m))
  <1> DEFINE n == Len(thread)
             r == Engine!Recorded(m)
  <1>1. n \in Nat /\ thread \in [1..n -> Items] /\ DOMAIN thread = 1..n /\ Distinct(thread)
    BY ThreadFacts DEF ThreadHolds
  <1>2. CASE m.id \in Engine!Ids
    <2>1. r = [i \in 1..n |-> IF thread[i].id = m.id THEN m ELSE thread[i]]
      BY <1>1, <1>2 DEF Engine!Recorded
    <2> HIDE DEF r, n
    <2>2. r \in [1..n -> Items] /\ DOMAIN r = 1..n
      BY <1>1, <2>1
    <2>3. \A i \in 1..n : r[i].id = thread[i].id
      BY <2>1
    <2>4. Distinct(r)
      BY <1>1, <2>2, <2>3 DEF Distinct
    <2>5. ASSUME Engine!Sorted(thread),
                 \A i \in DOMAIN thread : thread[i].id = m.id => thread[i].at = m.at
          PROVE  Engine!Sorted(r)
      <3>1. \A i \in 1..n : r[i].at = thread[i].at
        BY <1>1, <2>1, <2>5
      <3> QED BY <1>1, <2>2, <2>5, <3>1 DEF Engine!Sorted
    <2>6. r \in Seq(Items)
      BY <1>1, <2>2
    <2> QED BY <1>2, <2>4, <2>5, <2>6 DEF r
  <1>3. CASE m.id \notin Engine!Ids
    <2> DEFINE s == Append(thread, m)
    <2>1. r = Engine!Resorted(s)
      BY <1>3 DEF Engine!Recorded
    <2>2. s \in [1..(n + 1) -> Items]
      <3>1. s \in Seq(Items) /\ Len(s) = n + 1
        BY ThreadFacts DEF ThreadTypes
      <3> HIDE DEF s
      <3>2. s \in [1..Len(s) -> Items]
        BY <3>1
      <3> QED BY <3>1, <3>2
    <2>3. \A i \in 1..(n + 1) : s[i] = IF i = n + 1 THEN m ELSE thread[i]
      BY ThreadFacts DEF ThreadTypes
    <2> HIDE DEF r, s, n
    <2>4. \A i \in 1..n : thread[i].id # m.id
      BY <1>1, <1>3 DEF Engine!Ids
    <2>5. Distinct(s)
      <3> SUFFICES ASSUME NEW i \in 1..(n + 1), NEW j \in 1..(n + 1), s[i].id = s[j].id
                   PROVE  i = j
        BY <2>2 DEF Distinct
      <3>1. CASE i = n + 1 \/ j = n + 1
        BY <1>1, <2>3, <2>4, <3>1
      <3>2. CASE i # n + 1 /\ j # n + 1
        <4>1. i \in 1..n /\ j \in 1..n
          BY <1>1, <3>2
        <4>2. thread[i].id = thread[j].id
          BY <2>3, <3>2
        <4> QED BY <1>1, <4>1, <4>2 DEF Distinct
      <3> QED BY <3>1, <3>2
    <2>6. r \in [1..(n + 1) -> Items] /\ Distinct(r) /\ Engine!Sorted(r)
      <3>1. n + 1 \in Nat
        BY <1>1
      <3> QED BY <2>1, <2>2, <2>5, <3>1, ResortedIsSorted
    <2>7. r \in Seq(Items)
      BY <1>1, <2>6
    <2> QED BY <2>6, <2>7 DEF r
  <1> QED BY <1>2, <1>3

LEMMA UpsertThread ==
  ASSUME ThreadInv, NEW m \in Items, Engine!Upsert(m)
  PROVE  ThreadInv'
  <1>1. /\ events < MaxEvents /\ events' = events + 1 /\ thread' = Engine!Recorded(m)
        /\ retimed' = /\ m.id \in Engine!Ids
                      /\ \/ retimed
                         \/ \E i \in DOMAIN thread : thread[i].id = m.id /\ thread[i].at # m.at
        /\ count' = IF m.id \in Own THEN count ELSE count + 1
        /\ unread' = IF m.id \in Engine!Ids \cup Own THEN unread ELSE unread \cup {m.id}
        /\ reader' = reader /\ overlooked' = overlooked
    BY DEF Engine!Upsert
  <1>2. Distinct(thread') /\ thread' \in Seq(Items)
    BY <1>1, RecordedHolds
  <1>3. ~retimed' => Engine!Sorted(thread)'
    <2> SUFFICES ASSUME ~retimed'
                 PROVE  Engine!Sorted(thread')
      BY DEF Engine!Sorted
    <2>1. \/ m.id \notin Engine!Ids
          \/ Engine!Sorted(thread) /\ \A i \in DOMAIN thread : thread[i].id = m.id => thread[i].at = m.at
      BY <1>1, ThreadFacts DEF ThreadHolds
    <2>2. Engine!Sorted(Engine!Recorded(m))
      BY <2>1, RecordedHolds
    <2> QED BY <1>1, <2>2
  <1>4. unread' \subseteq Messages /\ overlooked' \subseteq unread' /\ retimed' \in BOOLEAN
    <2>1. m.id \in Own => unread' = unread
      BY <1>1
    <2>2. m.id \in Messages \cup Own
      BY DEF Items, Engine!ChatMessages
    <2> QED BY <1>1, <2>1, <2>2, ThreadFacts DEF ThreadTypes
  <1>5. count' <= events' /\ Cardinality(unread') <= events' /\ count' \in Nat /\ events' \in 0..MaxEvents
    <2>1. Cardinality(unread') <= Cardinality(unread) + 1 /\ IsFiniteSet(unread')
      <3>1. CASE unread' = unread
        BY <3>1, ThreadFacts
      <3>2. CASE unread' = unread \cup {m.id}
        <4>1. IsFiniteSet(unread) /\ Cardinality(unread) \in Nat
          BY ThreadFacts
        <4>2. /\ IsFiniteSet(unread \cup {m.id})
              /\ \/ Cardinality(unread \cup {m.id}) = Cardinality(unread)
                 \/ Cardinality(unread \cup {m.id}) = Cardinality(unread) + 1
          BY <4>1, FS_AddElement
        <4> QED BY <3>2, <4>1, <4>2
      <3> QED BY <1>1, <3>1, <3>2
    <2>2. IsFiniteSet(unread')
      BY <2>1
    <2>3. Cardinality(unread') \in Nat
      BY <2>2, FS_CardinalityType
    <2> QED BY <1>1, <2>1, <2>3, ThreadFacts DEF ThreadTypes, ThreadHolds
  <1>6. count' >= Cardinality(unread' \ overlooked')
    <2> DEFINE left == unread \ overlooked
    <2>1. IsFiniteSet(left) /\ Cardinality(left) \in Nat /\ count >= Cardinality(left) /\ count \in Nat
      BY ThreadFacts, FS_Subset DEF ThreadHolds, ThreadTypes
    <2>2. CASE unread' = unread
      <3>1. count' >= count
        BY <1>1, <2>1
      <3>2. unread' \ overlooked' = left
        BY <1>1, <2>2
      <3> QED BY <1>5, <2>1, <3>1, <3>2
    <2>3. CASE unread' # unread
      <3>1. unread' = unread \cup {m.id} /\ count' = count + 1
        BY <1>1, <2>3
      <3>2. (unread' \ overlooked') \in SUBSET (left \cup {m.id})
        BY <1>1, <3>1
      <3>3. IsFiniteSet(left \cup {m.id}) /\ Cardinality(left \cup {m.id}) <= Cardinality(left) + 1
        BY <2>1, FS_AddElement
      <3>4. Cardinality(unread' \ overlooked') <= Cardinality(left \cup {m.id})
        BY <3>2, <3>3, FS_Subset
      <3>5. Cardinality(left \cup {m.id}) \in Nat /\ Cardinality(unread' \ overlooked') \in Nat
        BY <3>2, <3>3, FS_Subset, FS_CardinalityType
      <3> HIDE DEF left
      <3> QED BY <2>1, <3>1, <3>3, <3>4, <3>5
    <2> QED BY <2>2, <2>3
  <1>7. reader' \in [Tasks -> SUBSET Engine!ChatMessages]
    BY <1>1, ThreadFacts DEF ThreadTypes
  <1>8. ThreadTypes'
    BY <1>2, <1>4, <1>5, <1>7 DEF ThreadTypes
  <1>9. ThreadHolds'
    BY <1>2, <1>3, <1>5, <1>6 DEF ThreadHolds
  <1> QED BY <1>8, <1>9 DEF ThreadInv

\* The thread and the ids of its messages are not touched.
LEMMA SameThread ==
  ASSUME ThreadInv, UNCHANGED <<thread, retimed>>
  PROVE  /\ thread' \in Seq(Items) /\ retimed' \in BOOLEAN
         /\ Distinct(thread)' /\ (~retimed' => Engine!Sorted(thread)')
  BY ThreadFacts DEF ThreadTypes, ThreadHolds

LEMMA UpdateChatsThread == ASSUME ThreadInv, Engine!UpdateChats PROVE ThreadInv'
  <1>1. /\ events < MaxEvents /\ events' = events + 1 /\ unread' \in {unread, {}}
        /\ count' = Cardinality(unread') /\ overlooked' = {}
        /\ UNCHANGED <<thread, reader, retimed>>
    BY SameCardinality DEF Engine!UpdateChats
  <1>2. Cardinality(unread') \in Nat /\ Cardinality(unread') <= events /\ unread' \subseteq Messages
    <2>1. CASE unread' = unread
      BY <2>1, ThreadFacts DEF ThreadTypes, ThreadHolds
    <2>2. CASE unread' = {}
      <3>1. Cardinality(unread') = 0
        BY <2>2, FS_EmptySet
      <3> QED BY <2>2, <3>1, ThreadFacts DEF ThreadTypes
    <2> QED BY <1>1, <2>1, <2>2
  <1>3. unread' \ overlooked' = unread'
    BY <1>1
  <1>4. events \in 0..MaxEvents /\ MaxEvents \in Nat /\ reader' \in [Tasks -> SUBSET Engine!ChatMessages]
    BY <1>1, ThreadFacts DEF ThreadTypes
  <1>5. /\ count' \in Nat /\ count' <= events' /\ Cardinality(unread') <= events'
        /\ events' \in 0..MaxEvents
    BY <1>1, <1>2, <1>4
  <1>6. count' >= Cardinality(unread' \ overlooked')
    BY <1>1, <1>2, <1>3
  <1>7. overlooked' \subseteq unread'
    BY <1>1
  <1>8. ThreadTypes'
    BY <1>1, <1>2, <1>4, <1>5, <1>7, SameThread DEF ThreadTypes
  <1>9. ThreadHolds'
    BY <1>1, <1>5, <1>6, SameThread DEF ThreadHolds
  <1> QED BY <1>8, <1>9 DEF ThreadInv

LEMMA ReaderThread ==
  ASSUME ThreadInv, NEW j \in Tasks, Engine!MarkRead(j) \/ Engine!ReadFails(j)
  PROVE  ThreadInv'
  <1>1. UNCHANGED <<thread, count, unread, overlooked, retimed, events>>
    BY DEF Engine!MarkRead, Engine!ReadFails
  <1>2. reader' \in [Tasks -> SUBSET Engine!ChatMessages]
    <2>1. CASE Engine!ReadFails(j)
      BY <2>1, ThreadFacts DEF Engine!ReadFails, ThreadTypes
    <2>2. CASE Engine!MarkRead(j)
      <3> DEFINE taken == {thread[i].id : i \in {k \in DOMAIN thread : k + 1 > Len(thread)}}
      <3>1. reader' = [reader EXCEPT ![j] = taken]
        BY <2>2 DEF Engine!MarkRead
      <3>2. taken \subseteq Engine!ChatMessages
        BY ThreadFacts DEF Items
      <3> HIDE DEF taken
      <3> QED BY <3>1, <3>2, ThreadFacts DEF ThreadTypes
    <2> QED BY <2>1, <2>2
  <1>3. ThreadTypes'
    BY <1>1, <1>2, ThreadFacts DEF ThreadTypes
  <1>4. ThreadHolds'
    BY <1>1, SameThread, ThreadFacts DEF ThreadHolds
  <1> QED BY <1>3, <1>4 DEF ThreadInv

LEMMA MarkedReadThread == ASSUME ThreadInv, NEW j \in Tasks, Engine!MarkedRead(j) PROVE ThreadInv'
  <1>1. /\ unread' = unread \ reader[j] /\ count' = 0 /\ overlooked' = unread'
        /\ reader' = [reader EXCEPT ![j] = {}] /\ UNCHANGED <<thread, retimed, events>>
    BY DEF Engine!MarkedRead
  <1>2. unread' \in SUBSET unread /\ unread' \subseteq Messages /\ overlooked' \subseteq unread'
    BY <1>1, ThreadFacts DEF ThreadTypes
  <1>3. Cardinality(unread') <= Cardinality(unread) /\ IsFiniteSet(unread')
    BY <1>2, ThreadFacts, FS_Subset
  <1>4. Cardinality(unread') \in Nat
    BY <1>3, FS_CardinalityType
  <1>5. Cardinality(unread') <= events' /\ count' <= events' /\ count' \in Nat /\ events' \in 0..MaxEvents
    BY <1>1, <1>3, <1>4, ThreadFacts DEF ThreadTypes, ThreadHolds
  <1>6. unread' \ overlooked' = {}
    BY <1>1
  <1>7. count' >= Cardinality(unread' \ overlooked')
    BY <1>1, <1>6, FS_EmptySet
  <1>8. reader' \in [Tasks -> SUBSET Engine!ChatMessages]
    BY <1>1, ThreadFacts DEF ThreadTypes
  <1>9. ThreadTypes'
    BY <1>1, <1>2, <1>5, <1>8, SameThread DEF ThreadTypes
  <1>10. ThreadHolds'
    BY <1>1, <1>5, <1>7, SameThread DEF ThreadHolds
  <1> QED BY <1>9, <1>10 DEF ThreadInv

LEMMA InitThread == Engine!Init => ThreadInv
  <1> SUFFICES ASSUME Engine!Init
               PROVE  ThreadInv
    OBVIOUS
  <1>1. /\ thread = <<>> /\ count = 0 /\ unread = {} /\ reader = [j \in Tasks |-> {}]
        /\ overlooked = {} /\ retimed = FALSE /\ events = 0
    BY DEF Engine!Init
  <1>2. MaxEvents \in Nat
    BY LegacyAssumption DEF LegacyAssumption
  <1>3. ThreadTypes
    <2>1. reader \in [Tasks -> SUBSET Engine!ChatMessages]
      BY <1>1
    <2>2. thread \in Seq(Items)
      BY <1>1
    <2>3. count \in Nat /\ events \in 0..MaxEvents
      BY <1>1, <1>2
    <2>4. unread \subseteq Messages /\ overlooked \subseteq unread /\ retimed \in BOOLEAN
      BY <1>1
    <2> QED BY <2>1, <2>2, <2>3, <2>4 DEF ThreadTypes
  <1>4. Distinct(thread) /\ Engine!Sorted(thread)
    BY <1>1 DEF Distinct, Engine!Sorted
  <1>5. Cardinality(unread) = 0 /\ Cardinality(unread \ overlooked) = 0
    BY <1>1, FS_EmptySet
  <1> QED BY <1>1, <1>3, <1>4, <1>5 DEF ThreadInv, ThreadHolds

LEMMA NextThread == ThreadInv /\ [Engine!ThreadNext]_threads => ThreadInv'
  <1> SUFFICES ASSUME ThreadInv, [Engine!ThreadNext]_threads
               PROVE  ThreadInv'
    OBVIOUS
  <1>1. CASE UNCHANGED threads
    BY <1>1 DEF threads, ThreadInv, ThreadTypes, ThreadHolds, Distinct, Engine!Sorted
  <1>2. CASE Engine!ThreadNext
    <2>1. [id : Engine!ChatMessages, at : {1, 2}] = Items
      BY DEF Items
    <2> QED BY <1>2, <2>1, UpsertThread, UpdateChatsThread, ReaderThread, MarkedReadThread
            DEF Engine!ThreadNext
  <1> QED BY <1>1, <1>2

\* A thread that holds each message once has as many ids as messages.
LEMMA ManyIds ==
  ASSUME ThreadInv
  PROVE  /\ Cardinality(Engine!Ids) = Len(thread)
         /\ Len(thread) <= Cardinality(Engine!ChatMessages)
  <1> DEFINE n == Len(thread)
             f == [i \in 1..n |-> thread[i].id]
  <1>1. n \in Nat /\ thread \in [1..n -> Items] /\ DOMAIN thread = 1..n /\ Distinct(thread)
    BY ThreadFacts DEF ThreadHolds
  <1>2. IsFiniteSet(1..n) /\ Cardinality(1..n) = n
    BY <1>1, FS_Interval
  <1>3. Engine!Ids = {f[i] : i \in 1..n}
    BY <1>1 DEF Engine!Ids
  <1>4. \A i \in 1..n : f[i] \in Engine!ChatMessages
    BY <1>1 DEF Items
  <1>5. \A i, j \in 1..n : f[i] = f[j] => i = j
    BY <1>1 DEF Distinct
  <1> HIDE DEF n
  <1>6. f \in Surjection(1..n, Engine!Ids) /\ f \in Injection(1..n, Engine!Ids)
    BY <1>3, <1>5 DEF Surjection, Injection, IsInjective
  <1>7. f \in Injection(1..n, Engine!ChatMessages)
    BY <1>4, <1>5 DEF Injection, IsInjective
  <1> HIDE DEF f
  <1>8. Cardinality(Engine!Ids) = Cardinality(1..n)
    BY <1>2, <1>6, FS_Surjection
  <1>9. Cardinality(1..n) <= Cardinality(Engine!ChatMessages)
    BY <1>7, ThreadFacts, FS_Injection
  <1> QED BY <1>2, <1>8, <1>9 DEF n

LEMMA ThreadIsKept == ThreadInv => Engine!ThreadKept
  BY ManyIds, SameCardinality, ThreadFacts DEF Engine!ThreadKept, ThreadHolds

LEMMA EngineTypes == SocketInv /\ ThreadInv => Engine!TypeOK
  <1> SUFFICES ASSUME SocketInv, ThreadInv
               PROVE  Engine!TypeOK
    OBVIOUS
  <1>1. thread \in Engine!Threads
    <2> DEFINE n == Len(thread)
               most == Engine!Cardinality(Engine!ChatMessages)
    <2>1. most = Cardinality(Engine!ChatMessages) /\ most \in Nat
      BY SameCardinality, ThreadFacts, FS_CardinalityType
    <2>2. n \in 0..most /\ thread \in [1..n -> [id : Engine!ChatMessages, at : {1, 2}]]
      BY <2>1, ManyIds, ThreadFacts DEF Items
    <2> HIDE DEF n, most
    <2> QED BY <2>2 DEF Engine!Threads, most
  <1>2. count \in 0..MaxEvents
    BY ThreadFacts DEF ThreadTypes, ThreadHolds
  <1> QED BY <1>1, <1>2, SocketFacts, ThreadFacts DEF Engine!TypeOK, SocketTypes, ThreadTypes

--------------------------------------------------------------------------------
(* The parts together.                                                            *)

LegacyInv == EngineInv /\ InboxInv /\ SocketInv /\ ThreadInv

LEMMA InitLegacy == MCInit => LegacyInv
  BY InitEngine, InitInbox, InitSocket, InitThread DEF MCInit, LegacyInv

\* A step of one part leaves the others alone.
LEMMA NextLegacy == LegacyInv /\ [MCNext]_<<vars, inbox, sockets, threads, part>> => LegacyInv'
  <1> SUFFICES ASSUME LegacyInv, [MCNext]_<<vars, inbox, sockets, threads, part>>
               PROVE  LegacyInv'
    OBVIOUS
  <1>1. [Next]_vars /\ [Inbox!Next]_inbox /\ [Engine!SocketNext]_sockets /\ [Engine!ThreadNext]_threads
    BY DEF MCNext
  <1> QED BY <1>1, NextEngine, NextInbox, NextSocket, NextThread DEF LegacyInv

LEMMA LegacyParts ==
  LegacyInv => TypesOK /\ EnginesKept /\ SeenIsKept /\ UnreadKept /\ CacheExplained
  <1> SUFFICES ASSUME LegacyInv
               PROVE  TypesOK /\ EnginesKept /\ SeenIsKept /\ UnreadKept /\ CacheExplained
    OBVIOUS
  <1>1. TypeOK
    BY DEF LegacyInv, EngineInv, HoldInv
  <1>2. RuntimeKept
    BY EngineKept DEF LegacyInv
  <1>3. Inbox!TypeOK /\ Inbox!SeenIsKept /\ Inbox!UnreadKept /\ Inbox!CacheExplained
    BY InboxKept DEF LegacyInv
  <1>4. Engine!TypeOK /\ Engine!SocketsKept /\ Engine!ThreadKept
    BY EngineTypes, SocketKept, ThreadIsKept DEF LegacyInv
  <1> QED BY <1>1, <1>2, <1>3, <1>4 DEF TypesOK, EnginesKept, SeenIsKept, UnreadKept, CacheExplained

\* Every part of the legacy server keeps its types: the sessions, a conversation with the calls
\* about it (WhatsappService), the sockets and the threads of the other engine.
THEOREM LegacyTypes == MCSpec => []TypesOK
  BY InitLegacy, NextLegacy, LegacyParts, PTL DEF MCSpec

\* No engine loses track of what it opened.  A runtime serves its session once, and the one that
\* polls is the one in the map unless connects overlapped (WPPConnectEngine.connectSession).
\* The socket in the map is one that is open and not told to end, one reconnection is under way
\* at a time and its mark is never left behind, and at rest a service that believes in a
\* connection has a socket for it (BaileysEngine.connectSession, reconnectSession).
THEOREM EnginesAreKept == MCSpec => []EnginesKept
  BY InitLegacy, NextLegacy, LegacyParts, PTL DEF MCSpec

\* A message noted as seen is stored, known to have failed, or with the one call that takes it
\* in: pollNewMessages, whose note comes before its callback, has none taken in twice.
THEOREM SeenMessagesAreKept == MCSpec => []SeenIsKept
  BY InitLegacy, NextLegacy, LegacyParts, PTL DEF MCSpec

\* Unless somebody saved a row that had changed since he read it, the unread count of a
\* conversation is that of the messages counted since the last reading; and a thread of the
\* other engine holds each message once, in order, with a count that hides no unread message
\* but those a reading cleared without having reported them.
THEOREM UnreadCountsAreKept == MCSpec => []UnreadKept
  BY InitLegacy, NextLegacy, LegacyParts, PTL DEF MCSpec

\* At rest, the cached overview shows the count of the row, unless a call filled it that had
\* read before somebody else dropped it (getOverview and invalidateOverviewCache).
THEOREM OverviewIsExplained == MCSpec => []CacheExplained
  BY InitLegacy, NextLegacy, LegacyParts, PTL DEF MCSpec
================================================================================
