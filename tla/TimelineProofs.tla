----------------------------- MODULE TimelineProofs -----------------------------
(***************************************************************************)
(* Proofs about the timeline of the open conversation (module Timeline):   *)
(* its types, the invariants of its run, and that its loader takes only    *)
(* steps of Refresher, for any number of conversations and messages, any   *)
(* size of the pages and any worlds.                                       *)
(***************************************************************************)
EXTENDS Timeline, TLAPS

\* An event of a new message names one.
WireInv == \A i \in DOMAIN wire : wire[i].kind = "new" => wire[i].n >= 1

\* Nothing is shown without a key, so the view that shows nothing has nothing to mix.
KeyInv == shownKey = Nil => shown = {}

\* While messages of another conversation are on the screen, the load that replaces them
\* is out, and should it fail its caller empties the timeline.
MixInv ==
  (open # Nil /\ ~strayed /\ \E m \in shown : m[1] # open)
    => (load[open].phase # "idle" /\ load[open].clears)

\* The messages of c from the i-th to the last that its last load has seen.
Since(c, i) == Of(c, {k \in 1..heard : k >= i})

\* What is shown of the open conversation has no gap below any message that is shown or
\* that an older page is asked from, and reaches the first one when no page is offered.
ReachInv ==
  (open # Nil /\ ~misled) =>
    /\ \A m \in shown \cup older : m[1] = open => Since(open, m[2]) \subseteq shown
    /\ hasOlder \/ Since(open, 1) \subseteq shown

--------------------------------------------------------------------------------
(* Types.                                                                         *)

LEMMA WorldType ==
  world \in Worlds => world.most \in [Conversations -> Counts]
  BY TimelineAssumption DEF TimelineAssumption, Counts

LEMMA PageTypes ==
  ASSUME NEW n \in Counts
  PROVE  /\ Newest(n) \in SUBSET (1..MaxMessages) /\ HasMore(n) \in BOOLEAN
         /\ Before(n) \in SUBSET (1..MaxMessages) /\ HasBefore(n) \in BOOLEAN
  BY TimelineAssumption DEF TimelineAssumption, Counts, Newest, HasMore, Before, HasBefore

LEMMA MergedType ==
  ASSUME cache \in [Conversations -> Pages], NEW c \in Conversations,
         NEW set \in SUBSET (1..MaxMessages)
  PROVE  Merged(c, set) \in Pages
  BY DEF Merged, Pages

LEMMA ZeroIsCount == 0 \in Counts
  BY TimelineAssumption DEF TimelineAssumption, Counts

\* A request that starts.
LEMMA LoadTypes ==
  ASSUME NEW spins \in BOOLEAN, NEW clears \in BOOLEAN
  PROVE  /\ [phase |-> "asked", saw |-> 0, spins |-> spins, clears |-> clears] \in Load
         /\ Idle \in Load /\ Idle.phase = "idle" /\ ~Idle.spins
         /\ [Idle EXCEPT !.phase = "asked"] \in Load
         /\ [Idle EXCEPT !.phase = "asked"].phase = "asked"
  <1>1. [phase |-> "asked", saw |-> 0, spins |-> spins, clears |-> clears] \in Load
    BY ZeroIsCount DEF Load, Phases
  <1>2. Idle \in Load /\ Idle.phase = "idle" /\ ~Idle.spins
    BY ZeroIsCount DEF Load, Phases, Idle
  <1>3. ASSUME NEW old \in Load
        PROVE  [old EXCEPT !.phase = "asked"] \in Load /\ [old EXCEPT !.phase = "asked"].phase = "asked"
    <2>1. [old EXCEPT !.phase = "asked"]
            = [phase |-> "asked", saw |-> old.saw, spins |-> old.spins, clears |-> old.clears]
      BY <1>3 DEF Load
    <2> QED BY <2>1, <1>3 DEF Load, Phases
  <1> QED BY <1>1, <1>2, <1>3

\* A call of loadMessages leaves a request of its conversation out, and one that it joins
\* runs again and takes over the catch of the caller.
LEMMA AsksFacts ==
  ASSUME TypeOK, NEW c \in Conversations, NEW spins \in BOOLEAN, NEW clears \in BOOLEAN,
         Asks(c, spins, clears)
  PROVE  /\ load' \in [Conversations -> Load]
         /\ again' \subseteq {x \in Conversations : load'[x].phase # "idle"}
         /\ load'[c].phase # "idle" /\ (clears => load'[c].clears)
         /\ (load[c].phase # "idle" /\ load[c].clears) => load'[c].clears
         /\ load'[c].spins = IF load[c].phase = "idle" THEN spins ELSE load[c].spins
         /\ \A x \in Conversations \ {c} : load'[x] = load[x]
  <1>1. load \in [Conversations -> Load] /\ again \subseteq {x \in Conversations : load[x].phase # "idle"}
    BY DEF TypeOK
  <1>2. CASE load[c].phase = "idle"
    <2> DEFINE new == [phase |-> "asked", saw |-> 0, spins |-> spins, clears |-> clears]
    <2>1. load' = [load EXCEPT ![c] = new] /\ again' = again
      BY <1>2 DEF Asks
    <2>2. new \in Load /\ new.phase = "asked" /\ new.spins = spins /\ new.clears = clears
      BY LoadTypes
    <2> HIDE DEF new
    <2> QED BY <1>1, <1>2, <2>1, <2>2
  <1>3. CASE load[c].phase # "idle"
    <2> DEFINE old == load[c]
               new == [old EXCEPT !.clears = old.clears \/ clears]
    <2>1. load' = [load EXCEPT ![c] = new] /\ again' = again \cup {c}
      BY <1>3 DEF Asks
    <2>2. old \in Load
      BY <1>1
    <2>3. new = [phase |-> old.phase, saw |-> old.saw, spins |-> old.spins,
                 clears |-> old.clears \/ clears]
      BY <2>2 DEF Load
    <2>4. /\ new \in Load /\ new.phase = old.phase /\ new.spins = old.spins
          /\ new.clears = (old.clears \/ clears)
      BY <2>2, <2>3 DEF Load
    <2> HIDE DEF new
    <2> QED BY <1>1, <1>3, <2>1, <2>4
  <1> QED BY <1>2, <1>3

\* The finally of loadMessages: what was queued runs, and the rest is as before.
LEMMA FinishesFacts ==
  ASSUME TypeOK, NEW c \in Conversations, Finishes(c)
  PROVE  /\ load' \in [Conversations -> Load]
         /\ again' \subseteq {x \in Conversations : load'[x].phase # "idle"}
         /\ pending' \in Conversations \cup {Nil} /\ pending' # c /\ pending' \in {pending, Nil}
         /\ spinner' = (spinner /\ ~load[c].spins) /\ spinner' \in BOOLEAN
         /\ \A x \in Conversations \ {c} : load'[x] = load[x]
  <1> DEFINE next == IF c \in again THEN [Idle EXCEPT !.phase = "asked"] ELSE Idle
  <1>1. load' = [load EXCEPT ![c] = next]
    BY DEF Finishes
  <1>2. next \in Load /\ (c \in again => next.phase = "asked")
    BY LoadTypes
  <1> HIDE DEF next
  <1>3. /\ load' \in [Conversations -> Load]
        /\ \A x \in Conversations \ {c} : load'[x] = load[x]
        /\ c \in again => load'[c].phase # "idle"
    BY <1>1, <1>2 DEF TypeOK
  <1>4. again' \subseteq {x \in Conversations : load'[x].phase # "idle"}
    BY <1>3 DEF Finishes, TypeOK
  <1>5. pending' \in Conversations \cup {Nil} /\ pending' # c /\ pending' \in {pending, Nil}
    BY TimelineAssumption DEF Finishes, TypeOK, TimelineAssumption
  <1>6. spinner' = (spinner /\ ~load[c].spins) /\ spinner' \in BOOLEAN
    BY DEF Finishes
  <1> QED BY <1>3, <1>4, <1>5, <1>6

TypeInv == TypeOK /\ WireInv

LEMMA InitTypes == Init => TypeInv
  <1> SUFFICES ASSUME Init PROVE TypeInv
    OBVIOUS
  <1>1. stored \in [Conversations -> Counts] /\ world \in Worlds
    BY DEF Init
  <1>2. /\ wire \in Seq(Event) /\ Len(wire) <= MaxEvents /\ WireInv
        /\ failures \in 0..MaxFailures /\ heard \in Counts
    BY TimelineAssumption, ZeroIsCount DEF Init, WireInv, TimelineAssumption
  <1>3. /\ load \in [Conversations -> Load] /\ cache \in [Conversations -> Pages]
        /\ cacheMore \in [Conversations -> BOOLEAN]
    BY LoadTypes DEF Init, Pages
  <1>4. prefetch \in [Conversations -> Phases \X Counts]
    BY ZeroIsCount DEF Init, Phases
  <1>5. /\ {online, hasOlder, paging, spinner, strayed, misled, joined} \subseteq BOOLEAN
        /\ open = Nil /\ shownKey = Nil /\ pending = Nil
        /\ shown = {} /\ older = {} /\ sending = {} /\ again = {} /\ due = {} /\ recovered = {}
    BY DEF Init
  <1> QED BY <1>1, <1>2, <1>3, <1>4, <1>5 DEF TypeInv, TypeOK

\* An event that is sent is a good one.
LEMMA SaysType ==
  ASSUME TypeInv, NEW kind \in {"new", "ack"}, NEW c \in Conversations, NEW n \in Counts,
         kind = "new" => n >= 1, Says(kind, c, n)
  PROVE  wire' \in Seq(Event) /\ Len(wire') <= MaxEvents /\ WireInv'
  <1> DEFINE e == [kind |-> kind, of |-> c, n |-> n]
  <1>1. e \in Event /\ e.kind = kind /\ e.n = n
    BY DEF Event
  <1>2. wire' = wire \/ (wire' = Append(wire, e) /\ Len(wire) < MaxEvents)
    BY DEF Says
  <1> HIDE DEF e
  <1>3. wire \in Seq(Event) /\ Len(wire) <= MaxEvents /\ WireInv
    BY DEF TypeInv, TypeOK
  <1>4. MaxEvents \in Nat
    BY TimelineAssumption DEF TimelineAssumption
  <1> QED BY <1>1, <1>2, <1>3, <1>4, SMT DEF WireInv

\* The parts of the type invariant that the groups of variables share.
ServerOK ==
  /\ world \in Worlds /\ stored \in [Conversations -> Counts] /\ failures \in 0..MaxFailures
  /\ wire \in Seq(Event) /\ Len(wire) <= MaxEvents /\ WireInv /\ online \in BOOLEAN
ScreenOK ==
  /\ open \in Conversations \cup {Nil} /\ shownKey \in Conversations \cup {Nil}
  /\ pending \in Conversations \cup {Nil} /\ shown \subseteq Messages
  /\ {hasOlder, paging, spinner} \subseteq BOOLEAN
CachesOK ==
  /\ cache \in [Conversations -> Pages] /\ cacheMore \in [Conversations -> BOOLEAN]
  /\ prefetch \in [Conversations -> Phases \X Counts]
LoadersOK ==
  /\ load \in [Conversations -> Load] /\ due \subseteq Conversations
  /\ again \subseteq {c \in Conversations : load[c].phase # "idle"}
RequestsOK ==
  older \subseteq Messages /\ sending \subseteq Messages /\ recovered \subseteq Conversations \X Counts
HistoryOK == {strayed, misled, joined} \subseteq BOOLEAN /\ heard \in Counts

LEMMA TypeParts ==
  TypeInv <=> ServerOK /\ ScreenOK /\ CachesOK /\ LoadersOK /\ RequestsOK /\ HistoryOK
  BY DEF TypeInv, TypeOK, ServerOK, ScreenOK, CachesOK, LoadersOK, RequestsOK, HistoryOK

LEMMA TypePartsNext ==
  TypeInv' <=> ServerOK' /\ ScreenOK' /\ CachesOK' /\ LoadersOK' /\ RequestsOK' /\ HistoryOK'
  BY DEF TypeInv, TypeOK, ServerOK, ScreenOK, CachesOK, LoadersOK, RequestsOK, HistoryOK

\* What a step leaves alone keeps its type.
LEMMA TypeFrame ==
  ASSUME TypeInv
  PROVE  /\ UNCHANGED server => ServerOK'
         /\ UNCHANGED screen => ScreenOK'
         /\ UNCHANGED caches => CachesOK'
         /\ UNCHANGED loaders => LoadersOK'
         /\ UNCHANGED <<older, sending, recovered>> => RequestsOK'
         /\ UNCHANGED history => HistoryOK'
  <1>1. ServerOK /\ ScreenOK /\ CachesOK /\ LoadersOK /\ RequestsOK /\ HistoryOK
    BY TypeParts
  <1>2. UNCHANGED server => ServerOK'
    BY <1>1 DEF ServerOK, server, WireInv
  <1>3. UNCHANGED screen => ScreenOK'
    BY <1>1 DEF ScreenOK, screen
  <1>4. UNCHANGED caches => CachesOK'
    BY <1>1 DEF CachesOK, caches
  <1>5. UNCHANGED loaders => LoadersOK'
    BY <1>1 DEF LoadersOK, loaders
  <1>6. UNCHANGED <<older, sending, recovered>> => RequestsOK'
    BY <1>1 DEF RequestsOK
  <1>7. UNCHANGED history => HistoryOK'
    BY <1>1 DEF HistoryOK, history
  <1> QED BY <1>2, <1>3, <1>4, <1>5, <1>6, <1>7

\* One more message on the server, and the event that tells of it.
LEMMA OneMoreType ==
  ASSUME TypeInv, NEW c \in Conversations, stored[c] < world.most[c],
         stored' = [stored EXCEPT ![c] = stored[c] + 1], Says("new", c, stored[c] + 1),
         UNCHANGED <<world, online, failures>>
  PROVE  ServerOK' /\ stored[c] + 1 \in 1..MaxMessages
  <1>1. stored[c] \in Counts /\ world.most[c] \in Counts
    BY WorldType DEF TypeInv, TypeOK
  <1>2. stored[c] + 1 \in Counts /\ stored[c] + 1 >= 1 /\ stored[c] + 1 \in 1..MaxMessages
    BY <1>1, TimelineAssumption DEF Counts, TimelineAssumption
  <1>3. wire' \in Seq(Event) /\ Len(wire') <= MaxEvents /\ WireInv'
    BY <1>2, SaysType
  <1>4. stored' \in [Conversations -> Counts]
    BY <1>2 DEF TypeInv, TypeOK
  <1> QED BY <1>2, <1>3, <1>4 DEF TypeInv, TypeOK, ServerOK

LEMMA ArrivesType == ASSUME TypeInv, NEW c \in Conversations, Arrives(c) PROVE TypeInv'
  <1>1. ServerOK'
    BY OneMoreType DEF Arrives
  <1>2. UNCHANGED <<screen, caches, loaders, history>> /\ UNCHANGED <<older, sending, recovered>>
    BY DEF Arrives
  <1> QED BY <1>1, <1>2, TypeFrame, TypePartsNext

LEMMA AckedType == ASSUME TypeInv, NEW c \in Conversations, Acked(c) PROVE TypeInv'
  <1>1. wire' \in Seq(Event) /\ Len(wire') <= MaxEvents /\ WireInv'
    BY SaysType, ZeroIsCount DEF Acked
  <1>2. ServerOK'
    BY <1>1, TypeParts DEF Acked, ServerOK
  <1>3. UNCHANGED <<screen, caches, loaders, history>> /\ UNCHANGED <<older, sending, recovered>>
    BY DEF Acked
  <1> QED BY <1>2, <1>3, TypeFrame, TypePartsNext

LEMMA SocketType == ASSUME TypeInv, Cut \/ Reconnect PROVE TypeInv'
  <1>1. ServerOK
    BY TypeParts
  <1>2. ServerOK'
    <2>1. CASE Cut
      <3>1. wire' = <<>> /\ wire' \in Seq(Event) /\ Len(wire') = 0 /\ DOMAIN wire' = {}
        BY <2>1 DEF Cut
      <3>2. MaxEvents \in Nat
        BY TimelineAssumption DEF TimelineAssumption
      <3>3. WireInv'
        BY <3>1 DEF WireInv
      <3>4. UNCHANGED <<world, stored, failures>> /\ online' = FALSE
        BY <2>1 DEF Cut
      <3>5. Len(wire') <= MaxEvents
        BY <3>1, <3>2
      <3>6. online' \in BOOLEAN
        BY <3>4
      <3> QED BY <1>1, <3>1, <3>3, <3>4, <3>5, <3>6, Zenon DEF ServerOK
    <2>2. CASE Reconnect
      BY <1>1, <2>2 DEF Reconnect, ServerOK, WireInv
    <2> QED BY <2>1, <2>2
  <1>3. UNCHANGED <<screen, caches, loaders, history>> /\ UNCHANGED <<older, sending, recovered>>
    BY DEF Cut, Reconnect
  <1> QED BY <1>2, <1>3, TypeFrame, TypePartsNext

\* A request that is answered.
LEMMA AnsweredFacts ==
  ASSUME NEW old \in Load, NEW n \in Counts
  PROVE  LET new == [old EXCEPT !.phase = "answered", !.saw = n] IN
           /\ new \in Load /\ new.phase = "answered"
           /\ new.spins = old.spins /\ new.clears = old.clears
  <1> DEFINE mid == [old EXCEPT !.phase = "answered"]
             new == [mid EXCEPT !.saw = n]
  <1>1. mid = [phase |-> "answered", saw |-> old.saw, spins |-> old.spins, clears |-> old.clears]
    BY DEF Load
  <1>2. mid \in Load /\ mid.phase = "answered" /\ mid.spins = old.spins /\ mid.clears = old.clears
    BY <1>1 DEF Load, Phases
  <1> HIDE DEF mid
  <1>3. new = [phase |-> mid.phase, saw |-> n, spins |-> mid.spins, clears |-> mid.clears]
    BY <1>2 DEF Load
  <1>4. /\ new \in Load /\ new.phase = "answered"
        /\ new.spins = old.spins /\ new.clears = old.clears
    BY <1>2, <1>3 DEF Load
  <1> QED BY <1>4 DEF mid

LEMMA ServeType == ASSUME TypeInv, NEW c \in Conversations, Serve(c) PROVE TypeInv'
  <1> DEFINE new == [load[c] EXCEPT !.phase = "answered", !.saw = stored[c]]
  <1>1. load[c] \in Load /\ stored[c] \in Counts
    BY DEF TypeInv, TypeOK
  <1>3. new \in Load /\ new.phase = "answered"
    BY <1>1, AnsweredFacts
  <1>4. load' = [load EXCEPT ![c] = new] /\ UNCHANGED <<again, due>>
    BY DEF Serve
  <1> HIDE DEF new
  <1>5. LoadersOK'
    BY <1>3, <1>4, TypeParts DEF LoadersOK
  <1>6. UNCHANGED <<server, screen, caches, history>> /\ UNCHANGED <<older, sending, recovered>>
    BY DEF Serve
  <1> QED BY <1>5, <1>6, TypeFrame, TypePartsNext

LEMMA LandType == ASSUME TypeInv, NEW c \in Conversations, Land(c) PROVE TypeInv'
  <1> DEFINE n == load[c].saw
  <1>1. n \in Counts
    BY DEF TypeInv, TypeOK, Load
  <1>2. /\ Newest(n) \in SUBSET (1..MaxMessages) /\ HasMore(n) \in BOOLEAN
        /\ Of(c, Newest(n)) \subseteq Messages
    BY <1>1, PageTypes DEF Of, Messages
  <1>3. /\ cache' = [cache EXCEPT ![c] = Newest(n)] /\ cacheMore' = [cacheMore EXCEPT ![c] = HasMore(n)]
        /\ UNCHANGED prefetch
    BY DEF Land
  <1>4. CachesOK'
    <2>1. Newest(n) \in Pages
      BY <1>2 DEF Pages
    <2> QED BY <2>1, <1>2, <1>3, TypeParts DEF CachesOK
  <1>5. Finishes(c) /\ UNCHANGED <<open, paging, due>>
    BY DEF Land
  <1>6. LoadersOK' /\ pending' \in Conversations \cup {Nil} /\ spinner' \in BOOLEAN
    BY <1>5, FinishesFacts, TypeParts DEF LoadersOK, TypeInv
  <1>7. /\ shownKey' \in {c, shownKey} /\ hasOlder' \in {hasOlder, HasMore(n)}
        /\ shown' \in {shown, Of(c, Newest(n))}
    BY DEF Land
  <1>8. ScreenOK'
    BY <1>2, <1>5, <1>6, <1>7, TypeParts DEF ScreenOK
  <1>9. strayed' \in {strayed, FALSE} /\ misled' \in BOOLEAN /\ heard' \in {heard, n} /\ joined' = joined
    BY TypeParts DEF Land, HistoryOK
  <1>10. HistoryOK'
    BY <1>1, <1>9, TypeParts DEF HistoryOK
  <1>11. UNCHANGED server /\ UNCHANGED <<older, sending, recovered>>
    BY DEF Land
  <1> QED BY <1>4, <1>6, <1>8, <1>10, <1>11, TypeFrame, TypePartsNext

LEMMA FailType == ASSUME TypeInv, NEW c \in Conversations, Fail(c) PROVE TypeInv'
  <1>1. ServerOK'
    BY TypeParts, TimelineAssumption DEF Fail, ServerOK, WireInv, TimelineAssumption
  <1>2. Finishes(c) /\ UNCHANGED <<open, hasOlder, paging, due>>
    BY DEF Fail
  <1>3. LoadersOK' /\ pending' \in Conversations \cup {Nil} /\ spinner' \in BOOLEAN
    BY <1>2, FinishesFacts, TypeParts DEF LoadersOK, TypeInv
  <1>4. shownKey' \in {Nil, shownKey} /\ shown' \in {{}, shown} /\ misled' \in {misled, TRUE}
    BY DEF Fail
  <1>5. ScreenOK'
    BY <1>2, <1>3, <1>4, TypeParts DEF ScreenOK
  <1>6. HistoryOK'
    BY <1>4, TypeParts DEF Fail, HistoryOK
  <1>7. UNCHANGED caches /\ UNCHANGED <<older, sending, recovered>>
    BY DEF Fail
  <1> QED BY <1>1, <1>3, <1>5, <1>6, <1>7, TypeFrame, TypePartsNext

LEMMA AskingType ==
  ASSUME TypeInv, Poll \/ Recover \/ \E c \in Conversations : Due(c)
  PROVE  TypeInv'
  <1>1. PICK c \in Conversations : Asks(c, FALSE, FALSE)
    BY DEF Poll, Recover, Due, TypeInv, TypeOK
  <1>2. due' \subseteq due
    BY DEF Poll, Recover, Due
  <1>3. LoadersOK'
    BY <1>1, <1>2, AsksFacts, TypeParts DEF LoadersOK, TypeInv
  <1>4. RequestsOK'
    <2>1. UNCHANGED <<older, sending>>
      BY DEF Poll, Recover, Due
    <2>2. \/ recovered' = recovered
          \/ open \in Conversations /\ recovered' = recovered \cup {<<open, stored[open]>>}
      BY TypeParts DEF Poll, Recover, Due, ScreenOK
    <2>3. stored \in [Conversations -> Counts] /\ RequestsOK
      BY TypeParts DEF ServerOK
    <2> QED BY <2>1, <2>2, <2>3 DEF RequestsOK
  <1>5. UNCHANGED <<server, screen, caches, history>>
    BY DEF Poll, Recover, Due
  <1> QED BY <1>3, <1>4, <1>5, TypeFrame, TypePartsNext

LEMMA EnteringType ==
  ASSUME TypeInv, NEW c \in Conversations, Open(c) \/ Turn(c)
  PROVE  TypeInv'
  <1>1. /\ open' = c /\ Asks(c, TRUE, TRUE) /\ UNCHANGED due
        /\ hasOlder' = FALSE /\ paging' = FALSE
    BY DEF Open, Turn, Enters, Reset
  <1>2. LoadersOK'
    BY <1>1, AsksFacts, TypeParts DEF LoadersOK, TypeInv
  <1>3. Of(c, cache[c]) \subseteq Messages \/ cache[c] = Nil
    BY DEF TypeInv, TypeOK, Pages, Of, Messages
  <1>4. /\ shownKey' \in {Nil, c, shownKey} /\ pending' \in {c, pending}
        /\ shown' \subseteq Messages /\ spinner' \in BOOLEAN
    BY <1>3, TypeParts DEF Open, Turn, ScreenOK
  <1>5. ScreenOK'
    BY <1>1, <1>4, TypeParts DEF ScreenOK
  <1>6. HistoryOK'
    BY ZeroIsCount, TypeParts DEF Open, Turn, HistoryOK
  <1>7. UNCHANGED <<server, caches>> /\ UNCHANGED <<older, sending, recovered>>
    BY DEF Open, Turn
  <1> QED BY <1>2, <1>5, <1>6, <1>7, TypeFrame, TypePartsNext

LEMMA LeaveType == ASSUME TypeInv, Leave PROVE TypeInv'
  <1>1. ScreenOK' /\ HistoryOK'
    BY TypeParts DEF Leave, ScreenOK, HistoryOK
  <1>2. UNCHANGED <<server, caches, loaders>> /\ UNCHANGED <<older, sending, recovered>>
    BY DEF Leave
  <1> QED BY <1>1, <1>2, TypeFrame, TypePartsNext

LEMMA PrefetchType ==
  ASSUME TypeInv, NEW c \in Conversations, Prefetch(c) \/ PrefetchServed(c) \/ PrefetchLands(c)
  PROVE  TypeInv'
  <1>1. /\ stored[c] \in Counts /\ prefetch[c] \in Phases \X Counts /\ prefetch[c][2] \in Counts
        /\ CachesOK
    BY TypeParts DEF TypeInv, TypeOK
  <1>2. CachesOK'
    <2>1. CASE Prefetch(c)
      <3>1. <<"asked", 0>> \in Phases \X Counts
        BY ZeroIsCount DEF Phases
      <3> QED BY <1>1, <2>1, <3>1 DEF Prefetch, CachesOK
    <2>2. CASE PrefetchServed(c)
      <3>1. <<"answered", stored[c]>> \in Phases \X Counts
        BY <1>1 DEF Phases
      <3> QED BY <1>1, <2>2, <3>1 DEF PrefetchServed, CachesOK
    <2>3. CASE PrefetchLands(c)
      <3>1. <<"idle", 0>> \in Phases \X Counts
        BY ZeroIsCount DEF Phases
      <3>2. Newest(prefetch[c][2]) \in Pages /\ HasMore(prefetch[c][2]) \in BOOLEAN
        BY <1>1, PageTypes DEF Pages
      <3> QED BY <1>1, <2>3, <3>1, <3>2 DEF PrefetchLands, CachesOK
    <2> QED BY <2>1, <2>2, <2>3
  <1>3. UNCHANGED <<server, screen, loaders, history>> /\ UNCHANGED <<older, sending, recovered>>
    BY DEF Prefetch, PrefetchServed, PrefetchLands
  <1> QED BY <1>2, <1>3, TypeFrame, TypePartsNext

\* A message is a pair of its conversation and its number.
LEMMA MessageParts ==
  ASSUME NEW m \in Messages
  PROVE  m[1] \in Conversations /\ m[2] \in 1..MaxMessages /\ m = <<m[1], m[2]>> /\ m[2] \in Counts
  BY TimelineAssumption DEF Messages, Counts, TimelineAssumption

LEMMA LoadOlderType == ASSUME TypeInv, LoadOlder PROVE TypeInv'
  <1>1. PICK first \in shown : older' = older \cup {first}
    BY DEF LoadOlder
  <1>2. RequestsOK'
    BY <1>1, TypeParts DEF LoadOlder, RequestsOK, ScreenOK
  <1>3. ScreenOK'
    BY TypeParts DEF LoadOlder, ScreenOK
  <1>4. UNCHANGED <<server, caches, loaders, history>>
    BY DEF LoadOlder
  <1> QED BY <1>2, <1>3, <1>4, TypeFrame, TypePartsNext

LEMMA OlderLandsType == ASSUME TypeInv, NEW first \in Messages, OlderLands(first) PROVE TypeInv'
  <1> DEFINE c == first[1]
             i == first[2]
  <1>1. c \in Conversations /\ i \in Counts
    BY MessageParts
  <1>2. /\ Before(i) \in SUBSET (1..MaxMessages) /\ HasBefore(i) \in BOOLEAN
        /\ Of(c, Before(i)) \subseteq Messages /\ Merged(c, Before(i)) \in Pages
    BY <1>1, PageTypes, MergedType DEF Of, Messages, TypeInv, TypeOK
  <1>3. /\ cacheMore' = [cacheMore EXCEPT ![c] = HasBefore(i)] /\ UNCHANGED prefetch
        /\ cache' = cache \/ cache' = [cache EXCEPT ![c] = Merged(c, Before(i))]
    BY DEF OlderLands
  <1>4. CachesOK'
    BY <1>1, <1>2, <1>3, TypeParts DEF CachesOK
  <1>5. /\ UNCHANGED <<open, spinner, pending>> /\ hasOlder' = HasBefore(i) /\ paging' = FALSE
        /\ shownKey' \in {shownKey, c} /\ shown' \in {shown, shown \cup Of(c, Before(i))}
    BY DEF OlderLands
  <1>6. ScreenOK'
    BY <1>1, <1>2, <1>5, TypeParts DEF ScreenOK
  <1>7. misled' = (misled \/ c # open) /\ UNCHANGED <<strayed, joined, heard>>
    BY DEF OlderLands
  <1>8. HistoryOK'
    BY <1>7, TypeParts DEF HistoryOK
  <1>9. RequestsOK'
    BY TypeParts DEF OlderLands, RequestsOK
  <1>10. UNCHANGED <<server, loaders>>
    BY DEF OlderLands
  <1> QED BY <1>4, <1>6, <1>8, <1>9, <1>10, TypeFrame, TypePartsNext

LEMMA OlderFailsType == ASSUME TypeInv, NEW first \in Messages, OlderFails(first) PROVE TypeInv'
  <1>1. ServerOK'
    BY TypeParts, TimelineAssumption DEF OlderFails, ServerOK, WireInv, TimelineAssumption
  <1>2. ScreenOK'
    BY TypeParts DEF OlderFails, ScreenOK
  <1>3. RequestsOK'
    BY TypeParts DEF OlderFails, RequestsOK
  <1>4. UNCHANGED <<caches, loaders, history>>
    BY DEF OlderFails
  <1> QED BY <1>1, <1>2, <1>3, <1>4, TypeFrame, TypePartsNext

LEMMA SendType == ASSUME TypeInv, Send PROVE TypeInv'
  <1>1. open \in Conversations
    BY DEF Send, TypeInv, TypeOK
  <1>2. ServerOK' /\ stored[open] + 1 \in 1..MaxMessages
    BY <1>1, OneMoreType DEF Send
  <1>3. RequestsOK'
    BY <1>1, <1>2, TypeParts DEF Send, RequestsOK, Messages
  <1>4. UNCHANGED <<screen, caches, loaders, history>>
    BY DEF Send
  <1> QED BY <1>2, <1>3, <1>4, TypeFrame, TypePartsNext

LEMMA SendLandsType == ASSUME TypeInv, NEW m \in Messages, SendLands(m) PROVE TypeInv'
  <1>1. m[1] \in Conversations /\ {m[2]} \in SUBSET (1..MaxMessages)
    BY MessageParts
  <1>2. Merged(m[1], {m[2]}) \in Pages
    BY <1>1, MergedType DEF TypeInv, TypeOK
  <1>3. cache' = [cache EXCEPT ![m[1]] = Merged(m[1], {m[2]})] /\ UNCHANGED <<cacheMore, prefetch>>
    BY DEF SendLands
  <1>4. CachesOK'
    BY <1>1, <1>2, <1>3, TypeParts DEF CachesOK
  <1>5. ScreenOK'
    BY <1>1, TypeParts DEF SendLands, ScreenOK
  <1>6. LoadersOK'
    BY <1>1, AsksFacts, TypeParts DEF SendLands, LoadersOK, TypeInv
  <1>7. RequestsOK'
    BY TypeParts DEF SendLands, RequestsOK
  <1>8. /\ strayed' = (strayed \/ m[1] # open) /\ misled' = (misled \/ Late(m))
        /\ UNCHANGED <<joined, heard>>
    BY DEF SendLands
  <1>9. HistoryOK'
    BY <1>8, TypeParts DEF HistoryOK
  <1>10. UNCHANGED server
    BY DEF SendLands
  <1> QED BY <1>4, <1>5, <1>6, <1>7, <1>9, <1>10, TypeFrame, TypePartsNext

\* The first event on the wire.
LEMMA HeadFacts ==
  ASSUME TypeInv, wire # <<>>
  PROVE  /\ Head(wire).of \in Conversations /\ Head(wire).kind \in {"new", "ack"}
         /\ Head(wire).kind = "new" => Head(wire).n \in 1..MaxMessages
         /\ Tail(wire) \in Seq(Event) /\ Len(Tail(wire)) <= MaxEvents
         /\ \A i \in DOMAIN Tail(wire) : Tail(wire)[i].kind = "new" => Tail(wire)[i].n >= 1
  <1>1. /\ wire \in Seq(Event) /\ Len(wire) <= MaxEvents /\ MaxEvents \in Nat
        /\ \A i \in DOMAIN wire : wire[i].kind = "new" => wire[i].n >= 1
    BY TimelineAssumption DEF TypeInv, TypeOK, WireInv, TimelineAssumption
  <1>2. Head(wire) \in Event /\ Head(wire) = wire[1] /\ 1 \in DOMAIN wire
    BY <1>1
  <1>3. Head(wire).of \in Conversations /\ Head(wire).kind \in {"new", "ack"} /\ Head(wire).n \in Counts
    BY <1>2 DEF Event
  <1>4. Head(wire).kind = "new" => Head(wire).n \in 1..MaxMessages
    BY <1>1, <1>2, <1>3, TimelineAssumption DEF Counts, TimelineAssumption
  <1>5. Tail(wire) \in Seq(Event) /\ Len(Tail(wire)) <= MaxEvents
    BY <1>1
  <1>6. ASSUME NEW i \in DOMAIN Tail(wire)
        PROVE  i + 1 \in DOMAIN wire /\ Tail(wire)[i] = wire[i + 1]
    BY <1>1, <1>6
  <1> QED BY <1>1, <1>3, <1>4, <1>5, <1>6

LEMMA DeliverType == ASSUME TypeInv, Deliver PROVE TypeInv'
  <1> DEFINE e == Head(wire)
  <1>1. /\ e.of \in Conversations /\ (e.kind = "new" => {e.n} \in SUBSET (1..MaxMessages))
        /\ wire' \in Seq(Event) /\ Len(wire') <= MaxEvents /\ WireInv'
    BY HeadFacts DEF Deliver, WireInv
  <1>2. ServerOK'
    BY <1>1, TypeParts DEF Deliver, ServerOK
  <1>3. RequestsOK'
    BY TypeParts DEF Deliver, RequestsOK
  <1>4. /\ UNCHANGED <<load, again, open, hasOlder, paging, spinner, pending, cacheMore, prefetch,
                       strayed, joined, heard>>
        /\ due' \in {due, due \cup {e.of}} /\ shownKey' \in {e.of, shownKey}
    BY DEF Deliver
  <1>5. LoadersOK'
    BY <1>1, <1>4, TypeParts DEF LoadersOK
  <1>6. cache' = cache \/ (e.kind = "new" /\ cache' = [cache EXCEPT ![e.of] = Merged(e.of, {e.n})])
    BY DEF Deliver
  <1>7. e.kind = "new" => Merged(e.of, {e.n}) \in Pages
    BY <1>1, MergedType DEF TypeInv, TypeOK
  <1>8. CachesOK'
    BY <1>1, <1>4, <1>6, <1>7, TypeParts DEF CachesOK
  <1>9. shown' = shown \/ (e.kind = "new" /\ shown' = shown \cup {<<e.of, e.n>>})
    BY DEF Deliver
  <1>10. ScreenOK'
    BY <1>1, <1>4, <1>9, TypeParts DEF ScreenOK, Messages
  <1>11. misled' = misled \/ misled' = (misled \/ Late(<<e.of, e.n>>))
    BY DEF Deliver
  <1>12. HistoryOK'
    BY <1>4, <1>11, TypeParts DEF HistoryOK
  <1> QED BY <1>2, <1>3, <1>5, <1>8, <1>10, <1>12, TypePartsNext

LEMMA StutterType == ASSUME TypeInv, UNCHANGED vars PROVE TypeInv'
  <1>1. UNCHANGED <<server, screen, caches, loaders, history>> /\ UNCHANGED <<older, sending, recovered>>
    BY DEF vars
  <1> QED BY <1>1, TypeFrame, TypePartsNext

LEMMA NextTypes == TypeInv /\ [Next]_vars => TypeInv'
  <1> SUFFICES ASSUME TypeInv, [Next]_vars PROVE TypeInv'
    OBVIOUS
  <1>1. ASSUME NEW c \in Conversations,
               \/ Arrives(c) \/ Acked(c)
               \/ Serve(c) \/ Land(c) \/ Fail(c) \/ Due(c)
               \/ Open(c) \/ Turn(c)
               \/ Prefetch(c) \/ PrefetchServed(c) \/ PrefetchLands(c)
        PROVE  TypeInv'
    BY <1>1, ArrivesType, AckedType, ServeType, LandType, FailType, AskingType, EnteringType,
       PrefetchType
  <1>2. ASSUME NEW m \in Messages, OlderLands(m) \/ OlderFails(m) \/ SendLands(m)
        PROVE  TypeInv'
    BY <1>2, OlderLandsType, OlderFailsType, SendLandsType
  <1>3. ASSUME Cut \/ Reconnect \/ Deliver \/ Poll \/ Recover \/ Leave \/ LoadOlder \/ Send
        PROVE  TypeInv'
    BY <1>3, SocketType, DeliverType, AskingType, LeaveType, LoadOlderType, SendType
  <1> QED BY <1>1, <1>2, <1>3, StutterType DEF Next

\* Every variable of the timeline keeps its type and every queue its bound; a queued reload
\* always has a request to wait for.
THEOREM TimelineTypes == Spec => []TypeOK
  <1>1. TypeInv => TypeOK
    BY DEF TypeInv
  <1> QED BY <1>1, InitTypes, NextTypes, PTL DEF Spec

--------------------------------------------------------------------------------
(* Loads.                                                                         *)

\* A request that is not out does not spin.
IdleInv == \A c \in Conversations : load[c].phase = "idle" => ~load[c].spins

LoadsInv == TypeInv /\ IdleInv /\ LoadingEnds

\* What a step may do to the loads.
LEMMA LoadSteps ==
  ASSUME TypeInv, [Next]_vars
  PROVE  \/ UNCHANGED <<load, again, pending, spinner, joined>>
         \/ \E c \in Conversations : Serve(c)
         \/ \E c \in Conversations : Finishes(c) /\ load[c].phase # "idle" /\ UNCHANGED joined
         \/ \E c \in Conversations : /\ Asks(c, FALSE, FALSE)
                                     /\ UNCHANGED <<pending, spinner, joined>>
         \/ \E c \in Conversations : Open(c) \/ Turn(c)
  <1> DEFINE Quiet == UNCHANGED <<load, again, pending, spinner, joined>>
             Ends(c) == Finishes(c) /\ load[c].phase # "idle" /\ UNCHANGED joined
             Silent(c) == Asks(c, FALSE, FALSE) /\ UNCHANGED <<pending, spinner, joined>>
  <1>1. ASSUME NEW c \in Conversations, Arrives(c) \/ Acked(c)
        PROVE  Quiet
    BY <1>1 DEF Arrives, Acked, loaders, screen, history
  <1>2. ASSUME NEW c \in Conversations, Prefetch(c) \/ PrefetchServed(c) \/ PrefetchLands(c)
        PROVE  Quiet
    BY <1>2 DEF Prefetch, PrefetchServed, PrefetchLands, loaders, screen, history
  <1>3. ASSUME NEW c \in Conversations, Land(c) \/ Fail(c)
        PROVE  Ends(c)
    BY <1>3 DEF Land, Fail
  <1>4. ASSUME NEW c \in Conversations, Due(c)
        PROVE  Silent(c)
    BY <1>4 DEF Due, screen, history
  <1>5. ASSUME NEW m \in Messages, OlderLands(m) \/ OlderFails(m)
        PROVE  Quiet
    BY <1>5 DEF OlderLands, OlderFails, loaders, history
  <1>6. ASSUME NEW m \in Messages, SendLands(m)
        PROVE  m[1] \in Conversations /\ Silent(m[1])
    BY <1>6, MessageParts DEF SendLands
  <1>7. ASSUME Poll \/ Recover
        PROVE  open \in Conversations /\ Silent(open)
    BY <1>7 DEF Poll, Recover, TypeInv, TypeOK, screen, history
  <1>8. ASSUME Cut \/ Reconnect \/ Deliver
        PROVE  Quiet
    BY <1>8 DEF Cut, Reconnect, Deliver, loaders, screen, history
  <1>9. ASSUME Leave \/ LoadOlder \/ Send
        PROVE  Quiet
    BY <1>9 DEF Leave, LoadOlder, Send, loaders, screen, history
  <1>10. ASSUME UNCHANGED vars
         PROVE  Quiet
    BY <1>10 DEF vars, loaders, screen, history
  <1> HIDE DEF Quiet, Ends, Silent
  <1>11. \/ Quiet \/ (\E c \in Conversations : Serve(c)) \/ (\E c \in Conversations : Ends(c))
         \/ (\E c \in Conversations : Silent(c)) \/ (\E c \in Conversations : Open(c) \/ Turn(c))
    BY <1>1, <1>2, <1>3, <1>4, <1>5, <1>6, <1>7, <1>8, <1>9, <1>10 DEF Next
  <1> QED BY <1>11 DEF Quiet, Ends, Silent

LEMMA InitLoads == Init => LoadsInv
  BY InitTypes DEF Init, LoadsInv, IdleInv, LoadingEnds, Idle

LEMMA ServeLoads ==
  ASSUME TypeInv, NEW c \in Conversations, Serve(c)
  PROVE  /\ load \in [Conversations -> Load] /\ load' \in [Conversations -> Load]
         /\ \A x \in Conversations :
              /\ (load'[x].phase = "idle") = (load[x].phase = "idle")
              /\ load'[x].spins = load[x].spins /\ load'[x].clears = load[x].clears
         /\ UNCHANGED <<again, screen, history>>
  <1> DEFINE new == [load[c] EXCEPT !.phase = "answered", !.saw = stored[c]]
  <1>1. load[c] \in Load /\ stored[c] \in Counts /\ load \in [Conversations -> Load]
    BY DEF TypeInv, TypeOK
  <1>2. /\ new \in Load /\ new.phase = "answered"
        /\ new.spins = load[c].spins /\ new.clears = load[c].clears
    BY <1>1, AnsweredFacts
  <1>3. load' = [load EXCEPT ![c] = new] /\ load[c].phase = "asked"
    BY DEF Serve
  <1> HIDE DEF new
  <1>4. UNCHANGED <<again, screen, history>>
    BY DEF Serve
  <1> QED BY <1>1, <1>2, <1>3, <1>4

LEMMA FinishesLoads ==
  ASSUME LoadsInv, NEW c \in Conversations, Finishes(c), UNCHANGED joined
  PROVE  IdleInv' /\ LoadingEnds'
  <1>1. /\ pending' # c /\ pending' \in {pending, Nil} /\ spinner' = (spinner /\ ~load[c].spins)
        /\ \A x \in Conversations \ {c} : load'[x] = load[x]
        /\ load \in [Conversations -> Load] /\ pending \in Conversations \cup {Nil}
    BY FinishesFacts DEF LoadsInv, TypeInv, TypeOK
  <1>2. load' = [load EXCEPT ![c] = IF c \in again THEN [Idle EXCEPT !.phase = "asked"] ELSE Idle]
    BY DEF Finishes
  <1>3. load'[c].phase = "idle" => load'[c] = Idle
    BY <1>1, <1>2, LoadTypes
  <1>4. IdleInv'
    BY <1>1, <1>3, LoadTypes DEF LoadsInv, IdleInv
  <1>5. pending' # Nil => load'[pending'].phase # "idle"
    BY <1>1 DEF LoadsInv, LoadingEnds
  <1>6. spinner' => (joined' \/ \E x \in Conversations : load'[x].spins)
    <2>1. SUFFICES ASSUME spinner', ~joined' PROVE \E x \in Conversations : load'[x].spins
      OBVIOUS
    <2>2. spinner /\ ~load[c].spins /\ ~joined
      BY <1>1, <2>1
    <2>3. PICK x \in Conversations : load[x].spins
      BY <2>2 DEF LoadsInv, LoadingEnds
    <2> QED BY <1>1, <2>2, <2>3
  <1> QED BY <1>4, <1>5, <1>6 DEF LoadingEnds

LEMMA AsksLoads ==
  ASSUME LoadsInv, NEW c \in Conversations, NEW spins \in BOOLEAN, NEW clears \in BOOLEAN,
         Asks(c, spins, clears)
  PROVE  /\ IdleInv'
         /\ \A x \in Conversations : load[x].phase # "idle" => load'[x].phase # "idle"
         /\ \A x \in Conversations : load[x].spins => load'[x].spins
         /\ load'[c].phase # "idle"
  <1>1. /\ load'[c].phase # "idle"
        /\ load'[c].spins = IF load[c].phase = "idle" THEN spins ELSE load[c].spins
        /\ \A x \in Conversations \ {c} : load'[x] = load[x]
    BY AsksFacts DEF LoadsInv, TypeInv
  <1> QED BY <1>1 DEF LoadsInv, IdleInv

LEMMA EnteringLoads ==
  ASSUME LoadsInv, NEW c \in Conversations, Open(c) \/ Turn(c)
  PROVE  IdleInv' /\ LoadingEnds'
  <1>1. Asks(c, TRUE, TRUE)
    BY DEF Open, Turn, Enters
  <1>2. /\ IdleInv' /\ load'[c].phase # "idle"
        /\ \A x \in Conversations : load[x].phase # "idle" => load'[x].phase # "idle"
        /\ \A x \in Conversations : load[x].spins => load'[x].spins
    BY <1>1, AsksLoads
  <1>3. load'[c].spins = IF load[c].phase = "idle" THEN TRUE ELSE load[c].spins
    BY <1>1, AsksFacts DEF LoadsInv, TypeInv
  <1>4. pending' \in {pending, c} /\ pending \in Conversations \cup {Nil}
    BY DEF Open, Turn, LoadsInv, TypeInv, TypeOK
  <1>5. pending' # Nil => load'[pending'].phase # "idle"
    BY <1>2, <1>4 DEF LoadsInv, LoadingEnds
  <1>6. spinner' => (joined' \/ \E x \in Conversations : load'[x].spins)
    <2>1. CASE Open(c)
      <3>1. joined' = (joined \/ (load[c].phase # "idle" /\ ~load[c].spins))
        BY <2>1 DEF Open
      <3>2. load'[c].spins \/ joined'
        BY <1>3, <3>1
      <3> QED BY <3>2
    <2>2. CASE Turn(c)
      <3>1. spinner' = (spinner \/ load[c].phase = "idle") /\ joined' = joined
        BY <2>2 DEF Turn
      <3>2. CASE load[c].phase = "idle"
        BY <1>3, <3>2
      <3>3. CASE spinner
        BY <1>2, <3>1, <3>3 DEF LoadsInv, LoadingEnds
      <3> QED BY <3>1, <3>2, <3>3
    <2> QED BY <2>1, <2>2
  <1> QED BY <1>2, <1>5, <1>6 DEF LoadingEnds

LEMMA NextLoads == LoadsInv /\ [Next]_vars => LoadsInv'
  <1> SUFFICES ASSUME LoadsInv, [Next]_vars PROVE LoadsInv'
    OBVIOUS
  <1>1. TypeInv /\ TypeInv' /\ pending \in Conversations \cup {Nil}
    BY NextTypes DEF LoadsInv, TypeInv, TypeOK
  <1>2. CASE UNCHANGED <<load, again, pending, spinner, joined>>
    BY <1>1, <1>2 DEF LoadsInv, IdleInv, LoadingEnds
  <1>3. ASSUME NEW c \in Conversations, Serve(c) PROVE LoadsInv'
    <2>1. /\ \A x \in Conversations :
               /\ (load'[x].phase = "idle") = (load[x].phase = "idle")
               /\ load'[x].spins = load[x].spins
          /\ UNCHANGED <<pending, spinner, joined>>
      BY <1>1, <1>3, ServeLoads DEF screen, history
    <2>2. IdleInv' /\ LoadingEnds'
      BY <1>1, <2>1 DEF LoadsInv, IdleInv, LoadingEnds
    <2> QED BY <1>1, <2>2 DEF LoadsInv
  <1>4. ASSUME NEW c \in Conversations, Finishes(c), UNCHANGED joined PROVE LoadsInv'
    BY <1>1, <1>4, FinishesLoads DEF LoadsInv
  <1>5. ASSUME NEW c \in Conversations, Asks(c, FALSE, FALSE), UNCHANGED <<pending, spinner, joined>>
        PROVE  LoadsInv'
    <2>1. /\ IdleInv'
          /\ \A x \in Conversations : load[x].phase # "idle" => load'[x].phase # "idle"
          /\ \A x \in Conversations : load[x].spins => load'[x].spins
      BY <1>5, AsksLoads
    <2>2. LoadingEnds'
      BY <1>1, <1>5, <2>1 DEF LoadsInv, LoadingEnds
    <2> QED BY <1>1, <2>1, <2>2 DEF LoadsInv
  <1>6. ASSUME NEW c \in Conversations, Open(c) \/ Turn(c) PROVE LoadsInv'
    BY <1>1, <1>6, EnteringLoads DEF LoadsInv
  <1> QED BY <1>1, <1>2, <1>3, <1>4, <1>5, <1>6, LoadSteps

\* The skeleton of a conversation just opened stands for a request of it that is out, and
\* the spinner for a request that will stop it, unless a conversation was opened while a
\* silent load of it was out: the finally of loadMessages clears both.
THEOREM LoadingIsForALoad == Spec => []LoadingEnds
  <1>1. LoadsInv => LoadingEnds
    BY DEF LoadsInv
  <1> QED BY <1>1, InitLoads, NextLoads, PTL DEF Spec

--------------------------------------------------------------------------------
(* The loader of each conversation is a Refresher.                                *)

Loader(c) == INSTANCE Refresher WITH running <- load[c].phase # "idle", again <- c \in again

LEMMA LoaderStep ==
  ASSUME TypeInv, [Next]_vars, NEW c \in Conversations
  PROVE  [Loader(c)!Next]_(Loader(c)!vars)
  <1> DEFINE Same == UNCHANGED <<load[c].phase # "idle", c \in again>>
  <1>1. Same => [Loader(c)!Next]_(Loader(c)!vars)
    BY DEF Loader!vars
  <1>2. load \in [Conversations -> Load] /\ again \subseteq Conversations
    BY DEF TypeInv, TypeOK
  <1>3. CASE UNCHANGED <<load, again, pending, spinner, joined>>
    BY <1>1, <1>3
  <1>4. ASSUME NEW x \in Conversations, Serve(x) PROVE Same
    BY <1>4, ServeLoads
  <1>5. ASSUME NEW x \in Conversations, Finishes(x), load[x].phase # "idle"
        PROVE  [Loader(c)!Next]_(Loader(c)!vars)
    <2>1. CASE x # c
      BY <1>1, <1>5, <2>1, FinishesFacts DEF Finishes, TypeInv
    <2>2. CASE x = c
      <3>1. /\ load' = [load EXCEPT ![c] = IF c \in again THEN [Idle EXCEPT !.phase = "asked"] ELSE Idle]
            /\ again' = again \ {c}
        BY <1>5, <2>2 DEF Finishes
      <3>2. (load'[c].phase # "idle") = (c \in again)
        <4> DEFINE next == IF c \in again THEN [Idle EXCEPT !.phase = "asked"] ELSE Idle
        <4>1. next.phase = IF c \in again THEN "asked" ELSE "idle"
          BY LoadTypes
        <4>2. load' = [load EXCEPT ![c] = next]
          BY <3>1
        <4> HIDE DEF next
        <4> QED BY <1>2, <4>1, <4>2
      <3> QED BY <1>5, <2>2, <3>1, <3>2 DEF Loader!Next, Loader!Finish
    <2> QED BY <2>1, <2>2
  <1>6. ASSUME NEW x \in Conversations, NEW spins \in BOOLEAN, NEW clears \in BOOLEAN,
               Asks(x, spins, clears)
        PROVE  [Loader(c)!Next]_(Loader(c)!vars)
    <2>1. load'[x].phase # "idle" /\ \A y \in Conversations \ {x} : load'[y] = load[y]
      BY <1>6, AsksFacts DEF TypeInv
    <2>2. CASE x # c
      BY <1>1, <1>6, <2>1, <2>2 DEF Asks
    <2>3. CASE x = c /\ load[c].phase = "idle"
      BY <1>6, <2>1, <2>3 DEF Asks, Loader!Next, Loader!Start
    <2>4. CASE x = c /\ load[c].phase # "idle"
      BY <1>6, <2>1, <2>4 DEF Asks, Loader!Next, Loader!Join
    <2> QED BY <2>2, <2>3, <2>4
  <1>7. ASSUME NEW x \in Conversations, Open(x) \/ Turn(x)
        PROVE  [Loader(c)!Next]_(Loader(c)!vars)
    BY <1>6, <1>7 DEF Open, Turn, Enters
  <1> HIDE DEF Same
  <1> QED BY <1>1, <1>3, <1>4, <1>5, <1>6, <1>7, LoadSteps

\* loadMessages runs at most one request per conversation, and whoever asks while one is out
\* gets one more run that starts after it ended: every step is a step of Refresher, or none.
\* It is the safety part of the property SingleFlight, for every conversation.
THEOREM LoadsAreSingleFlight ==
  ASSUME NEW c \in Conversations
  PROVE  Spec => Loader(c)!Init /\ [][Loader(c)!Next]_(Loader(c)!vars)
  <1>1. Init => Loader(c)!Init
    BY DEF Init, Idle, Loader!Init
  <1>2. TypeInv /\ [Next]_vars => [Loader(c)!Next]_(Loader(c)!vars)
    BY LoaderStep
  <1> QED BY <1>1, <1>2, InitTypes, NextTypes, PTL DEF Spec

--------------------------------------------------------------------------------
(* What is on the screen.                                                         *)

MixtureInv == TypeInv /\ KeyInv /\ MixInv

\* What an entry does to the load of the conversation that is entered.
LEMMA EntersClears ==
  ASSUME TypeInv, NEW c \in Conversations, Open(c) \/ Turn(c)
  PROVE  open' = c /\ load'[c].phase # "idle" /\ load'[c].clears
  BY AsksFacts DEF Open, Turn, Enters, TypeInv

\* A step that keeps the screen, the history of it and the load of the open conversation,
\* or adds to it only messages of the open conversation.
LEMMA MixtureFrame ==
  ASSUME MixtureInv, open' = open, strayed' = strayed,
         shownKey' = shownKey \/ shownKey' # Nil, shown' = shown \/ shownKey' # Nil,
         \A m \in shown' : m \in shown \/ m[1] = open,
         (open # Nil /\ load[open].phase # "idle" /\ load[open].clears)
           => (load'[open].phase # "idle" /\ load'[open].clears)
  PROVE  KeyInv' /\ MixInv'
  BY DEF MixtureInv, KeyInv, MixInv

\* A step that keeps the loads, too.
LEMMA MixtureSame ==
  ASSUME MixtureInv, UNCHANGED <<open, shown, shownKey, strayed, load>>
  PROVE  KeyInv' /\ MixInv'
  BY DEF MixtureInv, KeyInv, MixInv

LEMMA InitMixture == Init => MixtureInv
  BY InitTypes DEF Init, MixtureInv, KeyInv, MixInv

LEMMA LandMixture == ASSUME MixtureInv, NEW c \in Conversations, Land(c) PROVE KeyInv' /\ MixInv'
  <1>1. /\ \A x \in Conversations \ {c} : load'[x] = load[x]
        /\ open' = open /\ open \in Conversations \cup {Nil}
    BY FinishesFacts DEF Land, MixtureInv, TypeInv, TypeOK
  <1>2. CASE open = c
    <2>1. shownKey' = c /\ shown' \subseteq Of(c, Newest(load[c].saw))
      BY <1>2 DEF Land, Equivalent
    <2>2. \A m \in shown' : m[1] = open'
      BY <1>1, <1>2, <2>1 DEF Of
    <2> QED BY <2>1, <2>2, TimelineAssumption DEF KeyInv, MixInv, TimelineAssumption
  <1>3. CASE open # c
    <2>1. UNCHANGED <<shownKey, shown, strayed>>
      BY <1>3 DEF Land
    <2> QED BY <1>1, <1>3, <2>1, MixtureFrame
  <1> QED BY <1>2, <1>3

LEMMA FailMixture == ASSUME MixtureInv, NEW c \in Conversations, Fail(c) PROVE KeyInv' /\ MixInv'
  <1>1. /\ \A x \in Conversations \ {c} : load'[x] = load[x]
        /\ open' = open /\ strayed' = strayed /\ open \in Conversations \cup {Nil}
    BY FinishesFacts DEF Fail, MixtureInv, TypeInv, TypeOK
  <1>2. CASE load[c].clears
    <2>1. shown' = {}
      BY <1>2 DEF Fail
    <2> QED BY <2>1 DEF KeyInv, MixInv
  <1>3. CASE ~load[c].clears
    <2>1. UNCHANGED <<shownKey, shown>>
      BY <1>3 DEF Fail
    <2> QED BY <1>1, <1>3, <2>1, MixtureFrame
  <1> QED BY <1>2, <1>3

LEMMA AskingMixture ==
  ASSUME MixtureInv, Poll \/ Recover \/ \E c \in Conversations : Due(c)
  PROVE  KeyInv' /\ MixInv'
  <1>1. PICK c \in Conversations : Asks(c, FALSE, FALSE)
    BY DEF Poll, Recover, Due, MixtureInv, TypeInv, TypeOK
  <1>2. UNCHANGED <<open, shown, shownKey, strayed>>
    BY DEF Poll, Recover, Due, screen, history
  <1>3. /\ load'[c].phase # "idle" /\ (load[c].phase # "idle" /\ load[c].clears => load'[c].clears)
        /\ \A x \in Conversations \ {c} : load'[x] = load[x]
    BY <1>1, AsksFacts DEF MixtureInv, TypeInv
  <1>4. open \in Conversations \cup {Nil}
    BY DEF MixtureInv, TypeInv, TypeOK
  <1> QED BY <1>2, <1>3, <1>4, MixtureFrame

LEMMA ServeMixture == ASSUME MixtureInv, NEW c \in Conversations, Serve(c) PROVE KeyInv' /\ MixInv'
  <1>1. /\ \A x \in Conversations : /\ (load'[x].phase = "idle") = (load[x].phase = "idle")
                                    /\ load'[x].clears = load[x].clears
        /\ UNCHANGED <<open, shown, shownKey, strayed>>
    BY ServeLoads DEF MixtureInv, screen, history
  <1>2. open \in Conversations \cup {Nil}
    BY DEF MixtureInv, TypeInv, TypeOK
  <1> QED BY <1>1, <1>2, MixtureFrame

LEMMA EnteringMixture ==
  ASSUME MixtureInv, NEW c \in Conversations, Open(c) \/ Turn(c)
  PROVE  KeyInv' /\ MixInv'
  <1>1. MixInv'
    BY EntersClears DEF MixInv, MixtureInv
  <1>2. KeyInv'
    BY TimelineAssumption DEF Open, Turn, KeyInv, MixtureInv, TimelineAssumption
  <1> QED BY <1>1, <1>2

LEMMA SendLandsMixture ==
  ASSUME MixtureInv, NEW m \in Messages, SendLands(m)
  PROVE  KeyInv' /\ MixInv'
  <1>1. /\ m[1] \in Conversations /\ Asks(m[1], FALSE, FALSE) /\ open' = open
        /\ shownKey' = m[1] /\ shown' = shown \cup {m} /\ strayed' = (strayed \/ m[1] # open)
    BY MessageParts DEF SendLands
  <1>2. /\ load'[m[1]].phase # "idle"
        /\ (load[m[1]].phase # "idle" /\ load[m[1]].clears => load'[m[1]].clears)
        /\ \A x \in Conversations \ {m[1]} : load'[x] = load[x]
        /\ open \in Conversations \cup {Nil} /\ m[1] # Nil
    BY <1>1, AsksFacts, TimelineAssumption DEF MixtureInv, TypeInv, TypeOK, TimelineAssumption
  <1>3. KeyInv'
    BY <1>1, <1>2 DEF KeyInv
  <1>4. MixInv'
    <2>1. SUFFICES ASSUME open # Nil, ~strayed', \E k \in shown' : k[1] # open
                   PROVE  load'[open].phase # "idle" /\ load'[open].clears
      BY <1>1 DEF MixInv
    <2>2. m[1] = open /\ ~strayed /\ \E k \in shown : k[1] # open
      BY <1>1, <2>1
    <2> QED BY <1>2, <2>1, <2>2 DEF MixtureInv, MixInv
  <1> QED BY <1>3, <1>4

LEMMA OlderLandsMixture ==
  ASSUME MixtureInv, NEW first \in Messages, OlderLands(first)
  PROVE  KeyInv' /\ MixInv'
  <1>1. first[1] \in Conversations /\ first[1] # Nil
    BY MessageParts, TimelineAssumption DEF TimelineAssumption
  <1>2. UNCHANGED <<open, strayed, load>>
    BY DEF OlderLands, loaders
  <1>3. \/ UNCHANGED <<shown, shownKey>>
        \/ /\ open = first[1] /\ shownKey' = first[1]
           /\ shown' = shown \cup Of(first[1], Before(first[2]))
    BY DEF OlderLands
  <1>4. \A k \in Of(first[1], Before(first[2])) : k[1] = first[1]
    BY DEF Of
  <1> QED BY <1>1, <1>2, <1>3, <1>4, MixtureFrame

LEMMA DeliverMixture == ASSUME MixtureInv, Deliver PROVE KeyInv' /\ MixInv'
  <1>1. Head(wire).of \in Conversations /\ Head(wire).of # Nil
    BY HeadFacts, TimelineAssumption DEF Deliver, MixtureInv, TimelineAssumption
  <1>2. UNCHANGED <<open, strayed, load>>
    BY DEF Deliver
  <1>3. \/ UNCHANGED <<shown, shownKey>>
        \/ /\ open = Head(wire).of /\ shownKey' = Head(wire).of
           /\ shown' = shown \cup {<<Head(wire).of, Head(wire).n>>}
    BY DEF Deliver
  <1> QED BY <1>1, <1>2, <1>3, MixtureFrame

LEMMA LeaveMixture == ASSUME MixtureInv, Leave PROVE KeyInv' /\ MixInv'
  BY DEF Leave, KeyInv, MixInv

LEMMA QuietMixture ==
  ASSUME MixtureInv,
         \/ Cut \/ Reconnect \/ LoadOlder \/ Send \/ UNCHANGED vars
         \/ \E m \in Messages : OlderFails(m)
         \/ \E c \in Conversations : \/ Arrives(c) \/ Acked(c)
                                     \/ Prefetch(c) \/ PrefetchServed(c) \/ PrefetchLands(c)
  PROVE  KeyInv' /\ MixInv'
  <1>1. UNCHANGED <<open, shown, shownKey, strayed, load>>
    BY DEF Cut, Reconnect, LoadOlder, Send, vars, OlderFails, Arrives, Acked, Prefetch,
           PrefetchServed, PrefetchLands, screen, loaders, history
  <1> QED BY <1>1, MixtureSame

LEMMA NextMixture == MixtureInv /\ [Next]_vars => MixtureInv'
  <1> SUFFICES ASSUME MixtureInv, [Next]_vars PROVE KeyInv' /\ MixInv'
    BY NextTypes DEF MixtureInv
  <1>1. ASSUME NEW c \in Conversations,
               \/ Arrives(c) \/ Acked(c)
               \/ Serve(c) \/ Land(c) \/ Fail(c) \/ Due(c)
               \/ Open(c) \/ Turn(c)
               \/ Prefetch(c) \/ PrefetchServed(c) \/ PrefetchLands(c)
        PROVE  KeyInv' /\ MixInv'
    BY <1>1, QuietMixture, ServeMixture, LandMixture, FailMixture, AskingMixture, EnteringMixture
  <1>2. ASSUME NEW m \in Messages, OlderLands(m) \/ OlderFails(m) \/ SendLands(m)
        PROVE  KeyInv' /\ MixInv'
    BY <1>2, OlderLandsMixture, QuietMixture, SendLandsMixture
  <1>3. ASSUME Cut \/ Reconnect \/ Deliver \/ Poll \/ Recover \/ Leave \/ LoadOlder \/ Send
        PROVE  KeyInv' /\ MixInv'
    BY <1>3, QuietMixture, DeliverMixture, AskingMixture, LeaveMixture
  <1> QED BY <1>1, <1>2, <1>3, QuietMixture DEF Next

\* While the timeline of the open conversation holds messages of another one, the load that
\* replaces them is out, unless the response to a send has come after the user had left:
\* the effects of a new conversation start it, and its catch empties the timeline.
THEOREM MixturesHeal == Spec => []MixtureHeals
  <1>1. MixtureInv => MixtureHeals
    <2> SUFFICES ASSUME MixtureInv, Mixed, ~strayed PROVE load[open].phase # "idle"
      BY DEF MixtureHeals
    <2>1. open # Nil
      BY DEF Mixed, MixtureInv, KeyInv
    <2> QED BY <2>1 DEF Mixed, MixtureInv, MixInv
  <1> QED BY <1>1, InitMixture, NextMixture, PTL DEF Spec

--------------------------------------------------------------------------------
(* What is within reach.                                                          *)

ReachableInv == TypeInv /\ ReachInv

\* The last page of n messages has no gap, and is all of them when no other is offered.
LEMMA NewestPage ==
  ASSUME NEW n \in Counts
  PROVE  /\ \A i \in Newest(n) : {k \in 1..n : k >= i} \subseteq Newest(n)
         /\ ~HasMore(n) => 1..n \subseteq Newest(n)
  BY TimelineAssumption DEF Newest, HasMore, Counts, TimelineAssumption

\* The page before the i-th message closes up to it, and reaches the first one when no
\* other is offered.
LEMMA OlderPageFacts ==
  ASSUME NEW i \in 1..MaxMessages, NEW h \in Counts
  PROVE  /\ \A j \in Before(i) : {k \in 1..h : k >= j} \subseteq Before(i) \cup {k \in 1..h : k >= i}
         /\ ~HasBefore(i) => {k \in 1..h : k >= 1} \subseteq Before(i) \cup {k \in 1..h : k >= i}
  BY TimelineAssumption DEF Before, HasBefore, Counts, TimelineAssumption

\* A step that adds to the timeline and to the requests only messages below which nothing
\* is missing.
LEMMA ReachFrame ==
  ASSUME ReachableInv, open' = open, heard' = heard, ~misled' => ~misled, hasOlder' = hasOlder,
         shown \subseteq shown',
         \A m \in shown' \cup older' :
           \/ m \in shown \cup older
           \/ m[1] # open \/ misled' \/ Since(open, m[2]) \subseteq shown'
  PROVE  ReachInv'
  <1>1. \A i : Since(open, i)' = Since(open, i)
    BY DEF Since, Of
  <1> SUFFICES ASSUME open # Nil, ~misled'
               PROVE  /\ \A m \in shown' \cup older' : m[1] = open => Since(open, m[2]) \subseteq shown'
                      /\ hasOlder \/ Since(open, 1) \subseteq shown'
    BY <1>1 DEF ReachInv
  <1>2. /\ \A m \in shown \cup older : m[1] = open => Since(open, m[2]) \subseteq shown
        /\ hasOlder \/ Since(open, 1) \subseteq shown
    BY DEF ReachableInv, ReachInv
  <1> QED BY <1>2

LEMMA ReachSame ==
  ASSUME ReachableInv, UNCHANGED <<open, heard, misled, hasOlder, shown, older>>
  PROVE  ReachInv'
  BY ReachFrame

LEMMA InitReach == Init => ReachableInv
  BY InitTypes DEF Init, ReachableInv, ReachInv

LEMMA LandReach == ASSUME ReachableInv, NEW c \in Conversations, Land(c) PROVE ReachInv'
  <1> DEFINE n == load[c].saw
  <1>1. CASE open # c
    BY <1>1, ReachSame DEF Land
  <1>2. CASE open = c
    <2>1. n \in Counts
      BY DEF ReachableInv, TypeInv, TypeOK, Load
    <2>2. /\ open' = c /\ shown' = Of(c, Newest(n)) /\ hasOlder' = HasMore(n) /\ heard' = n
          /\ older' = older /\ misled' = (\E m \in older : m[1] = c)
      BY <1>2 DEF Land, Equivalent
    <2>3. \A i : Since(c, i)' = Of(c, {k \in 1..n : k >= i})
      BY <2>2 DEF Since, Of
    <2>4. \A m \in shown' : m[2] \in Newest(n)
      BY <2>2 DEF Of
    <2>5. ASSUME ~misled'
          PROVE  \A m \in shown' \cup older' : m[1] = c => Since(c, m[2])' \subseteq shown'
      BY <2>1, <2>2, <2>3, <2>4, <2>5, NewestPage DEF Of
    <2>6. hasOlder' \/ Since(c, 1)' \subseteq shown'
      <3>1. {k \in 1..n : k >= 1} \subseteq 1..n
        OBVIOUS
      <3> QED BY <2>1, <2>2, <2>3, <3>1, NewestPage DEF Of
    <2>7. \A i : Since(open, i)' = Since(c, i)'
      BY <2>2 DEF Since
    <2> QED BY <2>2, <2>5, <2>6, <2>7 DEF ReachInv
  <1> QED BY <1>1, <1>2

LEMMA FailReach == ASSUME ReachableInv, NEW c \in Conversations, Fail(c) PROVE ReachInv'
  <1>1. CASE load[c].clears
    BY <1>1 DEF Fail, ReachInv
  <1>2. CASE ~load[c].clears
    BY <1>2, ReachSame DEF Fail
  <1> QED BY <1>1, <1>2

LEMMA MovingReach ==
  ASSUME ReachableInv, Leave \/ \E c \in Conversations : Open(c) \/ Turn(c)
  PROVE  ReachInv'
  BY DEF Leave, Open, Turn, ReachInv

LEMMA LoadOlderReach == ASSUME ReachableInv, LoadOlder PROVE ReachInv'
  <1>1. PICK first \in shown : older' = older \cup {first}
    BY DEF LoadOlder
  <1>2. UNCHANGED <<open, heard, misled, hasOlder, shown>>
    BY DEF LoadOlder, history
  <1> QED BY <1>1, <1>2, ReachFrame

LEMMA OlderFailsReach ==
  ASSUME ReachableInv, NEW first \in Messages, OlderFails(first)
  PROVE  ReachInv'
  <1>1. UNCHANGED <<open, heard, misled, hasOlder, shown>> /\ older' \subseteq older
    BY DEF OlderFails, history
  <1> QED BY <1>1, ReachFrame

LEMMA OlderLandsReach ==
  ASSUME ReachableInv, NEW first \in Messages, OlderLands(first)
  PROVE  ReachInv'
  <1> DEFINE c == first[1]
             i == first[2]
  <1>1. /\ first \in older /\ older' = older \ {first} /\ hasOlder' = HasBefore(i)
        /\ misled' = (misled \/ c # open) /\ UNCHANGED <<open, heard>>
    BY DEF OlderLands
  <1>2. CASE misled'
    BY <1>2 DEF ReachInv
  <1>3. CASE open = Nil
    BY <1>1, <1>3 DEF ReachInv
  <1>4. CASE ~misled' /\ open # Nil
    <2>1. ~misled /\ c = open
      BY <1>1, <1>4
    <2>2. /\ \A m \in shown \cup older : m[1] = c => Since(c, m[2]) \subseteq shown
          /\ Since(c, i) \subseteq shown
      BY <1>1, <1>4, <2>1 DEF ReachableInv, ReachInv
    <2>3. shown' = shown \cup Of(c, Before(i))
      BY <2>1 DEF OlderLands, Of
    <2>4. i \in 1..MaxMessages /\ heard \in Counts
      BY MessageParts DEF ReachableInv, TypeInv, TypeOK
    <2>5. \A j : Since(c, j)' = Of(c, {k \in 1..heard : k >= j}) /\ Since(c, j) = Since(c, j)'
      BY <1>1 DEF Since, Of
    <2>6. Of(c, Before(i) \cup {k \in 1..heard : k >= i}) \subseteq shown'
      BY <2>2, <2>3 DEF Of, Since
    <2>7. \A m \in Of(c, Before(i)) : m[2] \in Before(i)
      BY DEF Of
    <2>8. \A m \in Of(c, Before(i)) : Since(c, m[2])' \subseteq shown'
      BY <2>4, <2>5, <2>6, <2>7, OlderPageFacts DEF Of
    <2>9. \A m \in shown' \cup older' : m[1] = c => Since(c, m[2])' \subseteq shown'
      BY <1>1, <2>2, <2>3, <2>5, <2>8
    <2>10. hasOlder' \/ Since(c, 1)' \subseteq shown'
      BY <1>1, <2>4, <2>5, <2>6, OlderPageFacts DEF Of
    <2>11. \A j : Since(open, j)' = Since(c, j)'
      BY <1>1, <2>1 DEF Since
    <2>12. open' = c
      BY <1>1, <2>1
    <2> QED BY <2>9, <2>10, <2>11, <2>12 DEF ReachInv
  <1> QED BY <1>2, <1>3, <1>4

\* A message that comes by itself either leaves no gap below it, or is a late one.
LEMMA ComesReach ==
  ASSUME ReachableInv, NEW m \in Messages, m[1] = open, ~Late(m), open # Nil, ~misled
  PROVE  Since(open, m[2]) \subseteq shown
  <1>1. CASE m \in shown
    BY <1>1 DEF ReachableInv, ReachInv
  <1>2. CASE m[2] > heard
    <2>1. m[2] \in Nat /\ heard \in Nat
      BY MessageParts, TimelineAssumption DEF ReachableInv, TypeInv, TypeOK, Counts, TimelineAssumption
    <2>2. {k \in 1..heard : k >= m[2]} = {}
      BY <1>2, <2>1
    <2> QED BY <2>2 DEF Since, Of
  <1>3. m[2] \in Nat /\ heard \in Nat
    BY MessageParts, TimelineAssumption DEF ReachableInv, TypeInv, TypeOK, Counts, TimelineAssumption
  <1> QED BY <1>1, <1>2, <1>3 DEF Late

LEMMA SendLandsReach ==
  ASSUME ReachableInv, NEW m \in Messages, SendLands(m)
  PROVE  ReachInv'
  <1>1. /\ UNCHANGED <<open, heard, hasOlder, older>> /\ shown' = shown \cup {m}
        /\ misled' = (misled \/ Late(m))
    BY DEF SendLands
  <1>2. CASE open = Nil
    BY <1>1, <1>2 DEF ReachInv
  <1>3. CASE open # Nil
    BY <1>1, <1>3, ComesReach, ReachFrame
  <1> QED BY <1>2, <1>3

LEMMA DeliverReach == ASSUME ReachableInv, Deliver PROVE ReachInv'
  <1> DEFINE m == <<Head(wire).of, Head(wire).n>>
  <1>1. UNCHANGED <<open, heard, hasOlder, older>>
    BY DEF Deliver
  <1>2. \/ /\ Head(wire).kind = "new" /\ misled' = (misled \/ Late(m))
           /\ IF open = Head(wire).of THEN shown' = shown \cup {m} ELSE shown' = shown
        \/ UNCHANGED <<shown, misled>>
    BY DEF Deliver
  <1>3. m[1] = Head(wire).of /\ (Head(wire).kind = "new" => m \in Messages)
    BY HeadFacts DEF Deliver, Messages, ReachableInv
  <1> HIDE DEF m
  <1>4. CASE open = Nil
    BY <1>1, <1>4 DEF ReachInv
  <1>5. CASE misled'
    BY <1>5 DEF ReachInv
  <1>6. CASE UNCHANGED <<shown, misled>>
    BY <1>1, <1>6, ReachSame
  <1>7. CASE open # Nil /\ ~misled' /\ ~UNCHANGED <<shown, misled>>
    <2>1. m \in Messages /\ ~misled /\ ~Late(m)
      BY <1>2, <1>3, <1>7
    <2>2. shown' = shown \/ (m[1] = open /\ shown' = shown \cup {m})
      BY <1>2, <1>3, <1>7
    <2>3. m[1] = open => Since(open, m[2]) \subseteq shown
      BY <1>7, <2>1, ComesReach
    <2> QED BY <1>1, <2>1, <2>2, <2>3, ReachFrame
  <1> QED BY <1>4, <1>5, <1>6, <1>7

LEMMA QuietReach ==
  ASSUME ReachableInv,
         \/ Cut \/ Reconnect \/ Send \/ Poll \/ Recover \/ UNCHANGED vars
         \/ \E c \in Conversations : \/ Arrives(c) \/ Acked(c) \/ Serve(c) \/ Due(c)
                                     \/ Prefetch(c) \/ PrefetchServed(c) \/ PrefetchLands(c)
  PROVE  ReachInv'
  <1>1. UNCHANGED <<open, heard, misled, hasOlder, shown, older>>
    BY DEF Cut, Reconnect, Send, Poll, Recover, vars, Arrives, Acked, Serve, Due, Prefetch,
           PrefetchServed, PrefetchLands, screen, history
  <1> QED BY <1>1, ReachSame

LEMMA NextReach == ReachableInv /\ [Next]_vars => ReachableInv'
  <1> SUFFICES ASSUME ReachableInv, [Next]_vars PROVE ReachInv'
    BY NextTypes DEF ReachableInv
  <1>1. ASSUME NEW c \in Conversations,
               \/ Arrives(c) \/ Acked(c)
               \/ Serve(c) \/ Land(c) \/ Fail(c) \/ Due(c)
               \/ Open(c) \/ Turn(c)
               \/ Prefetch(c) \/ PrefetchServed(c) \/ PrefetchLands(c)
        PROVE  ReachInv'
    BY <1>1, QuietReach, LandReach, FailReach, MovingReach
  <1>2. ASSUME NEW m \in Messages, OlderLands(m) \/ OlderFails(m) \/ SendLands(m)
        PROVE  ReachInv'
    BY <1>2, OlderLandsReach, OlderFailsReach, SendLandsReach
  <1>3. ASSUME Cut \/ Reconnect \/ Deliver \/ Poll \/ Recover \/ Leave \/ LoadOlder \/ Send
        PROVE  ReachInv'
    BY <1>3, QuietReach, DeliverReach, MovingReach, LoadOlderReach
  <1> QED BY <1>1, <1>2, <1>3, QuietReach DEF Next

\* Each message that the open conversation had at its last load is on the screen, or the
\* user is offered the messages before, whatever pages, events and responses overlap: the
\* exceptions are the words of hasOlder that the history calls misled.
THEOREM MessagesWithinReach == Spec => []OlderReachable
  <1>1. ReachableInv => OlderReachable
    <2> SUFFICES ASSUME ReachableInv, open # Nil, ~misled, ~hasOlder
                 PROVE  Of(open, 1..heard) \subseteq shown
      BY DEF OlderReachable
    <2>1. Since(open, 1) \subseteq shown
      BY DEF ReachableInv, ReachInv
    <2>2. Since(open, 1) = Of(open, 1..heard)
      BY DEF Since, Of
    <2> QED BY <2>1, <2>2
  <1> QED BY <1>1, InitReach, NextReach, PTL DEF Spec
================================================================================
