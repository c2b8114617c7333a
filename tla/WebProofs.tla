------------------------------- MODULE WebProofs --------------------------------
(***************************************************************************)
(* Proofs about the web dashboard (module MCWeb): its list of              *)
(* conversations, the CRM, the frame, the composer, the timeline on the    *)
(* screen, the lists of rows, the alerts and the settings; for any number  *)
(* of conversations, sessions, texts and requests under way, and any sizes *)
(* of pages, rows and windows.                                             *)
(***************************************************************************)
EXTENDS MCWeb, FiniteSetTheorems, WellFoundedInduction, TLAPS

--------------------------------------------------------------------------------
(* The least and the greatest of some numbers.                                    *)

LEMMA LeastNat ==
  ASSUME NEW S \in SUBSET Nat, S # {}
  PROVE  \E n \in S : \A m \in S : n <= m
  <1>1. PICK n \in S : \A m \in S : ~ (<<m, n>> \in OpToRel(<, Nat))
    BY NatLessThanWellFounded, WFMin
  <1>2. \A m \in S : ~(m < n)
    BY <1>1 DEF OpToRel
  <1> QED BY <1>2

LEMMA MinNat ==
  ASSUME NEW S \in SUBSET Nat, S # {}
  PROVE  Min(S) \in S /\ \A m \in S : Min(S) <= m
  BY LeastNat DEF Min

LEMMA MaxNat ==
  ASSUME NEW N \in Nat, NEW S \in SUBSET (0..N), S # {}
  PROVE  Max(S) \in S /\ \A m \in S : m <= Max(S)
  <1> DEFINE D == {k \in Nat : \E m \in S : k = N - m}
  <1>0. PICK k \in S : TRUE
    OBVIOUS
  <1>1. N - k \in D /\ D \in SUBSET Nat
    BY <1>0
  <1>2. PICK d \in D : \A e \in D : d <= e
    BY <1>1, LeastNat
  <1>3. PICK n \in S : d = N - n
    BY <1>2
  <1>4. \A m \in S : n >= m
    BY <1>2, <1>3
  <1> QED BY <1>4 DEF Max

--------------------------------------------------------------------------------
(* The conversations that the dashboard lists.                                    *)

\* An event that names c is under way.
Coming(c) == \E i \in DOMAIN wire : wire[i].of = c

\* Pages: what has not come and is not about to come is behind the cursor.
Behind(c, set, rest, cursor) == c \in set \/ (rest /\ at[c] < cursor)

\* The list of the pages, for a conversation that has been neither missed nor announced.
Reaches(c) ==
  /\ (page.loaded /\ request.phase # "answered") => Behind(c, page.list, page.more, page.cursor)
  /\ request.phase = "answered"
       => Behind(c, Joined(IF request.append THEN page.list ELSE {}, request.list),
                 request.more, request.cursor)

PagesInv ==
  /\ \A i \in DOMAIN wire : wire[i].at > 0
  /\ ~page.loaded => page.list = {}
  /\ request.phase # "idle" => request.append = page.loaded
  /\ request.phase = "asked" => request.cursor = (IF request.append THEN page.cursor ELSE 0)
  /\ \A c \in Conversations : at[c] > 0 /\ c \notin missed /\ ~Coming(c) => Reaches(c)

ListInv == TypeOK /\ PagesInv

LEMMA PagesInvImplies == ListInv => PagesComplete
  BY DEF ListInv, TypeOK, PagesInv, PagesComplete, Reaches, Behind, Coming, Listed, Page, Request, Phases

--------------------------------------------------------------------------------
(* Types of the list.                                                             *)

LEMMA ListFacts ==
  /\ MaxTime \in Nat \ {0} /\ PageSize \in Nat \ {0} /\ MaxEvents \in Nat \ {0}
  /\ MaxFailures \in Nat /\ 0 \in Times
  BY ListAssumption DEF ListAssumption, Times

EventType == [kind : Kinds, of : Conversations, at : Times]

LEMMA WireType == TypeOK => wire \in Seq(EventType)
  BY DEF TypeOK, EventType

LEMMA FailsType ==
  ASSUME TypeOK, failures < MaxFailures, failures' = failures + 1
  PROVE  failures' \in 0..MaxFailures
  BY ListFacts DEF TypeOK

LEMMA UnbadgedType ==
  ASSUME TypeOK, NEW c \in Conversations
  PROVE  /\ Unbadged(c) \in [Conversations -> Entry]
         /\ \A d \in Conversations : Unbadged(c)[d].at = 0 => ~Unbadged(c)[d].badge
  BY DEF Unbadged, TypeOK, Entry

LEMMA AsksType ==
  ASSUME TypeOK, Asks
  PROVE  /\ load' \in [phase : Phases, saw : [Conversations -> Times]]
         /\ again' \in BOOLEAN /\ (again' => load'.phase # "idle")
  BY DEF TypeOK, Asks, Phases

LEMMA FinishesType ==
  ASSUME TypeOK, Finishes
  PROVE  /\ load' \in [phase : Phases, saw : [Conversations -> Times]]
         /\ again' = FALSE
  BY ListFacts DEF TypeOK, Finishes, Phases, Nothing

\* The newest message is the last one there was.
LEMMA NowType ==
  ASSUME TypeOK, NEW c \in Conversations
  PROVE  Now \in Times
  <1> DEFINE S == {at[d] : d \in Conversations}
  <1>1. S \in SUBSET (0..MaxTime) /\ at[c] \in S
    BY DEF TypeOK, Times
  <1>2. Max(S) \in S
    BY <1>1, MaxNat, ListFacts
  <1> QED BY <1>1, <1>2 DEF Now, Times

\* A page that is cut off ends with the oldest of the newest conversations: the others are
\* behind it.
LEMMA NewestAhead ==
  ASSUME TypeOK, NEW rest \in SUBSET Conversations, NEW c \in rest \ Newest(rest)
  PROVE  /\ Min({at[d] : d \in Newest(rest)}) \in {at[d] : d \in Newest(rest)}
         /\ at[c] < Min({at[d] : d \in Newest(rest)})
  <1> DEFINE Above(d) == {e \in rest : at[e] > at[d]}
             S == {at[d] : d \in Newest(rest)}
  <1>1. at \in [Conversations -> Nat] /\ \A d \in Conversations : at[d] \in 0..MaxTime
    BY DEF TypeOK, Times
  <1>2. \A d \in rest : IsFiniteSet(Above(d)) /\ Cardinality(Above(d)) \in Nat
    <2>1. IsFiniteSet(rest)
      BY FS_Subset, ListAssumption DEF ListAssumption
    <2> QED BY <2>1, FS_Subset, FS_CardinalityType
  <1>3. Newest(rest) = {d \in rest : Cardinality(Above(d)) < PageSize}
    BY DEF Newest
  <1>4. ~(Cardinality(Above(c)) < PageSize)
    BY <1>3
  <1>5. \A d \in Newest(rest) : at[c] < at[d]
    <2> SUFFICES ASSUME NEW d \in Newest(rest), ~(at[c] < at[d]) PROVE FALSE
      OBVIOUS
    <2>1. d \in rest /\ Cardinality(Above(d)) < PageSize
      BY <1>3
    <2>2. Above(c) \subseteq Above(d)
      BY <1>1, <2>1
    <2>3. Cardinality(Above(c)) <= Cardinality(Above(d))
      BY <1>2, <2>1, <2>2, FS_Subset
    <2> QED BY <1>2, <1>4, <2>1, <2>3, ListFacts
  <1>6. S # {}
    <2> DEFINE T == {at[d] : d \in rest}
    <2>1. T \in SUBSET (0..MaxTime) /\ at[c] \in T
      BY <1>1
    <2>2. Max(T) \in T /\ \A m \in T : m <= Max(T)
      BY <2>1, MaxNat, ListFacts
    <2>3. PICK d \in rest : at[d] = Max(T)
      BY <2>2
    <2>4. Above(d) = {}
      BY <1>1, <2>2, <2>3
    <2>5. Cardinality(Above(d)) = 0
      BY <2>4, FS_EmptySet
    <2>6. d \in Newest(rest)
      BY <1>3, <2>5, ListFacts
    <2> QED BY <2>6
  <1>7. S \in SUBSET Nat
    BY <1>1, <1>3
  <1>8. Min(S) \in S
    BY <1>6, <1>7, MinNat
  <1> QED BY <1>5, <1>8

LEMMA ServedType ==
  ASSUME TypeOK, PageServed
  PROVE  /\ request' \in Request /\ request'.phase = "answered"
         /\ request'.append = request.append
  <1> DEFINE rest == After(request.cursor)
             some == Newest(rest)
             cursor == IF some = rest THEN 0 ELSE Min({at[c] : c \in some})
  <1>1. rest \in SUBSET Conversations /\ some \in SUBSET rest
    BY DEF After, Newest
  <1>2. cursor \in Times
    <2>1. CASE some = rest
      BY <2>1, ListFacts
    <2>2. CASE some # rest
      <3>1. PICK c \in rest \ some : TRUE
        BY <1>1, <2>2
      <3>2. Min({at[d] : d \in some}) \in {at[d] : d \in some}
        BY <1>1, <3>1, NewestAhead
      <3> QED BY <1>1, <2>2, <3>2 DEF TypeOK
    <2> QED BY <2>1, <2>2
  <1>3. request' = [request EXCEPT !.phase = "answered", !.list = some, !.more = (some # rest),
                                   !.cursor = cursor]
    BY DEF PageServed
  <1> HIDE DEF some, rest, cursor
  <1> QED BY <1>1, <1>2, <1>3 DEF TypeOK, Request, Phases

LEMMA InitList == Init => ListInv
  <1> SUFFICES ASSUME Init PROVE ListInv
    OBVIOUS
  <1>1. TypeOK
    <2>1. page \in Page /\ request \in Request
      BY ListFacts DEF Init, Page, Request, NoRequest, Phases
    <2>2. /\ overview \in [Conversations -> Entry]
          /\ \A c \in Conversations : overview[c].at = 0 => ~overview[c].badge
      BY ListFacts DEF Init, Loaded, Nothing, Entry
    <2>3. load \in [phase : Phases, saw : [Conversations -> Times]] /\ load.phase = "asked"
      BY ListFacts DEF Init, Nothing, Phases
    <2>4. wire \in Seq([kind : Kinds, of : Conversations, at : Times]) /\ Len(wire) <= MaxEvents
      BY ListFacts DEF Init
    <2>5. /\ habit \in Habits /\ at \in [Conversations -> Times] /\ failures = 0
          /\ again \in BOOLEAN /\ ~again /\ booked \in BOOLEAN /\ visible \in BOOLEAN
          /\ open = Nil /\ reading = {} /\ fetching = {} /\ missed = {}
      BY DEF Init
    <2> QED BY <2>1, <2>2, <2>3, <2>4, <2>5, ListFacts DEF TypeOK
  <1>2. PagesInv
    BY DEF Init, PagesInv, Reaches, NoRequest
  <1> QED BY <1>1, <1>2 DEF ListInv

\* Steps that leave the pages alone, and what the pages hear of.
LEMMA SamePages ==
  ASSUME PagesInv, UNCHANGED <<at, wire, pages>>
  PROVE  PagesInv'
  BY DEF pages, PagesInv, Reaches, Behind, Coming

LEMMA OverviewTypes ==
  ASSUME TypeOK,
         Serve \/ Land \/ LoadFails \/ Poll \/ Refresh \/ Turn
           \/ \E c \in Conversations : Open(c) \/ ReadServed(c) \/ ReadFails(c) \/ MessagesLand(c)
  PROVE  TypeOK'
  <1>1. CASE Serve
    BY <1>1 DEF Serve, TypeOK, users, pages, Phases
  <1>2. CASE Land
    <2>1. Loaded(load.saw) \in [Conversations -> Entry]
          /\ \A c \in Conversations : ~Loaded(load.saw)[c].badge
      BY DEF Loaded, TypeOK, Entry
    <2>2. overview' \in [Conversations -> Entry]
          /\ \A c \in Conversations : overview'[c].at = 0 => ~overview'[c].badge
      BY <1>2, <2>1 DEF Land, TypeOK
    <2> QED BY <1>2, <2>2, FinishesType DEF Land, TypeOK, users, pages
  <1>3. CASE LoadFails
    BY <1>3, FinishesType, FailsType DEF LoadFails, TypeOK, users, pages
  <1>4. CASE Poll
    BY <1>4, AsksType DEF Poll, TypeOK, users, pages
  <1>5. CASE Refresh
    BY <1>5, AsksType DEF Refresh, TypeOK, users, pages
  <1>6. CASE Turn
    BY <1>6, UnbadgedType DEF Turn, TypeOK, pages
  <1>7. ASSUME NEW c \in Conversations, Open(c) PROVE TypeOK'
    BY <1>7, AsksType, UnbadgedType DEF Open, TypeOK, pages
  <1>8. ASSUME NEW c \in Conversations, ReadServed(c) PROVE TypeOK'
    BY <1>8 DEF ReadServed, TypeOK, lists, pages
  <1>9. ASSUME NEW c \in Conversations, ReadFails(c) PROVE TypeOK'
    BY <1>9, AsksType, FailsType DEF ReadFails, TypeOK, pages
  <1>10. ASSUME NEW c \in Conversations, MessagesLand(c) PROVE TypeOK'
    BY <1>10, UnbadgedType DEF MessagesLand, TypeOK, pages
  <1> QED BY <1>1, <1>2, <1>3, <1>4, <1>5, <1>6, <1>7, <1>8, <1>9, <1>10

LEMMA OverviewKeepsPages ==
  ASSUME PagesInv,
         Serve \/ Land \/ LoadFails \/ Poll \/ Refresh \/ Turn
           \/ \E c \in Conversations : Open(c) \/ ReadServed(c) \/ ReadFails(c) \/ MessagesLand(c)
  PROVE  PagesInv'
  BY SamePages DEF Serve, Land, LoadFails, Poll, Refresh, Turn, Open, ReadServed, ReadFails, MessagesLand

--------------------------------------------------------------------------------
(* Steps of the pages.                                                            *)

LEMMA ArrivesList ==
  ASSUME ListInv, NEW c \in Conversations, Arrives(c)
  PROVE  ListInv'
  <1>1. Now + 1 \in Times /\ Now \in Nat
    BY NowType, ListFacts DEF Arrives, ListInv, Times
  <1>2. \/ \E kind \in Kinds : wire' = Append(wire, [kind |-> kind, of |-> c, at |-> Now + 1])
           /\ Len(wire) < MaxEvents /\ missed' = missed
        \/ missed' = missed \cup {c} /\ wire' = wire
    BY DEF Arrives
  <1> DEFINE Grows(e) == wire' = Append(wire, e)
  <1>3. /\ wire' \in Seq(EventType) /\ Len(wire') <= MaxEvents
        /\ \A i \in DOMAIN wire : i \in DOMAIN wire' /\ wire'[i] = wire[i]
        /\ \A i \in DOMAIN wire' : i \in DOMAIN wire \/ wire'[i].at > 0
        /\ c \in missed' \/ \E i \in DOMAIN wire' : wire'[i].of = c
    <2>1. wire \in Seq(EventType) /\ Len(wire) <= MaxEvents
      BY WireType DEF ListInv, TypeOK
    <2>2. CASE wire' = wire /\ missed' = missed \cup {c}
      BY <2>1, <2>2
    <2>3. ASSUME NEW e \in EventType, e.of = c, e.at > 0, Grows(e), Len(wire) < MaxEvents
          PROVE  /\ wire' \in Seq(EventType) /\ Len(wire') <= MaxEvents
                 /\ \A i \in DOMAIN wire : i \in DOMAIN wire' /\ wire'[i] = wire[i]
                 /\ \A i \in DOMAIN wire' : i \in DOMAIN wire \/ wire'[i].at > 0
                 /\ \E i \in DOMAIN wire' : wire'[i].of = c
      <3>1. Len(wire) + 1 \in DOMAIN wire' /\ wire'[Len(wire) + 1] = e
        BY <2>1, <2>3
      <3> QED BY <2>1, <2>3, <3>1, ListFacts
    <2>4. \A kind \in Kinds :
            LET e == [kind |-> kind, of |-> c, at |-> Now + 1]
            IN  e \in EventType /\ e.of = c /\ e.at > 0
      BY <1>1 DEF EventType
    <2> QED BY <1>2, <2>2, <2>3, <2>4
  <1>9. TypeOK'
    <2>1. at' \in [Conversations -> Times] /\ missed' \subseteq Conversations
      BY <1>1 DEF Arrives, ListInv, TypeOK
    <2> QED BY <1>3, <2>1 DEF Arrives, ListInv, TypeOK, lists, users, EventType
  <1>4. c \in missed' \/ Coming(c)'
    BY <1>3 DEF Coming
  <1>5. \A d \in Conversations \ {c} : at'[d] = at[d] /\ (d \in missed => d \in missed')
    BY <1>2 DEF Arrives, ListInv, TypeOK
  <1>6. \A d \in Conversations : Coming(d) => Coming(d)'
    BY <1>3 DEF Coming
  <1>7. page' = page /\ request' = request
    BY DEF Arrives
  <1>8. PagesInv'
    BY <1>3, <1>4, <1>5, <1>6, <1>7 DEF ListInv, PagesInv, Reaches, Behind
  <1> QED BY <1>8, <1>9 DEF ListInv

LEMMA DeliverList ==
  ASSUME ListInv, Deliver
  PROVE  ListInv'
  <1> DEFINE e == Head(wire)
  <1>1. /\ e \in EventType /\ wire' \in Seq(EventType) /\ Len(wire') <= MaxEvents
        /\ \A i \in DOMAIN wire : wire[i] = e \/ (i - 1 \in DOMAIN wire' /\ wire'[i - 1] = wire[i])
        /\ \A i \in DOMAIN wire' : wire'[i].at > 0
        /\ e.at > 0
    <2>1. /\ wire \in Seq(EventType) /\ Len(wire) <= MaxEvents
          /\ wire # <<>> /\ wire' = Tail(wire) /\ \A i \in DOMAIN wire : wire[i].at > 0
      BY WireType DEF Deliver, ListInv, TypeOK, PagesInv
    <2>2. Len(wire) > 0 /\ e = wire[1] /\ 1 \in DOMAIN wire
      BY <2>1
    <2>3. Len(wire') = Len(wire) - 1
          /\ \A i \in 1..Len(wire') : wire'[i] = wire[i + 1] /\ i + 1 \in DOMAIN wire
      BY <2>1
    <2> QED BY <2>1, <2>2, <2>3, ListFacts
  <1>2. e.of \in Conversations /\ e.at \in Times
    BY <1>1 DEF EventType
  <1>3. \A c \in Conversations : Coming(c) => Coming(c)' \/ c = e.of
    <2> SUFFICES ASSUME NEW c \in Conversations, NEW i \in DOMAIN wire, wire[i].of = c, c # e.of
                 PROVE  Coming(c)'
      BY DEF Coming
    <2> QED BY <1>1 DEF Coming
  <1>4. IF e.kind = "message" THEN Message(e) ELSE Chat(e)
    BY DEF Deliver
  <1>5. UNCHANGED <<habit, at, failures, load, again, open, visible, fetching, request>>
    BY DEF Deliver
  <1> HIDE DEF e
  <1>6. TypeOK'
    <2>1. CASE Message(e)
      <3>1. overview' \in [Conversations -> Entry]
            /\ \A c \in Conversations : overview'[c].at = 0 => ~overview'[c].badge
        BY <1>1, <1>2, <2>1 DEF Message, Heard, ActivelyViewed, ListInv, TypeOK, Entry
      <3>2. page' \in Page
        BY <1>2, <2>1 DEF Message, PageHears, ListInv, TypeOK, Page
      <3> QED BY <1>1, <1>2, <1>5, <2>1, <3>1, <3>2 DEF Message, ListInv, TypeOK, EventType
    <2>2. CASE Chat(e)
      BY <1>1, <1>2, <1>5, <2>2 DEF Chat, ListInv, TypeOK, EventType
    <2> QED BY <1>4, <2>1, <2>2
  <1>7. PagesInv'
    <2>1. /\ page'.loaded = page.loaded /\ page'.more = page.more /\ page'.cursor = page.cursor
          /\ page.list \subseteq page'.list /\ (~page.loaded => page'.list = page.list)
          /\ e.of \in missed' \/ (page.loaded /\ e.of \in page'.list)
          /\ missed \subseteq missed'
      BY <1>2, <1>4 DEF Message, Chat, PageHears, ListInv, TypeOK, Page
    <2>2. \A c \in Conversations \ {e.of} :
            at[c] > 0 /\ c \notin missed' /\ ~Coming(c)' => Reaches(c)
      BY <1>3, <2>1 DEF ListInv, PagesInv
    <2>3. \A c \in Conversations \ {e.of} : Reaches(c) => Reaches(c)'
      BY <1>5, <2>1 DEF Reaches, Behind, Joined
    <2>4. \A c \in Conversations : c = e.of /\ c \notin missed' => Reaches(c)'
      BY <1>5, <2>1 DEF Reaches, Behind, Joined, ListInv, PagesInv
    <2> QED BY <1>1, <1>5, <2>1, <2>2, <2>3, <2>4 DEF ListInv, PagesInv
  <1> QED BY <1>6, <1>7 DEF ListInv

LEMMA FirstPageList ==
  ASSUME ListInv, FirstPage
  PROVE  ListInv'
  <1>1. request'.phase = "asked" /\ ~request'.append /\ request'.cursor = 0 /\ request' \in Request
    BY ListFacts DEF FirstPage, NoRequest, Request, Phases
  <1>2. page' \in Page /\ page'.list = {} /\ ~page'.loaded
    BY ListFacts DEF FirstPage, ListInv, TypeOK, Page
  <1>3. UNCHANGED <<habit, at, wire, failures, lists, users, missed>>
    BY DEF FirstPage
  <1>4. TypeOK'
    BY <1>1, <1>2, <1>3 DEF ListInv, TypeOK, lists, users
  <1>5. PagesInv'
    <2>1. request'.append = page'.loaded
      BY <1>1, <1>2 DEF Request, Page
    <2> QED BY <1>1, <1>2, <1>3, <2>1 DEF ListInv, PagesInv, Reaches, Coming
  <1> QED BY <1>4, <1>5 DEF ListInv

LEMMA NextPageList ==
  ASSUME ListInv, NextPage
  PROVE  ListInv'
  <1>1. /\ request'.phase = "asked" /\ request'.append /\ request'.cursor = page.cursor
        /\ request' \in Request
    BY DEF NextPage, NoRequest, Request, Phases, ListInv, TypeOK, Page, Times
  <1>2. page.loaded /\ page.more /\ request.phase = "idle"
        /\ UNCHANGED <<habit, at, wire, failures, lists, users, page, missed>>
    BY DEF NextPage
  <1>3. TypeOK'
    BY <1>1, <1>2 DEF ListInv, TypeOK, lists, users
  <1>4. PagesInv'
    BY <1>1, <1>2 DEF ListInv, PagesInv, Reaches, Behind, Coming
  <1> QED BY <1>3, <1>4 DEF ListInv

\* What the cursor of a request leaves for later pages stays behind the cursor of its answer.
LEMMA PageServedList ==
  ASSUME ListInv, PageServed
  PROVE  ListInv'
  <1> DEFINE rest == After(request.cursor)
             some == Newest(rest)
  <1>1. /\ request.phase = "asked" /\ request' \in Request /\ request'.phase = "answered"
        /\ request'.append = request.append
        /\ UNCHANGED <<habit, at, wire, failures, lists, users, page, missed>>
    BY ServedType DEF PageServed, ListInv
  <1>2. /\ request'.list = some /\ request'.more = (some # rest)
        /\ request'.cursor = IF some = rest THEN 0 ELSE Min({at[c] : c \in some})
    BY DEF PageServed, ListInv, TypeOK, Request
  <1>3. TypeOK'
    BY <1>1 DEF ListInv, TypeOK, lists, users
  <1>4. rest \in SUBSET Conversations /\ some \subseteq rest
    BY DEF After, Newest
  <1>5. \A c \in rest : Behind(c, request'.list, request'.more, request'.cursor)
    BY <1>2, <1>4, NewestAhead DEF Behind, ListInv
  <1> HIDE DEF some
  <1>6. \A c \in Conversations : at[c] > 0 /\ c \notin missed /\ ~Coming(c) => Reaches(c)'
    <2> SUFFICES ASSUME NEW c \in Conversations, at[c] > 0, Reaches(c) PROVE Reaches(c)'
      BY DEF ListInv, PagesInv
    <2>1. CASE c \in rest
      BY <1>1, <1>5, <2>1 DEF Reaches, Behind, Joined
    <2>2. CASE c \notin rest
      <3>1. request.cursor # 0 /\ ~(at[c] < request.cursor)
        BY <2>2 DEF After
      <3>2. request.append /\ request.cursor = page.cursor /\ page.loaded
        BY <1>1, <3>1 DEF ListInv, PagesInv
      <3>3. c \in page.list
        BY <1>1, <3>1, <3>2 DEF Reaches, Behind
      <3> QED BY <1>1, <3>2, <3>3 DEF Reaches, Behind, Joined
    <2> QED BY <2>1, <2>2
  <1>7. PagesInv'
    BY <1>1, <1>6 DEF ListInv, PagesInv, Coming
  <1> QED BY <1>3, <1>7 DEF ListInv

LEMMA PageLandsList ==
  ASSUME ListInv, PageLands
  PROVE  ListInv'
  <1> DEFINE set == Joined(IF request.append THEN page.list ELSE {}, request.list)
  <1>1. /\ request.phase = "answered" /\ request' = NoRequest
        /\ UNCHANGED <<habit, at, wire, failures, lists, users, missed>>
    BY DEF PageLands
  <1>2. set \in SUBSET Conversations /\ request.cursor \in Times /\ request.more \in BOOLEAN
    BY DEF Joined, ListInv, TypeOK, Request, Page
  <1>3. /\ page' \in Page /\ page'.list = set /\ page'.cursor = request.cursor
        /\ page'.more = request.more /\ page'.loaded
    BY <1>2 DEF PageLands, Page
  <1> HIDE DEF set
  <1>4. request' \in Request /\ request'.phase = "idle"
    BY <1>1, ListFacts DEF NoRequest, Request, Phases
  <1>5. TypeOK'
    BY <1>1, <1>3, <1>4 DEF ListInv, TypeOK, lists, users
  <1>6. PagesInv'
    BY <1>1, <1>3, <1>4 DEF ListInv, PagesInv, Reaches, Behind, Coming, set
  <1> QED BY <1>5, <1>6 DEF ListInv

LEMMA PageFailsList ==
  ASSUME ListInv, PageFails
  PROVE  ListInv'
  <1>1. /\ request.phase = "asked" /\ request' = NoRequest
        /\ UNCHANGED <<habit, at, wire, lists, users, page, missed>>
    BY DEF PageFails
  <1>2. request' \in Request /\ request'.phase = "idle"
    BY <1>1, ListFacts DEF NoRequest, Request, Phases
  <1>3. failures' \in 0..MaxFailures
    BY FailsType DEF PageFails, ListInv
  <1>4. TypeOK'
    BY <1>1, <1>2, <1>3 DEF ListInv, TypeOK, lists, users
  <1>5. PagesInv'
    BY <1>1, <1>2 DEF ListInv, PagesInv, Reaches, Behind, Coming
  <1> QED BY <1>4, <1>5 DEF ListInv

LEMMA NextList == ListInv /\ [Next]_vars => ListInv'
  <1> SUFFICES ASSUME ListInv, [Next]_vars PROVE ListInv'
    OBVIOUS
  <1>1. CASE UNCHANGED vars
    BY <1>1 DEF vars, lists, users, pages, ListInv, TypeOK, PagesInv, Reaches, Behind, Coming
  <1>2. CASE Serve \/ Land \/ LoadFails \/ Poll \/ Refresh \/ Turn
               \/ \E c \in Conversations : Open(c) \/ ReadServed(c) \/ ReadFails(c) \/ MessagesLand(c)
    BY <1>2, OverviewTypes, OverviewKeepsPages DEF ListInv
  <1> QED BY <1>1, <1>2, ArrivesList, DeliverList, FirstPageList, NextPageList, PageServedList,
             PageLandsList, PageFailsList DEF Next

--------------------------------------------------------------------------------
(* The CRM.                                                                       *)

\* What a request remembers: unless it was crossed, what it puts back or brings is what the
\* server has, or will have once it is served.
CallHolds(k) ==
  /\ k.kind \in {"post", "delete"} => about \in TheCrm!Lists
  /\ k.kind \in {"put", "contact"} => about \notin TheCrm!Lists
  /\ k.open => about = "boards"
  /\ k.kind = "get" /\ k.item # {} => about = "boards"
  /\ k.kind = "put" /\ k.phase = "asked" /\ ~k.crossed => k.back = server
  /\ k.kind = "delete" /\ k.phase = "asked" /\ ~k.crossed => k.back = server \ k.item
  /\ k.kind = "delete" /\ k.phase = "answered" /\ ~k.crossed => k.back = server
  /\ k.kind = "get" /\ k.phase = "answered" /\ ~k.crossed => k.saw = server

\* A list that differs is going to be loaded; a stage or a profile that differs is being
\* changed here, or the last event on its way tells what the server has.
Converges ==
  /\ about \in TheCrm!Lists =>
       local = server \/ crmWire # <<>> \/ \E c \in Calls : call[c].kind = "get"
  /\ about \notin TheCrm!Lists /\ crmWire = <<>> =>
       local = server \/ \E c \in Calls : call[c].kind = "put" /\ call[c].phase = "asked"
  /\ about \notin TheCrm!Lists /\ crmWire # <<>> => crmWire[Len(crmWire)] = server

CrmInv ==
  /\ TheCrm!TypeOK
  /\ \A c \in Calls : CallHolds(call[c])
  /\ ~upset => Converges

LEMMA CrmInvImplies == CrmInv => TheCrm!CrmAgrees
  BY DEF CrmInv, Converges, TheCrm!CrmAgrees, TheCrm!Free

LEMMA CrmValues ==
  ASSUME about \in TheCrm!Lists \cup {"stage", "profile"}
  PROVE  /\ TheCrm!Empty(about) \in TheCrm!Values(about)
         /\ about \in TheCrm!Lists => TheCrm!Values(about) = SUBSET Items /\ TheCrm!Empty(about) = {}
         /\ about = "stage" => TheCrm!Values(about) = TheCrm!Stages
         /\ about = "profile" => TheCrm!Values(about) = TheCrm!Profiles
         /\ about = "boards" => about \in TheCrm!Lists
         /\ about = "users" => about \in TheCrm!Lists
         /\ about \in {"stage", "profile"} => about \notin TheCrm!Lists
  BY DEF TheCrm!Values, TheCrm!Empty, TheCrm!Lists, TheCrm!Stages, TheCrm!Profiles

\* The fields of a request.
LEMMA CrmFields ==
  ASSUME NEW k \in TheCrm!Call
  PROVE  /\ k.kind \in {"none", "put", "post", "contact", "delete", "get"}
         /\ k.phase \in {"asked", "answered"} /\ k.item \in SUBSET Items
         /\ k.to \in TheCrm!Values(about) /\ k.back \in TheCrm!Values(about)
         /\ k.saw \in TheCrm!Values(about) /\ k.crossed \in BOOLEAN /\ k.open \in BOOLEAN
  BY DEF TheCrm!Call

LEMMA CrmTypes ==
  ASSUME TheCrm!TypeOK
  PROVE  /\ about \in TheCrm!Lists \cup {"stage", "profile"}
         /\ server \in TheCrm!Values(about) /\ local \in TheCrm!Values(about)
         /\ \A c \in Calls : call[c] \in TheCrm!Call
         /\ crmWire \in Seq(TheCrm!Values(about)) /\ upset \in BOOLEAN
  BY DEF TheCrm!TypeOK

LEMMA SameCalls ==
  ASSUME about' = about
  PROVE  TheCrm!Call' = TheCrm!Call /\ TheCrm!Values(about)' = TheCrm!Values(about)
  BY DEF TheCrm!Call, TheCrm!Values

\* No request, and one for what the server has.
LEMMA NoCallHolds ==
  ASSUME TheCrm!TypeOK
  PROVE  /\ TheCrm!NoCall \in TheCrm!Call /\ TheCrm!NoCall.kind = "none" /\ ~TheCrm!NoCall.open
         /\ TheCrm!Get \in TheCrm!Call /\ TheCrm!Get.kind = "get" /\ TheCrm!Get.phase = "asked"
         /\ TheCrm!Get.item = {} /\ ~TheCrm!Get.open
         /\ CallHolds(TheCrm!NoCall) /\ CallHolds(TheCrm!Get)
  <1>1. TheCrm!Empty(about) \in TheCrm!Values(about)
    BY CrmTypes, CrmValues
  <1>2. /\ TheCrm!NoCall \in TheCrm!Call /\ TheCrm!NoCall.kind = "none" /\ ~TheCrm!NoCall.open
        /\ TheCrm!NoCall.phase = "asked" /\ TheCrm!NoCall.item = {}
    BY <1>1 DEF TheCrm!NoCall, TheCrm!Blank, TheCrm!Call
  <1> DEFINE k == TheCrm!NoCall
  <1>3. TheCrm!Get = [k EXCEPT !.kind = "get"]
    BY DEF TheCrm!Get
  <1> HIDE DEF k
  <1>4. k \in TheCrm!Call /\ ~k.open /\ k.phase = "asked" /\ k.item = {}
    BY <1>2 DEF k
  <1>5. /\ TheCrm!Get \in TheCrm!Call /\ TheCrm!Get.kind = "get" /\ TheCrm!Get.phase = "asked"
        /\ TheCrm!Get.item = {} /\ ~TheCrm!Get.open
    BY <1>3, <1>4 DEF TheCrm!Call
  <1> QED BY <1>2, <1>5 DEF CallHolds

\* One request changes, the server does not.
LEMMA OneCall ==
  ASSUME CrmInv, NEW c \in Calls, NEW new \in TheCrm!Call, CallHolds(new),
         call' = [call EXCEPT ![c] = new], UNCHANGED <<about, server>>
  PROVE  /\ call' \in [Calls -> TheCrm!Call'] /\ call'[c] = new
         /\ \A d \in Calls : CallHolds(call[d])'
         /\ \A d \in Calls \ {c} : call'[d] = call[d]
  <1>1. call' \in [Calls -> TheCrm!Call'] /\ call'[c] = new /\ \A d \in Calls \ {c} : call'[d] = call[d]
    BY SameCalls DEF CrmInv, TheCrm!TypeOK
  <1>2. \A d \in Calls : CallHolds(call[d])'
    BY <1>1 DEF CrmInv, CallHolds
  <1> QED BY <1>1, <1>2

\* What the server stores.
LEMMA StoresCrm ==
  ASSUME CrmInv, NEW value \in TheCrm!Values(about), TheCrm!Stores(value), about' = about
  PROVE  /\ changes' \in 0..MaxCrmChanges /\ server' \in TheCrm!Values(about) /\ server' = value
         /\ crmWire' \in Seq(TheCrm!Values(about)) /\ Len(crmWire') <= MaxCrmEvents
         /\ upset' \in BOOLEAN
         /\ ~upset' => crmWire' # <<>> /\ crmWire'[Len(crmWire')] = server'
  <1> DEFINE V == TheCrm!Values(about)
  <1>1. crmWire \in Seq(V) /\ Len(crmWire) <= MaxCrmEvents /\ changes \in 0..MaxCrmChanges
        /\ upset \in BOOLEAN /\ value \in V
    BY DEF CrmInv, TheCrm!TypeOK
  <1>2. changes' \in 0..MaxCrmChanges /\ server' = value
    BY <1>1, WebAssumption DEF TheCrm!Stores, WebAssumption
  <1>3. \/ Len(crmWire) < MaxCrmEvents /\ crmWire' = Append(crmWire, value) /\ upset' = upset
        \/ upset' = TRUE /\ crmWire' = crmWire
    BY DEF TheCrm!Stores
  <1> HIDE DEF V
  <1>4. CASE Len(crmWire) < MaxCrmEvents /\ crmWire' = Append(crmWire, value) /\ upset' = upset
    <2>1. /\ crmWire' \in Seq(V) /\ Len(crmWire') = Len(crmWire) + 1 /\ Len(crmWire) \in Nat
          /\ crmWire'[Len(crmWire) + 1] = value
      BY <1>1, <1>4
    <2> QED BY <1>1, <1>2, <1>4, <2>1, WebAssumption DEF V, WebAssumption
  <1>5. CASE upset' = TRUE /\ crmWire' = crmWire
    BY <1>1, <1>2, <1>5 DEF V
  <1> QED BY <1>3, <1>4, <1>5

\* The requests that are out when the server changes.
LEMMA CrossedCrm ==
  ASSUME CrmInv, about' = about, NEW c \in Calls, NEW k, k = TheCrm!Crossed(call)[c]
  PROVE  k \in TheCrm!Call /\ CallHolds(k)'
  <1>1. PICK old \in TheCrm!Call : old = call[c] /\ CallHolds(old)
    BY CrmTypes DEF CrmInv
  <1>2. \/ k = old /\ (old.kind = "none" \/ (old.kind = "get" /\ old.phase = "asked"))
        \/ k = [old EXCEPT !.crossed = TRUE]
    BY <1>1 DEF TheCrm!Crossed
  <1>3. k \in TheCrm!Call
    BY <1>1, <1>2 DEF TheCrm!Call
  <1>4. k.kind = old.kind /\ k.phase = old.phase /\ k.open = old.open /\ k.item = old.item
        /\ (k.crossed \/ old.kind = "none" \/ (old.kind = "get" /\ old.phase = "asked"))
    BY <1>1, <1>2 DEF TheCrm!Call
  <1>5. CallHolds(k)'
    BY <1>1, <1>4 DEF CallHolds
  <1> QED BY <1>3, <1>5

\* What a step of the browser owes that changes one of its requests.
LEMMA CrmStep ==
  ASSUME CrmInv, NEW c \in Calls, NEW new \in TheCrm!Call, CallHolds(new),
         call' = [call EXCEPT ![c] = new], UNCHANGED <<about, server, crmWire, changes>>,
         local' \in TheCrm!Values(about), used' \subseteq Items, upset' \in BOOLEAN,
         active' \subseteq Items, active' # {} => about = "boards" /\ active' \subseteq local',
         call'[c] = new /\ (\A d \in Calls \ {c} : call'[d] = call[d]) /\ ~upset' => Converges'
  PROVE  CrmInv'
  <1>1. /\ call' \in [Calls -> TheCrm!Call'] /\ call'[c] = new
        /\ \A d \in Calls : CallHolds(call[d])'
        /\ \A d \in Calls \ {c} : call'[d] = call[d]
    BY OneCall
  <1>2. TheCrm!TypeOK'
    BY <1>1, SameCalls DEF CrmInv, TheCrm!TypeOK
  <1> QED BY <1>1, <1>2 DEF CrmInv

LEMMA ActiveKept ==
  ASSUME CrmInv
  PROVE  /\ active \subseteq Items /\ (active # {} => about = "boards" /\ active \subseteq local)
         /\ used \subseteq Items
  BY DEF CrmInv, TheCrm!TypeOK

LEMMA InitCrm == TheCrm!Init => CrmInv
  <1> SUFFICES ASSUME TheCrm!Init PROVE CrmInv
    OBVIOUS
  <1>1. /\ about \in TheCrm!Lists \cup {"stage", "profile"}
        /\ server = TheCrm!Empty(about) /\ local = TheCrm!Empty(about) /\ active = {}
        /\ crmWire = <<>> /\ used = {} /\ changes = 0 /\ upset = FALSE
    BY DEF TheCrm!Init
  <1>2. TheCrm!Empty(about) \in TheCrm!Values(about)
    BY <1>1, CrmValues
  <1> DEFINE k == TheCrm!Blank(about)
  <1>3. PICK c \in Calls : call = [d \in Calls |-> IF d = c THEN [k EXCEPT !.kind = "get"] ELSE k]
    BY DEF TheCrm!Init
  <1>4. k \in TheCrm!Call /\ k.kind = "none" /\ k.phase = "asked" /\ ~k.open /\ k.item = {}
    BY <1>2 DEF TheCrm!Blank, TheCrm!Call
  <1> HIDE DEF k
  <1>5. \A d \in Calls : call[d] \in TheCrm!Call /\ call[d].kind \in {"none", "get"}
                         /\ call[d].phase = "asked" /\ ~call[d].open /\ call[d].item = {}
    BY <1>3, <1>4 DEF TheCrm!Call
  <1>6. call \in [Calls -> TheCrm!Call]
    BY <1>3, <1>5
  <1>7. TheCrm!TypeOK
    <2>1. crmWire \in Seq(TheCrm!Values(about)) /\ Len(crmWire) <= MaxCrmEvents
      BY <1>1, WebAssumption DEF WebAssumption
    <2>2. changes \in 0..MaxCrmChanges /\ used \subseteq Items /\ active \subseteq Items /\ active = {}
      BY <1>1, WebAssumption DEF WebAssumption
    <2>4. upset \in BOOLEAN
      BY DEF TheCrm!Init
    <2>3. server \in TheCrm!Values(about) /\ local \in TheCrm!Values(about)
      BY <1>1, <1>2
    <2> QED BY <1>1, <1>6, <2>1, <2>2, <2>3, <2>4 DEF TheCrm!TypeOK
  <1>8. \A d \in Calls : CallHolds(call[d])
    BY <1>5 DEF CallHolds
  <1> QED BY <1>1, <1>7, <1>8 DEF CrmInv, Converges

LEMMA PutsCrm ==
  ASSUME CrmInv, NEW c \in Calls, NEW value \in TheCrm!Values(about), about \notin TheCrm!Lists,
         TheCrm!Puts(c, value)
  PROVE  CrmInv'
  <1> DEFINE k == TheCrm!NoCall
             new == [k EXCEPT !.kind = "put", !.to = value, !.back = local,
                              !.crossed = (local # server)]
  <1>1. k \in TheCrm!Call /\ ~k.open /\ local \in TheCrm!Values(about)
    BY NoCallHolds, CrmTypes DEF CrmInv
  <1>2. local' = value /\ call' = [call EXCEPT ![c] = new]
        /\ UNCHANGED <<about, server, active, crmWire, used, changes, upset>>
    BY DEF TheCrm!Puts
  <1> HIDE DEF k
  <1>3. /\ new \in TheCrm!Call /\ new.kind = "put" /\ new.phase = k.phase /\ new.back = local
        /\ new.crossed = (local # server) /\ ~new.open
    BY <1>1 DEF TheCrm!Call
  <1>4. k.phase = "asked"
    BY DEF k, TheCrm!NoCall, TheCrm!Blank
  <1>5. CallHolds(new)
    BY <1>3 DEF CallHolds
  <1> HIDE DEF new
  <1>6. active' = {}
    BY <1>2, ActiveKept, CrmValues, CrmTypes DEF CrmInv
  <1>7. call'[c] = new /\ (\A d \in Calls \ {c} : call'[d] = call[d]) /\ ~upset' => Converges'
    BY <1>2, <1>3, <1>4 DEF Converges, CrmInv
  <1>8. used' \subseteq Items /\ upset' \in BOOLEAN
    BY <1>2, ActiveKept, CrmTypes DEF CrmInv
  <1> QED BY <1>2, <1>3, <1>5, <1>6, <1>7, <1>8, CrmStep

LEMMA MoveSaveCrm ==
  ASSUME CrmInv, NEW c \in Calls, TheCrm!Move(c) \/ TheCrm!Save(c)
  PROVE  CrmInv'
  <1>1. CASE TheCrm!Move(c)
    <2>1. PICK stage \in TheCrm!Stages : TheCrm!Puts(c, stage)
      BY <1>1 DEF TheCrm!Move
    <2>2. stage \in TheCrm!Values(about) /\ about \notin TheCrm!Lists
      BY <1>1, CrmValues, CrmTypes DEF TheCrm!Move, CrmInv
    <2> QED BY <2>1, <2>2, PutsCrm
  <1>2. CASE TheCrm!Save(c)
    <2>1. PICK value \in TheCrm!Near(local) : TheCrm!Puts(c, value)
      BY <1>2 DEF TheCrm!Save
    <2>2. about = "profile" /\ local \in TheCrm!Profiles
      BY <1>2, CrmValues, CrmTypes DEF TheCrm!Save, CrmInv
    <2>3. value \in TheCrm!Profiles
      BY <2>1, <2>2 DEF TheCrm!Near, TheCrm!Profiles
    <2>4. value \in TheCrm!Values(about) /\ about \notin TheCrm!Lists
      BY <2>2, <2>3, CrmValues, CrmTypes DEF CrmInv
    <2> QED BY <2>1, <2>4, PutsCrm
  <1> QED BY <1>1, <1>2

\* A request that is made, or goes on, and changes nothing yet.
LEMMA QuietCall ==
  ASSUME CrmInv, NEW c \in Calls, NEW new \in TheCrm!Call, CallHolds(new),
         call' = [call EXCEPT ![c] = new],
         UNCHANGED <<about, server, local, active, crmWire, changes, upset>>, used' \subseteq Items,
         call[c].kind = "get" => new.kind = "get", ~(call[c].kind = "put" /\ call[c].phase = "asked")
  PROVE  CrmInv'
  <1>1. call'[c] = new /\ (\A d \in Calls \ {c} : call'[d] = call[d]) /\ ~upset' => Converges'
    <2> SUFFICES ASSUME call'[c] = new, \A d \in Calls \ {c} : call'[d] = call[d], ~upset
                 PROVE  Converges'
      OBVIOUS
    <2>1. Converges
      BY DEF CrmInv
    <2>2. \A d \in Calls : call[d].kind = "get" => call'[d].kind = "get"
      OBVIOUS
    <2>3. \A d \in Calls : call[d].kind = "put" /\ call[d].phase = "asked"
                             => call'[d].kind = "put" /\ call'[d].phase = "asked"
      OBVIOUS
    <2> QED BY <2>1, <2>2, <2>3 DEF Converges
  <1>2. upset' \in BOOLEAN /\ local' \in TheCrm!Values(about)
    BY CrmTypes DEF CrmInv
  <1> QED BY <1>1, <1>2, ActiveKept, CrmStep

LEMMA MadeCrm ==
  ASSUME CrmInv, NEW c \in Calls,
         TheCrm!AddContact(c) \/ TheCrm!Create(c) \/ TheCrm!AskAgain(c)
  PROVE  CrmInv'
  <1> DEFINE k == TheCrm!NoCall
  <1>1. k \in TheCrm!Call /\ ~k.open /\ k.kind = "none"
    BY NoCallHolds DEF CrmInv
  <1> HIDE DEF k
  <1>2. CASE TheCrm!AddContact(c)
    <2>1. PICK stage \in TheCrm!Stages :
            call' = [call EXCEPT ![c] = [k EXCEPT !.kind = "contact", !.to = stage]]
      BY <1>2 DEF TheCrm!AddContact, k
    <2> DEFINE new == [k EXCEPT !.kind = "contact", !.to = stage]
    <2>2. about = "stage" /\ call[c].kind = "none"
          /\ UNCHANGED <<about, server, local, active, crmWire, used, changes, upset>>
      BY <1>2 DEF TheCrm!AddContact, TheCrm!Free
    <2>3. stage \in TheCrm!Values(about) /\ about \notin TheCrm!Lists
      BY <2>2, CrmValues, CrmTypes DEF CrmInv
    <2>4. new \in TheCrm!Call /\ new.kind = "contact" /\ ~new.open
      BY <1>1, <2>3 DEF TheCrm!Call
    <2>5. CallHolds(new)
      BY <2>3, <2>4 DEF CallHolds
    <2> HIDE DEF new
    <2> QED BY <2>1, <2>2, <2>4, <2>5, ActiveKept, QuietCall DEF new
  <1>3. CASE TheCrm!Create(c)
    <2>1. /\ about \in TheCrm!Lists /\ call[c].kind = "none"
          /\ UNCHANGED <<about, server, local, active, crmWire, changes, upset>>
      BY <1>3 DEF TheCrm!Create, TheCrm!Free
    <2>2. PICK i \in Items :
            /\ used' = used \cup {i}
            /\ call' = [call EXCEPT ![c] = [k EXCEPT !.kind = "post", !.item = {i}]]
      BY <1>3 DEF TheCrm!Create, k
    <2> DEFINE new == [k EXCEPT !.kind = "post", !.item = {i}]
    <2>3. new \in TheCrm!Call /\ new.kind = "post" /\ ~new.open
      BY <1>1 DEF TheCrm!Call
    <2>4. CallHolds(new)
      BY <2>1, <2>3 DEF CallHolds
    <2>5. call' = [call EXCEPT ![c] = new]
      BY <2>2
    <2> HIDE DEF new
    <2> QED BY <2>1, <2>2, <2>3, <2>4, <2>5, ActiveKept, QuietCall
  <1>4. CASE TheCrm!AskAgain(c)
    BY <1>4, NoCallHolds, ActiveKept, QuietCall DEF TheCrm!AskAgain, TheCrm!Free, CrmInv
  <1> QED BY <1>2, <1>3, <1>4

LEMMA RemoveCrm ==
  ASSUME CrmInv, NEW c \in Calls, TheCrm!Remove(c)
  PROVE  CrmInv'
  <1> DEFINE k == TheCrm!NoCall
  <1>1. k \in TheCrm!Call /\ k.phase = "asked"
    BY NoCallHolds DEF CrmInv, TheCrm!NoCall, TheCrm!Blank
  <1> HIDE DEF k
  <1>2. /\ about \in TheCrm!Lists /\ call[c].kind = "none"
        /\ UNCHANGED <<about, server, local, crmWire, used, changes, upset>>
    BY DEF TheCrm!Remove, TheCrm!Free
  <1>3. local \subseteq Items /\ upset \in BOOLEAN /\ TheCrm!Values(about) = SUBSET Items
    BY <1>2, CrmValues, CrmTypes DEF CrmInv
  <1>4. PICK i \in local :
          /\ call' = [call EXCEPT ![c] = [k EXCEPT !.kind = "delete", !.item = {i},
                                                   !.back = local \ {i},
                                                   !.crossed = (local # server),
                                                   !.open = (active = {i})]]
          /\ active' = active \ {i}
    BY DEF TheCrm!Remove, k
  <1>9. PICK x \in BOOLEAN, o \in BOOLEAN : x = (local # server) /\ o = (active = {i})
    OBVIOUS
  <1> DEFINE item == {i}
             back == local \ {i}
             new == [k EXCEPT !.kind = "delete", !.item = item, !.back = back, !.crossed = x, !.open = o]
  <1>10. item \in SUBSET Items /\ back \in TheCrm!Values(about)
    BY <1>3
  <1> HIDE DEF item, back
  <1>5. /\ new \in TheCrm!Call /\ new.kind = "delete" /\ new.phase = "asked" /\ new.item = item
        /\ new.back = back /\ new.crossed = x /\ new.open = o
    BY <1>1, <1>10 DEF TheCrm!Call
  <1>6. CallHolds(new)
    BY <1>2, <1>5, <1>9, ActiveKept DEF CallHolds, item, back
  <1>7. call' = [call EXCEPT ![c] = new]
    BY <1>4, <1>9 DEF item, back
  <1> HIDE DEF new
  <1>8. call'[c] = new /\ (\A d \in Calls \ {c} : call'[d] = call[d]) /\ ~upset' => Converges'
    BY <1>2 DEF Converges, CrmInv
  <1> QED BY <1>2, <1>3, <1>4, <1>5, <1>6, <1>7, <1>8, ActiveKept, CrmStep

LEMMA ActivateCrm ==
  ASSUME CrmInv, NEW board \in SUBSET Items, TheCrm!Activate(board)
  PROVE  CrmInv'
  <1>1. /\ about = "boards" /\ board \subseteq local /\ active' = board
        /\ UNCHANGED <<about, server, local, crmWire, call, used, changes, upset>>
    BY DEF TheCrm!Activate
  <1>2. TheCrm!TypeOK'
    BY <1>1, SameCalls DEF CrmInv, TheCrm!TypeOK
  <1> QED BY <1>1, <1>2 DEF CrmInv, CallHolds, Converges

LEMMA GetServedCrm ==
  ASSUME CrmInv, NEW c \in Calls, TheCrm!GetServed(c)
  PROVE  CrmInv'
  <1>1. PICK k \in TheCrm!Call : k = call[c] /\ CallHolds(k)
    BY CrmTypes DEF CrmInv
  <1> DEFINE new == [k EXCEPT !.phase = "answered", !.saw = server]
  <1>2. /\ k.kind = "get" /\ call' = [call EXCEPT ![c] = new]
        /\ UNCHANGED <<about, server, local, active, crmWire, used, changes, upset>>
    <2>1. call' = [call EXCEPT ![c] = [call[c] EXCEPT !.phase = "answered", !.saw = server]]
      BY DEF TheCrm!GetServed
    <2> QED BY <1>1, <2>1 DEF TheCrm!GetServed
  <1>3. new \in TheCrm!Call /\ new.kind = "get" /\ new.item = k.item /\ new.open = k.open
        /\ new.saw = server
    BY <1>1, <1>2, CrmTypes DEF TheCrm!Call, CrmInv
  <1>4. CallHolds(new)
    BY <1>1, <1>2, <1>3 DEF CallHolds
  <1> HIDE DEF new
  <1> QED BY <1>1, <1>2, <1>3, <1>4, ActiveKept, QuietCall

\* The effects of a list that has come.
LEMMA OpensCrm ==
  ASSUME CrmInv, NEW board \in SUBSET Items, TheCrm!Opens(board), about' = about,
         board # {} => about = "boards"
  PROVE  active' \subseteq Items /\ (active' # {} => about = "boards" /\ active' \subseteq local')
  <1>1. CASE about = "boards"
    BY <1>1 DEF TheCrm!Opens
  <1>2. CASE about # "boards"
    BY <1>2 DEF TheCrm!Opens
  <1> QED BY <1>1, <1>2

LEMMA EndsCrm ==
  ASSUME CrmInv, NEW c \in Calls, TheCrm!Ends(c)
  PROVE  /\ TheCrm!NoCall \in TheCrm!Call /\ CallHolds(TheCrm!NoCall)
         /\ call' = [call EXCEPT ![c] = TheCrm!NoCall]
         /\ \A d \in Calls \ {c} : call'[d] = call[d]
  BY NoCallHolds DEF TheCrm!Ends, CrmInv, TheCrm!TypeOK

LEMMA GetLandsCrm ==
  ASSUME CrmInv, NEW c \in Calls, TheCrm!GetLands(c)
  PROVE  CrmInv'
  <1>1. PICK k \in TheCrm!Call : k = call[c] /\ CallHolds(k)
    BY CrmTypes DEF CrmInv
  <1>2. /\ k.kind = "get" /\ k.phase = "answered" /\ TheCrm!Ends(c)
        /\ local' = (IF about = "boards" THEN k.saw \cup k.item ELSE k.saw)
        /\ TheCrm!Opens(IF k.item # {} THEN k.item ELSE active)
        /\ upset' = (k.crossed \/ local' # k.saw \/ (upset /\ crmWire # <<>>))
        /\ UNCHANGED <<about, server, crmWire, used, changes>>
    BY <1>1 DEF TheCrm!GetLands
  <1>3. local' \in TheCrm!Values(about)
    <2>1. CASE about = "boards"
      BY <1>2, <2>1, CrmFields, CrmValues, CrmTypes DEF CrmInv
    <2>2. CASE about # "boards"
      BY <1>2, <2>2, CrmFields
    <2> QED BY <2>1, <2>2
  <1>4. active' \subseteq Items /\ (active' # {} => about = "boards" /\ active' \subseteq local')
    BY <1>1, <1>2, CrmFields, ActiveKept, OpensCrm DEF CallHolds
  <1>5. upset' \in BOOLEAN /\ used' \subseteq Items
    BY <1>2, ActiveKept, CrmTypes, CrmFields DEF CrmInv
  <1>6. ~upset' => local' = server /\ (crmWire # <<>> => ~upset)
    BY <1>1, <1>2 DEF CallHolds
  <1>7. ~upset' => Converges'
    BY <1>2, <1>6 DEF Converges, CrmInv
  <1> QED BY <1>2, <1>3, <1>4, <1>5, <1>7, EndsCrm, CrmStep

LEMMA GetFailsCrm ==
  ASSUME CrmInv, NEW c \in Calls, TheCrm!GetFails(c)
  PROVE  CrmInv'
  <1>1. /\ TheCrm!Ends(c) /\ upset'
        /\ UNCHANGED <<about, server, local, active, crmWire, used, changes>>
    BY DEF TheCrm!GetFails
  <1>2. upset' \in BOOLEAN /\ local' \in TheCrm!Values(about)
    BY <1>1, CrmTypes DEF TheCrm!GetFails, CrmInv
  <1> QED BY <1>1, <1>2, ActiveKept, EndsCrm, CrmStep

LEMMA PutDoneCrm ==
  ASSUME CrmInv, NEW c \in Calls, call[c].kind = "put", call[c].phase = "answered", TheCrm!Ends(c),
         UNCHANGED <<about, server, local, active, crmWire, used, changes, upset>>
  PROVE  CrmInv'
  BY EndsCrm, ActiveKept, QuietCall

LEMMA RemovedCrm ==
  ASSUME CrmInv, NEW c \in Calls, call[c].kind = "delete", call[c].phase = "answered",
         TheCrm!Removed(c), UNCHANGED <<about, server, crmWire, used, changes>>
  PROVE  CrmInv'
  <1>1. PICK k \in TheCrm!Call : k = call[c] /\ CallHolds(k)
    BY CrmTypes DEF CrmInv
  <1>2. local' = k.back /\ upset' = (upset \/ k.crossed) /\ TheCrm!Opens(active) /\ TheCrm!Ends(c)
    BY <1>1 DEF TheCrm!Removed
  <1>3. local' \in TheCrm!Values(about) /\ upset' \in BOOLEAN /\ used' \subseteq Items
    BY <1>2, CrmFields, CrmTypes, ActiveKept DEF CrmInv
  <1>4. active' \subseteq Items /\ (active' # {} => about = "boards" /\ active' \subseteq local')
    BY <1>2, ActiveKept, OpensCrm
  <1>5. ~upset' => local' = server /\ ~upset
    BY <1>1, <1>2 DEF CallHolds
  <1>6. ~upset' => Converges'
    BY <1>5 DEF Converges, CrmInv
  <1> QED BY <1>2, <1>3, <1>4, <1>6, EndsCrm, CrmStep

LEMMA ReloadsCrm ==
  ASSUME CrmInv, NEW c \in Calls, call[c].kind \in {"post", "contact", "delete"},
         TheCrm!Reloads(c), UNCHANGED <<about, server, crmWire, used, changes>>
  PROVE  CrmInv'
  <1>1. PICK k \in TheCrm!Call : k = call[c] /\ CallHolds(k)
    BY CrmTypes DEF CrmInv
  <1> DEFINE item == IF k.kind = "post" /\ about = "boards" THEN k.item ELSE {}
             get == TheCrm!Get
             new == [get EXCEPT !.item = item]
  <1>2. TheCrm!Takes(k) /\ call' = [call EXCEPT ![c] = new] /\ UNCHANGED <<active, upset>>
    BY <1>1 DEF TheCrm!Reloads
  <1>3. item \in SUBSET Items /\ (item # {} => about = "boards")
    BY CrmFields
  <1>4. get \in TheCrm!Call /\ get.kind = "get" /\ get.phase = "asked" /\ ~get.open
    BY NoCallHolds DEF CrmInv
  <1> HIDE DEF item, get
  <1>5. new \in TheCrm!Call /\ new.kind = "get" /\ new.phase = "asked" /\ ~new.open /\ new.item = item
    BY <1>3, <1>4 DEF TheCrm!Call
  <1> HIDE DEF new
  <1>6. CallHolds(new)
    BY <1>3, <1>5 DEF CallHolds
  <1>7. /\ local' \in TheCrm!Values(about) /\ (about = "boards" => local' = local)
        /\ (about \notin TheCrm!Lists => local' = local)
    <2>1. CASE about \in {"users", "replies"}
      <3>1. local \subseteq Items /\ TheCrm!Values(about) = SUBSET Items /\ k.item \subseteq Items
        BY <2>1, CrmFields, CrmValues, CrmTypes DEF CrmInv, TheCrm!Lists
      <3> QED BY <1>2, <2>1, <3>1 DEF TheCrm!Takes, TheCrm!Lists
    <2>2. CASE about \notin {"users", "replies"}
      BY <1>2, <2>2, CrmTypes DEF TheCrm!Takes, CrmInv
    <2> QED BY <2>1, <2>2
  <1>8. active' \subseteq Items /\ (active' # {} => about = "boards" /\ active' \subseteq local')
    BY <1>2, <1>7, ActiveKept
  <1>9. call'[c] = new /\ (\A d \in Calls \ {c} : call'[d] = call[d]) /\ ~upset' => Converges'
    <2> SUFFICES ASSUME call'[c] = new, \A d \in Calls \ {c} : call'[d] = call[d], ~upset
                 PROVE  Converges'
      BY <1>2
    <2>1. CASE about \in TheCrm!Lists
      BY <1>5, <2>1 DEF Converges
    <2>2. CASE about \notin TheCrm!Lists
      BY <1>7, <2>2 DEF Converges, CrmInv
    <2> QED BY <2>1, <2>2
  <1>10. upset' \in BOOLEAN /\ used' \subseteq Items
    BY <1>2, ActiveKept, CrmTypes DEF CrmInv
  <1> QED BY <1>2, <1>5, <1>6, <1>7, <1>8, <1>9, <1>10, CrmStep

LEMMA DoneCrm ==
  ASSUME CrmInv, NEW c \in Calls, TheCrm!Done(c)
  PROVE  CrmInv'
  <1>1. /\ call[c].kind \notin {"none", "get"} /\ call[c].phase = "answered"
        /\ UNCHANGED <<about, server, crmWire, used, changes>>
    BY DEF TheCrm!Done
  <1>2. CASE call[c].kind = "put"
    BY <1>1, <1>2, PutDoneCrm DEF TheCrm!Done
  <1>3. CASE call[c].kind = "delete" /\ about = "boards"
    BY <1>1, <1>3, RemovedCrm DEF TheCrm!Done
  <1>4. CASE call[c].kind # "put" /\ ~(call[c].kind = "delete" /\ about = "boards")
    <2>1. call[c].kind \in {"post", "contact", "delete"}
      BY <1>1, <1>4, CrmFields, CrmTypes DEF CrmInv
    <2> QED BY <1>1, <1>4, <2>1, ReloadsCrm DEF TheCrm!Done
  <1> QED BY <1>2, <1>3, <1>4

LEMMA FailsCrm ==
  ASSUME CrmInv, NEW c \in Calls, TheCrm!Fails(c)
  PROVE  CrmInv'
  <1>1. PICK k \in TheCrm!Call : k = call[c] /\ CallHolds(k)
    BY CrmTypes DEF CrmInv
  <1>2. /\ k.kind \notin {"none", "get"} /\ TheCrm!Opens(IF k.open THEN k.item ELSE active)
        /\ TheCrm!Ends(c) /\ UNCHANGED <<about, server, crmWire, used, changes>>
    BY <1>1 DEF TheCrm!Fails
  <1>3. \/ k.kind = "put" /\ local' = k.back /\ upset' \in BOOLEAN
             /\ (~upset' => ~upset /\ k.phase = "asked" /\ ~k.crossed)
        \/ k.kind # "put" /\ UNCHANGED <<local, upset>>
    BY <1>1, CrmFields, CrmTypes DEF TheCrm!Fails, TheCrm!PutsBack, CrmInv
  <1>4. local' \in TheCrm!Values(about) /\ upset' \in BOOLEAN /\ used' \subseteq Items
    BY <1>2, <1>3, CrmFields, CrmTypes, ActiveKept DEF CrmInv
  <1>5. active' \subseteq Items /\ (active' # {} => about = "boards" /\ active' \subseteq local')
    BY <1>1, <1>2, CrmFields, ActiveKept, OpensCrm DEF CallHolds
  <1>6. call'[c] = TheCrm!NoCall /\ (\A d \in Calls \ {c} : call'[d] = call[d]) /\ ~upset'
          => Converges'
    <2> SUFFICES ASSUME \A d \in Calls \ {c} : call'[d] = call[d], ~upset' PROVE Converges'
      OBVIOUS
    <2>1. CASE k.kind = "put"
      <3>1. local' = server /\ ~upset
        BY <1>1, <1>3, <2>1 DEF CallHolds
      <3> QED BY <1>2, <3>1 DEF Converges, CrmInv
    <2>2. CASE k.kind # "put"
      BY <1>1, <1>2, <1>3, <2>2 DEF Converges, CrmInv
    <2> QED BY <2>1, <2>2
  <1> QED BY <1>2, <1>4, <1>5, <1>6, EndsCrm, CrmStep

LEMMA ServeCrm ==
  ASSUME CrmInv, NEW c \in Calls, TheCrm!Serve(c)
  PROVE  CrmInv'
  <1>1. PICK k \in TheCrm!Call : k = call[c] /\ CallHolds(k)
    BY CrmTypes DEF CrmInv
  <1> DEFINE value == TheCrm!Outcome(k)
             new == [k EXCEPT !.phase = "answered"]
  <1>2. /\ k.kind \in {"put", "post", "contact", "delete"} /\ k.phase = "asked"
        /\ TheCrm!Stores(value) /\ call' = [TheCrm!Crossed(call) EXCEPT ![c] = new]
        /\ UNCHANGED <<about, local, active, used>>
    BY <1>1, CrmFields DEF TheCrm!Serve
  <1>3. value \in TheCrm!Values(about)
    <2>1. CASE k.kind \in {"put", "contact"}
      BY <2>1, CrmFields DEF TheCrm!Outcome
    <2>2. CASE k.kind \in {"post", "delete"}
      <3>1. TheCrm!Values(about) = SUBSET Items /\ server \subseteq Items
        BY <1>1, <2>2, CrmValues, CrmTypes DEF CallHolds, CrmInv
      <3> QED BY <2>2, <3>1, CrmFields DEF TheCrm!Outcome
    <2> QED BY <1>2, <2>1, <2>2
  <1>4. new \in TheCrm!Call /\ new.kind = k.kind /\ new.phase = "answered" /\ new.item = k.item
        /\ new.back = k.back /\ new.crossed = k.crossed /\ new.open = k.open
    BY DEF TheCrm!Call
  <1>5. k.kind = "delete" => value = server \ k.item
    BY DEF TheCrm!Outcome
  <1> HIDE DEF value, new
  <1>6. /\ changes' \in 0..MaxCrmChanges /\ server' \in TheCrm!Values(about) /\ server' = value
        /\ crmWire' \in Seq(TheCrm!Values(about)) /\ Len(crmWire') <= MaxCrmEvents
        /\ upset' \in BOOLEAN /\ (~upset' => crmWire' # <<>> /\ crmWire'[Len(crmWire')] = server')
    BY <1>2, <1>3, StoresCrm
  <1>7. \A d \in Calls : TheCrm!Crossed(call)[d] \in TheCrm!Call
    BY <1>2, CrossedCrm
  <1>8. /\ call' \in [Calls -> TheCrm!Call] /\ call'[c] = new
        /\ \A d \in Calls \ {c} : call'[d] = TheCrm!Crossed(call)[d]
    <2>1. TheCrm!Crossed(call) \in [Calls -> TheCrm!Call]
      BY <1>7 DEF TheCrm!Crossed
    <2> QED BY <1>2, <1>4, <2>1
  <1>9. \A d \in Calls : CallHolds(call[d])'
    <2>1. CallHolds(call[c])'
      BY <1>1, <1>2, <1>4, <1>5, <1>6, <1>8 DEF CallHolds
    <2>2. ASSUME NEW d \in Calls \ {c} PROVE CallHolds(call[d])'
      BY <1>2, <1>8, CrossedCrm
    <2> QED BY <2>1, <2>2
  <1>10. TheCrm!TypeOK'
    BY <1>2, <1>6, <1>8, SameCalls DEF CrmInv, TheCrm!TypeOK
  <1>11. ~upset' => Converges'
    BY <1>2, <1>6 DEF Converges
  <1> QED BY <1>9, <1>10, <1>11 DEF CrmInv

LEMMA ElsewhereCrm ==
  ASSUME CrmInv, TheCrm!Elsewhere
  PROVE  CrmInv'
  <1>1. PICK value \in TheCrm!Near(server) :
          /\ TheCrm!Stores(value)
          /\ used' = IF about \in TheCrm!Lists THEN used \cup value ELSE used
    BY DEF TheCrm!Elsewhere
  <1>2. call' = TheCrm!Crossed(call) /\ UNCHANGED <<about, local, active>>
    BY DEF TheCrm!Elsewhere
  <1>3. value \in TheCrm!Values(about)
    <2>1. about \in TheCrm!Lists \cup {"stage", "profile"} /\ server \in TheCrm!Values(about)
      BY CrmTypes DEF CrmInv
    <2>2. CASE about = "stage"
      BY <1>1, <2>1, <2>2, CrmValues DEF TheCrm!Near
    <2>3. CASE about = "profile"
      <3>1. server \in TheCrm!Profiles
        BY <2>1, <2>3, CrmValues
      <3>2. value \in TheCrm!Profiles
        BY <1>1, <2>3, <3>1 DEF TheCrm!Near, TheCrm!Profiles
      <3> QED BY <2>1, <2>3, <3>2, CrmValues
    <2>4. CASE about \in TheCrm!Lists
      <3>1. server \subseteq Items /\ TheCrm!Values(about) = SUBSET Items
            /\ about # "stage" /\ about # "profile"
        BY <2>1, <2>4, CrmValues DEF TheCrm!Lists
      <3>2. value \subseteq Items
        BY <1>1, <3>1 DEF TheCrm!Near
      <3> QED BY <3>1, <3>2
    <2> QED BY <2>1, <2>2, <2>3, <2>4
  <1>4. /\ changes' \in 0..MaxCrmChanges /\ server' \in TheCrm!Values(about)
        /\ crmWire' \in Seq(TheCrm!Values(about)) /\ Len(crmWire') <= MaxCrmEvents
        /\ upset' \in BOOLEAN /\ (~upset' => crmWire' # <<>> /\ crmWire'[Len(crmWire')] = server')
    BY <1>1, <1>2, <1>3, StoresCrm
  <1>5. used' \subseteq Items
    BY <1>1, <1>3, ActiveKept, CrmValues, CrmTypes DEF CrmInv
  <1>6. \A d \in Calls : call'[d] \in TheCrm!Call /\ CallHolds(call[d])'
    BY <1>2, CrossedCrm
  <1>7. call' \in [Calls -> TheCrm!Call]
    BY <1>2, <1>6 DEF TheCrm!Crossed
  <1>8. TheCrm!TypeOK'
    BY <1>2, <1>4, <1>5, <1>7, SameCalls DEF CrmInv, TheCrm!TypeOK
  <1>9. ~upset' => Converges'
    BY <1>2, <1>4 DEF Converges
  <1> QED BY <1>6, <1>8, <1>9 DEF CrmInv

LEMMA TailFacts ==
  ASSUME NEW V, NEW seq \in Seq(V), seq # <<>>
  PROVE  /\ Head(seq) \in V /\ Head(seq) = seq[1] /\ Len(seq) \in Nat \ {0}
         /\ Tail(seq) \in Seq(V) /\ Len(Tail(seq)) = Len(seq) - 1
         /\ \A i \in 1..(Len(seq) - 1) : Tail(seq)[i] = seq[i + 1]
         /\ Tail(seq) = <<>> <=> Len(seq) = 1
  <1>1. Len(seq) \in Nat \ {0}
    OBVIOUS
  <1>2. /\ Head(seq) \in V /\ Head(seq) = seq[1]
        /\ Tail(seq) \in Seq(V) /\ Len(Tail(seq)) = Len(seq) - 1
    BY <1>1
  <1>3. \A i \in 1..(Len(seq) - 1) : Tail(seq)[i] = seq[i + 1]
    BY <1>1
  <1>4. \A s \in Seq(V) : Len(s) = 0 <=> s = <<>>
    OBVIOUS
  <1>5. Tail(seq) = <<>> <=> Len(seq) = 1
    <2>1. PICK rest \in Seq(V) : rest = Tail(seq) /\ Len(rest) = Len(seq) - 1
      BY <1>2
    <2>2. rest = <<>> <=> Len(rest) = 0
      BY <1>4
    <2>3. Len(rest) = 0 <=> Len(seq) = 1
      BY <1>1, <2>1
    <2> QED BY <2>1, <2>2, <2>3
  <1> QED BY <1>1, <1>2, <1>3, <1>5

LEMMA DeliverCrm ==
  ASSUME CrmInv, TheCrm!Deliver
  PROVE  CrmInv'
  <1>1. /\ crmWire # <<>> /\ crmWire' = Tail(crmWire)
        /\ UNCHANGED <<about, server, active, used, changes>>
    BY DEF TheCrm!Deliver
  <1> DEFINE V == TheCrm!Values(about)
             first == Head(crmWire)
  <1>2. crmWire \in Seq(V) /\ Len(crmWire) <= MaxCrmEvents
    BY DEF CrmInv, TheCrm!TypeOK
  <1> HIDE DEF V
  <1>3. /\ first \in V /\ crmWire' \in Seq(V) /\ Len(crmWire') = Len(crmWire) - 1
        /\ Len(crmWire) \in Nat \ {0} /\ Len(crmWire') <= MaxCrmEvents
        /\ (crmWire' = <<>> => Len(crmWire) = 1 /\ first = crmWire[Len(crmWire)])
        /\ (crmWire' # <<>> => crmWire'[Len(crmWire')] = crmWire[Len(crmWire)] /\ Len(crmWire) > 1)
    <2>1. /\ first \in V /\ first = crmWire[1] /\ Len(crmWire) \in Nat \ {0}
          /\ crmWire' \in Seq(V) /\ Len(crmWire') = Len(crmWire) - 1
          /\ \A i \in 1..(Len(crmWire) - 1) : crmWire'[i] = crmWire[i + 1]
          /\ crmWire' = <<>> <=> Len(crmWire) = 1
      BY <1>1, <1>2, TailFacts
    <2> HIDE DEF first
    <2> QED BY <1>2, <2>1, WebAssumption DEF WebAssumption
  <1>4. CASE about \in TheCrm!Lists
    <2>1. PICK c \in Calls : TheCrm!Free(c) /\ call' = [call EXCEPT ![c] = TheCrm!Get]
      BY <1>4 DEF TheCrm!Deliver
    <2>2. UNCHANGED <<local, upset>>
      BY <1>4 DEF TheCrm!Deliver
    <2>3. TheCrm!Get \in TheCrm!Call /\ CallHolds(TheCrm!Get) /\ TheCrm!Get.kind = "get"
      BY NoCallHolds DEF CrmInv
    <2>4. /\ call' \in [Calls -> TheCrm!Call'] /\ call'[c] = TheCrm!Get
          /\ \A d \in Calls : CallHolds(call[d])'
      BY <1>1, <2>1, <2>3, OneCall
    <2>5. TheCrm!TypeOK'
      BY <1>1, <1>3, <2>2, <2>4, SameCalls DEF CrmInv, TheCrm!TypeOK, V
    <2>6. Converges'
      BY <1>1, <1>4, <2>3, <2>4 DEF Converges
    <2> QED BY <2>4, <2>5, <2>6 DEF CrmInv
  <1>5. CASE about \notin TheCrm!Lists
    <2>1. /\ local' = first /\ call' = call
          /\ upset' = (upset /\ (first # server \/ Len(crmWire) > 1))
      BY <1>5 DEF TheCrm!Deliver
    <2> HIDE DEF first
    <2>2. active' = {}
      BY <1>1, <1>5, ActiveKept, CrmValues, CrmTypes DEF CrmInv
    <2>3. upset' \in BOOLEAN
      BY <2>1, CrmTypes DEF CrmInv
    <2>4. TheCrm!TypeOK'
      BY <1>1, <1>3, <2>1, <2>2, <2>3, SameCalls DEF CrmInv, TheCrm!TypeOK, V
    <2>5. ~upset' => Converges'
      BY <1>1, <1>3, <1>5, <2>1 DEF Converges, CrmInv
    <2> QED BY <1>1, <2>1, <2>4, <2>5 DEF CrmInv, CallHolds
  <1> QED BY <1>4, <1>5

LEMMA NextCrm == CrmInv /\ [TheCrm!Next]_crm => CrmInv'
  <1> SUFFICES ASSUME CrmInv, [TheCrm!Next]_crm PROVE CrmInv'
    OBVIOUS
  <1>1. CASE UNCHANGED crm
    <2>1. TheCrm!TypeOK'
      BY <1>1, SameCalls DEF crm, CrmInv, TheCrm!TypeOK
    <2> QED BY <1>1, <2>1 DEF crm, CrmInv, CallHolds, Converges
  <1>2. CASE TheCrm!Next
    <2>1. ASSUME NEW c \in Calls,
                 \/ TheCrm!Move(c) \/ TheCrm!Save(c) \/ TheCrm!AddContact(c) \/ TheCrm!Create(c)
                 \/ TheCrm!Remove(c) \/ TheCrm!AskAgain(c)
          PROVE  CrmInv'
      BY <2>1, MoveSaveCrm, MadeCrm, RemoveCrm
    <2>2. ASSUME NEW c \in Calls,
                 \/ TheCrm!Serve(c) \/ TheCrm!Done(c) \/ TheCrm!Fails(c) \/ TheCrm!GetServed(c)
                 \/ TheCrm!GetLands(c) \/ TheCrm!GetFails(c)
          PROVE  CrmInv'
      BY <2>2, ServeCrm, DoneCrm, FailsCrm, GetServedCrm, GetLandsCrm, GetFailsCrm
    <2>3. ASSUME NEW board \in {{}} \cup {{i} : i \in Items}, TheCrm!Activate(board) PROVE CrmInv'
      BY <2>3, ActivateCrm
    <2>4. CASE TheCrm!Elsewhere \/ TheCrm!Deliver
      BY <2>4, ElsewhereCrm, DeliverCrm
    <2> QED BY <1>2, <2>1, <2>2, <2>3, <2>4 DEF TheCrm!Next
  <1> QED BY <1>1, <1>2

--------------------------------------------------------------------------------
(* The frame.                                                                     *)

\* Nothing is kept of a dashboard that was left.
Left == screen # "dashboard" => view = "dashboard" /\ going = Nil /\ wanted = Nil

\* Whatever names a session names one that was made.
Named ==
  /\ frameLoad.saw \subseteq made
  /\ wanted \in made \cup {Nil} /\ action.of \in made \cup {Nil}
  /\ action.kind # "none" => action.of \in made

\* An answer of the server has the sessions that are shown, and one that was asked for after
\* a session was made has it, unless they are gone.
AnswerHas ==
  frameLoad.phase = "answered" =>
    /\ shown \cap sessions \subseteq frameLoad.saw
    /\ action.phase = "waits" /\ ~action.joined /\ action.of \in sessions
         => action.of \in frameLoad.saw

\* A session about to be made is unknown to all.
NewIsNew ==
  action.kind = "create" /\ action.phase = "asked"
    => action.of \notin sessions \cup shown \cup frameLoad.saw \cup {wanted}

FrameInv == Frame!TypeOK /\ Frame!WorkspaceKept /\ Left /\ Named /\ AnswerHas /\ NewIsNew

LEMMA FrameConstants ==
  /\ Nil \notin Sessions /\ "dashboard" \in Frame!Views /\ "settings" \in Frame!Views

  /\ \A who : "dashboard" \in Frame!Allowed(who) /\ Frame!Allowed(who) \subseteq Frame!Views
  /\ Frame!NoAction \in Frame!Action /\ Frame!NoAction.kind = "none"
  /\ Frame!NoAction.phase = "idle" /\ Frame!NoAction.of = Nil
  BY WebAssumption DEF WebAssumption, Frame!Views, Frame!Allowed, Frame!NoAction, Frame!Action,
     Frame!Phases

LEMMA InitFrame == Frame!Init => FrameInv
  <1> SUFFICES ASSUME Frame!Init PROVE FrameInv
    OBVIOUS
  <1>1. Frame!TypeOK
    BY FrameConstants DEF Frame!Init, Frame!TypeOK, Frame!Views, Frame!Phases
  <1>2. Frame!WorkspaceKept
    BY FrameConstants DEF Frame!Init, Frame!WorkspaceKept, Frame!ForbiddenIsLeft, Frame!WantedIsSelected
  <1> QED BY <1>1, <1>2, FrameConstants DEF Frame!Init, FrameInv, Left, Named, AnswerHas, NewIsNew

--------------------------------------------------------------------------------
(* The effects of the frame.                                                      *)

LEMMA SelectsOne ==
  ASSUME NEW s, NEW set, NEW to \in Frame!Views, Frame!Selects(s, set, to)
  PROVE  /\ selected' \in set \cup {Nil} /\ view' \in Frame!Views
         /\ s \in set => selected' = s
  BY FrameConstants DEF Frame!Selects

\* The effect of the view looks after it.
LEMMA GoesLeaves ==
  ASSUME NEW to, going' = Frame!Goes(role', view', to)
  PROVE  /\ Frame!ForbiddenIsLeft'
         /\ to \in Frame!Views \cup {Nil} => going' \in Frame!Views \cup {Nil}
  BY FrameConstants DEF Frame!ForbiddenIsLeft, Frame!Goes

LEMMA LeavesFrame ==
  ASSUME FrameInv, Frame!Leaves, UNCHANGED <<sessions, made>>,
         cookie' \in Frame!Roles \cup {Nil}
  PROVE  FrameInv'
  <1>1. /\ screen' = "login" /\ role' = Nil /\ view' = "dashboard" /\ going' = Nil
        /\ shown' = {} /\ selected' = Nil /\ action' = Frame!NoAction /\ wanted' = Nil
        /\ csrf' \in BOOLEAN /\ frameAgain' \in BOOLEAN /\ ~frameAgain'
    BY DEF Frame!Leaves
  <1>2. frameLoad' = [phase |-> "idle", saw |-> {}]
    BY DEF Frame!Leaves
  <1>3. sessions \subseteq made /\ made \subseteq Sessions
    BY DEF FrameInv, Frame!TypeOK
  <1>4. Frame!TypeOK'
    BY <1>1, <1>2, <1>3, FrameConstants DEF Frame!TypeOK, Frame!Phases
  <1>5. Frame!WorkspaceKept'
    BY <1>1, <1>3, FrameConstants DEF Frame!WorkspaceKept, Frame!ForbiddenIsLeft, Frame!WantedIsSelected
  <1> QED BY <1>1, <1>2, <1>4, <1>5, FrameConstants DEF FrameInv, Left, Named, AnswerHas, NewIsNew

\* A step that leaves alone what is asked, served and waited for.
LEMMA ScreenStep ==
  ASSUME FrameInv, Frame!TypeOK', Frame!ForbiddenIsLeft', Frame!WantedIsSelected', Left',
         UNCHANGED <<sessions, made, shown, frameLoad, action>>, wanted' \in {wanted, Nil} \cup shown
  PROVE  FrameInv'
  <1>1. shown \subseteq made /\ sessions \subseteq made /\ made \subseteq Sessions
    BY DEF FrameInv, Frame!TypeOK
  <1>2. Named'
    BY <1>1 DEF FrameInv, Named
  <1>3. AnswerHas'
    BY DEF FrameInv, AnswerHas
  <1>4. NewIsNew'
    <2>1. CASE action.kind = "create" /\ action.phase = "asked"
      <3>1. action.of \in made /\ action.of \notin shown \cup {wanted} /\ action.of # Nil
        BY <1>1, <2>1, FrameConstants DEF FrameInv, Named, NewIsNew
      <3> QED BY <2>1, <3>1 DEF FrameInv, NewIsNew
    <2> QED BY <2>1 DEF NewIsNew
  <1> QED BY <1>2, <1>3, <1>4 DEF FrameInv, Frame!WorkspaceKept

LEMMA SignInFrame ==
  ASSUME FrameInv, Frame!SignIn \/ Frame!Elsewhere
  PROVE  FrameInv'
  <1>1. /\ UNCHANGED <<sessions, made, shown, selected, frameLoad, frameAgain, action, wanted,
                      view, going, role>>
        /\ cookie' \in Frame!Roles \cup {Nil} /\ csrf' \in BOOLEAN
        /\ screen' \in {"login", "checking", "dashboard"}
    BY DEF Frame!SignIn, Frame!SignsIn, Frame!Elsewhere, FrameInv, Frame!TypeOK, Frame!views,
       Frame!lists, Frame!loader
  <1>2. /\ screen' # "dashboard" => screen # "dashboard"
        /\ screen' = "dashboard" => screen = "dashboard"
    BY DEF Frame!SignIn, Frame!Elsewhere
  <1>3. Frame!TypeOK'
    BY <1>1, <1>2 DEF FrameInv, Frame!TypeOK
  <1>4. Frame!ForbiddenIsLeft' /\ Frame!WantedIsSelected' /\ Left'
    BY <1>1, <1>2 DEF FrameInv, Frame!WorkspaceKept, Frame!ForbiddenIsLeft,
       Frame!WantedIsSelected, Left
  <1> QED BY <1>1, <1>3, <1>4, ScreenStep

LEMMA CheckedFrame ==
  ASSUME FrameInv, Frame!Checked
  PROVE  FrameInv'
  <1>1. /\ screen = "checking" /\ cookie # Nil /\ role' = cookie /\ screen' = "dashboard"
        /\ frameLoad' = [frameLoad EXCEPT !.phase = "asked"] /\ selected' = Nil
        /\ UNCHANGED <<cookie, csrf, view, going, sessions, made, shown, frameAgain, action, wanted>>
    BY DEF Frame!Checked, Frame!Validated, Frame!Forgets, Frame!views
  <1>2. frameLoad'.phase = "asked" /\ frameLoad'.saw = frameLoad.saw
        /\ frameLoad' \in [phase : Frame!Phases, saw : SUBSET Sessions]
    BY <1>1 DEF FrameInv, Frame!TypeOK, Frame!Phases
  <1>3. view = "dashboard" /\ wanted = Nil /\ action = Frame!NoAction
    BY <1>1 DEF FrameInv, Left, Frame!TypeOK
  <1>4. Frame!TypeOK'
    BY <1>1, <1>2, <1>3, FrameConstants DEF FrameInv, Frame!TypeOK
  <1>5. Frame!WorkspaceKept'
    BY <1>1, <1>3, FrameConstants DEF FrameInv, Frame!TypeOK, Frame!WorkspaceKept,
       Frame!ForbiddenIsLeft, Frame!WantedIsSelected
  <1> QED BY <1>1, <1>2, <1>3, <1>4, <1>5, FrameConstants
             DEF FrameInv, Left, Named, AnswerHas, NewIsNew

LEMMA LeaveFrame ==
  ASSUME FrameInv, Frame!CheckFails \/ Frame!SignOut \/ Frame!Unauthorized
  PROVE  FrameInv'
  BY LeavesFrame DEF Frame!CheckFails, Frame!SignOut, Frame!SignsOut, Frame!Unauthorized, FrameInv,
     Frame!TypeOK

\* What is asked for, waited for or gone to is on the dashboard.
LEMMA OnDashboard ==
  ASSUME FrameInv,
         frameLoad.phase # "idle" \/ action.phase # "idle" \/ shown # {} \/ going # Nil
  PROVE  screen = "dashboard"
  BY FrameConstants DEF FrameInv, Frame!TypeOK, Left

LEMMA FrameTypes ==
  ASSUME FrameInv
  PROVE  /\ shown \subseteq made /\ sessions \subseteq made /\ made \subseteq Sessions
         /\ selected \in shown \cup {Nil} /\ view \in Frame!Views /\ going \in Frame!Views \cup {Nil}
         /\ frameLoad.phase \in Frame!Phases /\ frameLoad.saw \subseteq Sessions
         /\ action \in Frame!Action /\ frameAgain \in BOOLEAN
         /\ wanted \in sessions => selected = wanted /\ wanted \in shown
  <1>1. wanted \in sessions => wanted # Nil /\ selected = wanted
    BY FrameConstants DEF FrameInv, Frame!TypeOK, Frame!WorkspaceKept, Frame!WantedIsSelected
  <1> QED BY <1>1 DEF FrameInv, Frame!TypeOK

LEMMA ViewFrame ==
  ASSUME FrameInv, Frame!UpdateOwn \/ (\E to \in Frame!Views : Frame!Navigate(to)) \/ Frame!Arrives
  PROVE  FrameInv'
  <1>1. /\ UNCHANGED <<csrf, screen, sessions, made, shown, frameLoad, frameAgain, action, wanted>>
        /\ screen = "dashboard"
    BY OnDashboard DEF Frame!UpdateOwn, Frame!Navigate, Frame!Arrives, Frame!signed, Frame!views,
       Frame!lists, Frame!loader
  <1>2. /\ cookie' \in Frame!Roles \cup {Nil} /\ role' \in Frame!Roles \cup {Nil}
        /\ view' \in Frame!Views /\ selected' \in shown \cup {Nil}
        /\ wanted \in sessions => selected' = wanted
        /\ \E to \in Frame!Views \cup {Nil} : going' = Frame!Goes(role', view', to)
    <2>1. CASE Frame!UpdateOwn
      <3>1. role' = "attendant" /\ cookie' = "attendant" /\ view' = view /\ selected' = selected
            /\ going' = Frame!Goes(role', view', going)
        BY <2>1 DEF Frame!UpdateOwn, Frame!Updates, Frame!lists
      <3> QED BY <3>1, FrameTypes DEF Frame!Roles
    <2>2. ASSUME NEW to \in Frame!Views, Frame!Navigate(to)
          PROVE  /\ cookie' \in Frame!Roles \cup {Nil} /\ role' \in Frame!Roles \cup {Nil}
                 /\ view' \in Frame!Views /\ selected' \in shown \cup {Nil}
                 /\ wanted \in sessions => selected' = wanted
                 /\ \E next \in Frame!Views \cup {Nil} : going' = Frame!Goes(role', view', next)
      BY <2>2, FrameTypes DEF Frame!Navigate, Frame!signed, Frame!lists, FrameInv, Frame!TypeOK
    <2>3. CASE Frame!Arrives
      <3>1. going \in Frame!Views /\ Frame!Selects(selected, shown, going)
            /\ going' = Frame!Goes(role', view', Nil) /\ UNCHANGED <<cookie, role>>
        BY <2>3, FrameTypes DEF Frame!Arrives, Frame!signed
      <3>2. /\ selected' \in shown \cup {Nil} /\ view' \in Frame!Views
            /\ selected \in shown => selected' = selected
        BY <3>1, SelectsOne
      <3> QED BY <3>1, <3>2, FrameTypes DEF FrameInv, Frame!TypeOK
    <2> QED BY <2>1, <2>2, <2>3
  <1>3. Frame!ForbiddenIsLeft' /\ going' \in Frame!Views \cup {Nil}
    BY <1>2, GoesLeaves
  <1>4. Frame!TypeOK'
    BY <1>1, <1>2, <1>3 DEF FrameInv, Frame!TypeOK
  <1>5. Frame!WantedIsSelected' /\ Left'
    BY <1>1, <1>2 DEF Frame!WantedIsSelected, Left
  <1> QED BY <1>1, <1>3, <1>4, <1>5, ScreenStep

LEMMA ChooseFrame ==
  ASSUME FrameInv, NEW s \in Sessions, Frame!Choose(s)
  PROVE  FrameInv'
  <1>1. /\ s \in shown /\ selected' = s /\ wanted' = s /\ screen = "dashboard"
        /\ UNCHANGED <<cookie, csrf, screen, role, view, going, sessions, made, shown, frameLoad,
                      frameAgain, action>>
    BY OnDashboard DEF Frame!Choose, Frame!signed, Frame!views, Frame!loader
  <1>2. Frame!TypeOK'
    BY <1>1 DEF FrameInv, Frame!TypeOK
  <1>3. Frame!ForbiddenIsLeft' /\ Frame!WantedIsSelected' /\ Left'
    BY <1>1 DEF FrameInv, Frame!WorkspaceKept, Frame!ForbiddenIsLeft, Frame!WantedIsSelected, Left
  <1> QED BY <1>1, <1>2, <1>3, ScreenStep

--------------------------------------------------------------------------------
(* The overview: what is asked for, served and taken.                             *)

LEMMA AsksLoad ==
  ASSUME FrameInv, Frame!Asks
  PROVE  /\ frameLoad' \in [phase : Frame!Phases, saw : SUBSET Sessions]
         /\ frameLoad'.saw = frameLoad.saw /\ frameLoad'.phase # "idle"
         /\ frameLoad'.phase = "answered" => frameLoad.phase = "answered"
         /\ frameAgain' \in BOOLEAN
  BY DEF Frame!Asks, FrameInv, Frame!TypeOK, Frame!Phases

LEMMA RefreshFrame ==
  ASSUME FrameInv, Frame!Refresh
  PROVE  FrameInv'
  <1>1. /\ screen = "dashboard" /\ Frame!Asks
        /\ UNCHANGED <<cookie, csrf, screen, role, view, going, sessions, made, shown, selected,
                      action, wanted>>
    BY DEF Frame!Refresh, Frame!signed, Frame!views, Frame!lists
  <1>2. Frame!TypeOK'
    BY <1>1, AsksLoad DEF FrameInv, Frame!TypeOK
  <1>3. Frame!WorkspaceKept' /\ Left'
    BY <1>1 DEF FrameInv, Frame!WorkspaceKept, Frame!ForbiddenIsLeft, Frame!WantedIsSelected, Left
  <1>4. Named' /\ AnswerHas' /\ NewIsNew'
    BY <1>1, AsksLoad DEF FrameInv, Named, AnswerHas, NewIsNew
  <1> QED BY <1>2, <1>3, <1>4 DEF FrameInv

LEMMA ServeFrame ==
  ASSUME FrameInv, Frame!Serve
  PROVE  FrameInv'
  <1>1. /\ screen = "dashboard"
        /\ UNCHANGED <<cookie, csrf, screen, role, view, going, sessions, made, shown, selected,
                      frameAgain, action, wanted>>
    BY OnDashboard DEF Frame!Serve, Frame!signed, Frame!views, Frame!lists
  <1>2. frameLoad' = [phase |-> "answered", saw |-> sessions]
    BY DEF Frame!Serve
  <1>3. frameLoad'.phase = "answered" /\ frameLoad'.saw = sessions
        /\ frameLoad' \in [phase : Frame!Phases, saw : SUBSET Sessions]
    BY <1>2, FrameTypes DEF Frame!Phases
  <1> HIDE <1>2
  <1>4. Frame!TypeOK'
    BY <1>1, <1>3 DEF FrameInv, Frame!TypeOK
  <1>5. Frame!WorkspaceKept' /\ Left'
    BY <1>1 DEF FrameInv, Frame!WorkspaceKept, Frame!ForbiddenIsLeft, Frame!WantedIsSelected, Left
  <1>6. Named' /\ AnswerHas' /\ NewIsNew'
    BY <1>1, <1>3, FrameTypes DEF FrameInv, Named, AnswerHas, NewIsNew
  <1> QED BY <1>4, <1>5, <1>6 DEF FrameInv

\* After the load nothing waits for an answer: another one may have been asked for.
LEMMA FinishesLoad ==
  ASSUME FrameInv, Frame!Finishes
  PROVE  /\ frameLoad' \in [phase : Frame!Phases, saw : SUBSET Sessions]
         /\ frameLoad'.saw = {} /\ frameLoad'.phase # "answered"
         /\ frameAgain' \in BOOLEAN /\ ~frameAgain'
  BY DEF Frame!Finishes, FrameInv, Frame!TypeOK, Frame!Phases

\* The action goes on, unless it has not been answered.
LEMMA GoesOn ==
  ASSUME FrameInv, action' = IF action.phase = "waits" THEN Frame!NoAction ELSE action
  PROVE  /\ action' \in Frame!Action /\ action'.phase # "waits" /\ action' \in {action, Frame!NoAction}
  BY FrameConstants, FrameTypes

LEMMA EndsLoad ==
  ASSUME FrameInv, screen = "dashboard", Frame!Finishes,
         action' = IF action.phase = "waits" THEN Frame!NoAction ELSE action,
         UNCHANGED <<cookie, csrf, screen, role, sessions, made>>,
         shown' \subseteq shown \cup frameLoad.saw, selected' \in shown' \cup {Nil},
         view' \in Frame!Views, going' \in Frame!Views \cup {Nil},
         wanted' \in {wanted, Nil, action.of}, wanted' = action.of => action.of = wanted \/ action'.phase = "idle",
         Frame!ForbiddenIsLeft', Frame!WantedIsSelected'
  PROVE  FrameInv'
  <1>1. action.of \in made \cup {Nil} /\ wanted \in made \cup {Nil} /\ frameLoad.saw \subseteq made
    BY DEF FrameInv, Named
  <1>2. Frame!TypeOK'
    BY <1>1, FinishesLoad, GoesOn, FrameTypes DEF FrameInv, Frame!TypeOK
  <1>3. Left' /\ AnswerHas'
    BY FinishesLoad DEF Left, AnswerHas
  <1>4. Named'
    BY <1>1, FinishesLoad, GoesOn, FrameConstants DEF FrameInv, Named
  <1>5. NewIsNew'
    <2>1. CASE action'.phase = "asked" /\ action'.kind = "create"
      <3>1. action' = action
        BY <2>1, GoesOn, FrameConstants
      <3>2. action.of \notin sessions \cup shown \cup frameLoad.saw \cup {wanted}
            /\ action.of \in made /\ action.of # Nil
        BY <1>1, <2>1, <3>1, FrameConstants, FrameTypes DEF FrameInv, Named, NewIsNew
      <3> QED BY <2>1, <3>1, <3>2, FinishesLoad DEF NewIsNew
    <2> QED BY <2>1 DEF NewIsNew
  <1> QED BY <1>2, <1>3, <1>4, <1>5 DEF FrameInv, Frame!WorkspaceKept

\* What is wanted and still there is in the answer, so it stays selected.
LEMMA LandFrame ==
  ASSUME FrameInv, Frame!Land
  PROVE  FrameInv'
  <1>1. /\ frameLoad.phase = "answered" /\ screen = "dashboard" /\ shown' = frameLoad.saw
        /\ action' = IF action.phase = "waits" THEN Frame!NoAction ELSE action
        /\ Frame!Finishes
        /\ UNCHANGED <<cookie, csrf, screen, role, sessions, made>>
    BY OnDashboard DEF Frame!Land, Frame!signed
  <1>2. shown \cap sessions \subseteq frameLoad.saw
    BY <1>1 DEF FrameInv, AnswerHas
  <1>3. CASE action.kind = "create" /\ action.phase = "waits"
    <2>1. /\ Frame!Selects(action.of, frameLoad.saw, view)
          /\ going' = Frame!Goes(role', view', "settings")
          /\ wanted' = IF action.joined THEN Nil ELSE action.of
          /\ action'.phase = "idle"
      BY <1>1, <1>3, FrameConstants DEF Frame!Land, Frame!Created
    <2>2. /\ selected' \in frameLoad.saw \cup {Nil} /\ view' \in Frame!Views
          /\ action.of \in frameLoad.saw => selected' = action.of
      BY <2>1, SelectsOne, FrameTypes
    <2>3. Frame!ForbiddenIsLeft' /\ going' \in Frame!Views \cup {Nil}
      BY <2>1, GoesLeaves, FrameConstants
    <2>4. Frame!WantedIsSelected'
      BY <1>1, <1>3, <2>1, <2>2, FrameConstants, FrameTypes
         DEF Frame!WantedIsSelected, FrameInv, AnswerHas
    <2> QED BY <1>1, <2>1, <2>2, <2>3, <2>4, EndsLoad
  <1>4. CASE ~(action.kind = "create" /\ action.phase = "waits")
    <2>1. /\ Frame!Selects(selected, frameLoad.saw, view) /\ wanted' = wanted
          /\ going' = Frame!Goes(role', view', going)
      BY <1>1, <1>4 DEF Frame!Land
    <2>2. /\ selected' \in frameLoad.saw \cup {Nil} /\ view' \in Frame!Views
          /\ selected \in frameLoad.saw => selected' = selected
      BY <2>1, SelectsOne, FrameTypes
    <2>3. Frame!ForbiddenIsLeft' /\ going' \in Frame!Views \cup {Nil}
      BY <2>1, GoesLeaves, FrameTypes
    <2>4. Frame!WantedIsSelected'
      BY <1>1, <1>2, <2>1, <2>2, FrameTypes DEF Frame!WantedIsSelected
    <2> QED BY <1>1, <2>1, <2>2, <2>3, <2>4, EndsLoad
  <1> QED BY <1>3, <1>4

LEMMA LoadFailsFrame ==
  ASSUME FrameInv, Frame!LoadFails
  PROVE  FrameInv'
  <1>1. /\ screen = "dashboard" /\ Frame!Finishes
        /\ action' = IF action.phase = "waits" THEN Frame!NoAction ELSE action
        /\ UNCHANGED <<cookie, csrf, screen, role, view, going, sessions, made, shown, selected,
                      wanted>>
    BY OnDashboard DEF Frame!LoadFails, Frame!signed, Frame!views, Frame!lists
  <1>2. Frame!ForbiddenIsLeft' /\ Frame!WantedIsSelected'
    BY <1>1 DEF FrameInv, Frame!WorkspaceKept, Frame!ForbiddenIsLeft, Frame!WantedIsSelected
  <1> QED BY <1>1, <1>2, EndsLoad, FrameTypes

--------------------------------------------------------------------------------
(* The actions on sessions.                                                       *)

\* A step that asks for nothing and shows nothing else.
LEMMA ActionStep ==
  ASSUME FrameInv, screen = "dashboard", action' \in Frame!Action, action'.phase # "waits",
         UNCHANGED <<cookie, csrf, screen, role, view, going, sessions, shown, selected, frameLoad,
                     frameAgain, wanted>>,
         made \subseteq made', made' \subseteq Sessions, action'.of \in made' \cup {Nil},
         action'.kind # "none" => action'.of \in made',
         action'.kind = "create" /\ action'.phase = "asked" => action'.of \notin made
  PROVE  FrameInv'
  <1>1. Frame!TypeOK'
    BY DEF FrameInv, Frame!TypeOK
  <1>2. Frame!WorkspaceKept' /\ Left'
    BY DEF FrameInv, Frame!WorkspaceKept, Frame!ForbiddenIsLeft, Frame!WantedIsSelected, Left
  <1>3. Named' /\ AnswerHas'
    BY DEF FrameInv, Named, AnswerHas
  <1>4. NewIsNew'
    BY FrameConstants, FrameTypes DEF FrameInv, Named, NewIsNew
  <1> QED BY <1>1, <1>2, <1>3, <1>4 DEF FrameInv

LEMMA ActFrame ==
  ASSUME FrameInv, NEW kind \in {"create", "connect", "delete"}, NEW s \in Sessions,
         Frame!Act(kind, s)
  PROVE  FrameInv'
  <1>1. /\ screen = "dashboard" /\ made' = made \cup {s}
        /\ kind = "create" => s \notin made
        /\ UNCHANGED <<cookie, csrf, screen, role, view, going, sessions, shown, selected, frameLoad,
                      frameAgain, wanted>>
    BY DEF Frame!Act, Frame!signed, Frame!views, Frame!lists, Frame!loader
  <1>2. action' = [kind |-> kind, phase |-> "asked", of |-> s, before |-> selected,
                   rest |-> shown \ {s}, joined |-> FALSE]
    BY DEF Frame!Act
  <1>3. action' \in Frame!Action /\ action'.phase # "waits" /\ action'.of = s /\ action'.kind = kind
    BY <1>2, FrameTypes DEF Frame!Action, Frame!Phases
  <1> QED BY <1>1, <1>3, ActionStep, FrameTypes

LEMMA ActServedFrame ==
  ASSUME FrameInv, Frame!ActServed
  PROVE  FrameInv'
  <1>1. /\ action.phase = "asked" /\ screen = "dashboard"
        /\ UNCHANGED <<cookie, csrf, screen, role, view, going, made, shown, selected, frameLoad,
                      frameAgain, wanted>>
    BY OnDashboard DEF Frame!ActServed, Frame!signed, Frame!views, Frame!lists, Frame!loader
  <1>2. action' \in Frame!Action /\ action'.phase = "answered" /\ action'.of = action.of
        /\ action'.kind = action.kind
    BY FrameTypes DEF Frame!ActServed, Frame!Action, Frame!Phases
  <1>3. /\ sessions' \subseteq sessions \cup {action.of} /\ sessions' \subseteq made
        /\ action.of \notin sessions /\ action.of \in sessions'
           => action.of \notin shown \cup {wanted}
    BY <1>1, FrameTypes DEF Frame!ActServed, FrameInv, Named, NewIsNew
  <1>4. Frame!TypeOK'
    BY <1>1, <1>2, <1>3 DEF FrameInv, Frame!TypeOK
  <1>5. Frame!WorkspaceKept' /\ Left'
    BY <1>1, <1>3 DEF FrameInv, Frame!WorkspaceKept, Frame!ForbiddenIsLeft,
       Frame!WantedIsSelected, Left
  <1>6. Named' /\ AnswerHas' /\ NewIsNew'
    BY <1>1, <1>2, <1>3 DEF FrameInv, Named, AnswerHas, NewIsNew
  <1> QED BY <1>4, <1>5, <1>6 DEF FrameInv

LEMMA ActFailsFrame ==
  ASSUME FrameInv, Frame!ActFails
  PROVE  FrameInv'
  <1>1. /\ screen = "dashboard" /\ action' = Frame!NoAction
        /\ UNCHANGED <<cookie, csrf, screen, role, view, going, sessions, made, shown, selected,
                      frameLoad, frameAgain, wanted>>
    BY OnDashboard DEF Frame!ActFails, Frame!signed, Frame!views, Frame!lists, Frame!loader
  <1> QED BY <1>1, ActionStep, FrameConstants, FrameTypes

\* Who waits for a load that had been answered already has joined it.
LEMMA WaitsFrame ==
  ASSUME FrameInv, Frame!Asks, Frame!Waits, action.phase = "answered"
  PROVE  /\ action' \in Frame!Action /\ action'.phase = "waits" /\ action'.of = action.of
         /\ action'.kind = action.kind
         /\ frameLoad'.phase = "answered" => action'.joined
  <1>1. PICK late \in BOOLEAN : late <=> frameLoad.phase # "idle"
    OBVIOUS
  <1>2. late = (frameLoad.phase # "idle")
    BY <1>1
  <1>3. action' = [action EXCEPT !.phase = "waits", !.joined = late]
    BY <1>2 DEF Frame!Waits
  <1>4. /\ action' \in Frame!Action /\ action'.phase = "waits" /\ action'.of = action.of
        /\ action'.kind = action.kind /\ action'.joined = late
    BY <1>3, FrameTypes DEF Frame!Action
  <1> QED BY <1>1, <1>4, AsksLoad

LEMMA AnsweredFrame ==
  ASSUME FrameInv, Frame!ActAnswered \/ Frame!RemovedSelected
  PROVE  FrameInv'
  <1>1. /\ screen = "dashboard" /\ action.phase = "answered" /\ Frame!Asks /\ Frame!Waits
        /\ UNCHANGED <<cookie, csrf, screen, role, sessions, made, shown>>
    BY OnDashboard DEF Frame!ActAnswered, Frame!RemovedSelected, Frame!signed, Frame!lists
  <1>2. /\ view' \in Frame!Views /\ going' \in Frame!Views \cup {Nil}
        /\ selected' \in shown \cup {Nil} /\ wanted' \in {wanted, Nil}
        /\ Frame!ForbiddenIsLeft' /\ Frame!WantedIsSelected'
    <2>1. CASE Frame!ActAnswered
      <3>1. UNCHANGED <<view, going, selected, wanted>>
        BY <2>1 DEF Frame!ActAnswered, Frame!views, Frame!lists
      <3> QED BY <1>1, <3>1, FrameTypes DEF FrameInv, Frame!WorkspaceKept, Frame!ForbiddenIsLeft,
                 Frame!WantedIsSelected
    <2>2. CASE Frame!RemovedSelected
      <3>1. PICK s : /\ Frame!Selects(s, shown, view)
                     /\ going' = Frame!Goes(role', view', IF s = Nil THEN "settings" ELSE going)
        BY <2>2, <1>1 DEF Frame!RemovedSelected
      <3>2. wanted' = Nil
        BY <2>2 DEF Frame!RemovedSelected
      <3>3. view' \in Frame!Views /\ selected' \in shown \cup {Nil}
        BY <3>1, SelectsOne, FrameTypes
      <3>4. Frame!ForbiddenIsLeft' /\ going' \in Frame!Views \cup {Nil}
        BY <3>1, GoesLeaves, FrameTypes, FrameConstants
      <3> QED BY <1>1, <3>2, <3>3, <3>4, FrameConstants, FrameTypes DEF Frame!WantedIsSelected
    <2> QED BY <1>1, <2>1, <2>2 DEF Frame!ActAnswered, Frame!RemovedSelected
  <1>3. Frame!TypeOK'
    BY <1>1, <1>2, AsksLoad, WaitsFrame, FrameConstants DEF FrameInv, Frame!TypeOK
  <1>4. Left' /\ Named' /\ NewIsNew'
    BY <1>1, <1>2, AsksLoad, WaitsFrame DEF FrameInv, Left, Named, NewIsNew
  <1>5. AnswerHas'
    BY <1>1, AsksLoad, WaitsFrame DEF FrameInv, AnswerHas
  <1> QED BY <1>2, <1>3, <1>4, <1>5 DEF FrameInv, Frame!WorkspaceKept

LEMMA OthersFrame ==
  ASSUME FrameInv, Frame!Others
  PROVE  FrameInv'
  <1>1. UNCHANGED <<cookie, csrf, screen, role, view, going, shown, selected, frameLoad, frameAgain,
                   action, wanted>>
    BY DEF Frame!Others, Frame!signed, Frame!views, Frame!lists, Frame!loader
  <1>2. /\ made \subseteq made' /\ made' \subseteq Sessions /\ sessions' \subseteq made'
        /\ sessions' \cap made \subseteq sessions
    BY FrameTypes DEF Frame!Others
  <1>3. Frame!TypeOK'
    BY <1>1, <1>2 DEF FrameInv, Frame!TypeOK
  <1>4. /\ shown \cup frameLoad.saw \subseteq made /\ wanted \in made \cup {Nil}
        /\ action.of \in made \cup {Nil} /\ Nil \notin sessions'
    BY <1>2, FrameTypes, FrameConstants DEF FrameInv, Named
  <1>5. Frame!WorkspaceKept' /\ Left' /\ Named'
    BY <1>1, <1>2, <1>4 DEF FrameInv, Frame!WorkspaceKept, Frame!ForbiddenIsLeft,
       Frame!WantedIsSelected, Left, Named
  <1>6. AnswerHas' /\ NewIsNew'
    BY <1>1, <1>2, <1>4 DEF FrameInv, Named, AnswerHas, NewIsNew
  <1> QED BY <1>3, <1>5, <1>6 DEF FrameInv

LEMMA NextFrame == FrameInv /\ [Frame!Next]_frame => FrameInv'
  <1> SUFFICES ASSUME FrameInv, [Frame!Next]_frame PROVE FrameInv'
    OBVIOUS
  <1>1. CASE UNCHANGED frame
    <2>1. Frame!TypeOK' /\ Frame!WorkspaceKept'
      BY <1>1 DEF frame, FrameInv, Frame!TypeOK, Frame!WorkspaceKept, Frame!ForbiddenIsLeft,
         Frame!WantedIsSelected
    <2> QED BY <1>1, <2>1 DEF frame, FrameInv, Left, Named, AnswerHas, NewIsNew
  <1>2. CASE Frame!SignIn \/ Frame!Checked \/ Frame!CheckFails \/ Frame!SignOut
             \/ Frame!Elsewhere \/ Frame!Unauthorized
    BY <1>2, SignInFrame, CheckedFrame, LeaveFrame
  <1>3. CASE Frame!UpdateOwn \/ (\E to \in Frame!Views : Frame!Navigate(to)) \/ Frame!Arrives
    BY <1>3, ViewFrame
  <1>4. CASE Frame!Refresh \/ Frame!Serve \/ Frame!Land \/ Frame!LoadFails
    BY <1>4, RefreshFrame, ServeFrame, LandFrame, LoadFailsFrame
  <1>5. ASSUME NEW s \in Sessions, Frame!Choose(s) PROVE FrameInv'
    BY <1>5, ChooseFrame
  <1>6. ASSUME NEW s \in Sessions, NEW kind \in {"create", "connect", "delete"}, Frame!Act(kind, s)
        PROVE  FrameInv'
    BY <1>6, ActFrame
  <1>7. CASE Frame!ActServed \/ Frame!ActFails \/ Frame!ActAnswered \/ Frame!RemovedSelected
             \/ Frame!Others
    BY <1>7, ActServedFrame, ActFailsFrame, AnsweredFrame, OthersFrame
  <1> QED BY <1>1, <1>2, <1>3, <1>4, <1>5, <1>6, <1>7 DEF Frame!Next

--------------------------------------------------------------------------------
(* The timeline on the screen.                                                    *)

\* Until messages come the divider counts those that were unread.
MarkerCounts == ~came => marker = total - read

\* The position is kept for older messages that are awaited, or the timeline has changed.
PositionAwaited == "mine" \in askedOlder => preserve \/ disturbed

\* The lock goes with the position that is kept, unless what it was taken for has come to
\* nothing.
LockExplained == lock => preserve \/ heldLock

ViewportInv ==
  /\ TheViewport!TypeOK /\ MarkerCounts /\ TheViewport!NewsBelow
  /\ TheViewport!Anchored /\ PositionAwaited
  /\ TheViewport!LockReleased /\ LockExplained

LEMMA ViewConstants ==
  /\ FetchLimit \in Nat /\ MaxNews \in Nat /\ MaxMessages \in Nat
  /\ Shown \in Nat /\ 1 <= Shown /\ Shown <= MaxMessages
  BY WebAssumption DEF WebAssumption

\* The type invariant, number by number and flag by flag.
ViewNumbers ==
  /\ total \in Nat /\ total <= MaxMessages /\ len \in Nat /\ len <= total
  /\ limit \in Nat /\ Shown <= limit /\ limit <= MaxMessages
  /\ news \in Nat /\ news <= MaxNews
  /\ marker \in Nat /\ marker <= MaxMessages /\ read \in Nat /\ read <= MaxMessages

ViewAsked == askedOlder \subseteq {"mine", "stray"} /\ (fetchingOlder => askedOlder # {})

ViewFlags ==
  /\ more \in BOOLEAN /\ fetchingOlder \in BOOLEAN /\ switching \in BOOLEAN
  /\ stick \in BOOLEAN /\ preserve \in BOOLEAN /\ lock \in BOOLEAN
  /\ came \in BOOLEAN /\ jumped \in BOOLEAN /\ disturbed \in BOOLEAN /\ heldLock \in BOOLEAN

LEMMA ViewTypes ==
  ASSUME TheViewport!TypeOK
  PROVE  ViewNumbers /\ ViewAsked /\ ViewFlags
  BY ViewConstants DEF TheViewport!TypeOK, ViewNumbers, ViewAsked, ViewFlags

LEMMA TypedView ==
  ASSUME ViewNumbers', ViewAsked', ViewFlags'
  PROVE  TheViewport!TypeOK'
  BY ViewConstants DEF TheViewport!TypeOK, ViewNumbers, ViewAsked, ViewFlags

LEMMA LeastView ==
  ASSUME NEW a \in Int, NEW b \in Int
  PROVE  /\ TheViewport!Least(a, b) \in Int
         /\ TheViewport!Least(a, b) <= a /\ TheViewport!Least(a, b) <= b
         /\ a <= b => TheViewport!Least(a, b) = a
         /\ b <= a => TheViewport!Least(a, b) = b
  BY DEF TheViewport!Least

LEMMA ViewportInvImplies == ViewportInv => TheViewport!ViewportKept
  <1> SUFFICES ASSUME ViewportInv PROVE TheViewport!DividerKept
    BY DEF ViewportInv, TheViewport!ViewportKept
  <1>1. ViewNumbers
    BY ViewTypes DEF ViewportInv
  <1> DEFINE seen == TheViewport!Least(marker, len)
  <1>2. /\ seen \in Int /\ seen <= marker /\ seen <= len
        /\ marker <= len => seen = marker
        /\ len <= marker => seen = len
    BY <1>1 DEF ViewNumbers, TheViewport!Least
  <1>3. TheViewport!Divider = len - seen
    BY DEF TheViewport!Divider
  <1> HIDE DEF seen
  <1>4. ~came /\ len >= total - read => TheViewport!Divider + total - len = read
    BY <1>1, <1>2, <1>3 DEF ViewNumbers, ViewportInv, MarkerCounts
  <1>5. marker <= Shown => TheViewport!Divider >= TheViewport!FirstShown
    BY <1>1, <1>2, <1>3, ViewConstants DEF ViewNumbers, TheViewport!FirstShown
  <1> QED BY <1>4, <1>5 DEF TheViewport!DividerKept

LEMMA InitViewport == TheViewport!Init => ViewportInv
  <1> SUFFICES ASSUME TheViewport!Init PROVE ViewportInv
    OBVIOUS
  <1>1. PICK unread : unread \in 0..total /\ marker = unread /\ read = total - unread
    BY DEF TheViewport!Init
  <1>2. /\ total \in Nat /\ total <= MaxMessages /\ len = 0 /\ limit = Shown /\ news = 0
        /\ askedOlder = {}
        /\ ~came /\ switching /\ ~preserve /\ stick /\ ~more /\ ~fetchingOlder /\ ~lock
        /\ ~jumped /\ ~disturbed /\ ~heldLock
    BY ViewConstants DEF TheViewport!Init
  <1>3. ViewFlags
    BY DEF TheViewport!Init, ViewFlags
  <1>4. marker = total - read /\ marker \in 0..MaxMessages /\ read \in 0..MaxMessages
    BY <1>1, <1>2, ViewConstants
  <1>5. TheViewport!TypeOK
    BY <1>2, <1>3, <1>4, ViewConstants DEF TheViewport!TypeOK, ViewFlags
  <1> QED BY <1>2, <1>4, <1>5 DEF ViewportInv, MarkerCounts, TheViewport!NewsBelow,
             TheViewport!Anchored, PositionAwaited, TheViewport!LockReleased, LockExplained

--------------------------------------------------------------------------------
(* Opening, returning and loading.                                                *)

LEMMA OpenView ==
  ASSUME ViewportInv, TheViewport!Open
  PROVE  ViewportInv'
  <1>1. PICK unread : unread \in 0..(total') /\ marker' = unread /\ read' = total' - unread
    BY DEF TheViewport!Open, TheViewport!Begins
  <1>2. /\ total' \in Nat /\ total' <= MaxMessages
        /\ len' \in 0..TheViewport!Least(total', FetchLimit)
        /\ limit' = Shown /\ news' = 0
    BY ViewConstants DEF TheViewport!Open, TheViewport!Begins, TheViewport!Resets
  <1>3. /\ ~came' /\ switching' /\ ~preserve' /\ stick' /\ ~more' /\ ~fetchingOlder'
        /\ ~jumped' /\ ~disturbed' /\ (lock' => heldLock')
    BY DEF TheViewport!Open, TheViewport!Begins, TheViewport!Resets
  <1>4. ViewFlags'
    BY ViewTypes DEF ViewFlags, ViewportInv, TheViewport!Open, TheViewport!Begins,
       TheViewport!Resets
  <1>5. len' \in Nat /\ len' <= total'
    BY <1>2, LeastView, ViewConstants
  <1>6. marker' = total' - read' /\ ViewNumbers'
    <2>1. \A n \in Nat : \A u \in 0..n : u = n - (n - u) /\ n - u \in 0..n
      OBVIOUS
    <2>2. marker' = total' - read' /\ marker' \in 0..(total') /\ read' \in 0..(total')
      BY <1>1, <1>2, <2>1
    <2>3. \A n \in 0..(total') : n \in Nat /\ n <= MaxMessages
      <3>1. total' \in Nat /\ total' <= MaxMessages /\ MaxMessages \in Nat
        BY <1>2, ViewConstants
      <3> QED BY <3>1
    <2>4. marker' \in Nat /\ marker' <= MaxMessages /\ read' \in Nat /\ read' <= MaxMessages
      BY <2>2, <2>3
    <2>5. ViewNumbers'
      BY <1>2, <1>5, <2>4, ViewConstants DEF ViewNumbers
    <2> QED BY <2>2, <2>5
  <1>7. ViewAsked' /\ "mine" \notin askedOlder'
    BY <1>3 DEF ViewAsked, TheViewport!Open
  <1> QED BY <1>2, <1>3, <1>4, <1>6, <1>7, TypedView
          DEF ViewportInv, MarkerCounts, TheViewport!NewsBelow,
             TheViewport!Anchored, PositionAwaited, TheViewport!LockReleased, LockExplained

LEMMA ReturnView ==
  ASSUME ViewportInv, TheViewport!Return
  PROVE  ViewportInv'
  <1>1. /\ len' = 0 /\ limit' = Shown /\ news' = 0
        /\ ~preserve' /\ stick' /\ ~more' /\ ~fetchingOlder' /\ disturbed' /\ (lock' => heldLock')
        /\ UNCHANGED <<total, askedOlder, marker, read, came, jumped>>
    BY DEF TheViewport!Return, TheViewport!Resets
  <1>2. ViewFlags'
    BY ViewTypes DEF ViewFlags, ViewportInv, TheViewport!Return, TheViewport!Resets
  <1>3. ViewNumbers' /\ ViewAsked'
    BY <1>1, ViewTypes, ViewConstants DEF ViewportInv, ViewNumbers, ViewAsked
  <1> QED BY <1>1, <1>2, <1>3, TypedView
          DEF ViewportInv, MarkerCounts, TheViewport!NewsBelow,
             TheViewport!Anchored, PositionAwaited, TheViewport!LockReleased, LockExplained

\* What the layout effect leaves.
LEMMA LaysView ==
  ASSUME ViewportInv, TheViewport!Lays
  PROVE  /\ ~preserve' /\ preserve' \in BOOLEAN /\ lock' \in BOOLEAN /\ heldLock' \in BOOLEAN
         /\ lock' => lock /\ ~preserve /\ heldLock'
         /\ heldLock' => heldLock
  BY ViewTypes DEF ViewportInv, ViewFlags, TheViewport!Lays, LockExplained

\* A step that at most looks after the layout, and leaves the requests alone.
LEMMA LayoutView ==
  ASSUME ViewportInv, ViewNumbers', ViewFlags', TheViewport!NewsBelow', MarkerCounts',
         UNCHANGED <<fetchingOlder, askedOlder, jumped>>,
         \/ TheViewport!Lays /\ disturbed'
         \/ UNCHANGED <<preserve, lock, heldLock, disturbed>>
  PROVE  ViewportInv'
  <1>1. ViewAsked'
    BY ViewTypes DEF ViewportInv, ViewAsked
  <1>2. TheViewport!Anchored'
    BY DEF ViewportInv, TheViewport!Anchored
  <1>3. PositionAwaited' /\ TheViewport!LockReleased' /\ LockExplained'
    BY LaysView DEF ViewportInv, PositionAwaited, TheViewport!LockReleased, LockExplained
  <1> QED BY <1>1, <1>2, <1>3, TypedView DEF ViewportInv

LEMMA LandView ==
  ASSUME ViewportInv, TheViewport!Land
  PROVE  ViewportInv'
  <1>1. /\ len' = TheViewport!Least(total, FetchLimit)
        /\ UNCHANGED <<total, fetchingOlder, askedOlder, limit, stick, news, marker, read, came, jumped>>
    BY DEF TheViewport!Land, TheViewport!notes
  <1>2. \/ TheViewport!Lays /\ disturbed'
        \/ UNCHANGED <<preserve, lock, heldLock, disturbed>>
    BY DEF TheViewport!Land
  <1>3. len' \in Nat /\ len' <= total
    BY <1>1, LeastView, ViewTypes, ViewConstants DEF ViewportInv, ViewNumbers, TheViewport!Least
  <1>4. ViewNumbers'
    BY <1>1, <1>3, ViewTypes DEF ViewportInv, ViewNumbers
  <1>5. PICK beyond \in BOOLEAN : beyond <=> total > FetchLimit
    OBVIOUS
  <1>6. more' \in BOOLEAN /\ switching' \in BOOLEAN
    <2>1. beyond = (total > FetchLimit)
      BY <1>5
    <2> QED BY <2>1 DEF TheViewport!Land
  <1>7. disturbed' \in BOOLEAN
    BY ViewTypes DEF ViewportInv, ViewFlags, TheViewport!Land
  <1>8. ViewFlags'
    BY <1>1, <1>2, <1>6, <1>7, LaysView, ViewTypes DEF ViewportInv, ViewFlags
  <1>9. MarkerCounts' /\ TheViewport!NewsBelow'
    BY <1>1 DEF ViewportInv, MarkerCounts, TheViewport!NewsBelow
  <1> QED BY <1>1, <1>2, <1>4, <1>8, <1>9, LayoutView

LEMMA ArrivesView ==
  ASSUME ViewportInv, TheViewport!Arrives
  PROVE  ViewportInv'
  <1>1. /\ total < MaxMessages /\ total' = total + 1 /\ came'
        /\ UNCHANGED <<more, fetchingOlder, askedOlder, limit, switching, stick, marker, read, jumped>>
    BY DEF TheViewport!Arrives
  <1>2. /\ \/ len' = len + 1 /\ (stick \/ news < MaxNews)
              /\ news' = (IF stick THEN news ELSE news + 1)
           \/ len' = len /\ news' = news
        /\ \/ TheViewport!Lays /\ disturbed'
           \/ UNCHANGED <<preserve, lock, heldLock, disturbed>>
    BY DEF TheViewport!Arrives
  <1>3. ViewNumbers'
    BY <1>1, <1>2, ViewTypes, ViewConstants DEF ViewportInv, ViewNumbers
  <1>4. came' \in BOOLEAN /\ disturbed' \in BOOLEAN
    BY ViewTypes DEF ViewportInv, ViewFlags, TheViewport!Arrives
  <1>5. ViewFlags'
    BY <1>1, <1>2, <1>4, LaysView, ViewTypes DEF ViewportInv, ViewFlags
  <1>6. MarkerCounts' /\ TheViewport!NewsBelow'
    BY <1>1, <1>2 DEF ViewportInv, MarkerCounts, TheViewport!NewsBelow
  <1> QED BY <1>1, <1>2, <1>3, <1>5, <1>6, LayoutView

--------------------------------------------------------------------------------
(* Scrolling and older messages.                                                  *)

\* A limit that grows stays in its bounds.
LEMMA CappedView ==
  ASSUME NEW n \in Nat, Shown <= n
  PROVE  /\ TheViewport!Capped(n) \in Nat
         /\ Shown <= TheViewport!Capped(n) /\ TheViewport!Capped(n) <= MaxMessages
  BY ViewConstants DEF TheViewport!Capped, TheViewport!Least

\* What loadOlderMessages does, by itself or by the scroll handler; it is called when there
\* is something to show or to ask for, and by the button while no request is out.
LEMMA OlderView ==
  ASSUME ViewportInv, NEW locking \in BOOLEAN, TheViewport!Older(locking),
         TheViewport!FirstShown > 0 \/ more, locking => ~lock,
         news' \in {0, news}, UNCHANGED <<marker, read, came>>
  PROVE  ViewportInv'
  <1>1. ~stick' /\ stick' \in BOOLEAN /\ UNCHANGED <<total, len, more, switching, jumped>>
    BY DEF TheViewport!Older
  <1>2. /\ MarkerCounts' /\ TheViewport!NewsBelow' /\ TheViewport!Anchored'
    BY <1>1 DEF ViewportInv, MarkerCounts, TheViewport!NewsBelow, TheViewport!Anchored
  <1>3. CASE TheViewport!FirstShown > 0
    <2>1. /\ limit' = TheViewport!Capped(limit + Shown)
          /\ ~preserve' /\ ~lock' /\ disturbed'
          /\ preserve' \in BOOLEAN /\ lock' \in BOOLEAN /\ heldLock' \in BOOLEAN
          /\ disturbed' \in BOOLEAN /\ UNCHANGED <<fetchingOlder, askedOlder>>
      BY <1>3 DEF TheViewport!Older
    <2>2. limit + Shown \in Nat /\ Shown <= limit + Shown
      BY ViewTypes, ViewConstants DEF ViewportInv, ViewNumbers
    <2>3. limit' \in Nat /\ Shown <= limit' /\ limit' <= MaxMessages
      BY <2>1, <2>2, CappedView
    <2>4. ViewNumbers'
      BY <1>1, <2>3, ViewTypes, ViewConstants DEF ViewportInv, ViewNumbers
    <2>5. ViewFlags' /\ ViewAsked'
      BY <1>1, <2>1, ViewTypes DEF ViewportInv, ViewFlags, ViewAsked
    <2> QED BY <1>2, <2>1, <2>4, <2>5, TypedView
            DEF ViewportInv, PositionAwaited, TheViewport!LockReleased, LockExplained
  <1>4. CASE ~(TheViewport!FirstShown > 0)
    <2>1. /\ preserve' /\ preserve' \in BOOLEAN /\ lock' = (lock \/ locking) /\ limit' = limit
      BY <1>4 DEF TheViewport!Older
    <2>2. lock' \in BOOLEAN
      BY <2>1, ViewTypes DEF ViewportInv, ViewFlags
    <2>3. /\ askedOlder' \subseteq {"mine", "stray"} /\ (fetchingOlder' => askedOlder' # {})
          /\ fetchingOlder' \in BOOLEAN /\ heldLock' \in BOOLEAN /\ disturbed' \in BOOLEAN
          /\ lock' => fetchingOlder' \/ heldLock'
      <3>1. CASE more /\ ~fetchingOlder /\ len > 0
        <4>1. /\ fetchingOlder' /\ fetchingOlder' \in BOOLEAN
              /\ askedOlder' = askedOlder \cup {"mine"}
              /\ disturbed' = ("mine" \in askedOlder) /\ heldLock' \in BOOLEAN
          BY <1>4, <3>1 DEF TheViewport!Older
        <4>2. PICK twice \in BOOLEAN : twice <=> "mine" \in askedOlder
          OBVIOUS
        <4>3. twice = ("mine" \in askedOlder)
          BY <4>2
        <4> QED BY <4>1, <4>3, ViewTypes DEF ViewportInv, ViewAsked
      <3>2. CASE ~(more /\ ~fetchingOlder /\ len > 0)
        <4>1. heldLock' = (heldLock \/ len = 0) /\ UNCHANGED <<fetchingOlder, askedOlder, disturbed>>
          BY <1>4, <3>2 DEF TheViewport!Older
        <4>2. PICK empty \in BOOLEAN : empty <=> (heldLock \/ len = 0)
          OBVIOUS
        <4>3. empty = (heldLock \/ len = 0)
          BY <4>2, ViewTypes DEF ViewportInv, ViewFlags
        <4>4. heldLock' \in BOOLEAN /\ (heldLock' <=> heldLock \/ len = 0)
          BY <4>1, <4>2, <4>3
        <4>5. more /\ (fetchingOlder \/ len = 0)
          BY <1>4, <3>2, ViewTypes DEF ViewportInv, ViewNumbers
        <4> QED BY <2>1, <4>1, <4>4, <4>5, ViewTypes DEF ViewportInv, ViewAsked, ViewFlags
      <3> QED BY <3>1, <3>2
    <2>4. ViewNumbers'
      BY <1>1, <2>1, ViewTypes, ViewConstants DEF ViewportInv, ViewNumbers
    <2>5. ViewFlags' /\ ViewAsked'
      BY <1>1, <2>1, <2>2, <2>3, ViewTypes DEF ViewportInv, ViewFlags, ViewAsked
    <2> QED BY <1>2, <2>1, <2>3, <2>4, <2>5, TypedView
            DEF ViewportInv, PositionAwaited, TheViewport!LockReleased, LockExplained
  <1> QED BY <1>3, <1>4

LEMMA ScrollView ==
  ASSUME ViewportInv, NEW spot \in TheViewport!Spots, NEW awaiting \in BOOLEAN,
         TheViewport!Scroll(spot, awaiting)
  PROVE  ViewportInv'
  <1> DEFINE low == spot \in {"bottom", "both"}
             free == spot \in {"bottom", "middle"}
             loads == spot \in {"top", "both"} /\ ~lock /\ ~switching /\ ~awaiting
                        /\ (TheViewport!FirstShown > 0 \/ more)
  <1>1. news' = (IF low THEN 0 ELSE news) /\ UNCHANGED <<marker, read, came>>
    BY DEF TheViewport!Scroll
  <1>2. CASE loads
    <2>1. TheViewport!Older(TRUE)
      BY <1>2 DEF TheViewport!Scroll
    <2> QED BY <1>1, <1>2, <2>1, OlderView
  <1>3. CASE ~loads
    <2>1. /\ stick' = low /\ lock' = (lock /\ ~free) /\ heldLock' = (heldLock /\ ~free)
          /\ UNCHANGED <<total, len, more, fetchingOlder, askedOlder, limit, switching, preserve,
                         jumped, disturbed>>
      BY <1>3 DEF TheViewport!Scroll, TheViewport!timeline
    <2>2. PICK isLow \in BOOLEAN, isFree \in BOOLEAN : (isLow <=> low) /\ (isFree <=> free)
      OBVIOUS
    <2>3. isLow = low /\ isFree = free
      BY <2>2
    <2>4. /\ stick' \in BOOLEAN /\ (stick' <=> low) /\ lock' \in BOOLEAN /\ heldLock' \in BOOLEAN
          /\ lock' <=> lock /\ ~free
          /\ heldLock' <=> heldLock /\ ~free
      BY <2>1, <2>2, <2>3, ViewTypes DEF ViewportInv, ViewFlags
    <2> HIDE DEF low, free
    <2>5. ViewNumbers' /\ ViewFlags' /\ ViewAsked'
      BY <1>1, <2>1, <2>4, ViewTypes, ViewConstants
         DEF ViewportInv, ViewNumbers, ViewFlags, ViewAsked
    <2>6. MarkerCounts' /\ TheViewport!NewsBelow' /\ TheViewport!Anchored' /\ PositionAwaited'
      BY <1>1, <2>1, <2>4 DEF ViewportInv, MarkerCounts, TheViewport!NewsBelow,
         TheViewport!Anchored, PositionAwaited
    <2>7. TheViewport!LockReleased' /\ LockExplained'
      BY <2>1, <2>4 DEF ViewportInv, TheViewport!LockReleased, LockExplained
    <2> QED BY <2>5, <2>6, <2>7, TypedView DEF ViewportInv
  <1> QED BY <1>2, <1>3

LEMMA ButtonView ==
  ASSUME ViewportInv, TheViewport!Button
  PROVE  ViewportInv'
  BY OlderView DEF TheViewport!Button, TheViewport!notes

\* What is awaited comes in above a position that is kept, unless the timeline has changed.
LEMMA OlderLandsView ==
  ASSUME ViewportInv, NEW whose \in {"mine", "stray"}, TheViewport!OlderLands(whose)
  PROVE  ViewportInv'
  <1>1. /\ whose \in askedOlder /\ askedOlder' = askedOlder \ {whose}
        /\ ~fetchingOlder' /\ fetchingOlder' \in BOOLEAN /\ more' \in BOOLEAN
        /\ UNCHANGED <<total, switching, stick, news, marker, read, came, disturbed>>
    BY DEF TheViewport!OlderLands, TheViewport!notes
  <1>2. ViewAsked' /\ MarkerCounts' /\ TheViewport!NewsBelow'
    BY <1>1, ViewTypes DEF ViewportInv, ViewAsked, MarkerCounts, TheViewport!NewsBelow
  <1>3. CASE /\ whose = "mine"
             /\ \E n \in 1..Shown : len + n <= total /\ len' = len + n
                                    /\ limit' = TheViewport!Capped(limit + n)
             /\ jumped' = (jumped \/ (~preserve /\ ~disturbed))
             /\ TheViewport!Lays
    <2>1. PICK n \in 1..Shown : len + n <= total /\ len' = len + n
                                /\ limit' = TheViewport!Capped(limit + n)
      BY <1>3
    <2>2. limit + n \in Nat /\ Shown <= limit + n
      BY ViewTypes, ViewConstants DEF ViewportInv, ViewNumbers
    <2>3. limit' \in Nat /\ Shown <= limit' /\ limit' <= MaxMessages
      BY <2>1, <2>2, CappedView
    <2>4. ViewNumbers'
      BY <1>1, <2>1, <2>3, ViewTypes, ViewConstants DEF ViewportInv, ViewNumbers
    <2>5. ~jumped' /\ jumped' \in BOOLEAN
      BY <1>1, <1>3, ViewTypes DEF ViewportInv, PositionAwaited, TheViewport!Anchored, ViewFlags
    <2>6. ViewFlags'
      BY <1>1, <1>3, <2>5, LaysView, ViewTypes DEF ViewportInv, ViewFlags
    <2>7. "mine" \notin askedOlder'
      BY <1>1, <1>3
    <2> QED BY <1>2, <1>3, <2>4, <2>5, <2>6, <2>7, LaysView, TypedView
            DEF ViewportInv, PositionAwaited, TheViewport!Anchored, TheViewport!LockReleased,
                LockExplained
  <1>4. CASE heldLock' = lock /\ UNCHANGED <<len, limit, jumped, preserve, lock>>
    <2>1. ViewNumbers' /\ ViewFlags'
      BY <1>1, <1>4, ViewTypes DEF ViewportInv, ViewNumbers, ViewFlags
    <2> QED BY <1>1, <1>2, <1>4, <2>1, TypedView
            DEF ViewportInv, PositionAwaited, TheViewport!Anchored, TheViewport!LockReleased,
                LockExplained
  <1> QED BY <1>3, <1>4 DEF TheViewport!OlderLands

LEMMA OlderFailsView ==
  ASSUME ViewportInv, NEW whose \in {"mine", "stray"}, TheViewport!OlderFails(whose)
  PROVE  ViewportInv'
  <1>1. /\ askedOlder' = askedOlder \ {whose} /\ heldLock' = lock
        /\ ~fetchingOlder' /\ fetchingOlder' \in BOOLEAN
        /\ UNCHANGED <<total, len, more, limit, switching, stick, preserve, lock, news, marker,
                      read, came, jumped, disturbed>>
    BY DEF TheViewport!OlderFails, TheViewport!window, TheViewport!notes
  <1>2. ViewNumbers' /\ ViewAsked' /\ ViewFlags'
    BY <1>1, ViewTypes DEF ViewportInv, ViewNumbers, ViewAsked, ViewFlags
  <1>3. MarkerCounts' /\ TheViewport!NewsBelow' /\ TheViewport!Anchored' /\ PositionAwaited'
        /\ TheViewport!LockReleased' /\ LockExplained'
    BY <1>1 DEF ViewportInv, MarkerCounts, TheViewport!NewsBelow, TheViewport!Anchored,
       PositionAwaited, TheViewport!LockReleased, LockExplained
  <1> QED BY <1>2, <1>3, TypedView DEF ViewportInv

LEMMA JumpView ==
  ASSUME ViewportInv, TheViewport!Jump
  PROVE  ViewportInv'
  <1>1. /\ ~stick' /\ stick' \in BOOLEAN
        /\ UNCHANGED <<total, len, more, fetchingOlder, askedOlder, switching, news, marker, read,
                      came, jumped>>
    BY DEF TheViewport!Jump, TheViewport!timeline, TheViewport!notes
  <1>2. /\ \/ TheViewport!Lays /\ disturbed'
           \/ UNCHANGED <<preserve, lock, heldLock, disturbed>>
        /\ disturbed' \in BOOLEAN
    BY ViewTypes DEF TheViewport!Jump, ViewportInv, ViewFlags
  <1>3. limit' \in Nat /\ Shown <= limit' /\ limit' <= MaxMessages
    <2>1. CASE limit' = limit
      BY <2>1, ViewTypes DEF ViewportInv, ViewNumbers
    <2>2. ASSUME TheViewport!FirstShown > 0, NEW i \in 0..(TheViewport!FirstShown - 1),
                 limit' = TheViewport!Capped(len - i + Shown)
          PROVE  <1>3
      <3>1. TheViewport!FirstShown = len - limit /\ len \in Nat /\ limit \in Nat
        BY <2>2, ViewTypes DEF ViewportInv, ViewNumbers, TheViewport!FirstShown
      <3>2. len - i + Shown \in Nat /\ Shown <= len - i + Shown
        BY <2>2, <3>1, ViewConstants
      <3> QED BY <2>2, <3>2, CappedView
    <2> QED BY <2>1, <2>2 DEF TheViewport!Jump
  <1>4. ViewNumbers'
    BY <1>1, <1>3, ViewTypes DEF ViewportInv, ViewNumbers
  <1>5. ViewFlags'
    BY <1>1, <1>2, LaysView, ViewTypes DEF ViewportInv, ViewFlags
  <1>6. MarkerCounts' /\ TheViewport!NewsBelow'
    BY <1>1 DEF ViewportInv, MarkerCounts, TheViewport!NewsBelow
  <1> QED BY <1>1, <1>2, <1>4, <1>5, <1>6, LayoutView

LEMMA ToLatestView ==
  ASSUME ViewportInv, TheViewport!ToLatest
  PROVE  ViewportInv'
  <1>1. /\ news' = 0 /\ stick' /\ stick' \in BOOLEAN
        /\ UNCHANGED <<total, len, more, fetchingOlder, askedOlder, limit, switching, preserve,
                      lock, marker, read, came, jumped, disturbed, heldLock>>
    BY DEF TheViewport!ToLatest, TheViewport!timeline, TheViewport!history
  <1>2. ViewNumbers' /\ ViewFlags'
    BY <1>1, ViewTypes, ViewConstants DEF ViewportInv, ViewNumbers, ViewFlags
  <1>3. MarkerCounts' /\ TheViewport!NewsBelow'
    BY <1>1 DEF ViewportInv, MarkerCounts, TheViewport!NewsBelow
  <1> QED BY <1>1, <1>2, <1>3, LayoutView

LEMMA NextViewport == ViewportInv /\ [TheViewport!Next]_viewport => ViewportInv'
  <1> SUFFICES ASSUME ViewportInv, [TheViewport!Next]_viewport PROVE ViewportInv'
    OBVIOUS
  <1>1. CASE UNCHANGED viewport
    <2>1. /\ ViewNumbers' /\ ViewFlags'
          /\ UNCHANGED <<fetchingOlder, askedOlder, jumped, preserve, lock, heldLock, disturbed>>
      BY <1>1, ViewTypes DEF viewport, ViewportInv, ViewNumbers, ViewFlags
    <2>2. MarkerCounts' /\ TheViewport!NewsBelow'
      BY <1>1 DEF viewport, ViewportInv, MarkerCounts, TheViewport!NewsBelow
    <2> QED BY <2>1, <2>2, LayoutView
  <1>2. CASE TheViewport!Open \/ TheViewport!Return \/ TheViewport!Land \/ TheViewport!Arrives
             \/ TheViewport!Button \/ TheViewport!Jump \/ TheViewport!ToLatest
    BY <1>2, OpenView, ReturnView, LandView, ArrivesView, ButtonView, JumpView, ToLatestView
  <1>3. ASSUME NEW spot \in TheViewport!Spots, NEW awaiting \in BOOLEAN, TheViewport!Scroll(spot, awaiting)
        PROVE  ViewportInv'
    BY <1>3, ScrollView
  <1>4. ASSUME NEW whose \in {"mine", "stray"},
               TheViewport!OlderLands(whose) \/ TheViewport!OlderFails(whose)
        PROVE  ViewportInv'
    BY <1>4, OlderLandsView, OlderFailsView
  <1> QED BY <1>1, <1>2, <1>3, <1>4 DEF TheViewport!Next

--------------------------------------------------------------------------------
(* The virtual list.                                                              *)

\* The browser keeps the position within the content.
VirtualInv == Virtual!TypeOK /\ position <= Virtual!Bottom

LEMMA VirtualConstants ==
  /\ RowHeight \in Nat /\ RowHeight > 0 /\ Overscan \in Nat /\ Overscan > 0 /\ MaxRows \in Nat
  /\ \A h \in Heights : h \in Nat /\ h > 0
  BY WebAssumption DEF WebAssumption

\* Rows and pixels.
LEMMA RowOf ==
  ASSUME NEW a \in Nat
  PROVE  /\ a \div RowHeight \in Nat /\ (a \div RowHeight) * RowHeight <= a
         /\ a < ((a \div RowHeight) + 1) * RowHeight
  BY VirtualConstants

LEMMA FewerRows ==
  ASSUME NEW a \in Int, NEW b \in Int
  PROVE  /\ a * RowHeight \in Int
         /\ a <= b => a * RowHeight <= b * RowHeight
         /\ a * RowHeight < b * RowHeight => a < b
         /\ a < b => a * RowHeight + RowHeight <= b * RowHeight
  BY VirtualConstants

LEMMA RowsTogether ==
  ASSUME NEW a \in Int, NEW b \in Int
  PROVE  (a + b) * RowHeight = a * RowHeight + b * RowHeight
  BY VirtualConstants

\* As many rows as fill a height are not less than it.
LEMMA RowsFill ==
  ASSUME NEW h \in Nat
  PROVE  /\ (h + RowHeight - 1) \div RowHeight \in Nat
         /\ h <= ((h + RowHeight - 1) \div RowHeight) * RowHeight
  <1> DEFINE few == (h + RowHeight - 1) \div RowHeight
  <1>1. h + RowHeight - 1 \in Nat
    BY VirtualConstants
  <1>2. few \in Nat /\ h + RowHeight - 1 < (few + 1) * RowHeight
    BY <1>1, RowOf
  <1> HIDE DEF few
  <1>3. (few + 1) * RowHeight = few * RowHeight + RowHeight /\ few * RowHeight \in Int
    BY <1>2, VirtualConstants
  <1>4. h <= few * RowHeight
    BY <1>2, <1>3, VirtualConstants
  <1> QED BY <1>2, <1>4 DEF few

\* What is rendered follows from these.
VirtualSizes ==
  /\ rows \in 0..MaxRows /\ tall \in Heights /\ height \in Heights \cup {0}
  /\ top \in 0..(MaxRows * RowHeight) /\ (height = 0 => top = 0)

LEMMA VirtualTypes ==
  ASSUME VirtualSizes
  PROVE  /\ rows \in Nat /\ rows <= MaxRows /\ tall \in Nat /\ tall > 0
         /\ height \in Nat
         /\ top \in Nat /\ top <= MaxRows * RowHeight
         /\ MaxRows * RowHeight \in Nat
  <1>1. MaxRows * RowHeight \in Nat
    BY VirtualConstants
  <1> QED BY <1>1, VirtualConstants DEF VirtualSizes

\* What is rendered begins at the row of the position, or above it.
LEMMA StartOf ==
  ASSUME VirtualSizes
  PROVE  /\ Virtual!Start \in Nat /\ Virtual!Start * RowHeight <= top
         /\ height = 0 => Virtual!Start = 0
         /\ height # 0 => Virtual!Start >= (top \div RowHeight) - Overscan
         /\ Virtual!Start <= top \div RowHeight
  <1> DEFINE first == top \div RowHeight
  <1>1. first \in Nat /\ first * RowHeight <= top /\ top \in Nat
    BY RowOf, VirtualTypes
  <1>2. /\ Virtual!Start \in Nat /\ Virtual!Start <= first
        /\ height = 0 => Virtual!Start = 0
        /\ height # 0 => Virtual!Start >= first - Overscan
    BY <1>1, VirtualConstants, VirtualTypes DEF Virtual!Start, Virtual!Most
  <1>3. Virtual!Start * RowHeight <= first * RowHeight /\ Virtual!Start * RowHeight \in Int
        /\ first * RowHeight \in Int
    BY <1>1, <1>2, FewerRows
  <1> HIDE DEF first
  <1>4. Virtual!Start * RowHeight <= top
    BY <1>1, <1>3
  <1> QED BY <1>2, <1>4 DEF first

\* The content has all rows, and what is padded above them.
LEMMA ContentOf ==
  ASSUME VirtualSizes
  PROVE  /\ Virtual!Stop \in Int /\ Virtual!Stop <= rows
         /\ Virtual!Start <= rows => Virtual!Content = rows * RowHeight
         /\ Virtual!Start > rows => Virtual!Content = Virtual!Start * RowHeight
         /\ Virtual!Content \in Nat /\ Virtual!Content <= MaxRows * RowHeight
  <1> DEFINE few == (height + RowHeight - 1) \div RowHeight
             first == Virtual!Start
             last == Virtual!Stop
  <1>1. few \in Nat /\ rows \in Nat /\ Overscan \in Nat
    BY RowsFill, VirtualTypes, VirtualConstants
  <1>2. first \in Nat
    BY StartOf
  <1>3. last = IF height = 0 THEN rows ELSE Virtual!Least(rows, first + few + 2 * Overscan)
    BY DEF Virtual!Stop
  <1>4. height = 0 => first = 0
    BY StartOf
  <1> HIDE DEF few, first, last
  <1>5. last \in Int /\ last <= rows /\ (first <= rows => first <= last) /\ (first > rows => last = rows)
    BY <1>1, <1>2, <1>3, <1>4 DEF Virtual!Least
  <1>6. Virtual!Content = (first + Virtual!Most(0, last - first) + Virtual!Most(0, rows - last)) * RowHeight
    BY DEF Virtual!Content, first, last
  <1>7. /\ first <= rows => first + Virtual!Most(0, last - first) + Virtual!Most(0, rows - last) = rows
        /\ first > rows => first + Virtual!Most(0, last - first) + Virtual!Most(0, rows - last) = first
    BY <1>1, <1>2, <1>5 DEF Virtual!Most
  <1>8. /\ first <= rows => Virtual!Content = rows * RowHeight
        /\ first > rows => Virtual!Content = first * RowHeight
    BY <1>6, <1>7
  <1>9. /\ rows * RowHeight \in Nat /\ rows * RowHeight <= MaxRows * RowHeight
        /\ first * RowHeight \in Nat /\ first * RowHeight <= MaxRows * RowHeight
    <2>1. rows * RowHeight \in Nat /\ first * RowHeight \in Nat
      BY <1>1, <1>2, VirtualConstants
    <2>2. rows * RowHeight <= MaxRows * RowHeight
      BY FewerRows, VirtualTypes, VirtualConstants
    <2>3. first * RowHeight <= top /\ top <= MaxRows * RowHeight /\ top \in Nat
          /\ MaxRows * RowHeight \in Nat
      BY StartOf, VirtualTypes DEF first
    <2> QED BY <2>1, <2>2, <2>3
  <1>10. Virtual!Content \in Nat /\ Virtual!Content <= MaxRows * RowHeight
    BY <1>1, <1>2, <1>8, <1>9
  <1> QED BY <1>5, <1>8, <1>10 DEF first, last

BottomKnown ==
  /\ Virtual!Bottom \in Nat /\ Virtual!Bottom <= MaxRows * RowHeight
  /\ Virtual!Bottom = 0 \/ Virtual!Bottom = Virtual!Content - tall

LEMMA BottomOf == VirtualSizes => BottomKnown
  BY ContentOf, VirtualTypes DEF BottomKnown, Virtual!Bottom, Virtual!Most

LEMMA BottomNext == VirtualSizes' => BottomKnown'
  BY BottomOf, PTL

LEMMA VirtualInvImplies == VirtualInv => Virtual!RowsShown
  <1> SUFFICES ASSUME VirtualInv, top = position, height \in {0, tall}
               PROVE  /\ \A r \in 0..(rows - 1) :
                           Virtual!InView(r) => Virtual!Start <= r /\ r < Virtual!Stop
                      /\ position <= Virtual!Most(0, rows * RowHeight - tall)
    BY DEF Virtual!RowsShown
  <1>1. VirtualSizes /\ position <= Virtual!Bottom
    BY DEF VirtualInv, Virtual!TypeOK, VirtualSizes
  <1>2. /\ rows \in Nat /\ tall \in Nat /\ tall > 0 /\ top \in Nat /\ height \in Nat
        /\ Overscan \in Nat /\ Overscan > 0
    BY <1>1, VirtualTypes, VirtualConstants
  <1> DEFINE line == top \div RowHeight
             few == (tall + RowHeight - 1) \div RowHeight
             first == Virtual!Start
  <1>3. /\ first \in Nat /\ first * RowHeight <= top /\ first <= line
        /\ height = 0 => first = 0
        /\ height # 0 => first >= line - Overscan
    BY <1>1, StartOf
  <1>4. line \in Nat /\ line * RowHeight <= top /\ top < (line + 1) * RowHeight
    BY <1>2, RowOf
  <1>5. few \in Nat /\ tall <= few * RowHeight
    BY <1>2, RowsFill
  <1> HIDE DEF line, few
  <1>6. first <= rows
    <2>1. SUFFICES ASSUME first > rows PROVE FALSE
      BY <1>2, <1>3
    <2>2. Virtual!Content = first * RowHeight /\ first * RowHeight \in Int
      BY <1>1, <1>2, <1>3, <2>1, ContentOf, FewerRows
    <2>3. first * RowHeight > 0
      BY <1>2, <1>3, <2>1, VirtualConstants
    <2> HIDE DEF first
    <2> QED BY <1>1, <1>2, <1>3, <2>2, <2>3, BottomOf DEF BottomKnown
  <1>7. Virtual!Content = rows * RowHeight /\ rows * RowHeight \in Int
    BY <1>1, <1>2, <1>6, ContentOf, FewerRows
  <1>8. position <= Virtual!Most(0, rows * RowHeight - tall)
    BY <1>1, <1>7 DEF Virtual!Bottom
  <1>9. ASSUME NEW r \in 0..(rows - 1), Virtual!InView(r)
        PROVE  first <= r /\ r < Virtual!Stop
    <2>1. r \in Nat /\ r < rows
      BY <1>2
    <2>2. r * RowHeight < top + tall /\ top < (r + 1) * RowHeight
      BY <1>9 DEF Virtual!InView
    <2>3. line <= r
      <3>1. line * RowHeight < (r + 1) * RowHeight
        BY <1>2, <1>4, <2>1, <2>2, FewerRows
      <3> QED BY <1>4, <2>1, <3>1, FewerRows
    <2>4. r < line + 1 + few
      <3>1. (line + 1 + few) * RowHeight = (line + 1) * RowHeight + few * RowHeight
            /\ (line + 1) * RowHeight \in Int /\ few * RowHeight \in Int
            /\ r * RowHeight \in Int
        BY <1>4, <1>5, <2>1, RowsTogether, FewerRows
      <3>2. r * RowHeight < (line + 1 + few) * RowHeight
        BY <1>2, <1>4, <1>5, <2>2, <3>1
      <3> QED BY <1>4, <1>5, <2>1, <3>2, FewerRows
    <2> HIDE DEF first
    <2>5. first <= r
      BY <1>3, <1>4, <2>1, <2>3
    <2>6. CASE height = 0
      BY <2>1, <2>5, <2>6 DEF Virtual!Stop
    <2>7. CASE height # 0
      <3>1. Virtual!Stop = Virtual!Least(rows, first + few + 2 * Overscan)
        BY <2>7 DEF Virtual!Stop, first, few
      <3> QED BY <1>2, <1>3, <1>4, <1>5, <2>1, <2>4, <2>5, <2>7, <3>1 DEF Virtual!Least
    <2> QED BY <2>6, <2>7
  <1> QED BY <1>8, <1>9

LEMMA InitVirtual == Virtual!Init => VirtualInv
  <1> SUFFICES ASSUME Virtual!Init PROVE VirtualInv
    OBVIOUS
  <1>1. MaxRows * RowHeight \in Nat
    BY VirtualConstants
  <1>2. Virtual!TypeOK /\ VirtualSizes
    BY <1>1 DEF Virtual!Init, Virtual!TypeOK, VirtualSizes
  <1> QED BY <1>2, BottomOf DEF BottomKnown, Virtual!Init, VirtualInv

\* The position after the rendering, wherever it was.
LEMMA ClampsVirtual ==
  ASSUME VirtualInv, Virtual!Clamps, VirtualSizes',
         height' = 0 => height = 0
  PROVE  VirtualInv'
  <1>1. Virtual!Bottom' \in Nat /\ Virtual!Bottom' <= MaxRows * RowHeight
    BY BottomNext DEF BottomKnown
  <1>2. position \in Nat /\ MaxRows * RowHeight \in Nat /\ (height = 0 => position = 0)
    BY VirtualConstants DEF VirtualInv, Virtual!TypeOK
  <1>3. /\ position' \in Nat /\ position' <= Virtual!Bottom' /\ position' <= position
    BY <1>1, <1>2 DEF Virtual!Clamps, Virtual!Least
  <1>4. position' \in 0..(MaxRows * RowHeight)
    BY <1>1, <1>2, <1>3
  <1>5. height' = 0 => position' = 0
    BY <1>2, <1>3
  <1> QED BY <1>3, <1>4, <1>5 DEF VirtualInv, Virtual!TypeOK, VirtualSizes

LEMMA NextVirtual == VirtualInv /\ [Virtual!Next]_virtual => VirtualInv'
  <1> SUFFICES ASSUME VirtualInv, [Virtual!Next]_virtual PROVE VirtualInv'
    OBVIOUS
  <1>1. VirtualSizes /\ position \in 0..(MaxRows * RowHeight) /\ (height = 0 => position = 0)
    BY DEF VirtualInv, Virtual!TypeOK, VirtualSizes
  <1>2. CASE UNCHANGED virtual
    BY <1>2 DEF virtual, VirtualInv, Virtual!TypeOK, Virtual!Bottom, Virtual!Content,
       Virtual!Start, Virtual!Stop
  <1>3. CASE Virtual!Scroll
    <2>1. /\ height > 0 /\ position' \in 0..Virtual!Bottom /\ UNCHANGED <<rows, tall, height, top>>
      BY <1>3 DEF Virtual!Scroll
    <2>2. Virtual!Bottom' = Virtual!Bottom
      BY <2>1 DEF Virtual!Bottom, Virtual!Content, Virtual!Start, Virtual!Stop
    <2>3. position' \in Nat /\ position' <= Virtual!Bottom'
          /\ position' \in 0..(MaxRows * RowHeight)
      <3>1. Virtual!Bottom \in Nat /\ Virtual!Bottom <= MaxRows * RowHeight
            /\ MaxRows * RowHeight \in Nat
        BY <1>1, BottomOf, VirtualTypes DEF BottomKnown
      <3> QED BY <2>1, <2>2, <3>1
    <2>4. height' # 0
      BY <2>1
    <2> QED BY <1>1, <2>1, <2>3, <2>4 DEF VirtualInv, Virtual!TypeOK, VirtualSizes
  <1>4. CASE Virtual!Mount \/ Virtual!Change \/ Virtual!Told \/ Virtual!Resize \/ Virtual!Measure
    <2>1. Virtual!Clamps
      BY <1>4 DEF Virtual!Mount, Virtual!Change, Virtual!Told, Virtual!Resize, Virtual!Measure
    <2>2. VirtualSizes' /\ (height' = 0 => height = 0)
      BY <1>1, <1>4, VirtualConstants
         DEF VirtualSizes, Virtual!Mount, Virtual!Change, Virtual!Told, Virtual!Resize,
             Virtual!Measure
    <2> QED BY <2>1, <2>2, ClampsVirtual
  <1> QED BY <1>2, <1>3, <1>4 DEF Virtual!Next

--------------------------------------------------------------------------------
(* The composer: what is written.                                                 *)

\* A draft is stored under the conversation it was written in.
StoredOwn == \A c \in Chats : stored[c] # TheComposer!Empty => stored[c].for = c

\* The mounted composer sends one thing at a time.
OneHere == \A s, t \in sending : s.here /\ t.here => s = t

Sendings == [of : Chats, draft : TheComposer!Draft, media : TheComposer!Media, here : BOOLEAN]

\* The type invariant, as far as it is about what is written.
TextTypes ==
  /\ way \in MCWays /\ chat \in Chats \cup {Nil} /\ draft \in TheComposer!Draft
  /\ saving \in BOOLEAN
  /\ stored \in [Chats -> TheComposer!Draft] /\ wrote \in [Chats -> TheComposer!Draft]
  /\ attached \in TheComposer!Media /\ reply \in Chats \cup {Nil}
  /\ sending \subseteq Sendings /\ hasty \subseteq Chats
  /\ chat = Nil => draft = TheComposer!Empty /\ ~saving /\ ~TheComposer!Busy
  /\ draft = TheComposer!Empty => ~saving

\* The timer of the slash is that of the text that is written.
SlashTimer ==
  /\ searching \in BOOLEAN
  /\ searching => chat # Nil /\ draft.slash # Nil /\ ~TheComposer!Busy

TextInv ==
  /\ TextTypes /\ SlashTimer /\ OneHere /\ StoredOwn
  /\ TheComposer!OwnText /\ TheComposer!DraftsKept

LEMMA ComposerConstants ==
  /\ Nil \notin Chats /\ None \in Queries /\ MaxChanges \in Nat
  /\ \A w \in MCWays : w.chats \subseteq Chats
  BY WebAssumption DEF WebAssumption, MCWays

LEMMA Drafts ==
  /\ TheComposer!Empty \in TheComposer!Draft /\ TheComposer!Empty.slash = Nil
  /\ \A d \in TheComposer!Draft : d.slash \in Queries \cup {Nil}
  /\ \A text \in Texts, slash \in Queries \cup {Nil}, c \in Chats :
       LET d == [text |-> text, slash |-> slash, for |-> c]
       IN  d \in TheComposer!Draft /\ d.slash = slash /\ d.for = c
  BY DEF TheComposer!Draft, TheComposer!Empty

LEMMA InitText == TheComposer!Init => TextInv
  <1> SUFFICES ASSUME TheComposer!Init PROVE TextInv
    OBVIOUS
  <1>1. /\ way \in MCWays /\ chat = Nil /\ draft = TheComposer!Empty /\ ~saving
        /\ stored = [c \in Chats |-> TheComposer!Empty]
        /\ wrote = [c \in Chats |-> TheComposer!Empty]
        /\ attached = "none" /\ sending = {} /\ reply = Nil /\ ~searching /\ hasty = {}
    BY DEF TheComposer!Init
  <1>2. saving \in BOOLEAN /\ searching \in BOOLEAN
    BY DEF TheComposer!Init
  <1>3. TextTypes
    BY <1>1, <1>2, Drafts DEF TextTypes, TheComposer!Busy, TheComposer!Media
  <1>4. SlashTimer /\ OneHere /\ StoredOwn
    BY <1>1, <1>2 DEF SlashTimer, OneHere, StoredOwn
  <1>5. TheComposer!OwnText /\ TheComposer!DraftsKept
    BY <1>1 DEF TheComposer!OwnText, TheComposer!DraftsKept
  <1> QED BY <1>3, <1>4, <1>5 DEF TextInv

\* A step that leaves alone what is written and stored.
LEMMA TextStep ==
  ASSUME TextInv,
         UNCHANGED <<way, chat, draft, saving, stored, wrote, hasty>>,
         attached' \in TheComposer!Media, reply' \in {chat, Nil},
         sending' \subseteq Sendings, SlashTimer', OneHere',
         chat = Nil => ~TheComposer!Busy',
         \A s \in sending' : s.draft # TheComposer!Empty => s.draft.for = s.of
  PROVE  TextInv'
  <1>1. TextTypes'
    BY DEF TextInv, TextTypes
  <1>2. StoredOwn' /\ TheComposer!OwnText' /\ TheComposer!DraftsKept'
    BY DEF TextInv, StoredOwn, TheComposer!OwnText, TheComposer!DraftsKept
  <1> QED BY <1>1, <1>2 DEF TextInv

\* What an earlier composer still sends is nothing of this one's.
LEMMA OpenText ==
  ASSUME TextInv, NEW c \in Chats \cup {Nil}, TheComposer!Open(c)
  PROVE  TextInv'
  <1>1. /\ c # chat /\ chat' = c /\ attached' = "none" /\ reply' = Nil /\ ~searching'
        /\ draft' = IF c = Nil THEN TheComposer!Empty ELSE stored[c]
        /\ saving' = (draft' # TheComposer!Empty) /\ searching' \in BOOLEAN
        /\ sending' = {[s EXCEPT !.here = FALSE] : s \in sending}
        /\ hasty' = IF chat # Nil /\ (TheComposer!Busy \/ draft # stored[chat])
                    THEN hasty \cup {chat} ELSE hasty
        /\ UNCHANGED <<way, stored, wrote>>
    BY DEF TheComposer!Open, TheComposer!TakesUp, TheComposer!Cleanup
  <1>2. \A t \in sending' : /\ t \in Sendings /\ ~t.here
                            /\ t.draft # TheComposer!Empty => t.draft.for = t.of
    <2>1. SUFFICES ASSUME NEW s \in sending, NEW t, t = [s EXCEPT !.here = FALSE]
                   PROVE  /\ t \in Sendings /\ ~t.here
                          /\ t.draft # TheComposer!Empty => t.draft.for = t.of
      BY <1>1
    <2>2. s \in Sendings /\ (s.draft # TheComposer!Empty => s.draft.for = s.of)
      BY DEF TextInv, TextTypes, TheComposer!OwnText
    <2>3. t \in Sendings /\ ~t.here /\ t.draft = s.draft /\ t.of = s.of
      BY <2>1, <2>2 DEF Sendings
    <2> QED BY <2>2, <2>3
  <1>3. draft' \in TheComposer!Draft /\ (c = Nil => draft' = TheComposer!Empty)
    BY <1>1, Drafts DEF TextInv, TextTypes
  <1>4. PICK some \in BOOLEAN : some <=> draft' # TheComposer!Empty
    OBVIOUS
  <1>5. saving' \in BOOLEAN /\ (saving' <=> draft' # TheComposer!Empty)
    <2>1. some = (draft' # TheComposer!Empty)
      BY <1>4
    <2> QED BY <1>1, <1>4, <2>1
  <1>6. ~TheComposer!Busy' /\ OneHere' /\ SlashTimer'
    BY <1>1, <1>2 DEF TheComposer!Busy, OneHere, SlashTimer
  <1>7. hasty' \subseteq Chats
    BY <1>1 DEF TextInv, TextTypes
  <1>8. TextTypes'
    BY <1>1, <1>2, <1>3, <1>5, <1>6, <1>7 DEF TextInv, TextTypes, TheComposer!Media
  <1>9. StoredOwn' /\ TheComposer!OwnText'
    BY <1>1, <1>2, <1>3 DEF TextInv, StoredOwn, TheComposer!OwnText
  <1>10. TheComposer!DraftsKept'
    <2>1. ASSUME NEW d \in Chats, d \notin hasty'
          PROVE  /\ wrote'[d] = IF d = chat' THEN draft' ELSE stored'[d]
                 /\ d = chat' /\ ~saving' => stored'[d] = draft'
      <3>1. d \notin hasty /\ (d = chat => draft = stored[d] \/ chat = Nil)
        BY <1>1, <2>1
      <3>2. wrote[d] = IF d = chat THEN draft ELSE stored[d]
        BY <3>1 DEF TextInv, TheComposer!DraftsKept
      <3>3. CASE d = chat'
        <4>1. d # chat /\ draft' = stored[d]
          BY <1>1, <3>3, ComposerConstants
        <4> QED BY <1>1, <3>2, <3>3, <4>1
      <3>4. CASE d # chat'
        <4>1. wrote[d] = stored[d]
          BY <3>1, <3>2, ComposerConstants
        <4> QED BY <1>1, <3>4, <4>1
      <3> QED BY <3>3, <3>4
    <2> QED BY <2>1 DEF TheComposer!DraftsKept
  <1> QED BY <1>6, <1>8, <1>9, <1>10 DEF TextInv

\* The draft effect stores an empty draft at once.
LEMMA KeepsText ==
  ASSUME TextInv, chat # Nil, NEW new \in TheComposer!Draft, TheComposer!Keeps(new)
  PROVE  /\ chat \in Chats /\ draft' = new
         /\ saving' \in BOOLEAN /\ (saving' <=> new # TheComposer!Empty)
         /\ stored' \in [Chats -> TheComposer!Draft]
         /\ \A c \in Chats \ {chat} : stored'[c] = stored[c]
         /\ new = TheComposer!Empty => stored'[chat] = new
         /\ new # TheComposer!Empty => stored' = stored
  <1>1. /\ draft' = new /\ saving' = (new # TheComposer!Empty)
        /\ stored' = IF new = TheComposer!Empty /\ chat # Nil
                     THEN [stored EXCEPT ![chat] = TheComposer!Empty] ELSE stored
    BY DEF TheComposer!Keeps
  <1>2. chat \in Chats /\ stored \in [Chats -> TheComposer!Draft]
    BY DEF TextInv, TextTypes
  <1>3. PICK some \in BOOLEAN : some <=> new # TheComposer!Empty
    OBVIOUS
  <1>4. saving' \in BOOLEAN /\ (saving' <=> new # TheComposer!Empty)
    <2>1. some = (new # TheComposer!Empty)
      BY <1>3
    <2> QED BY <1>1, <1>3, <2>1
  <1>5. CASE new = TheComposer!Empty
    BY <1>1, <1>2, <1>4, <1>5, Drafts
  <1>6. CASE new # TheComposer!Empty
    BY <1>1, <1>2, <1>4, <1>6
  <1> QED BY <1>5, <1>6

\* The text that is written belongs to the conversation that is open.
LEMMA WrittenText ==
  ASSUME TextInv, chat # Nil, NEW new \in TheComposer!Draft, TheComposer!Keeps(new),
         new # TheComposer!Empty => new.for = chat,
         wrote' = [wrote EXCEPT ![chat] = new], hasty' \subseteq hasty,
         hasty \ {chat} \subseteq hasty',
         UNCHANGED <<way, chat>>, reply' \in {reply, Nil}, attached' \in TheComposer!Media,
         sending' \subseteq sending, SlashTimer'
  PROVE  TextInv'
  <1>1. /\ chat \in Chats /\ wrote \in [Chats -> TheComposer!Draft]
        /\ hasty' \subseteq Chats
    BY DEF TextInv, TextTypes
  <1>2. /\ wrote' \in [Chats -> TheComposer!Draft] /\ wrote'[chat] = new
        /\ \A c \in Chats \ {chat} : wrote'[c] = wrote[c]
    BY <1>1
  <1>3. TextTypes'
    BY <1>1, <1>2, KeepsText DEF TextInv, TextTypes
  <1>4. OneHere' /\ StoredOwn' /\ TheComposer!OwnText'
    BY KeepsText DEF TextInv, OneHere, StoredOwn, TheComposer!OwnText
  <1>5. TheComposer!DraftsKept'
    <2>1. ASSUME NEW d \in Chats, d \notin hasty'
          PROVE  /\ wrote'[d] = IF d = chat' THEN draft' ELSE stored'[d]
                 /\ d = chat' /\ ~saving' => stored'[d] = draft'
      <3>1. CASE d = chat
        BY <1>2, <3>1, KeepsText
      <3>2. CASE d # chat
        <4>1. wrote[d] = stored[d]
          BY <2>1, <3>2 DEF TextInv, TheComposer!DraftsKept
        <4> QED BY <1>2, <3>2, <4>1, KeepsText
      <3> QED BY <3>1, <3>2
    <2> QED BY <2>1 DEF TheComposer!DraftsKept
  <1> QED BY <1>3, <1>4, <1>5 DEF TextInv

LEMMA WriteText ==
  ASSUME TextInv, NEW slash \in Queries \cup {Nil}, TheComposer!Write(slash)
  PROVE  TextInv'
  <1>1. /\ chat # Nil /\ ~TheComposer!Busy /\ searching' = (slash # Nil)
        /\ wrote' = [wrote EXCEPT ![chat] = draft'] /\ hasty' = hasty \ {chat}
        /\ UNCHANGED <<way, chat, attached, sending, reply>>
    BY DEF TheComposer!Write, TheComposer!Looks
  <1>2. PICK new \in TheComposer!Draft : /\ TheComposer!Keeps(new) /\ new.slash = slash
                                         /\ new # TheComposer!Empty => new.for = chat
    <2>1. ASSUME NEW text \in Texts,
                 TheComposer!Keeps([text |-> text, slash |-> slash, for |-> chat])
          PROVE  \E new \in TheComposer!Draft :
                   /\ TheComposer!Keeps(new) /\ new.slash = slash
                   /\ new # TheComposer!Empty => new.for = chat
      <3>1. chat \in Chats
        BY <1>1 DEF TextInv, TextTypes
      <3>2. /\ [text |-> text, slash |-> slash, for |-> chat] \in TheComposer!Draft
            /\ [text |-> text, slash |-> slash, for |-> chat].slash = slash
            /\ [text |-> text, slash |-> slash, for |-> chat].for = chat
        BY <3>1, Drafts
      <3> QED BY <2>1, <3>2
    <2> QED BY <2>1, Drafts DEF TheComposer!Write
  <1>3. draft' = new
    BY <1>1, <1>2, KeepsText
  <1>4. PICK some \in BOOLEAN : some <=> slash # Nil
    OBVIOUS
  <1>5. some = (slash # Nil)
    BY <1>4
  <1>6. searching' \in BOOLEAN /\ (searching' <=> slash # Nil)
    BY <1>1, <1>4, <1>5
  <1>7. SlashTimer'
    BY <1>1, <1>2, <1>3, <1>6 DEF SlashTimer, TheComposer!Busy
  <1>8. attached \in TheComposer!Media
    BY DEF TextInv, TextTypes
  <1> QED BY <1>1, <1>2, <1>3, <1>7, <1>8, WrittenText

LEMMA SaveText ==
  ASSUME TextInv, TheComposer!Save
  PROVE  TextInv'
  <1>1. /\ saving /\ stored' = [stored EXCEPT ![chat] = draft] /\ ~saving' /\ saving' \in BOOLEAN
        /\ UNCHANGED <<way, chat, draft, attached, sending, reply, searching, wrote, hasty>>
    BY DEF TheComposer!Save
  <1>2. chat \in Chats /\ chat # Nil /\ stored \in [Chats -> TheComposer!Draft]
        /\ draft \in TheComposer!Draft
    BY <1>1 DEF TextInv, TextTypes
  <1>3. /\ stored' \in [Chats -> TheComposer!Draft] /\ stored'[chat] = draft
        /\ \A c \in Chats \ {chat} : stored'[c] = stored[c]
    BY <1>1, <1>2
  <1>4. TextTypes' /\ SlashTimer' /\ OneHere'
    BY <1>1, <1>2, <1>3 DEF TextInv, TextTypes, SlashTimer, OneHere, TheComposer!Busy
  <1>5. StoredOwn' /\ TheComposer!OwnText' /\ TheComposer!DraftsKept'
    BY <1>1, <1>3 DEF TextInv, StoredOwn, TheComposer!OwnText, TheComposer!DraftsKept
  <1> QED BY <1>4, <1>5 DEF TextInv

LEMMA AttachText ==
  ASSUME TextInv,
         (\E media \in TheComposer!Media : TheComposer!Attach(media)) \/ TheComposer!Reply
  PROVE  TextInv'
  <1>1. /\ UNCHANGED <<way, chat, draft, saving, stored, sending, searching, wrote, hasty>>
        /\ attached' \in TheComposer!Media /\ reply' \in {chat, Nil}
    BY DEF TheComposer!Attach, TheComposer!Reply, TextInv, TextTypes, TheComposer!OwnText
  <1>2. /\ SlashTimer' /\ OneHere' /\ sending' \subseteq Sendings
        /\ chat = Nil => ~TheComposer!Busy'
        /\ \A s \in sending' : s.draft # TheComposer!Empty => s.draft.for = s.of
    BY <1>1 DEF TextInv, TextTypes, SlashTimer, OneHere, TheComposer!Busy, TheComposer!OwnText
  <1> QED BY <1>1, <1>2, TextStep

--------------------------------------------------------------------------------
(* The composer: what is sent.                                                    *)

LEMMA SubmitText ==
  ASSUME TextInv, TheComposer!Submit
  PROVE  TextInv'
  <1>1. /\ chat # Nil /\ ~TheComposer!Busy /\ ~searching' /\ searching' \in BOOLEAN
        /\ UNCHANGED <<way, chat, draft, saving, stored, attached, reply, wrote, hasty>>
    BY DEF TheComposer!Submit
  <1>2. PICK new : /\ new = [of |-> chat, draft |-> draft, media |-> attached, here |-> TRUE]
                   /\ sending' = sending \cup {new}
    BY DEF TheComposer!Submit
  <1>3. new \in Sendings /\ new.draft = draft /\ new.of = chat
    BY <1>1, <1>2 DEF TextInv, TextTypes, Sendings
  <1>4. sending' \subseteq Sendings /\ OneHere' /\ SlashTimer'
    BY <1>1, <1>2, <1>3 DEF TextInv, TextTypes, OneHere, SlashTimer, TheComposer!Busy
  <1>5. \A s \in sending' : s.draft # TheComposer!Empty => s.draft.for = s.of
    BY <1>2, <1>3 DEF TextInv, TheComposer!OwnText
  <1>6. attached \in TheComposer!Media /\ reply \in {chat, Nil}
    BY DEF TextInv, TextTypes, TheComposer!OwnText
  <1> QED BY <1>1, <1>4, <1>5, <1>6, TextStep

LEMMA SentText ==
  ASSUME TextInv, NEW s \in sending, TheComposer!Sent(s)
  PROVE  TextInv'
  <1>1. /\ sending' = sending \ {s} /\ reply' = Nil /\ UNCHANGED <<way, chat, searching, hasty>>
    BY DEF TheComposer!Sent
  <1>2. SlashTimer' \/ (s.here /\ ~searching')
    BY <1>1 DEF TextInv, SlashTimer, TheComposer!Busy, TheComposer!Sent
  <1>3. CASE s.here
    <2>1. /\ TheComposer!Keeps(TheComposer!Empty)
          /\ wrote' = [wrote EXCEPT ![chat] = TheComposer!Empty]
          /\ attached' = IF s.media = "none" THEN attached ELSE "none"
      BY <1>3 DEF TheComposer!Sent
    <2>2. chat # Nil /\ ~searching /\ searching \in BOOLEAN
      BY <1>3 DEF TextInv, TextTypes, SlashTimer, TheComposer!Busy
    <2>3. SlashTimer' /\ attached' \in TheComposer!Media
      BY <1>1, <2>1, <2>2 DEF SlashTimer, TextInv, TextTypes, TheComposer!Media
    <2> QED BY <1>1, <2>1, <2>2, <2>3, Drafts, WrittenText
  <1>4. CASE ~s.here
    <2>1. UNCHANGED <<draft, saving, stored, wrote, attached>>
      BY <1>4 DEF TheComposer!Sent
    <2>2. TheComposer!Busy' => TheComposer!Busy
      BY <1>1 DEF TheComposer!Busy
    <2>3. SlashTimer'
      BY <1>1, <2>1, <2>2 DEF TextInv, SlashTimer
    <2>4. /\ sending' \subseteq Sendings /\ OneHere' /\ attached \in TheComposer!Media
          /\ chat = Nil => ~TheComposer!Busy'
          /\ \A t \in sending' : t.draft # TheComposer!Empty => t.draft.for = t.of
      BY <1>1, <2>2 DEF TextInv, TextTypes, OneHere, TheComposer!OwnText
    <2> QED BY <1>1, <2>1, <2>3, <2>4, TextStep
  <1> QED BY <1>3, <1>4

LEMMA NotSentText ==
  ASSUME TextInv, NEW s \in sending, TheComposer!NotSent(s)
  PROVE  TextInv'
  <1>1. /\ sending' = sending \ {s}
        /\ UNCHANGED <<way, chat, draft, saving, stored, attached, reply, wrote, hasty>>
        /\ searching' \in IF s.here THEN {FALSE, draft.slash # Nil} ELSE {searching}
    BY DEF TheComposer!NotSent
  <1>2. TheComposer!Busy' => TheComposer!Busy
    BY <1>1 DEF TheComposer!Busy
  <1>3. SlashTimer'
    <2>1. CASE s.here
      <3>1. ~TheComposer!Busy' /\ chat # Nil
        BY <1>1, <2>1 DEF TheComposer!Busy, TextInv, TextTypes, OneHere
      <3>2. PICK some \in BOOLEAN : some <=> draft.slash # Nil
        OBVIOUS
      <3>3. some = (draft.slash # Nil)
        BY <3>2
      <3>4. searching' \in BOOLEAN /\ (searching' => draft.slash # Nil)
        BY <1>1, <2>1, <3>2, <3>3
      <3> QED BY <1>1, <3>1, <3>4 DEF SlashTimer
    <2>2. CASE ~s.here
      BY <1>1, <1>2, <2>2 DEF TextInv, SlashTimer
    <2> QED BY <2>1, <2>2
  <1>4. /\ sending' \subseteq Sendings /\ OneHere' /\ attached \in TheComposer!Media
        /\ chat = Nil => ~TheComposer!Busy'
        /\ reply \in {chat, Nil}
        /\ \A t \in sending' : t.draft # TheComposer!Empty => t.draft.for = t.of
    BY <1>1, <1>2 DEF TextInv, TextTypes, OneHere, TheComposer!OwnText
  <1> QED BY <1>1, <1>3, <1>4, TextStep

--------------------------------------------------------------------------------
(* The composer: the quick replies that are offered.                              *)

LookedFor == [query : Queries, latest : BOOLEAN, answered : BOOLEAN, saw : 0..MaxChanges]

\* The type invariant, as far as it is about what is offered.
OfferTypes ==
  /\ due \in BOOLEAN /\ lostOffer \in BOOLEAN
  /\ asked \in Queries /\ results \in TheComposer!Result
  /\ lookups \subseteq LookedFor
  /\ list \in Nat /\ list <= MaxChanges /\ told \in Nat /\ told <= list

\* The last search asks for the last query, and has an answer that is as the quick replies are,
\* unless an event is to come.
LastSearch ==
  /\ \A k, l \in lookups : k.latest /\ l.latest => k = l
  /\ \A l \in lookups : l.latest =>
       l.query = asked /\ (l.answered /\ told = 0 /\ ~lostOffer => l.saw = list)

OfferInv == OfferTypes /\ LastSearch /\ TheComposer!OffersFresh

ComposerInv == TextInv /\ OfferInv

LEMMA SameCardinality ==
  ASSUME NEW S
  PROVE  TheComposer!Cardinality(S) = Cardinality(S)
  BY DEF TheComposer!Cardinality, Cardinality

LEMMA AtMostOne ==
  ASSUME NEW S, \A x, y \in S : x = y
  PROVE  Cardinality(S) <= 1
  <1>1. CASE S = {}
    BY <1>1, FS_EmptySet
  <1>2. CASE S # {}
    <2>1. PICK x : S = {x}
      BY <1>2
    <2> QED BY <2>1, FS_Singleton
  <1> QED BY <1>1, <1>2

LEMMA ComposerInvImplies == ComposerInv => TheComposer!TypeOK /\ TheComposer!ComposerKept
  <1> SUFFICES ASSUME ComposerInv PROVE TheComposer!TypeOK /\ TheComposer!ComposerKept
    OBVIOUS
  <1>1. /\ TextTypes /\ SlashTimer /\ OneHere /\ OfferTypes /\ LastSearch
    BY DEF ComposerInv, TextInv, OfferInv
  <1>2. TheComposer!Cardinality({s \in sending : s.here}) <= 1
    <2>1. \A x, y \in {s \in sending : s.here} : x = y
      BY <1>1 DEF OneHere
    <2> QED BY <2>1, AtMostOne, SameCardinality
  <1>3. TheComposer!Cardinality({l \in lookups : l.latest}) <= 1
    <2>1. \A x, y \in {l \in lookups : l.latest} : x = y
      BY <1>1 DEF LastSearch
    <2> QED BY <2>1, AtMostOne, SameCardinality
  <1>4. list \in 0..MaxChanges /\ told \in 0..MaxChanges
    BY <1>1, ComposerConstants DEF OfferTypes
  <1>5. {saving, searching, due, lostOffer} \subseteq BOOLEAN
    BY <1>1 DEF TextTypes, SlashTimer, OfferTypes
  <1>6. TheComposer!TypeOK
    BY <1>1, <1>2, <1>3, <1>4, <1>5
       DEF TextTypes, SlashTimer, OfferTypes, Sendings, LookedFor, TheComposer!TypeOK
  <1> QED BY <1>6 DEF ComposerInv, TextInv, OfferInv, TheComposer!ComposerKept

LEMMA LookupNew ==
  ASSUME NEW query \in Queries
  PROVE  LET l == TheComposer!Lookup(query) IN
         l \in LookedFor /\ l.query = query /\ l.latest /\ ~l.answered
  BY ComposerConstants DEF TheComposer!Lookup, LookedFor

LEMMA InitOffers == TheComposer!Init => OfferInv
  <1> SUFFICES ASSUME TheComposer!Init PROVE OfferInv
    OBVIOUS
  <1>1. /\ asked = None /\ lookups = {TheComposer!Lookup(None)}
        /\ results = [query |-> None, saw |-> 0] /\ list = 0 /\ told = 0
        /\ due \in BOOLEAN /\ lostOffer \in BOOLEAN /\ lostOffer
    BY DEF TheComposer!Init
  <1> DEFINE first == TheComposer!Lookup(None)
  <1>2. first \in LookedFor /\ first.query = None /\ first.latest /\ ~first.answered
    BY LookupNew, ComposerConstants
  <1> HIDE DEF first
  <1>3. OfferTypes
    BY <1>1, <1>2, ComposerConstants DEF OfferTypes, TheComposer!Result, first
  <1>4. LastSearch
    BY <1>1, <1>2 DEF LastSearch, first
  <1> QED BY <1>1, <1>3, <1>4 DEF OfferInv, TheComposer!OffersFresh

\* A search that is asked for is the last.
LEMMA AskOffers ==
  ASSUME OfferInv, NEW query \in Queries, TheComposer!Ask(query),
         UNCHANGED <<results, list, lostOffer>>, due' \in BOOLEAN, told' \in Nat, told' <= told
  PROVE  OfferInv'
  <1> DEFINE new == TheComposer!Lookup(query)
             olds == {[l EXCEPT !.latest = FALSE] : l \in lookups}
  <1>1. asked' = query /\ lookups' = olds \cup {new}
    BY DEF TheComposer!Ask
  <1>2. new \in LookedFor /\ new.query = query /\ new.latest /\ ~new.answered
    BY LookupNew
  <1>3. \A l \in olds : l \in LookedFor /\ ~l.latest
    <2>1. SUFFICES ASSUME NEW k \in lookups, NEW l, l = [k EXCEPT !.latest = FALSE]
                   PROVE  l \in LookedFor /\ ~l.latest
      OBVIOUS
    <2>2. k \in LookedFor
      BY DEF OfferInv, OfferTypes
    <2> QED BY <2>1, <2>2 DEF LookedFor
  <1> HIDE DEF new, olds
  <1>4. OfferTypes'
    BY <1>1, <1>2, <1>3 DEF OfferInv, OfferTypes
  <1>5. LastSearch'
    BY <1>1, <1>2, <1>3 DEF LastSearch
  <1>6. TheComposer!Loading'
    BY <1>1, <1>2 DEF TheComposer!Loading
  <1> QED BY <1>4, <1>5, <1>6 DEF OfferInv, TheComposer!OffersFresh

LEMMA ServeOffers ==
  ASSUME OfferInv, NEW l \in lookups, TheComposer!Serve(l)
  PROVE  OfferInv'
  <1>1. PICK new : /\ new = [l EXCEPT !.answered = TRUE, !.saw = list]
                   /\ lookups' = (lookups \ {l}) \cup {new}
    BY DEF TheComposer!Serve
  <1>2. UNCHANGED <<asked, results, list, told, due, lostOffer>>
    BY DEF TheComposer!Serve
  <1>3. l \in LookedFor /\ list \in 0..MaxChanges
    BY ComposerConstants DEF OfferInv, OfferTypes
  <1>4. new \in LookedFor /\ new.query = l.query /\ new.latest = l.latest /\ new.saw = list
    BY <1>1, <1>3 DEF LookedFor
  <1>5. OfferTypes'
    BY <1>1, <1>2, <1>4 DEF OfferInv, OfferTypes
  <1>6. LastSearch'
    BY <1>1, <1>2, <1>4 DEF OfferInv, LastSearch
  <1>7. TheComposer!Loading' <=> TheComposer!Loading
    BY <1>1, <1>4 DEF TheComposer!Loading
  <1> QED BY <1>2, <1>5, <1>6, <1>7 DEF OfferInv, TheComposer!OffersFresh

LEMMA LandOffers ==
  ASSUME OfferInv, NEW l \in lookups, TheComposer!Land(l)
  PROVE  OfferInv'
  <1>1. /\ l.answered /\ lookups' = lookups \ {l} /\ UNCHANGED <<asked, list, told, due>>
    BY DEF TheComposer!Land
  <1>2. l \in LookedFor
    BY DEF OfferInv, OfferTypes
  <1>3. CASE l.latest
    <2>1. results' = [query |-> l.query, saw |-> l.saw]
          /\ lostOffer' = (lostOffer /\ l.saw # list)
      BY <1>3 DEF TheComposer!Land
    <2>2. PICK old \in BOOLEAN : old <=> l.saw # list
      OBVIOUS
    <2>3. old = (l.saw # list)
      BY <2>2
    <2>4. lostOffer' \in BOOLEAN /\ (lostOffer' <=> lostOffer /\ l.saw # list)
      BY <2>1, <2>2, <2>3 DEF OfferInv, OfferTypes
    <2>5. OfferTypes'
      BY <1>1, <1>2, <2>1, <2>4 DEF OfferInv, OfferTypes, LookedFor, TheComposer!Result
    <2>6. LastSearch' /\ ~TheComposer!Loading'
      BY <1>1, <1>3 DEF OfferInv, LastSearch, TheComposer!Loading
    <2>7. told = 0 /\ ~lostOffer' => results' = [query |-> asked, saw |-> list]
      BY <1>1, <1>3, <2>1, <2>4 DEF OfferInv, LastSearch
    <2> QED BY <1>1, <2>5, <2>6, <2>7 DEF OfferInv, TheComposer!OffersFresh
  <1>4. CASE ~l.latest
    <2>1. UNCHANGED <<results, lostOffer>>
      BY <1>4 DEF TheComposer!Land
    <2>2. OfferTypes' /\ LastSearch'
      BY <1>1, <2>1 DEF OfferInv, OfferTypes, LastSearch
    <2>3. TheComposer!Loading' <=> TheComposer!Loading
      BY <1>1, <1>4 DEF TheComposer!Loading
    <2> QED BY <1>1, <2>1, <2>2, <2>3 DEF OfferInv, TheComposer!OffersFresh
  <1> QED BY <1>3, <1>4

LEMMA FailsOffers ==
  ASSUME OfferInv, NEW l \in lookups, TheComposer!Fails(l)
  PROVE  OfferInv'
  <1>1. /\ lookups' = lookups \ {l} /\ lostOffer' = (lostOffer \/ l.latest)
        /\ UNCHANGED <<asked, results, list, told, due>>
    BY DEF TheComposer!Fails
  <1>2. l.latest \in BOOLEAN
    BY DEF OfferInv, OfferTypes, LookedFor
  <1>3. lostOffer' \in BOOLEAN /\ (lostOffer' <=> lostOffer \/ l.latest)
    BY <1>1, <1>2 DEF OfferInv, OfferTypes
  <1>4. OfferTypes' /\ LastSearch'
    BY <1>1, <1>3 DEF OfferInv, OfferTypes, LastSearch
  <1>5. ~lostOffer' => (TheComposer!Loading' <=> TheComposer!Loading)
    BY <1>1, <1>3 DEF TheComposer!Loading
  <1> QED BY <1>1, <1>3, <1>4, <1>5 DEF OfferInv, TheComposer!OffersFresh

\* A change leaves an event to come, unless that is lost.
LEMMA ChangeOffers ==
  ASSUME OfferInv, TheComposer!Change
  PROVE  OfferInv'
  <1>1. /\ list < MaxChanges /\ list' = list + 1 /\ due' \in BOOLEAN
        /\ \/ told' = told + 1 /\ lostOffer' = lostOffer
           \/ told' = told /\ lostOffer'
        /\ lostOffer' \in BOOLEAN
        /\ UNCHANGED <<asked, lookups, results>>
    BY DEF TheComposer!Change, OfferInv, OfferTypes
  <1>2. OfferTypes' /\ (told' > 0 \/ lostOffer') /\ told' \in Nat
    BY <1>1, ComposerConstants DEF OfferInv, OfferTypes
  <1>3. LastSearch'
    BY <1>1, <1>2 DEF OfferInv, LastSearch
  <1> QED BY <1>2, <1>3 DEF OfferInv, TheComposer!OffersFresh

--------------------------------------------------------------------------------
(* The composer as a whole.                                                       *)

LEMMA InitComposer == TheComposer!Init => ComposerInv
  BY InitText, InitOffers DEF ComposerInv

\* The step is one of the text.
LEMMA OffersStand ==
  ASSUME OfferInv, UNCHANGED <<asked, lookups, results, list, told, due, lostOffer>>
  PROVE  OfferInv'
  BY DEF OfferInv, OfferTypes, LastSearch, TheComposer!OffersFresh, TheComposer!Loading

\* The step is one of the offers, and at most of the timer of the slash.
LEMMA TextStands ==
  ASSUME TextInv, UNCHANGED <<way, chat, draft, saving, stored, attached, sending, reply, wrote, hasty>>,
         SlashTimer'
  PROVE  TextInv'
  BY TextStep DEF TextInv, TextTypes, TheComposer!OwnText, OneHere, TheComposer!Busy

LEMMA NextComposer == ComposerInv /\ [TheComposer!Next]_composer => ComposerInv'
  <1> SUFFICES ASSUME TextInv, OfferInv, [TheComposer!Next]_composer PROVE TextInv' /\ OfferInv'
    BY DEF ComposerInv
  <1>1. CASE UNCHANGED composer
    <2>1. SlashTimer'
      BY <1>1 DEF composer, TextInv, SlashTimer, TheComposer!Busy
    <2> QED BY <1>1, <2>1, TextStands, OffersStand DEF composer
  <1>2. ASSUME \/ \E c \in Chats \cup {Nil} : TheComposer!Open(c)
               \/ \E slash \in Queries \cup {Nil} : TheComposer!Write(slash)
               \/ \E media \in TheComposer!Media : TheComposer!Attach(media)
               \/ TheComposer!Save \/ TheComposer!Reply \/ TheComposer!Submit
               \/ \E s \in sending : TheComposer!Sent(s) \/ TheComposer!NotSent(s)
        PROVE  TextInv' /\ OfferInv'
    <2>1. TextInv'
      BY <1>2, OpenText, WriteText, AttachText, SaveText, SubmitText, SentText, NotSentText
    <2>2. UNCHANGED <<asked, lookups, results, list, told, due, lostOffer>>
      BY <1>2 DEF TheComposer!Open, TheComposer!Write, TheComposer!Attach, TheComposer!Save,
         TheComposer!Reply, TheComposer!Submit, TheComposer!Sent, TheComposer!NotSent,
         TheComposer!offers
    <2> QED BY <2>1, <2>2, OffersStand
  <1>3. CASE TheComposer!Focus
    <2>1. /\ UNCHANGED <<way, chat, draft, saving, stored, attached, sending, reply, wrote, hasty>>
          /\ UNCHANGED <<asked, lookups, results, list, told, due, lostOffer>>
          /\ searching' = ~searching /\ chat # Nil /\ ~TheComposer!Busy /\ draft.slash # Nil
      BY <1>3 DEF TheComposer!Focus, TheComposer!texting, TheComposer!offers
    <2>2. SlashTimer'
      BY <2>1 DEF TextInv, SlashTimer, TheComposer!Busy
    <2> QED BY <2>1, <2>2, TextStands, OffersStand
  <1>4. CASE TheComposer!Search
    <2>1. /\ UNCHANGED <<way, chat, draft, saving, stored, attached, sending, reply, wrote, hasty>>
          /\ UNCHANGED <<results, list, told, due, lostOffer>>
          /\ searching /\ ~searching' /\ searching' \in BOOLEAN /\ TheComposer!Ask(draft.slash)
      BY <1>4 DEF TheComposer!Search, TheComposer!texting
    <2>2. draft.slash \in Queries
      BY <2>1, Drafts DEF TextInv, TextTypes, SlashTimer
    <2>3. SlashTimer'
      BY <2>1 DEF SlashTimer
    <2>4. told \in Nat /\ due \in BOOLEAN
      BY DEF OfferInv, OfferTypes
    <2> QED BY <2>1, <2>2, <2>3, <2>4, TextStands, AskOffers
  <1>5. ASSUME \/ TheComposer!Change \/ TheComposer!Event \/ TheComposer!Reload
               \/ \E l \in lookups :
                    TheComposer!Serve(l) \/ TheComposer!Land(l) \/ TheComposer!Fails(l)
        PROVE  TextInv' /\ OfferInv'
    <2>1. UNCHANGED <<way, chat, draft, saving, stored, attached, sending, reply, wrote, hasty,
                     searching>>
      BY <1>5 DEF TheComposer!Change, TheComposer!Event, TheComposer!Reload, TheComposer!Serve,
         TheComposer!Land, TheComposer!Fails, TheComposer!texting
    <2>2. TextInv'
      BY <2>1, TextStands DEF TextInv, SlashTimer, TheComposer!Busy
    <2>3. CASE TheComposer!Event \/ TheComposer!Reload
      <3>1. /\ UNCHANGED <<results, list, lostOffer>> /\ due' \in BOOLEAN
            /\ told' \in Nat /\ told' <= told
            /\ TheComposer!Ask(asked) \/ TheComposer!Ask(None)
        <4>1. told \in Nat /\ due \in BOOLEAN
          BY DEF OfferInv, OfferTypes
        <4>2. CASE TheComposer!Event
          BY <4>1, <4>2 DEF TheComposer!Event
        <4>3. CASE TheComposer!Reload
          <5>1. ~due' /\ due' \in BOOLEAN
            BY <4>3 DEF TheComposer!Reload
          <5>2. told' = told /\ told' <= told
            BY <4>1, <4>3 DEF TheComposer!Reload
          <5>3. UNCHANGED <<results, list, lostOffer>> /\ TheComposer!Ask(None)
            BY <4>3 DEF TheComposer!Reload
          <5> QED BY <4>1, <5>1, <5>2, <5>3
        <4> QED BY <2>3, <4>2, <4>3
      <3>2. asked \in Queries /\ None \in Queries
        BY ComposerConstants DEF OfferInv, OfferTypes
      <3> QED BY <2>2, <3>1, <3>2, AskOffers
    <2> QED BY <1>5, <2>2, <2>3, ChangeOffers, ServeOffers, LandOffers, FailsOffers
  <1> QED BY <1>1, <1>2, <1>3, <1>4, <1>5 DEF TheComposer!Next

--------------------------------------------------------------------------------
(* The settings.                                                                  *)

\* What was published and is still in the form is so after an answer that was lost, or is being
\* answered.
Posted == posts > 0 /\ publishing # "done" => unsure

\* While one list is asked for at a time and no answer is lost: a session that an answer or the
\* settings show too long is one whose revocation is to be answered, or another list is to come;
\* a first list comes where there is none.
ListsKnown ==
  ~doubt =>
    /\ \A k, l \in lookedUp : k = l
    /\ \A l \in lookedUp :
         /\ l.answered => \A s \in l.saw \ signedIn : <<s, "answered">> \in revokes
         /\ l.for = "view" => shownIn = Nil
    /\ lookedUp = {} /\ shownIn # Nil =>
         \A s \in shownIn \ signedIn : <<s, "answered">> \in revokes

FewLists == IsFiniteSet(lookedUp) /\ Cardinality(lookedUp) <= MaxLists

\* The type invariant, by what it is about.
PageTypes ==
  /\ topic \in Topics /\ ownRole \in TheSettings!Roles /\ section \in TheSettings!Sections
  /\ dialog \in BOOLEAN
FormTypes ==
  /\ status \in BOOLEAN /\ loading \in BOOLEAN /\ unsure \in BOOLEAN
  /\ form \in [file : BOOLEAN, caption : BOOLEAN]
  /\ preview \in Urls \cup {Nil} /\ urls \subseteq usedUrls /\ usedUrls \subseteq Urls
  /\ publishing \in {"no", "asked", "done", "answered"} /\ posts \in 0..2
AccessTypes ==
  /\ expanded \in BOOLEAN /\ busy \in BOOLEAN /\ doubt \in BOOLEAN
  /\ signedIn \subseteq Sessions /\ (shownIn = Nil \/ shownIn \subseteq Sessions)
  /\ lookedUp \subseteq TheSettings!List
  /\ revokes \subseteq Sessions \X {"asked", "answered"}

PageInv == PageTypes /\ TheSettings!OwnSection
FormInv == FormTypes /\ Posted /\ TheSettings!PublishedOnce /\ TheSettings!PreviewAlive
AccessInv == AccessTypes /\ FewLists /\ ListsKnown

SettingsInv == PageInv /\ FormInv /\ AccessInv

LEMMA SettingsCardinality ==
  ASSUME NEW S
  PROVE  TheSettings!Cardinality(S) = Cardinality(S)
  BY DEF TheSettings!Cardinality, Cardinality

LEMMA SettingsInvImplies == SettingsInv => TheSettings!TypeOK /\ TheSettings!SettingsKept
  <1> SUFFICES ASSUME SettingsInv PROVE TheSettings!TypeOK /\ TheSettings!SettingsKept
    OBVIOUS
  <1>1. /\ PageTypes /\ FormTypes /\ AccessTypes /\ ListsKnown
        /\ TheSettings!OwnSection /\ TheSettings!PublishedOnce /\ TheSettings!PreviewAlive
    BY DEF SettingsInv, PageInv, FormInv, AccessInv
  <1>2. TheSettings!Cardinality(lookedUp) <= MaxLists
    BY SettingsCardinality DEF SettingsInv, AccessInv, FewLists
  <1>3. {dialog, status, loading, unsure, expanded, busy, doubt} \subseteq BOOLEAN
    BY <1>1 DEF PageTypes, FormTypes, AccessTypes
  <1>4. TheSettings!TypeOK
    BY <1>1, <1>2, <1>3 DEF PageTypes, FormTypes, AccessTypes, TheSettings!TypeOK
  <1>5. TheSettings!RevokedIsGone
    BY <1>1 DEF ListsKnown, TheSettings!RevokedIsGone
  <1> QED BY <1>1, <1>4, <1>5 DEF TheSettings!SettingsKept

LEMMA InitSettings == TheSettings!Init => SettingsInv
  <1> SUFFICES ASSUME TheSettings!Init PROVE SettingsInv
    OBVIOUS
  <1>1. PageInv
    BY DEF TheSettings!Init, PageInv, PageTypes, TheSettings!OwnSection, TheSettings!Open,
       TheSettings!Sections
  <1>2. FormInv
    <2>1. status \in BOOLEAN /\ loading \in BOOLEAN /\ unsure \in BOOLEAN
      BY DEF TheSettings!Init
    <2>2. form \in [file : BOOLEAN, caption : BOOLEAN]
      BY DEF TheSettings!Init, TheSettings!Blank
    <2>3. preview = Nil /\ urls = {} /\ usedUrls = {} /\ publishing = "no" /\ posts = 0
      BY DEF TheSettings!Init
    <2> QED BY <2>1, <2>2, <2>3
            DEF FormInv, FormTypes, Posted, TheSettings!PublishedOnce, TheSettings!PreviewAlive
  <1>3. FewLists
    BY FS_EmptySet, WebAssumption DEF TheSettings!Init, FewLists
  <1>4. AccessTypes /\ ListsKnown
    BY DEF TheSettings!Init, AccessTypes, ListsKnown
  <1> QED BY <1>1, <1>2, <1>3, <1>4 DEF SettingsInv, AccessInv

\* What stands still of the settings.
LEMMA PageStands ==
  ASSUME PageInv, UNCHANGED <<topic, ownRole, section, dialog>>
  PROVE  PageInv'
  BY DEF PageInv, PageTypes, TheSettings!OwnSection

LEMMA FormStands ==
  ASSUME FormInv, status' \in BOOLEAN, loading' \in BOOLEAN,
         UNCHANGED <<form, preview, urls, usedUrls, publishing, posts, unsure>>
  PROVE  FormInv'
  BY DEF FormInv, FormTypes, Posted, TheSettings!PublishedOnce, TheSettings!PreviewAlive

LEMMA AccessStands ==
  ASSUME AccessInv, UNCHANGED <<signedIn, shownIn, expanded, busy, lookedUp, revokes, doubt>>
  PROVE  AccessInv'
  BY DEF AccessInv, AccessTypes, FewLists, ListsKnown

\* The sections.
LEMMA SectionStep ==
  ASSUME PageInv, FormInv, NEW who \in TheSettings!Roles, NEW s \in TheSettings!Sections,
         TheSettings!Settles(who, s), TheSettings!Closes(who), TheSettings!Asks,
         UNCHANGED <<topic, form, preview, urls, usedUrls, publishing, posts, unsure>>
  PROVE  PageInv' /\ FormInv'
  <1>1. /\ ownRole' = who
        /\ section' = (IF TheSettings!Open(who, s) THEN s ELSE "sessions")
    BY DEF TheSettings!Settles
  <1>2. section' \in TheSettings!Sections /\ TheSettings!Open(who, section')
    BY <1>1 DEF TheSettings!Open, TheSettings!Sections
  <1>3. PICK b \in BOOLEAN : b <=> dialog /\ who \in {"admin", "supervisor"}
    OBVIOUS
  <1>4. dialog' = b
    BY <1>3 DEF TheSettings!Closes, PageInv, PageTypes
  <1>5. PageInv'
    BY <1>1, <1>2, <1>3, <1>4 DEF PageInv, PageTypes, TheSettings!OwnSection, TheSettings!Open
  <1>6. status' \in BOOLEAN /\ loading' \in BOOLEAN
    BY DEF TheSettings!Asks, FormInv, FormTypes
  <1> QED BY <1>5, <1>6, FormStands

\* Instagram: a file has a URL of its own, and what was there before is revoked.
LEMMA PreviewStep ==
  ASSUME FormTypes, TheSettings!PreviewAlive, NEW file \in BOOLEAN, TheSettings!Previews(file)
  PROVE  /\ preview' \in Urls \cup {Nil} /\ urls' \subseteq usedUrls' /\ usedUrls' \subseteq Urls
         /\ TheSettings!PreviewAlive'
  <1>1. CASE file
    <2>1. PICK url \in Urls \ usedUrls :
            preview' = url /\ urls' = (urls \ {preview}) \cup {url} /\ usedUrls' = usedUrls \cup {url}
      BY <1>1 DEF TheSettings!Previews
    <2>2. urls \ {preview} = {} /\ url # Nil
      BY WebAssumption DEF TheSettings!PreviewAlive
    <2> QED BY <2>1, <2>2 DEF FormTypes, TheSettings!PreviewAlive
  <1>2. CASE ~file
    <2>1. preview' = Nil /\ urls' = urls \ {preview} /\ usedUrls' = usedUrls
      BY <1>2 DEF TheSettings!Previews
    <2>2. urls \ {preview} = {}
      BY DEF TheSettings!PreviewAlive
    <2> QED BY <2>1, <2>2 DEF FormTypes, TheSettings!PreviewAlive
  <1> QED BY <1>1, <1>2

LEMMA FillForm ==
  ASSUME FormInv, TheSettings!Fill \/ TheSettings!Caption
  PROVE  FormInv'
  <1>1. /\ posts' = 0 /\ ~unsure' /\ unsure' \in BOOLEAN /\ publishing' = publishing
        /\ status' = status /\ loading' = loading
    BY DEF TheSettings!Fill, TheSettings!Caption
  <1>2. FormTypes /\ TheSettings!PreviewAlive
    BY DEF FormInv
  <1>3. form' \in [file : BOOLEAN, caption : BOOLEAN]
    <2>1. CASE TheSettings!Fill
      <3>1. PICK file \in BOOLEAN : form' = [file |-> file, caption |-> form.caption]
        BY <2>1 DEF TheSettings!Fill
      <3> QED BY <1>2, <3>1 DEF FormTypes
    <2>2. CASE TheSettings!Caption
      <3>1. form' = [form EXCEPT !.caption = ~form.caption]
        BY <2>2 DEF TheSettings!Caption
      <3>2. PICK b \in BOOLEAN : b = ~form.caption
        OBVIOUS
      <3> QED BY <1>2, <3>1, <3>2 DEF FormTypes
    <2> QED BY <2>1, <2>2
  <1>4. /\ preview' \in Urls \cup {Nil} /\ urls' \subseteq usedUrls' /\ usedUrls' \subseteq Urls
        /\ TheSettings!PreviewAlive'
    <2>1. CASE TheSettings!Fill
      <3>1. PICK file \in BOOLEAN : TheSettings!Previews(file)
        BY <2>1 DEF TheSettings!Fill
      <3> QED BY <1>2, <3>1, PreviewStep
    <2>2. CASE TheSettings!Caption
      BY <1>2, <2>2 DEF TheSettings!Caption, FormTypes, TheSettings!PreviewAlive
    <2> QED BY <2>1, <2>2
  <1> QED BY <1>1, <1>2, <1>3, <1>4 DEF FormInv, FormTypes, Posted, TheSettings!PublishedOnce

\* A request to publish, from the click to its end.
LEMMA PublishForm ==
  ASSUME FormInv,
         \/ TheSettings!Publish \/ TheSettings!Published \/ TheSettings!Answered
         \/ TheSettings!Ended \/ TheSettings!Failed
  PROVE  FormInv'
  <1>1. /\ FormTypes /\ Posted /\ TheSettings!PublishedOnce /\ TheSettings!PreviewAlive
    BY DEF FormInv
  <1>2. CASE TheSettings!Publish
    <2>1. /\ publishing = "no" /\ publishing' = "asked"
          /\ UNCHANGED <<status, loading, form, preview, urls, usedUrls, posts, unsure>>
      BY <1>2 DEF TheSettings!Publish
    <2> QED BY <1>1, <2>1
          DEF FormInv, FormTypes, Posted, TheSettings!PublishedOnce, TheSettings!PreviewAlive
  <1>3. CASE TheSettings!Published
    <2>1. /\ publishing = "asked" /\ publishing' = "done" /\ posts < 2 /\ posts' = posts + 1
          /\ UNCHANGED <<status, loading, form, preview, urls, usedUrls, unsure>>
      BY <1>3 DEF TheSettings!Published
    <2> QED BY <1>1, <2>1
          DEF FormInv, FormTypes, Posted, TheSettings!PublishedOnce, TheSettings!PreviewAlive
  <1>4. CASE TheSettings!Answered
    <2>1. /\ publishing' = "answered" /\ form' = TheSettings!Blank /\ TheSettings!Previews(FALSE)
          /\ posts' = 0 /\ ~unsure' /\ unsure' \in BOOLEAN /\ UNCHANGED <<status, loading>>
      BY <1>4 DEF TheSettings!Answered
    <2>2. /\ preview' \in Urls \cup {Nil} /\ urls' \subseteq usedUrls' /\ usedUrls' \subseteq Urls
          /\ TheSettings!PreviewAlive'
      BY <1>1, <2>1, PreviewStep
    <2> QED BY <1>1, <2>1, <2>2
          DEF FormInv, FormTypes, Posted, TheSettings!PublishedOnce, TheSettings!Blank
  <1>5. CASE TheSettings!Ended
    <2>1. /\ publishing = "answered" /\ publishing' = "no"
          /\ preview' = Nil /\ urls' = urls \ {preview} /\ status' \in {status, TRUE}
          /\ UNCHANGED <<loading, form, usedUrls, posts, unsure>>
      BY <1>5 DEF TheSettings!Ended
    <2>2. status' \in BOOLEAN
      BY <1>1, <2>1 DEF FormTypes
    <2>3. urls' = {} /\ TheSettings!PreviewAlive'
      BY <1>1, <2>1 DEF TheSettings!PreviewAlive
    <2> QED BY <1>1, <2>1, <2>2, <2>3 DEF FormInv, FormTypes, Posted, TheSettings!PublishedOnce
  <1>6. CASE TheSettings!Failed
    <2>1. /\ publishing \in {"asked", "done"} /\ publishing' = "no"
          /\ unsure' = (unsure \/ publishing = "done")
          /\ UNCHANGED <<status, loading, form, preview, urls, usedUrls, posts>>
      BY <1>6 DEF TheSettings!Failed
    <2>2. PICK b \in BOOLEAN : b <=> unsure \/ publishing = "done"
      OBVIOUS
    <2>3. unsure' = b
      BY <1>1, <2>1, <2>2 DEF FormTypes
    <2> QED BY <1>1, <2>1, <2>2, <2>3
          DEF FormInv, FormTypes, Posted, TheSettings!PublishedOnce, TheSettings!PreviewAlive
  <1> QED BY <1>2, <1>3, <1>4, <1>5, <1>6

\* The sessions of a user: a list that is asked for.
LEMMA RequestsLists ==
  ASSUME AccessInv, NEW for \in {"view", "revoke"}, TheSettings!Requests(for),
         for = "view" => shownIn = Nil,
         UNCHANGED <<signedIn, shownIn>>, expanded' \in BOOLEAN, busy' \in BOOLEAN,
         revokes' \subseteq revokes
  PROVE  AccessInv'
  <1> DEFINE new == [for |-> for, answered |-> FALSE, saw |-> {}]
  <1>1. /\ TheSettings!Cardinality(lookedUp) < MaxLists
        /\ lookedUp' = lookedUp \cup {new}
        /\ doubt' = (doubt \/ lookedUp # {})
    BY DEF TheSettings!Requests
  <1>2. AccessTypes /\ FewLists /\ ListsKnown
    BY DEF AccessInv
  <1>3. new \in TheSettings!List /\ new.for = for /\ ~new.answered
    BY DEF TheSettings!List
  <1> HIDE DEF new
  <1>4. FewLists'
    <2>1. Cardinality(lookedUp) < MaxLists /\ Cardinality(lookedUp) \in Nat
      BY <1>1, <1>2, SettingsCardinality, FS_CardinalityType DEF FewLists
    <2>2. /\ IsFiniteSet(lookedUp \cup {new})
          /\ Cardinality(lookedUp \cup {new}) \in {Cardinality(lookedUp), Cardinality(lookedUp) + 1}
      BY <1>2, FS_AddElement DEF FewLists
    <2> QED BY <1>1, <2>1, <2>2, WebAssumption DEF FewLists
  <1>5. PICK b \in BOOLEAN : b <=> doubt \/ lookedUp # {}
    OBVIOUS
  <1>6. doubt' = b
    BY <1>1, <1>2, <1>5 DEF AccessTypes
  <1>7. AccessTypes'
    BY <1>1, <1>2, <1>3, <1>6 DEF AccessTypes
  <1>8. ListsKnown'
    BY <1>1, <1>2, <1>3, <1>5, <1>6 DEF ListsKnown
  <1> QED BY <1>4, <1>7, <1>8 DEF AccessInv

\* One that is not asked for any longer.
LEMMA FewerLists ==
  ASSUME FewLists, NEW l \in lookedUp, lookedUp' = lookedUp \ {l}
  PROVE  FewLists'
  <1>1. /\ IsFiniteSet(lookedUp \ {l})
        /\ Cardinality(lookedUp \ {l}) \in {Cardinality(lookedUp), Cardinality(lookedUp) - 1}
    BY FS_RemoveElement DEF FewLists
  <1>2. Cardinality(lookedUp) \in Nat
    BY FS_CardinalityType DEF FewLists
  <1> QED BY <1>1, <1>2, WebAssumption DEF FewLists

LEMMA ServedLists ==
  ASSUME AccessInv, NEW l \in lookedUp, TheSettings!ListServed(l)
  PROVE  AccessInv'
  <1> DEFINE new == [l EXCEPT !.answered = TRUE, !.saw = signedIn]
  <1>1. /\ ~l.answered /\ lookedUp' = (lookedUp \ {l}) \cup {new}
        /\ UNCHANGED <<signedIn, shownIn, expanded, busy, revokes, doubt>>
    BY DEF TheSettings!ListServed
  <1>2. AccessTypes /\ FewLists /\ ListsKnown
    BY DEF AccessInv
  <1>3. l \in TheSettings!List /\ signedIn \subseteq Sessions
    BY <1>2 DEF AccessTypes
  <1>4. new \in TheSettings!List /\ new.for = l.for /\ new.saw = signedIn
    BY <1>3 DEF TheSettings!List
  <1> HIDE DEF new
  <1>5. FewLists'
    <2> DEFINE rest == lookedUp \ {l}
    <2>1. IsFiniteSet(rest) /\ Cardinality(rest) = Cardinality(lookedUp) - 1
      BY <1>2, FS_RemoveElement DEF FewLists
    <2>2. /\ IsFiniteSet(rest \cup {new})
          /\ Cardinality(rest \cup {new}) \in {Cardinality(rest), Cardinality(rest) + 1}
      BY <2>1, FS_AddElement
    <2>3. Cardinality(lookedUp) \in Nat
      BY <1>2, FS_CardinalityType DEF FewLists
    <2>4. Cardinality(lookedUp) <= MaxLists
      BY <1>2 DEF FewLists
    <2>5. lookedUp' = rest \cup {new}
      BY <1>1
    <2> HIDE DEF rest
    <2>6. Cardinality(rest \cup {new}) <= MaxLists
      BY <2>1, <2>2, <2>3, <2>4, WebAssumption
    <2> QED BY <2>2, <2>5, <2>6 DEF FewLists
  <1>6. AccessTypes'
    BY <1>1, <1>2, <1>4 DEF AccessTypes
  <1>7. ListsKnown'
    BY <1>1, <1>2, <1>4 DEF ListsKnown
  <1> QED BY <1>5, <1>6, <1>7 DEF AccessInv

LEMMA LandsLists ==
  ASSUME AccessInv, NEW l \in lookedUp, TheSettings!ListLands(l)
  PROVE  AccessInv'
  <1>1. /\ l.answered /\ lookedUp' = lookedUp \ {l} /\ shownIn' = l.saw
        /\ busy' = (busy /\ l.for # "view")
        /\ UNCHANGED <<signedIn, expanded, revokes, doubt>>
    BY DEF TheSettings!ListLands
  <1>2. AccessTypes /\ FewLists /\ ListsKnown
    BY DEF AccessInv
  <1>3. l.saw \subseteq Sessions
    BY <1>2 DEF AccessTypes, TheSettings!List
  <1>4. PICK b \in BOOLEAN : b <=> busy /\ l.for # "view"
    OBVIOUS
  <1>5. busy' = b
    BY <1>1, <1>2, <1>4 DEF AccessTypes
  <1>6. AccessTypes'
    BY <1>1, <1>2, <1>3, <1>5 DEF AccessTypes
  <1>7. ListsKnown'
    BY <1>1, <1>2 DEF ListsKnown
  <1> QED BY <1>1, <1>2, <1>6, <1>7, FewerLists DEF AccessInv

LEMMA FailsLists ==
  ASSUME AccessInv, NEW l \in lookedUp, TheSettings!ListFails(l)
  PROVE  AccessInv'
  <1>1. /\ lookedUp' = lookedUp \ {l}
        /\ busy' = (busy /\ l.for # "view")
        /\ doubt' = (doubt \/ l.for = "revoke")
        /\ UNCHANGED <<signedIn, shownIn, expanded, revokes>>
    BY DEF TheSettings!ListFails
  <1>2. AccessTypes /\ FewLists /\ ListsKnown
    BY DEF AccessInv
  <1>3. l.for \in {"view", "revoke"}
    BY <1>2 DEF AccessTypes, TheSettings!List
  <1>4. PICK b \in BOOLEAN : b <=> busy /\ l.for # "view"
    OBVIOUS
  <1>5. PICK d \in BOOLEAN : d <=> doubt \/ l.for = "revoke"
    OBVIOUS
  <1>6. busy' = b /\ doubt' = d
    BY <1>1, <1>2, <1>4, <1>5 DEF AccessTypes
  <1>7. AccessTypes'
    BY <1>1, <1>2, <1>6 DEF AccessTypes
  <1>8. ListsKnown'
    BY <1>1, <1>2, <1>3, <1>5, <1>6 DEF ListsKnown
  <1> QED BY <1>1, <1>2, <1>7, <1>8, FewerLists DEF AccessInv

\* A revocation, up to the list that is asked for after it.
LEMMA RevokeLists ==
  ASSUME AccessInv, NEW s \in Sessions,
         TheSettings!Revoke(s) \/ TheSettings!RevokeServed(s) \/ TheSettings!RevokeFails(s)
  PROVE  AccessInv'
  <1>1. AccessTypes /\ FewLists /\ ListsKnown
    BY DEF AccessInv
  <1>2. UNCHANGED <<shownIn, expanded, busy, lookedUp>>
    BY DEF TheSettings!Revoke, TheSettings!RevokeServed, TheSettings!RevokeFails
  <1>3. FewLists'
    BY <1>1, <1>2 DEF FewLists
  <1>4. CASE TheSettings!Revoke(s)
    <2>1. revokes' = revokes \cup {<<s, "asked">>} /\ UNCHANGED <<signedIn, doubt>>
      BY <1>4 DEF TheSettings!Revoke
    <2>2. AccessTypes'
      BY <1>1, <1>2, <2>1 DEF AccessTypes
    <2>3. ListsKnown'
      BY <1>1, <1>2, <2>1 DEF ListsKnown
    <2> QED BY <1>3, <2>2, <2>3 DEF AccessInv
  <1>5. CASE TheSettings!RevokeServed(s)
    <2>1. /\ revokes' = (revokes \ {<<s, "asked">>}) \cup {<<s, "answered">>}
          /\ signedIn' = signedIn \ {s} /\ doubt' = doubt
      BY <1>5 DEF TheSettings!RevokeServed
    <2>2. AccessTypes'
      BY <1>1, <1>2, <2>1 DEF AccessTypes
    <2>3. <<s, "answered">> \in revokes'
      BY <2>1
    <2>4. \A t : <<t, "answered">> \in revokes => <<t, "answered">> \in revokes'
      BY <2>1
    <2>5. ListsKnown'
      BY <1>1, <1>2, <2>1, <2>3, <2>4 DEF ListsKnown
    <2> QED BY <1>3, <2>2, <2>5 DEF AccessInv
  <1>6. CASE TheSettings!RevokeFails(s)
    <2>1. PICK phase \in {"asked", "answered"} :
            /\ revokes' = revokes \ {<<s, phase>>} /\ doubt' = (doubt \/ phase = "answered")
      BY <1>6 DEF TheSettings!RevokeFails
    <2>2. signedIn' = signedIn
      BY <1>6 DEF TheSettings!RevokeFails
    <2>3. PICK d \in BOOLEAN : d <=> doubt \/ phase = "answered"
      OBVIOUS
    <2>4. doubt' = d
      BY <1>1, <2>1, <2>3 DEF AccessTypes
    <2>5. AccessTypes'
      BY <1>1, <1>2, <2>1, <2>2, <2>4 DEF AccessTypes
    <2>6. ~d => \A t : <<t, "answered">> \in revokes => <<t, "answered">> \in revokes'
      BY <2>1, <2>3
    <2>7. ListsKnown'
      BY <1>1, <1>2, <2>2, <2>3, <2>4, <2>6 DEF ListsKnown
    <2> QED BY <1>3, <2>5, <2>7 DEF AccessInv
  <1> QED BY <1>4, <1>5, <1>6

LEMMA NextSettings == SettingsInv /\ [TheSettings!Next]_settings => SettingsInv'
  <1> SUFFICES ASSUME PageInv, FormInv, AccessInv, [TheSettings!Next]_settings
               PROVE  PageInv' /\ FormInv' /\ AccessInv'
    BY DEF SettingsInv
  <1> USE DEF TheSettings!page, TheSettings!instagram, TheSettings!access
  <1>0. status \in BOOLEAN /\ loading \in BOOLEAN /\ expanded \in BOOLEAN /\ busy \in BOOLEAN
    BY DEF FormInv, FormTypes, AccessInv, AccessTypes
  <1>1. CASE UNCHANGED settings
    BY <1>0, <1>1, PageStands, FormStands, AccessStands DEF settings
  <1>2. ASSUME NEW s \in TheSettings!Sections, TheSettings!Choose(s)
        PROVE  PageInv' /\ FormInv' /\ AccessInv'
    <2>1. ownRole \in TheSettings!Roles
      BY DEF PageInv, PageTypes
    <2> QED BY <1>2, <2>1, SectionStep, AccessStands DEF TheSettings!Choose
  <1>3. CASE TheSettings!Dialog
    <2>1. /\ ownRole # "attendant" /\ dialog' = ~dialog /\ UNCHANGED <<topic, ownRole, section>>
          /\ UNCHANGED TheSettings!instagram /\ UNCHANGED TheSettings!access
      BY <1>3 DEF TheSettings!Dialog
    <2>2. PICK b \in BOOLEAN : b <=> ~dialog
      OBVIOUS
    <2>3. dialog' = b
      BY <2>1, <2>2 DEF PageInv, PageTypes
    <2>4. PageInv'
      BY <2>1, <2>3 DEF PageInv, PageTypes, TheSettings!OwnSection
    <2> QED BY <1>0, <2>1, <2>4, FormStands, AccessStands
  <1>4. CASE TheSettings!UpdateOwn
    <2>1. PICK who \in TheSettings!Roles \ {"admin"} :
            TheSettings!Settles(who, section) /\ TheSettings!Closes(who)
      BY <1>4 DEF TheSettings!UpdateOwn
    <2>2. section \in TheSettings!Sections
      BY DEF PageInv, PageTypes
    <2> QED BY <1>4, <2>1, <2>2, SectionStep, AccessStands DEF TheSettings!UpdateOwn
  <1>5. CASE TheSettings!StatusLands
    <2>1. ~loading' /\ loading' \in BOOLEAN /\ status' \in BOOLEAN
      BY <1>0, <1>5 DEF TheSettings!StatusLands
    <2> QED BY <1>5, <2>1, PageStands, FormStands, AccessStands DEF TheSettings!StatusLands
  <1>6. CASE \/ TheSettings!Fill \/ TheSettings!Caption \/ TheSettings!Publish
             \/ TheSettings!Published \/ TheSettings!Answered \/ TheSettings!Ended
             \/ TheSettings!Failed
    <2>1. FormInv'
      BY <1>6, FillForm, PublishForm
    <2>2. UNCHANGED <<topic, ownRole, section, dialog>> /\ UNCHANGED TheSettings!access
      BY <1>6 DEF TheSettings!Fill, TheSettings!Caption, TheSettings!Publish,
         TheSettings!Published, TheSettings!Answered, TheSettings!Ended, TheSettings!Failed
    <2> QED BY <2>1, <2>2, PageStands, AccessStands
  <1>7. CASE TheSettings!Toggle
    <2>1. PageInv' /\ FormInv'
      BY <1>0, <1>7, PageStands, FormStands DEF TheSettings!Toggle
    <2>2. expanded' = ~expanded /\ UNCHANGED <<signedIn, shownIn, revokes>>
      BY <1>7 DEF TheSettings!Toggle
    <2>3. PICK b \in BOOLEAN : b <=> ~expanded
      OBVIOUS
    <2>4. expanded' \in BOOLEAN
      BY <1>0, <2>2, <2>3
    <2>5. CASE shownIn = Nil
      <3>1. TheSettings!Requests("view") /\ busy' \in BOOLEAN
        BY <1>7, <2>5 DEF TheSettings!Toggle
      <3> QED BY <2>1, <2>2, <2>4, <2>5, <3>1, RequestsLists
    <2>6. CASE shownIn # Nil
      <3>1. UNCHANGED <<lookedUp, busy, doubt>>
        BY <1>7, <2>6 DEF TheSettings!Toggle
      <3> QED BY <2>1, <2>2, <2>4, <3>1 DEF AccessInv, AccessTypes, FewLists, ListsKnown
    <2> QED BY <2>5, <2>6
  <1>8. ASSUME NEW l \in lookedUp,
               \/ TheSettings!ListServed(l) \/ TheSettings!ListLands(l)
               \/ TheSettings!ListFails(l)
        PROVE  PageInv' /\ FormInv' /\ AccessInv'
    <2>1. AccessInv'
      BY <1>8, ServedLists, LandsLists, FailsLists
    <2>2. UNCHANGED <<topic, ownRole, section, dialog>> /\ UNCHANGED TheSettings!instagram
      BY <1>8 DEF TheSettings!ListServed, TheSettings!ListLands, TheSettings!ListFails
    <2> QED BY <1>0, <2>1, <2>2, PageStands, FormStands
  <1>9. ASSUME NEW s \in Sessions, TheSettings!Revoked(s)
        PROVE  PageInv' /\ FormInv' /\ AccessInv'
    <2>1. /\ revokes' \subseteq revokes /\ TheSettings!Requests("revoke")
          /\ UNCHANGED <<signedIn, shownIn, expanded, busy>>
      BY <1>9 DEF TheSettings!Revoked
    <2>2. AccessInv'
      BY <1>0, <2>1, RequestsLists
    <2>3. UNCHANGED <<topic, ownRole, section, dialog>> /\ UNCHANGED TheSettings!instagram
      BY <1>9 DEF TheSettings!Revoked
    <2> QED BY <1>0, <2>2, <2>3, PageStands, FormStands
  <1>10. ASSUME NEW s \in Sessions,
                TheSettings!Revoke(s) \/ TheSettings!RevokeServed(s) \/ TheSettings!RevokeFails(s)
         PROVE  PageInv' /\ FormInv' /\ AccessInv'
    <2>1. AccessInv'
      BY <1>10, RevokeLists
    <2>2. UNCHANGED <<topic, ownRole, section, dialog>> /\ UNCHANGED TheSettings!instagram
      BY <1>10 DEF TheSettings!Revoke, TheSettings!RevokeServed, TheSettings!RevokeFails
    <2> QED BY <1>0, <2>1, <2>2, PageStands, FormStands
  <1> QED BY <1>1, <1>2, <1>3, <1>4, <1>5, <1>6, <1>7, <1>8, <1>9, <1>10 DEF TheSettings!Next

--------------------------------------------------------------------------------
(* The alerts: the toasts.                                                        *)

\* No two toasts have an id in common.
OwnIds == \A i, j \in DOMAIN toasts : toasts[i].id = toasts[j].id => i = j

\* Some of the first n toasts, without one of the id.
SparedOf(s, n, id) ==
  /\ s \in Seq(TheAlerts!Toast) /\ Len(s) <= n
  /\ \A i \in DOMAIN s : s[i].id # id /\ \E j \in DOMAIN toasts : j <= n /\ s[i] = toasts[j]
  /\ \A i, j \in DOMAIN s : s[i].id = s[j].id => i = j

LEMMA JoinOne ==
  ASSUME NEW S, NEW s \in Seq(S), NEW x \in S
  PROVE  /\ s \o <<x>> \in Seq(S) /\ DOMAIN (s \o <<x>>) = 1..(Len(s) + 1)
         /\ Len(s \o <<x>>) = Len(s) + 1
         /\ \A i \in DOMAIN s : (s \o <<x>>)[i] = s[i]
         /\ (s \o <<x>>)[Len(s) + 1] = x
  OBVIOUS

LEMMA SparedNext ==
  ASSUME toasts \in Seq(TheAlerts!Toast), OwnIds, NEW id \in Nat, NEW n \in Nat, NEW s,
         SparedOf(s, n, id), NEW m, m = n + 1
  PROVE  SparedOf(s \o TheAlerts!Spared(m, id), m, id)
  <1>1. CASE TheAlerts!Spared(m, id) = <<>>
    <2>1. s \o <<>> = s
      BY DEF SparedOf
    <2>2. \A j \in DOMAIN toasts : j <= n => j <= m
      OBVIOUS
    <2>3. Len(s) <= m
      BY DEF SparedOf
    <2>4. SparedOf(s, m, id)
      BY <2>2, <2>3 DEF SparedOf
    <2>5. s \o TheAlerts!Spared(m, id) = s
      BY <1>1, <2>1
    <2> QED BY <2>4, <2>5
  <1>2. CASE TheAlerts!Spared(m, id) # <<>>
    <2>1. /\ m \in DOMAIN toasts /\ toasts[m].id # id
          /\ TheAlerts!Spared(m, id) = <<toasts[m]>>
      BY <1>2 DEF TheAlerts!Spared
    <2> DEFINE x == toasts[m]
               w == s \o <<x>>
    <2>2. x \in TheAlerts!Toast /\ s \in Seq(TheAlerts!Toast) /\ Len(s) <= n
      BY <2>1 DEF SparedOf
    <2>3. /\ w \in Seq(TheAlerts!Toast) /\ DOMAIN w = 1..(Len(s) + 1) /\ Len(w) = Len(s) + 1
          /\ \A i \in DOMAIN s : w[i] = s[i]
          /\ w[Len(s) + 1] = x
      BY <2>2, JoinOne
    <2>4. DOMAIN s = 1..Len(s) /\ Len(s) \in Nat
      BY <2>2
    <2>5. \A i \in DOMAIN w : i \in DOMAIN s \/ i = Len(s) + 1
      BY <2>3, <2>4
    <2>6. \A i \in DOMAIN s : s[i].id # x.id
      BY <2>1 DEF SparedOf, OwnIds
    <2> HIDE DEF w
    <2>7. \A i \in DOMAIN w : w[i].id # id /\ \E j \in DOMAIN toasts : j <= m /\ w[i] = toasts[j]
      BY <2>1, <2>3, <2>5 DEF SparedOf
    <2>8. \A i, j \in DOMAIN w : w[i].id = w[j].id => i = j
      BY <2>3, <2>5, <2>6 DEF SparedOf
    <2>9. Len(w) <= m
      BY <2>2, <2>3, <2>4
    <2>10. SparedOf(w, m, id)
      BY <2>3, <2>7, <2>8, <2>9 DEF SparedOf
    <2> QED BY <2>1, <2>10 DEF w
  <1> QED BY <1>1, <1>2

LEMMA WithoutToasts ==
  ASSUME toasts \in Seq(TheAlerts!Toast), OwnIds, NEW id \in Nat
  PROVE  SparedOf(TheAlerts!Without(id), 3, id)
  <1> DEFINE a == TheAlerts!Spared(1, id)
             b == TheAlerts!Spared(2, id)
             c == TheAlerts!Spared(3, id)
  <1>1. SparedOf(<<>>, 0, id)
    BY DEF SparedOf
  <1>2. SparedOf(<<>> \o a, 1, id)
    BY <1>1, SparedNext, 1 = 0 + 1
  <1>3. SparedOf((<<>> \o a) \o b, 2, id)
    BY <1>2, SparedNext, 2 = 1 + 1
  <1>4. SparedOf(((<<>> \o a) \o b) \o c, 3, id)
    BY <1>3, SparedNext, 3 = 2 + 1
  <1>5. <<>> \o a = a
    BY DEF TheAlerts!Spared
  <1> QED BY <1>4, <1>5 DEF TheAlerts!Without

\* Some toasts have a key in common only after a push that did not know one of them.
TwiceWhenStale(S) == \A s, t \in S : s.key = t.key => s = t \/ s.key \in stale

ToastTypes ==
  /\ toasts \in Seq(TheAlerts!Toast) /\ Len(toasts) <= 3
  /\ lastId \in 0..MaxIds /\ timers \subseteq 1..lastId
  /\ held \in Seq(SUBSET TheAlerts!Toast) /\ Len(held) <= MaxHeld
  /\ stale \subseteq Keys

Timed == \A i \in DOMAIN toasts : toasts[i].id \in timers

\* What an action knows has been toasts.
HeldKnown ==
  \A i \in DOMAIN held : TwiceWhenStale(held[i]) /\ \A t \in held[i] : t.id <= lastId

ToastsInv ==
  ToastTypes /\ OwnIds /\ Timed /\ TwiceWhenStale(TheAlerts!Known) /\ HeldKnown

LEMMA LastTwoOf ==
  ASSUME NEW S, NEW s \in Seq(S)
  PROVE  /\ TheAlerts!LastTwo(s) \in Seq(S) /\ Len(TheAlerts!LastTwo(s)) <= 2
         /\ \E d \in Nat : \A i \in DOMAIN TheAlerts!LastTwo(s) :
              i + d \in DOMAIN s /\ TheAlerts!LastTwo(s)[i] = s[i + d]
  <1>1. CASE Len(s) <= 2
    <2>1. TheAlerts!LastTwo(s) = s
      BY <1>1 DEF TheAlerts!LastTwo
    <2>2. \A i \in DOMAIN s : i + 0 \in DOMAIN s /\ s[i] = s[i + 0]
      OBVIOUS
    <2> QED BY <1>1, <2>1, <2>2
  <1>2. CASE Len(s) > 2
    <2> DEFINE w == SubSeq(s, Len(s) - 1, Len(s))
    <2>1. TheAlerts!LastTwo(s) = w
      BY <1>2 DEF TheAlerts!LastTwo
    <2>2. Len(s) - 2 \in Nat /\ Len(s) \in Nat /\ DOMAIN s = 1..Len(s)
      BY <1>2
    <2>3. w \in Seq(S) /\ Len(w) = 2
      BY <1>2
    <2>4. DOMAIN w = 1..2
      BY <2>3
    <2>5. \A i \in 1..2 : i + (Len(s) - 2) \in DOMAIN s /\ w[i] = s[i + (Len(s) - 2)]
      BY <1>2
    <2> HIDE DEF w
    <2>6. \E d \in Nat : \A i \in DOMAIN w : i + d \in DOMAIN s /\ w[i] = s[i + d]
      BY <2>2, <2>4, <2>5
    <2>7. Len(w) <= 2
      BY <2>3
    <2> QED BY <2>1, <2>3, <2>6, <2>7
  <1> QED BY <1>1, <1>2

\* The toast that is shown, below the last two of the others.
LEMMA ShownToasts ==
  ASSUME NEW id, NEW s, SparedOf(s, 3, id), NEW new \in TheAlerts!Toast, new.id = id
  PROVE  LET w == Append(TheAlerts!LastTwo(s), new) IN
         /\ w \in Seq(TheAlerts!Toast) /\ Len(w) <= 3
         /\ \A i \in DOMAIN w :
              w[i] = new \/ (w[i].id # id /\ \E j \in DOMAIN toasts : w[i] = toasts[j])
         /\ \A i, j \in DOMAIN w : w[i].id = w[j].id => i = j
  <1> DEFINE two == TheAlerts!LastTwo(s)
             w == Append(two, new)
  <1>1. s \in Seq(TheAlerts!Toast)
    BY DEF SparedOf
  <1>2. two \in Seq(TheAlerts!Toast) /\ Len(two) <= 2
    BY <1>1, LastTwoOf
  <1>3. PICK d \in Nat : \A i \in DOMAIN two : i + d \in DOMAIN s /\ two[i] = s[i + d]
    BY <1>1, LastTwoOf
  <1> HIDE DEF two
  <1>4. /\ w \in Seq(TheAlerts!Toast) /\ Len(w) = Len(two) + 1 /\ Len(two) \in Nat
        /\ \A i \in DOMAIN w : i \in DOMAIN two \/ i = Len(two) + 1
        /\ \A i \in DOMAIN two : w[i] = two[i]
        /\ w[Len(two) + 1] = new
    BY <1>2
  <1>5. \A i \in DOMAIN two : i \in Int
    BY <1>2
  <1> HIDE DEF w
  <1>6. \A i \in DOMAIN two :
          two[i].id # id /\ \E j \in DOMAIN toasts : two[i] = toasts[j]
    BY <1>3 DEF SparedOf
  <1>7. \A i, j \in DOMAIN two : two[i].id = two[j].id => i = j
    <2>1. SUFFICES ASSUME NEW i \in DOMAIN two, NEW j \in DOMAIN two, two[i].id = two[j].id
                   PROVE  i = j
      OBVIOUS
    <2>2. i + d = j + d
      BY <1>3, <2>1 DEF SparedOf
    <2>3. \A m, n \in Int : m + d = n + d => m = n
      OBVIOUS
    <2> QED BY <1>5, <2>2, <2>3
  <1>8. \A i \in DOMAIN w :
          w[i] = new \/ (w[i].id # id /\ \E j \in DOMAIN toasts : w[i] = toasts[j])
    BY <1>4, <1>6
  <1>9. \A i, j \in DOMAIN w : w[i].id = w[j].id => i = j
    BY <1>4, <1>6, <1>7
  <1>10. Len(w) <= 3
    BY <1>2, <1>4
  <1> QED BY <1>4, <1>8, <1>9, <1>10 DEF w, two

LEMMA InitToasts == TheAlerts!Init => ToastsInv
  <1> SUFFICES ASSUME TheAlerts!Init PROVE ToastsInv
    OBVIOUS
  <1>1. toasts = <<>> /\ lastId = 0 /\ timers = {} /\ held = <<>> /\ stale = {}
    BY DEF TheAlerts!Init
  <1>2. ToastTypes
    BY <1>1, WebAssumption DEF ToastTypes
  <1> QED BY <1>1, <1>2
          DEF ToastsInv, OwnIds, Timed, TwiceWhenStale, HeldKnown, TheAlerts!Known

\* A toast that is pushed by an action that knows some of those that were shown.
LEMMA PushToast ==
  ASSUME ToastsInv, lastId < MaxIds, NEW key \in Keys, NEW known \in SUBSET TheAlerts!Toast,
         TwiceWhenStale(known), \A t \in known : t.id <= lastId,
         TheAlerts!Push(key, known),
         stale \subseteq stale', stale' \subseteq Keys,
         \A t \in TheAlerts!Known \ known : t.key = key => key \in stale',
         held' \in Seq(SUBSET TheAlerts!Toast), Len(held') <= MaxHeld,
         \A i \in DOMAIN held' : \E j \in DOMAIN held : held'[i] = held[j]
  PROVE  ToastsInv'
  <1> DEFINE same == {t \in known : t.key = key}
             id == IF same = {} THEN lastId + 1 ELSE (CHOOSE t \in same : TRUE).id
             new == [key |-> key, id |-> id]
             w == TheAlerts!Without(id)
  <1>1. /\ lastId' = (IF same = {} THEN id ELSE lastId)
        /\ toasts' = Append(TheAlerts!LastTwo(w), new)
        /\ timers' = timers \cup {id}
    BY DEF TheAlerts!Push
  <1>2. ToastTypes /\ OwnIds /\ Timed /\ TwiceWhenStale(TheAlerts!Known) /\ HeldKnown
    BY DEF ToastsInv
  <1>3. /\ id \in 1..MaxIds /\ id \in 1..lastId'
        /\ lastId' \in 0..MaxIds /\ lastId <= lastId'
        /\ \A t \in known : t.key = key /\ t.id # id => key \in stale
    <2>1. lastId \in Nat /\ lastId <= MaxIds /\ MaxIds \in Nat
      BY <1>2, WebAssumption DEF ToastTypes
    <2>2. CASE same = {}
      <3>1. id = lastId + 1 /\ lastId' = lastId + 1
        BY <1>1, <2>2
      <3>2. lastId + 1 \in 1..MaxIds /\ lastId + 1 \in 1..(lastId + 1) /\ lastId + 1 \in 0..MaxIds
            /\ lastId <= lastId + 1
        BY <2>1
      <3> QED BY <2>2, <3>1, <3>2
    <2>3. CASE same # {}
      <3> DEFINE c == CHOOSE x \in same : TRUE
      <3>1. c \in known /\ c.key = key /\ id = c.id /\ lastId' = lastId
        BY <1>1, <2>3
      <3> HIDE DEF c
      <3>2. c \in TheAlerts!Toast /\ c.id <= lastId
        BY <3>1
      <3>3. c.id \in 1..MaxIds /\ c.id \in 1..lastId
        BY <2>1, <3>2 DEF TheAlerts!Toast
      <3>4. \A t \in known : t.key = key /\ t.id # id => key \in stale
        BY <3>1 DEF TwiceWhenStale
      <3>5. lastId \in 0..MaxIds /\ lastId <= lastId
        BY <2>1
      <3> QED BY <3>1, <3>3, <3>4, <3>5
    <2> QED BY <2>2, <2>3
  <1> HIDE DEF same, id
  <1>4. new \in TheAlerts!Toast /\ new.id = id /\ new.key = key
    BY <1>3 DEF TheAlerts!Toast
  <1> HIDE DEF new
  <1>5. SparedOf(w, 3, id)
    BY <1>2, <1>3, WithoutToasts DEF ToastTypes
  <1>6. /\ toasts' \in Seq(TheAlerts!Toast) /\ Len(toasts') <= 3
        /\ \A i \in DOMAIN toasts' :
             toasts'[i] = new \/ (toasts'[i].id # id /\ \E j \in DOMAIN toasts : toasts'[i] = toasts[j])
        /\ OwnIds'
    <2> HIDE DEF w
    <2> QED BY <1>1, <1>4, <1>5, ShownToasts DEF OwnIds
  <1>7. ToastTypes'
    <2>1. timers' \subseteq 1..lastId'
      <3>1. \A k \in 1..lastId : k \in 1..lastId'
        BY <1>2, <1>3 DEF ToastTypes
      <3> QED BY <1>1, <1>2, <1>3, <3>1 DEF ToastTypes
    <2> QED BY <1>3, <1>6, <2>1 DEF ToastTypes
  <1>8. Timed'
    BY <1>1, <1>2, <1>4, <1>6 DEF Timed
  <1>9. \A t \in TheAlerts!Known' : t = new \/ (t \in TheAlerts!Known /\ t.id # id)
    BY <1>6 DEF TheAlerts!Known
  <1>10. TwiceWhenStale(TheAlerts!Known)'
    <2>1. \A t \in TheAlerts!Known' : t.key = key => t = new \/ key \in stale'
      BY <1>3, <1>9
    <2>2. \A s, t \in TheAlerts!Known : s.key = t.key => s = t \/ s.key \in stale'
      BY <1>2 DEF TwiceWhenStale
    <2> QED BY <1>4, <1>9, <2>1, <2>2 DEF TwiceWhenStale
  <1>11. HeldKnown'
    <2>1. SUFFICES ASSUME NEW i \in DOMAIN held'
                   PROVE  /\ \A s, t \in held'[i] : s.key = t.key => s = t \/ s.key \in stale'
                          /\ \A t \in held'[i] : t.id <= lastId'
      BY DEF HeldKnown, TwiceWhenStale
    <2>2. PICK j \in DOMAIN held : held'[i] = held[j]
      OBVIOUS
    <2>3. \A t \in held[j] : t.id \in Nat
      BY <1>2 DEF ToastTypes, TheAlerts!Toast
    <2>4. \A n \in Nat : n <= lastId => n <= lastId'
      BY <1>2, <1>3 DEF ToastTypes
    <2> QED BY <1>2, <2>2, <2>3, <2>4 DEF HeldKnown, TwiceWhenStale
  <1> QED BY <1>6, <1>7, <1>8, <1>10, <1>11 DEF ToastsInv

LEMMA Concatenated ==
  ASSUME NEW S, NEW a \in Seq(S), NEW b \in Seq(S)
  PROVE  /\ a \o b \in Seq(S) /\ Len(a \o b) = Len(a) + Len(b)
         /\ DOMAIN (a \o b) = 1..(Len(a) + Len(b))
         /\ \A k \in 1..(Len(a) + Len(b)) :
              (a \o b)[k] = IF k <= Len(a) THEN a[k] ELSE b[k - Len(a)]
  OBVIOUS

LEMMA RemovedOf ==
  ASSUME NEW S, NEW s \in Seq(S), NEW i \in DOMAIN s
  PROVE  LET r == TheAlerts!RemoveAt(s, i) IN
         r \in Seq(S) /\ Len(r) < Len(s) /\ \A k \in DOMAIN r : \E j \in DOMAIN s : r[k] = s[j]
  <1> DEFINE a == SubSeq(s, 1, i - 1)
             b == SubSeq(s, i + 1, Len(s))
  <1>1. i \in 1..Len(s) /\ Len(s) \in Nat /\ DOMAIN s = 1..Len(s)
    OBVIOUS
  <1>2. /\ a \in Seq(S) /\ Len(a) = i - 1 /\ DOMAIN a = 1..(i - 1)
        /\ \A k \in 1..(i - 1) : a[k] = s[k]
    BY <1>1
  <1>3. /\ b \in Seq(S) /\ Len(b) = Len(s) - i /\ DOMAIN b = 1..(Len(s) - i)
        /\ \A k \in 1..(Len(s) - i) : b[k] = s[k + i]
    BY <1>1
  <1> HIDE DEF a, b
  <1>4. /\ a \o b \in Seq(S) /\ Len(a \o b) = Len(s) - 1 /\ DOMAIN (a \o b) = 1..(Len(s) - 1)
        /\ \A k \in 1..(Len(s) - 1) : (a \o b)[k] = IF k <= i - 1 THEN a[k] ELSE b[k - (i - 1)]
    <2> DEFINE ab == a \o b
    <2>0. a \in Seq(S) /\ b \in Seq(S)
      BY <1>2, <1>3
    <2>1. /\ ab \in Seq(S) /\ Len(ab) = Len(a) + Len(b) /\ DOMAIN ab = 1..(Len(a) + Len(b))
          /\ \A k \in 1..(Len(a) + Len(b)) : ab[k] = IF k <= Len(a) THEN a[k] ELSE b[k - Len(a)]
      BY <2>0, Concatenated
    <2>2. Len(a) + Len(b) = Len(s) - 1
      BY <1>1, <1>2, <1>3
    <2> HIDE DEF ab
    <2>3. /\ ab \in Seq(S) /\ Len(ab) = Len(s) - 1 /\ DOMAIN ab = 1..(Len(s) - 1)
          /\ \A k \in 1..(Len(s) - 1) : ab[k] = IF k <= i - 1 THEN a[k] ELSE b[k - (i - 1)]
      BY <1>2, <2>1, <2>2
    <2> QED BY <2>3 DEF ab
  <1>5. \A k \in 1..(Len(s) - 1) : \E j \in DOMAIN s : (a \o b)[k] = s[j]
    <2>1. SUFFICES ASSUME NEW k \in 1..(Len(s) - 1) PROVE \E j \in DOMAIN s : (a \o b)[k] = s[j]
      OBVIOUS
    <2>2. CASE k <= i - 1
      <3>1. k \in 1..(i - 1) /\ k \in DOMAIN s
        BY <1>1, <2>2
      <3>2. (a \o b)[k] = s[k]
        BY <1>2, <1>4, <2>2, <3>1
      <3> QED BY <3>1, <3>2
    <2>3. CASE ~(k <= i - 1)
      <3>1. k - (i - 1) \in 1..(Len(s) - i) /\ (k - (i - 1)) + i \in DOMAIN s
        BY <1>1, <2>3
      <3>2. (a \o b)[k] = s[(k - (i - 1)) + i]
        BY <1>3, <1>4, <2>3, <3>1
      <3> QED BY <3>1, <3>2
    <2> QED BY <2>2, <2>3
  <1>6. TheAlerts!RemoveAt(s, i) = a \o b
    BY DEF TheAlerts!RemoveAt, a, b
  <1> DEFINE r == a \o b
  <1>7. r \in Seq(S) /\ Len(r) = Len(s) - 1 /\ DOMAIN r = 1..(Len(s) - 1)
    BY <1>4
  <1>8. Len(r) < Len(s)
    <2>1. \A n \in Nat : n - 1 < n
      OBVIOUS
    <2> HIDE DEF r
    <2> QED BY <1>1, <1>7, <2>1
  <1> QED BY <1>5, <1>6, <1>7, <1>8

LEMMA KnownToasts ==
  ToastsInv => /\ TheAlerts!Known \in SUBSET TheAlerts!Toast
               /\ \A t \in TheAlerts!Known : t.id <= lastId
  <1> SUFFICES ASSUME ToastsInv, NEW i \in DOMAIN toasts
               PROVE  toasts[i] \in TheAlerts!Toast /\ toasts[i].id <= lastId
    BY DEF TheAlerts!Known
  <1>1. toasts[i] \in TheAlerts!Toast
    BY DEF ToastsInv, ToastTypes
  <1>2. toasts[i].id \in timers /\ timers \subseteq 1..lastId
    BY DEF ToastsInv, ToastTypes, Timed
  <1>3. \A n \in 1..lastId : n <= lastId
    BY DEF ToastsInv, ToastTypes
  <1> QED BY <1>1, <1>2, <1>3

\* Something is told at once, or when an action ends.
LEMMA TellToasts ==
  ASSUME ToastsInv, NEW key \in Keys, TheAlerts!Tell(key)
  PROVE  ToastsInv'
  <1>1. /\ lastId < MaxIds /\ TheAlerts!Push(key, TheAlerts!Known)
        /\ held' = held /\ stale' = stale
    BY DEF TheAlerts!Tell
  <1>2. ToastTypes /\ Timed /\ TwiceWhenStale(TheAlerts!Known)
    BY DEF ToastsInv
  <1>3. /\ TheAlerts!Known \in SUBSET TheAlerts!Toast
        /\ \A t \in TheAlerts!Known : t.id <= lastId
    BY KnownToasts
  <1> QED BY <1>1, <1>2, <1>3, PushToast DEF ToastTypes

LEMMA EndsToasts ==
  ASSUME ToastsInv, NEW key \in Keys, NEW i \in 1..MaxHeld, TheAlerts!Ends(i, key)
  PROVE  ToastsInv'
  <1>1. /\ i \in DOMAIN held /\ lastId < MaxIds /\ TheAlerts!Push(key, held[i])
        /\ held' = TheAlerts!RemoveAt(held, i)
        /\ stale' = IF \E t \in TheAlerts!Known \ held[i] : t.key = key
                    THEN stale \cup {key} ELSE stale
    BY DEF TheAlerts!Ends
  <1>2. ToastTypes /\ HeldKnown
    BY DEF ToastsInv
  <1>3. held \in Seq(SUBSET TheAlerts!Toast) /\ Len(held) <= MaxHeld /\ stale \subseteq Keys
    BY <1>2 DEF ToastTypes
  <1>4. /\ held' \in Seq(SUBSET TheAlerts!Toast) /\ Len(held') < Len(held)
        /\ \A k \in DOMAIN held' : \E j \in DOMAIN held : held'[k] = held[j]
    BY <1>1, <1>3, RemovedOf
  <1>5. Len(held') <= MaxHeld
    BY <1>3, <1>4, WebAssumption
  <1>6. held[i] \in SUBSET TheAlerts!Toast
    BY <1>1, <1>3
  <1>7. TwiceWhenStale(held[i]) /\ \A t \in held[i] : t.id <= lastId
    BY <1>1, <1>2 DEF HeldKnown
  <1>8. /\ stale \subseteq stale' /\ stale' \subseteq Keys
        /\ \A t \in TheAlerts!Known \ held[i] : t.key = key => key \in stale'
    BY <1>1, <1>3
  <1> QED BY <1>1, <1>4, <1>5, <1>6, <1>7, <1>8, PushToast

LEMMA StartToasts == ASSUME ToastsInv, TheAlerts!Start PROVE ToastsInv'
  <1>1. /\ Len(held) < MaxHeld /\ held' = Append(held, TheAlerts!Known)
        /\ UNCHANGED <<toasts, lastId, timers, stale>>
    BY DEF TheAlerts!Start
  <1>2. ToastTypes /\ Timed /\ HeldKnown /\ TwiceWhenStale(TheAlerts!Known) /\ OwnIds
    BY DEF ToastsInv
  <1> DEFINE known == TheAlerts!Known
  <1>3. known \in SUBSET TheAlerts!Toast /\ \A t \in known : t.id <= lastId
    BY KnownToasts
  <1>4. known' = known
    BY <1>1 DEF TheAlerts!Known
  <1>5. TwiceWhenStale(known)
    BY <1>2
  <1> HIDE DEF known
  <1>6. held \in Seq(SUBSET TheAlerts!Toast) /\ MaxHeld \in Nat
    BY <1>2, WebAssumption DEF ToastTypes
  <1>7. /\ held' \in Seq(SUBSET TheAlerts!Toast) /\ Len(held') <= MaxHeld
        /\ \A i \in DOMAIN held' : held'[i] = known \/ (i \in DOMAIN held /\ held'[i] = held[i])
    BY <1>1, <1>3, <1>6 DEF known
  <1>8. HeldKnown'
    BY <1>1, <1>2, <1>3, <1>5, <1>7 DEF HeldKnown, TwiceWhenStale
  <1>9. ToastTypes' /\ Timed' /\ OwnIds'
    BY <1>1, <1>2, <1>7 DEF ToastTypes, Timed, OwnIds
  <1>10. TwiceWhenStale(TheAlerts!Known)'
    BY <1>1, <1>4, <1>5 DEF TwiceWhenStale, known
  <1> QED BY <1>8, <1>9, <1>10 DEF ToastsInv

LEMMA DismissToasts ==
  ASSUME ToastsInv, NEW id \in 1..MaxIds, TheAlerts!Dismiss(id)
  PROVE  ToastsInv'
  <1>1. /\ timers' = timers \ {id} /\ toasts' = TheAlerts!Without(id)
        /\ UNCHANGED <<lastId, held, stale>>
    BY DEF TheAlerts!Dismiss
  <1>2. ToastTypes /\ Timed /\ HeldKnown /\ TwiceWhenStale(TheAlerts!Known) /\ OwnIds
    BY DEF ToastsInv
  <1>3. SparedOf(toasts', 3, id)
    BY <1>1, <1>2, WithoutToasts DEF ToastTypes
  <1>4. ToastTypes' /\ OwnIds'
    BY <1>1, <1>2, <1>3 DEF ToastTypes, SparedOf, OwnIds
  <1>5. Timed'
    BY <1>1, <1>2, <1>3 DEF Timed, SparedOf
  <1>6. HeldKnown'
    BY <1>1, <1>2 DEF HeldKnown, TwiceWhenStale
  <1>7. \A t \in TheAlerts!Known' : t \in TheAlerts!Known
    BY <1>3 DEF TheAlerts!Known, SparedOf
  <1>8. TwiceWhenStale(TheAlerts!Known)'
    BY <1>1, <1>2, <1>7 DEF TwiceWhenStale
  <1> QED BY <1>4, <1>5, <1>6, <1>8 DEF ToastsInv

LEMMA ToastsInvImplies == ToastsInv => TheAlerts!ToastsGo
  <1> SUFFICES ASSUME ToastsInv PROVE TheAlerts!ToastsGo
    OBVIOUS
  <1>1. ToastTypes /\ Timed /\ TwiceWhenStale(TheAlerts!Known) /\ OwnIds
    BY DEF ToastsInv
  <1>2. DOMAIN toasts = 1..Len(toasts) /\ Len(toasts) \in Nat
    BY <1>1 DEF ToastTypes
  <1> DEFINE f == [i \in 1..Len(toasts) |-> toasts[i].id]
  <1>3. f \in Bijection(1..Len(toasts), TheAlerts!Ids)
    BY <1>1, <1>2 DEF OwnIds, TheAlerts!Ids, Bijection, Injection, Surjection, IsInjective
  <1>4. Cardinality(TheAlerts!Ids) = Len(toasts)
    BY <1>2, <1>3, FS_CountingElements DEF ExistsBijection
  <1>5. TheAlerts!Cardinality(TheAlerts!Ids) = Len(toasts)
    BY <1>4 DEF TheAlerts!Cardinality, Cardinality
  <1>6. TheAlerts!Ids \subseteq timers
    BY <1>1 DEF TheAlerts!Ids, Timed
  <1> QED BY <1>1, <1>5, <1>6 DEF TheAlerts!ToastsGo, TwiceWhenStale

--------------------------------------------------------------------------------
(* The alerts: the switches.                                                      *)

SwitchTypes ==
  /\ browser \in TheAlerts!Permissions /\ permission \in TheAlerts!Permissions
  /\ enabled \in BOOLEAN /\ sound \in BOOLEAN /\ wantedOn \in BOOLEAN
  /\ changed \in BOOLEAN /\ silent \in BOOLEAN /\ asking \in BOOLEAN
  /\ kept \in [enabled : BOOLEAN, sound : BOOLEAN]
  /\ socket \in {"open", "away", "token"}

\* What is stored is as it is here, notifications need the permission that the dashboard knows
\* of, and that is the one there is, unless it was changed behind the dashboard.
Permitted ==
  /\ kept.enabled = enabled /\ kept.sound = sound
  /\ enabled => permission = "granted"
  /\ ~changed => permission = browser /\ enabled = wantedOn /\ ~silent

SwitchesInv == SwitchTypes /\ Permitted

AlertsInv == subject \in Subjects /\ ToastsInv /\ SwitchesInv

LEMMA AlertsInvImplies == AlertsInv => TheAlerts!TypeOK /\ TheAlerts!AlertsKept
  <1> SUFFICES ASSUME AlertsInv PROVE TheAlerts!TypeOK /\ TheAlerts!AlertsKept
    OBVIOUS
  <1>1. ToastTypes /\ SwitchTypes /\ Permitted /\ TheAlerts!ToastsGo
    BY ToastsInvImplies DEF AlertsInv, ToastsInv, SwitchesInv
  <1>2. {enabled, sound, wantedOn, changed, silent} \subseteq BOOLEAN
    BY <1>1 DEF SwitchTypes
  <1>3. \A i \in DOMAIN held : held[i] \subseteq TheAlerts!Toast
    BY <1>1 DEF ToastTypes
  <1>4. TheAlerts!TypeOK
    BY <1>1, <1>2, <1>3 DEF AlertsInv, ToastTypes, SwitchTypes, TheAlerts!TypeOK
  <1>5. kept = [enabled |-> enabled, sound |-> sound]
    BY <1>1 DEF SwitchTypes, Permitted
  <1>6. TheAlerts!AsSet /\ TheAlerts!Told
    BY <1>1, <1>5 DEF Permitted, TheAlerts!AsSet, TheAlerts!Told
  <1> QED BY <1>1, <1>4, <1>6 DEF TheAlerts!AlertsKept

LEMMA InitAlerts == TheAlerts!Init => AlertsInv
  <1> SUFFICES ASSUME TheAlerts!Init PROVE AlertsInv
    OBVIOUS
  <1>1. /\ subject \in Subjects /\ browser \in TheAlerts!Permissions /\ permission = browser
        /\ enabled \in (IF browser = "granted" THEN BOOLEAN ELSE {FALSE})
        /\ sound \in BOOLEAN /\ kept = [enabled |-> enabled, sound |-> sound]
        /\ ~asking /\ asking \in BOOLEAN /\ socket = "away" /\ wantedOn = enabled
        /\ ~changed /\ changed \in BOOLEAN /\ ~silent /\ silent \in BOOLEAN
    BY DEF TheAlerts!Init
  <1>2. enabled \in BOOLEAN /\ (enabled => permission = "granted")
    BY <1>1
  <1>3. SwitchesInv
    BY <1>1, <1>2 DEF SwitchesInv, SwitchTypes, Permitted
  <1> QED BY <1>1, <1>3, InitToasts DEF AlertsInv

LEMMA ToastsStand ==
  ASSUME ToastsInv, UNCHANGED <<toasts, lastId, timers, held, stale>>
  PROVE  ToastsInv'
  BY DEF ToastsInv, ToastTypes, OwnIds, Timed, TwiceWhenStale, HeldKnown, TheAlerts!Known

LEMMA SwitchesStand ==
  ASSUME SwitchesInv,
         UNCHANGED <<browser, permission, enabled, sound, kept, asking, socket, wantedOn, changed, silent>>
  PROVE  SwitchesInv'
  BY DEF SwitchesInv, SwitchTypes, Permitted

\* The effects: what they leave of the switches.
LEMMA EffectsLeave ==
  ASSUME SwitchTypes, NEW on \in BOOLEAN, NEW allowed \in TheAlerts!Permissions,
         NEW loud \in BOOLEAN, TheAlerts!Effects(on, allowed, loud)
  PROVE  /\ permission' = allowed /\ enabled' \in BOOLEAN /\ (enabled' <=> on /\ allowed = "granted")
         /\ sound' = loud /\ kept' = [enabled |-> enabled', sound |-> sound']
         /\ socket' \in {"open", "away", "token"}
  <1>1. PICK b \in BOOLEAN : b <=> on /\ allowed = "granted"
    OBVIOUS
  <1>2. enabled' = b
    BY <1>1 DEF TheAlerts!Effects
  <1> QED BY <1>1, <1>2 DEF TheAlerts!Effects, SwitchTypes

LEMMA ToggleSwitches == ASSUME SwitchesInv, TheAlerts!Toggle PROVE SwitchesInv'
  <1>1. UNCHANGED <<browser, changed, silent>> /\ SwitchTypes /\ Permitted
    BY DEF TheAlerts!Toggle, SwitchesInv
  <1>2. FALSE \in BOOLEAN /\ TRUE \in BOOLEAN /\ "denied" \in TheAlerts!Permissions
    BY DEF TheAlerts!Permissions
  <1>3. permission \in TheAlerts!Permissions /\ sound \in BOOLEAN
    BY <1>1 DEF SwitchTypes
  <1>4. CASE enabled
    <2>1. /\ TheAlerts!Effects(FALSE, permission, sound)
          /\ ~wantedOn' /\ wantedOn' \in BOOLEAN /\ asking' = asking
      BY <1>4 DEF TheAlerts!Toggle
    <2>2. /\ permission' = permission /\ enabled' \in BOOLEAN /\ ~enabled' /\ sound' = sound
          /\ kept' = [enabled |-> enabled', sound |-> sound']
          /\ socket' \in {"open", "away", "token"}
      BY <1>1, <1>2, <1>3, <2>1, EffectsLeave
    <2> QED BY <1>1, <2>1, <2>2 DEF SwitchesInv, SwitchTypes, Permitted
  <1>5. CASE ~enabled /\ browser = "denied"
    <2>1. TheAlerts!Effects(FALSE, "denied", sound) /\ wantedOn' = wantedOn /\ asking' = asking
      BY <1>5 DEF TheAlerts!Toggle
    <2>2. /\ permission' = "denied" /\ enabled' \in BOOLEAN /\ ~enabled' /\ sound' = sound
          /\ kept' = [enabled |-> enabled', sound |-> sound']
          /\ socket' \in {"open", "away", "token"}
      BY <1>1, <1>2, <1>3, <2>1, EffectsLeave
    <2> QED BY <1>1, <1>5, <2>1, <2>2 DEF SwitchesInv, SwitchTypes, Permitted
  <1>6. CASE ~enabled /\ browser = "granted"
    <2>1. /\ TheAlerts!Effects(TRUE, permission, sound)
          /\ wantedOn' /\ wantedOn' \in BOOLEAN /\ asking' = asking
      BY <1>6 DEF TheAlerts!Toggle
    <2>2. /\ permission' = permission /\ enabled' \in BOOLEAN
          /\ (enabled' <=> permission = "granted") /\ sound' = sound
          /\ kept' = [enabled |-> enabled', sound |-> sound']
          /\ socket' \in {"open", "away", "token"}
      BY <1>1, <1>2, <1>3, <2>1, EffectsLeave
    <2> QED BY <1>1, <1>6, <2>1, <2>2 DEF SwitchesInv, SwitchTypes, Permitted
  <1>7. CASE ~enabled /\ browser = "default"
    <2>1. /\ asking' /\ asking' \in BOOLEAN
          /\ UNCHANGED <<enabled, permission, sound, kept, socket, wantedOn>>
      BY <1>7 DEF TheAlerts!Toggle
    <2> QED BY <1>1, <2>1 DEF SwitchesInv, SwitchTypes, Permitted
  <1> QED BY <1>1, <1>4, <1>5, <1>6, <1>7 DEF SwitchTypes, TheAlerts!Permissions

LEMMA AnsweredSwitches == ASSUME SwitchesInv, TheAlerts!Answered PROVE SwitchesInv'
  <1>1. /\ ~asking' /\ asking' \in BOOLEAN /\ UNCHANGED <<changed, silent>>
        /\ SwitchTypes /\ Permitted
    BY DEF TheAlerts!Answered, SwitchesInv
  <1>2. browser' \in TheAlerts!Permissions /\ (browser # "default" => browser' = browser)
    BY <1>1 DEF TheAlerts!Answered, SwitchTypes
  <1>3. PICK on \in BOOLEAN : on <=> enabled \/ browser' = "granted"
    OBVIOUS
  <1>4. (enabled \/ browser' = "granted") = on
    BY <1>1, <1>3 DEF SwitchTypes
  <1>5. TheAlerts!Effects(on, browser', sound)
    BY <1>4 DEF TheAlerts!Answered
  <1>6. PICK b \in BOOLEAN : b <=> wantedOn \/ browser' = "granted"
    OBVIOUS
  <1>7. wantedOn' = b
    BY <1>1, <1>6 DEF TheAlerts!Answered, SwitchTypes
  <1>8. PICK allowed \in TheAlerts!Permissions : allowed = browser'
    BY <1>2
  <1>9. TheAlerts!Effects(on, allowed, sound) /\ sound \in BOOLEAN
    BY <1>1, <1>5, <1>8 DEF SwitchTypes
  <1>10. /\ permission' = browser' /\ enabled' \in BOOLEAN
         /\ (enabled' <=> on /\ browser' = "granted")
         /\ sound' = sound /\ kept' = [enabled |-> enabled', sound |-> sound']
         /\ socket' \in {"open", "away", "token"}
    BY <1>1, <1>8, <1>9, EffectsLeave
  <1>11. SwitchTypes'
    BY <1>1, <1>2, <1>7, <1>10 DEF SwitchTypes
  <1>12. Permitted'
    BY <1>1, <1>2, <1>3, <1>6, <1>7, <1>10 DEF Permitted
  <1> QED BY <1>11, <1>12 DEF SwitchesInv

LEMMA OtherSwitches ==
  ASSUME SwitchesInv,
         \/ TheAlerts!ToggleSound \/ TheAlerts!Elsewhere \/ TheAlerts!Reopen
  PROVE  SwitchesInv'
  <1>1. SwitchTypes /\ Permitted
    BY DEF SwitchesInv
  <1>2. CASE TheAlerts!ToggleSound
    <2>1. /\ TheAlerts!Effects(enabled, permission, ~sound)
          /\ UNCHANGED <<browser, asking, wantedOn, changed, silent>>
      BY <1>2 DEF TheAlerts!ToggleSound
    <2>2. PICK loud \in BOOLEAN : loud <=> ~sound
      OBVIOUS
    <2>3. (~sound) = loud
      BY <1>1, <2>2 DEF SwitchTypes
    <2>4. /\ TheAlerts!Effects(enabled, permission, loud)
          /\ enabled \in BOOLEAN /\ permission \in TheAlerts!Permissions
      BY <1>1, <2>1, <2>3 DEF SwitchTypes
    <2>5. /\ permission' = permission /\ enabled' \in BOOLEAN
          /\ (enabled' <=> enabled /\ permission = "granted") /\ sound' = loud
          /\ kept' = [enabled |-> enabled', sound |-> sound']
          /\ socket' \in {"open", "away", "token"}
      BY <1>1, <2>4, EffectsLeave
    <2> QED BY <1>1, <2>1, <2>5 DEF SwitchesInv, SwitchTypes, Permitted
  <1>3. CASE TheAlerts!Elsewhere
    <2>1. /\ browser' \in TheAlerts!Permissions /\ changed' /\ changed' \in BOOLEAN
          /\ UNCHANGED <<permission, enabled, sound, kept, asking, socket, wantedOn, silent>>
      BY <1>3 DEF TheAlerts!Elsewhere
    <2> QED BY <1>1, <2>1 DEF SwitchesInv, SwitchTypes, Permitted
  <1>4. CASE TheAlerts!Reopen
    <2>1. /\ browser' = browser /\ permission' = browser
          /\ enabled' = (browser = "granted" /\ kept.enabled) /\ sound' = kept.sound
          /\ kept' = [kept EXCEPT !.enabled = enabled']
          /\ ~asking' /\ asking' \in BOOLEAN /\ socket' = "away" /\ wantedOn' = enabled'
          /\ ~changed' /\ changed' \in BOOLEAN /\ ~silent' /\ silent' \in BOOLEAN
      BY <1>4 DEF TheAlerts!Reopen
    <2>2. PICK b \in BOOLEAN : b <=> browser = "granted" /\ kept.enabled
      OBVIOUS
    <2>3. enabled' = b
      BY <1>1, <2>1, <2>2 DEF SwitchTypes
    <2>4. kept' \in [enabled : BOOLEAN, sound : BOOLEAN] /\ kept'.enabled = b
          /\ kept'.sound = kept.sound
      BY <1>1, <2>1, <2>3 DEF SwitchTypes
    <2>5. SwitchTypes'
      BY <1>1, <2>1, <2>3, <2>4 DEF SwitchTypes
    <2>6. Permitted'
      BY <1>1, <2>1, <2>2, <2>3, <2>4 DEF Permitted
    <2> QED BY <2>5, <2>6 DEF SwitchesInv
  <1> QED BY <1>2, <1>3, <1>4

\* The socket, and a message that comes on it: while nothing was changed behind the dashboard
\* the user is told as he wants it.
LEMMA SocketSwitches ==
  ASSUME SwitchesInv,
         \/ TheAlerts!Token \/ TheAlerts!Connect \/ TheAlerts!Closed \/ TheAlerts!Message
  PROVE  SwitchesInv'
  <1>1. SwitchTypes /\ Permitted
    BY DEF SwitchesInv
  <1>2. UNCHANGED <<browser, permission, enabled, sound, kept, asking, wantedOn, changed>>
    BY DEF TheAlerts!Token, TheAlerts!Connect, TheAlerts!Closed, TheAlerts!Message,
       TheAlerts!others
  <1>3. CASE TheAlerts!Token \/ TheAlerts!Connect \/ TheAlerts!Closed
    <2>1. silent' = silent /\ socket' \in {"open", "away", "token"}
      BY <1>3 DEF TheAlerts!Token, TheAlerts!Connect, TheAlerts!Closed
    <2> QED BY <1>1, <1>2, <2>1 DEF SwitchesInv, SwitchTypes, Permitted
  <1>4. CASE TheAlerts!Message
    <2>1. /\ silent' = (silent \/ (wantedOn /\ ~TheAlerts!Notified)
                          \/ (kept.sound /\ ~TheAlerts!Sounded))
          /\ socket' = socket
      BY <1>4 DEF TheAlerts!Message
    <2>2. PICK b \in BOOLEAN : b <=> silent \/ (wantedOn /\ ~TheAlerts!Notified)
                                       \/ (kept.sound /\ ~TheAlerts!Sounded)
      OBVIOUS
    <2>3. silent' = b
      BY <1>1, <2>1, <2>2 DEF SwitchTypes
    <2>4. ~changed => ~b
      BY <1>1, <2>2 DEF SwitchTypes, Permitted, TheAlerts!Notified, TheAlerts!Sounded
    <2> QED BY <1>1, <1>2, <2>1, <2>3, <2>4 DEF SwitchesInv, SwitchTypes, Permitted
  <1> QED BY <1>3, <1>4

LEMMA NextAlerts == AlertsInv /\ [TheAlerts!Next]_alerts => AlertsInv'
  <1> SUFFICES ASSUME subject \in Subjects, ToastsInv, SwitchesInv, [TheAlerts!Next]_alerts
               PROVE  subject' \in Subjects /\ ToastsInv' /\ SwitchesInv'
    BY DEF AlertsInv
  <1> USE DEF TheAlerts!popups, TheAlerts!switches
  <1>1. CASE UNCHANGED alerts
    BY <1>1, ToastsStand, SwitchesStand DEF alerts
  <1>2. ASSUME \/ \E key \in Keys :
                    \/ TheAlerts!Tell(key)
                    \/ \E i \in 1..MaxHeld : TheAlerts!Ends(i, key)
               \/ \E id \in 1..MaxIds : TheAlerts!Dismiss(id)
               \/ TheAlerts!Start
        PROVE  subject' \in Subjects /\ ToastsInv' /\ SwitchesInv'
    <2>1. ToastsInv'
      BY <1>2, TellToasts, EndsToasts, DismissToasts, StartToasts
    <2>2. UNCHANGED subject /\ UNCHANGED TheAlerts!switches
      BY <1>2 DEF TheAlerts!Tell, TheAlerts!Ends, TheAlerts!Dismiss, TheAlerts!Start
    <2> QED BY <2>1, <2>2, SwitchesStand
  <1>3. ASSUME \/ TheAlerts!Toggle \/ TheAlerts!Answered \/ TheAlerts!ToggleSound
               \/ TheAlerts!Elsewhere \/ TheAlerts!Reopen \/ TheAlerts!Token
               \/ TheAlerts!Connect \/ TheAlerts!Closed \/ TheAlerts!Message
        PROVE  subject' \in Subjects /\ ToastsInv' /\ SwitchesInv'
    <2>1. SwitchesInv'
      BY <1>3, ToggleSwitches, AnsweredSwitches, OtherSwitches, SocketSwitches
    <2>2. UNCHANGED subject /\ UNCHANGED TheAlerts!popups
      BY <1>3 DEF TheAlerts!Toggle, TheAlerts!Answered, TheAlerts!ToggleSound,
         TheAlerts!Elsewhere, TheAlerts!Reopen, TheAlerts!Token, TheAlerts!Connect,
         TheAlerts!Closed, TheAlerts!Message, TheAlerts!others
    <2> QED BY <2>1, <2>2, ToastsStand
  <1> QED BY <1>1, <1>2, <1>3 DEF TheAlerts!Next

--------------------------------------------------------------------------------
(* The dashboard: a step of one part leaves the others as they are.               *)

WebInv ==
  /\ ListInv /\ CrmInv /\ FrameInv /\ ComposerInv
  /\ ViewportInv /\ VirtualInv /\ AlertsInv /\ SettingsInv

LEMMA InitWeb == MCInit => WebInv
  BY InitList, InitCrm, InitFrame, InitComposer, InitViewport, InitVirtual, InitAlerts, InitSettings
     DEF MCInit, WebInv

LEMMA StepOfPart ==
  [MCNext]_all =>
    /\ [Next]_vars /\ [TheCrm!Next]_crm /\ [Frame!Next]_frame /\ [TheComposer!Next]_composer
    /\ [TheViewport!Next]_viewport /\ [Virtual!Next]_virtual /\ [TheAlerts!Next]_alerts
    /\ [TheSettings!Next]_settings
  BY DEF MCNext, all

LEMMA NextWeb == WebInv /\ [MCNext]_all => WebInv'
  <1> SUFFICES ASSUME WebInv, [MCNext]_all PROVE WebInv'
    OBVIOUS
  <1>1. ListInv' /\ CrmInv' /\ FrameInv' /\ ComposerInv'
    BY StepOfPart, NextList, NextCrm, NextFrame, NextComposer DEF WebInv
  <1>2. ViewportInv' /\ VirtualInv' /\ AlertsInv' /\ SettingsInv'
    BY StepOfPart, NextViewport, NextVirtual, NextAlerts, NextSettings DEF WebInv
  <1> QED BY <1>1, <1>2 DEF WebInv

LEMMA AlwaysWeb == MCSpec => []WebInv
  BY InitWeb, NextWeb, PTL DEF MCSpec

\* What the dashboard keeps has the types that its components give it: the list, the CRM, the
\* frame, the composer, the timeline, the lists of rows, the toasts and switches, the settings.
THEOREM WebTypes == MCSpec => []TypesOK
  <1>1. WebInv => TypesOK
    BY ComposerInvImplies, SettingsInvImplies, AlertsInvImplies
       DEF WebInv, ListInv, CrmInv, FrameInv, ViewportInv, VirtualInv, TypesOK
  <1> QED BY <1>1, AlwaysWeb, PTL

\* A list of conversations that was scrolled to its end, with nothing under way, has every
\* conversation of the session (loadSessionConversationsPage, and the handler of the events), but
\* for those with a message whose event was lost or did not reach the pages.
THEOREM PagesAreComplete == MCSpec => []PagesComplete
  <1>1. WebInv => PagesComplete
    BY PagesInvImplies DEF WebInv
  <1> QED BY <1>1, AlwaysWeb, PTL

\* When no call and no event of the CRM is under way, the panel shows what the server has, whatever
\* calls overlapped, unless an event got lost, or a failure or a late answer brought back what had
\* been changed meanwhile.
THEOREM CrmIsTheServers == MCSpec => []CrmAgrees
  <1>1. WebInv => CrmAgrees
    BY CrmInvImplies DEF WebInv, CrmAgrees
  <1> QED BY <1>1, AlwaysWeb, PTL

\* What the user does stays done: the session chosen last stays selected while the overview is
\* loaded again and again, and a view that is forbidden is left (WorkspaceKept); nothing is
\* published twice or shown after it was revoked (SettingsKept); every toast goes, and the switches
\* stay as they were set (AlertsKept).
THEOREM FrameIsKept == MCSpec => []FrameKept
  <1>1. WebInv => FrameKept
    BY SettingsInvImplies, AlertsInvImplies DEF WebInv, FrameInv, FrameKept
  <1> QED BY <1>1, AlwaysWeb, PTL

\* What the user writes belongs to the conversation he wrote it in, and the quick replies he is
\* offered are not old (ComposerKept); the timeline stays where he reads while messages come above
\* and below (ViewportKept); every row of a list that is in view is rendered (RowsShown).
THEOREM ScreenIsKept == MCSpec => []ScreenKept
  <1>1. WebInv => ScreenKept
    BY ComposerInvImplies, ViewportInvImplies, VirtualInvImplies DEF WebInv, ScreenKept
  <1> QED BY <1>1, AlwaysWeb, PTL

--------------------------------------------------------------------------------
(* The loader of the overview is a Refresher.                                     *)

LEMMA AsksStep ==
  ASSUME TypeOK, Asks
  PROVE  OverviewLoader!Next
  <1>1. load \in [phase : Phases, saw : [Conversations -> Times]]
    BY DEF TypeOK
  <1>2. CASE load.phase = "idle"
    <2>1. load' = [load EXCEPT !.phase = "asked"] /\ again' = again
      BY <1>2 DEF Asks
    <2>2. load'.phase # "idle"
      BY <1>1, <2>1
    <2> QED BY <1>2, <2>1, <2>2 DEF OverviewLoader!Next, OverviewLoader!Start
  <1>3. CASE load.phase # "idle"
    <2>1. load' = load /\ again' = TRUE
      BY <1>3 DEF Asks
    <2> QED BY <1>3, <2>1 DEF OverviewLoader!Next, OverviewLoader!Join
  <1> QED BY <1>2, <1>3

LEMMA FinishesStep ==
  ASSUME TypeOK, load.phase # "idle", Finishes
  PROVE  OverviewLoader!Next
  <1>1. again \in BOOLEAN
    BY DEF TypeOK
  <1>2. load'.phase = (IF again THEN "asked" ELSE "idle") /\ again' = FALSE
    BY DEF Finishes
  <1>3. (load'.phase # "idle") = again
    BY <1>1, <1>2
  <1> QED BY <1>2, <1>3 DEF OverviewLoader!Next, OverviewLoader!Finish

LEMMA OverviewStep == TypeOK /\ [Next]_vars => [OverviewLoader!Next]_(OverviewLoader!vars)
  <1> SUFFICES ASSUME TypeOK, [Next]_vars PROVE [OverviewLoader!Next]_(OverviewLoader!vars)
    OBVIOUS
  <1> DEFINE Same == UNCHANGED <<load.phase # "idle", again>>
  <1>1. Same => [OverviewLoader!Next]_(OverviewLoader!vars)
    BY DEF OverviewLoader!vars
  <1>2. CASE UNCHANGED vars
    BY <1>1, <1>2 DEF vars, lists
  <1>3. ASSUME \/ Poll \/ Refresh
               \/ \E c \in Conversations : Open(c) \/ ReadFails(c)
        PROVE  OverviewLoader!Next
    BY <1>3, AsksStep DEF Poll, Refresh, Open, ReadFails
  <1>4. ASSUME Land \/ LoadFails PROVE OverviewLoader!Next
    BY <1>4, FinishesStep DEF Land, LoadFails
  <1>5. CASE Serve
    BY <1>1, <1>5 DEF Serve
  <1>6. ASSUME \/ \E c \in Conversations : Arrives(c) \/ ReadServed(c) \/ MessagesLand(c)
               \/ Turn \/ Deliver
               \/ FirstPage \/ NextPage \/ PageServed \/ PageLands \/ PageFails
        PROVE  UNCHANGED <<load, again>>
    BY <1>6 DEF Arrives, ReadServed, MessagesLand, Turn, Deliver, FirstPage, NextPage, PageServed,
       PageLands, PageFails, lists
  <1>7. UNCHANGED <<load, again>> => Same
    OBVIOUS
  <1> HIDE DEF Same
  <1> QED BY <1>1, <1>2, <1>3, <1>4, <1>5, <1>6, <1>7 DEF Next

\* loadOverview runs at most one request, and whoever asks while one is out gets a run that starts
\* after it ended, also when it failed: every step is a step of Refresher, or none.
THEOREM OverviewIsSingleFlight == MCSpec => OverviewJoined
  <1>1. WebInv /\ [MCNext]_all => [OverviewLoader!Next]_(OverviewLoader!vars)
    BY StepOfPart, OverviewStep DEF WebInv, ListInv
  <1> QED BY <1>1, AlwaysWeb, PTL DEF MCSpec, OverviewJoined
================================================================================
