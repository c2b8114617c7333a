-------------------------------- MODULE Timeline -------------------------------
(***************************************************************************)
(* The messages of the open conversation in the web dashboard              *)
(* (src/apps/web/src/components/dashboard-client.tsx).                     *)
(*                                                                         *)
(* The browser runs one callback at a time.  A step is a handler with the  *)
(* effects React runs after it, or one end of a request: "asked" is a      *)
(* request on its way to the server, "answered" a response on its way      *)
(* back, so requests overlap with each other, with the events of the       *)
(* WebSocket and with the user, who opens another conversation meanwhile.  *)
(* The i-th message of a conversation is <<conversation, i>>; lists are    *)
(* kept sorted by the code, so a list is a set.                            *)
(***************************************************************************)
EXTENDS Integers, Sequences, FiniteSets

CONSTANTS
  Conversations,
  Nil,
  Page,           \* MESSAGE_FETCH_LIMIT
  OlderPage,      \* MESSAGE_PAGE_SIZE
  MaxMessages,    \* bound: messages of a conversation
  MaxEvents,      \* bound: events under way to the browser
  MaxFailures,    \* bound: requests for messages that fail
  Worlds          \* bound: what happens together besides loads and openings, and how many
                  \* messages each conversation gets at most

ASSUME TimelineAssumption ==
  /\ Nil \notin Conversations
  /\ {Page, OlderPage, MaxMessages, MaxEvents} \subseteq Nat \ {0}
  /\ MaxFailures \in Nat
  /\ Worlds \subseteq
       [has : SUBSET {"arrive", "ack", "socket", "cut", "fail", "turn", "leave", "prefetch",
                      "older", "send", "recover"},
        most : [Conversations -> 0..MaxMessages]]

VARIABLES
  world,      \* the member of Worlds of this behaviour
  stored,     \* the server: how many messages each conversation has
  wire,       \* events under way on the WebSocket
  online,     \* the WebSocket is open
  failures,   \* how many requests have failed
  open,       \* activeTimelineKeyRef: the conversation on the screen
  shown,      \* messages
  shownKey,   \* loadedMessagesConversationKey
  hasOlder,   \* hasOlderMessages
  paging,     \* isLoadingOlderMessages
  spinner,    \* isLoadingMessages
  pending,    \* pendingConversationKey: the skeleton of a conversation just opened
  cache,      \* messageCacheRef
  cacheMore,  \* messageHasOlderRef
  load,       \* messageLoadInFlightRef: the request of loadMessages, per conversation
  again,      \* messageReloadQueuedRef
  prefetch,   \* messagePrefetchRef
  older,      \* requests of loadOlderMessages
  sending,    \* messages the server has taken whose response is under way
  due,        \* timers that will reload a conversation
  recovered,  \* emptyTimelineRecoveryRef
  strayed,    \* history: a response to a send came when another conversation was
              \* open, and the timeline has not been loaded since
  misled,     \* history: hasOlder is the word of another conversation or of a page asked
              \* for before the last load, or there has been no load, or a message that the
              \* last load had left to the older pages has come by itself
  heard,      \* history: how many messages the open conversation had at its last load
  joined      \* history: a conversation was opened while a silent load of it was out

server  == <<world, stored, wire, online, failures>>
screen  == <<open, shown, shownKey, hasOlder, paging, spinner, pending>>
caches  == <<cache, cacheMore, prefetch>>
loaders == <<load, again, due>>
history == <<strayed, misled, joined, heard>>
vars == <<server, screen, caches, loaders, older, sending, recovered, history>>

Messages == Conversations \X (1..MaxMessages)

Counts == 0..MaxMessages

Phases == {"idle", "asked", "answered"}

\* spins: showLoading; clears: a caller's catch will empty the timeline.
Load == [phase : Phases, saw : Counts, spins : BOOLEAN, clears : BOOLEAN]
Idle == [phase |-> "idle", saw |-> 0, spins |-> FALSE, clears |-> FALSE]

Event == [kind : {"new", "ack"}, of : Conversations, n : Counts]

Pages == {Nil} \cup SUBSET (1..MaxMessages)

TypeOK ==
  /\ world \in Worlds
  /\ stored \in [Conversations -> Counts]
  /\ wire \in Seq(Event) /\ Len(wire) <= MaxEvents
  /\ failures \in 0..MaxFailures
  /\ open \in Conversations \cup {Nil} /\ shownKey \in Conversations \cup {Nil}
  /\ pending \in Conversations \cup {Nil}
  /\ shown \subseteq Messages /\ sending \subseteq Messages
  /\ {online, hasOlder, paging, spinner, strayed, misled, joined} \subseteq BOOLEAN
  /\ cache \in [Conversations -> Pages] /\ cacheMore \in [Conversations -> BOOLEAN]
  /\ load \in [Conversations -> Load]
  /\ prefetch \in [Conversations -> Phases \X Counts]
  /\ again \subseteq {c \in Conversations : load[c].phase # "idle"}
  /\ due \subseteq Conversations
  /\ older \subseteq Messages
  /\ recovered \subseteq Conversations \X Counts
  /\ heard \in Counts

Init ==
  /\ world \in Worlds
  /\ stored \in [Conversations -> Counts] /\ \A c \in Conversations : stored[c] <= world.most[c]
  /\ wire = <<>> /\ online = FALSE /\ failures = 0
  /\ open = Nil /\ shownKey = Nil /\ pending = Nil
  /\ shown = {} /\ older = {} /\ sending = {}
  /\ hasOlder = FALSE /\ paging = FALSE /\ spinner = FALSE
  /\ cache = [c \in Conversations |-> Nil]
  /\ cacheMore = [c \in Conversations |-> FALSE]
  /\ load = [c \in Conversations |-> Idle]
  /\ prefetch = [c \in Conversations |-> <<"idle", 0>>]
  /\ again = {} /\ due = {} /\ recovered = {}
  /\ strayed = FALSE /\ misled = FALSE /\ joined = FALSE /\ heard = 0

\* The last messages of a conversation of n messages, and whether it has others.
Newest(n) == {i \in 1..n : i > n - Page}
\* Faulty variant: one message too many is taken for granted.
HasMoreLess(n) == n > Page + 1
HasMore(n) == n > Page

\* The messages before one of them, and whether there are others before these.
Before(i) == {k \in 1..(i - 1) : k >= i - OlderPage}
HasBefore(i) == i - 1 > OlderPage

Of(c, set) == {c} \X set

\* areMessageListsEquivalent: with such a list the timeline is left as it is.
Equivalent(old, new) == old = new

Merged(c, set) == IF cache[c] = Nil THEN set ELSE cache[c] \cup set

-----------------------------------------------------------------------------
(* The server and the socket.                                                *)

Says(kind, c, n) ==
  IF online /\ Len(wire) < MaxEvents
  THEN wire' = Append(wire, [kind |-> kind, of |-> c, n |-> n])
  ELSE UNCHANGED wire

\* Somebody writes to the conversation.
Arrives(c) ==
  /\ "arrive" \in world.has
  /\ stored[c] < world.most[c]
  /\ stored' = [stored EXCEPT ![c] = stored[c] + 1]
  /\ Says("new", c, stored[c] + 1)
  /\ UNCHANGED <<world, online, failures, screen, caches, loaders, older, sending, recovered, history>>

\* A receipt or a reaction: an event that carries no message to show.
Acked(c) ==
  /\ "ack" \in world.has
  /\ stored[c] > 0 /\ online /\ Len(wire) < MaxEvents
  /\ Says("ack", c, 0)
  /\ UNCHANGED <<world, stored, online, failures, screen, caches, loaders, older, sending, recovered,
                 history>>

\* The socket closes with the events it carried; 1.5 s later there is another, and
\* nothing asks for what was missed.
Cut ==
  /\ "cut" \in world.has
  /\ online /\ online' = FALSE /\ wire' = <<>>
  /\ UNCHANGED <<world, stored, failures, screen, caches, loaders, older, sending, recovered, history>>

Reconnect ==
  /\ "socket" \in world.has
  /\ ~online /\ online' = TRUE
  /\ UNCHANGED <<world, stored, wire, failures, screen, caches, loaders, older, sending, recovered,
                 history>>

-----------------------------------------------------------------------------
(* loadMessages.                                                             *)

\* A call of loadMessages, where map is messageLoadInFlightRef.
Asks(c, spins, clears) ==
  IF load[c].phase = "idle"
  THEN /\ load' = [load EXCEPT ![c] = [phase |-> "asked", saw |-> 0, spins |-> spins,
                                       clears |-> clears]]
       /\ UNCHANGED again
  ELSE /\ load' = [load EXCEPT ![c].clears = load[c].clears \/ clears]
       /\ again' = again \cup {c}

\* Faulty variants of the finally: the queued reload is neither started nor forgotten; it is
\* forgotten; the spinner goes on until it has ended, too.
FinishesIdle(c) ==
  /\ load' = [load EXCEPT ![c] = Idle]
  /\ UNCHANGED again
  /\ pending' = IF pending = c THEN Nil ELSE pending
  /\ spinner' = (spinner /\ ~load[c].spins)
FinishesForgetting(c) ==
  /\ load' = [load EXCEPT ![c] = Idle]
  /\ again' = again \ {c}
  /\ pending' = IF pending = c THEN Nil ELSE pending
  /\ spinner' = (spinner /\ ~load[c].spins)
FinishesSpinning(c) ==
  /\ load' = [load EXCEPT ![c] = IF c \in again THEN [Idle EXCEPT !.phase = "asked"] ELSE Idle]
  /\ again' = again \ {c}
  /\ pending' = IF pending = c THEN Nil ELSE pending
  /\ spinner' = (spinner /\ (c \in again \/ ~load[c].spins))

\* The finally of loadMessages.
Finishes(c) ==
  /\ load' = [load EXCEPT ![c] = IF c \in again THEN [Idle EXCEPT !.phase = "asked"] ELSE Idle]
  /\ again' = again \ {c}
  /\ pending' = IF pending = c THEN Nil ELSE pending
  /\ spinner' = (spinner /\ ~load[c].spins)

Serve(c) ==
  /\ load[c].phase = "asked"
  /\ load' = [load EXCEPT ![c].phase = "answered", ![c].saw = stored[c]]
  /\ UNCHANGED <<server, screen, caches, again, due, older, sending, recovered, history>>

\* Faulty variant: what was loaded is merged into what is shown.
LandMerging(c) ==
  LET n == load[c].saw IN
  /\ load[c].phase = "answered"
  /\ cache' = [cache EXCEPT ![c] = Newest(n)]
  /\ cacheMore' = [cacheMore EXCEPT ![c] = HasMore(n)]
  /\ IF open = c
     THEN /\ shownKey' = c /\ shown' = shown \cup Of(c, Newest(n)) /\ hasOlder' = HasMore(n)
          /\ strayed' = FALSE /\ misled' = (\E m \in older : m[1] = c) /\ heard' = n
     ELSE UNCHANGED <<shownKey, shown, hasOlder, strayed, misled, heard>>
  /\ Finishes(c)
  /\ UNCHANGED <<server, open, paging, prefetch, due, older, sending, recovered, joined>>

Land(c) ==
  LET n == load[c].saw IN
  /\ load[c].phase = "answered"
  /\ cache' = [cache EXCEPT ![c] = Newest(n)]
  /\ cacheMore' = [cacheMore EXCEPT ![c] = HasMore(n)]
  /\ IF open = c
     THEN /\ shownKey' = c /\ hasOlder' = HasMore(n)
          /\ shown' = IF Equivalent(shown, Of(c, Newest(n))) THEN shown ELSE Of(c, Newest(n))
          /\ strayed' = FALSE /\ misled' = (\E m \in older : m[1] = c) /\ heard' = n
     ELSE UNCHANGED <<shownKey, shown, hasOlder, strayed, misled, heard>>
  /\ Finishes(c)
  /\ UNCHANGED <<server, open, paging, prefetch, due, older, sending, recovered, joined>>

\* The catch of the effect empties the timeline, whichever is open by then.
Fail(c) ==
  /\ "fail" \in world.has
  /\ load[c].phase = "asked" /\ failures < MaxFailures
  /\ failures' = failures + 1
  /\ IF load[c].clears
     THEN /\ shownKey' = Nil /\ shown' = {} /\ misled' = TRUE
     ELSE UNCHANGED <<shownKey, shown, misled>>
  /\ Finishes(c)
  /\ UNCHANGED <<world, stored, wire, online, open, hasOlder, paging, caches, due, older, sending,
                 recovered, strayed, joined, heard>>

\* Faulty variant: a conversation that is shown is left to the socket.
PollUnshown ==
  /\ open # Nil /\ shownKey # open
  /\ Asks(open, FALSE, FALSE)
  /\ UNCHANGED <<server, screen, caches, due, older, sending, recovered, history>>

\* The interval, every 8 s or 60 s.
Poll ==
  /\ open # Nil
  /\ Asks(open, FALSE, FALSE)
  /\ UNCHANGED <<server, screen, caches, due, older, sending, recovered, history>>

\* A reload booked by an event; the conversation may no longer be the open one.
Due(c) ==
  /\ c \in due /\ due' = due \ {c}
  /\ Asks(c, FALSE, FALSE)
  /\ UNCHANGED <<server, screen, caches, older, sending, recovered, history>>

\* An empty timeline of a conversation that has messages is loaded once more.
Recover ==
  /\ "recover" \in world.has
  /\ open # Nil /\ ~spinner
  /\ shownKey # open \/ shown = {}
  /\ stored[open] > 0 /\ <<open, stored[open]>> \notin recovered
  /\ recovered' = recovered \cup {<<open, stored[open]>>}
  /\ Asks(open, FALSE, FALSE)
  /\ UNCHANGED <<server, screen, caches, due, older, sending, history>>

-----------------------------------------------------------------------------
(* The user.                                                                 *)

\* The effects of a new open conversation: older messages are reset, and it is loaded, with
\* a catch that empties the timeline.
Reset == hasOlder' = FALSE /\ paging' = FALSE
Enters(c) == open' = c /\ Asks(c, TRUE, TRUE)

\* openConversation, with the effects of the new activeConversationId.
Open(c) ==
  /\ c # open
  /\ Enters(c) /\ Reset
  /\ pending' = c
  /\ shownKey' = IF cache[c] = Nil THEN Nil ELSE c
  /\ shown' = IF cache[c] = Nil THEN {} ELSE Of(c, cache[c])
  /\ spinner' = TRUE
  /\ strayed' = FALSE /\ misled' = TRUE /\ heard' = 0
  /\ joined' = (joined \/ (load[c].phase # "idle" /\ ~load[c].spins))
  /\ UNCHANGED <<server, caches, due, older, sending, recovered>>

\* Another conversation becomes the open one without openConversation: the old one
\* has left the list (a filter, a search, the scope), or the view is entered again.
Turn(c) ==
  /\ "turn" \in world.has
  /\ c # open
  /\ Enters(c) /\ Reset
  /\ spinner' = (spinner \/ load[c].phase = "idle")
  /\ misled' = TRUE /\ heard' = 0
  /\ UNCHANGED <<server, shown, shownKey, pending, caches, due, older, sending, recovered,
                 strayed, joined>>

\* The user goes to another view, or no conversation is left in the list.
Leave ==
  /\ "leave" \in world.has
  /\ open # Nil /\ open' = Nil
  /\ shownKey' = Nil /\ shown' = {} /\ hasOlder' = FALSE
  /\ strayed' = FALSE
  /\ UNCHANGED <<server, paging, spinner, pending, caches, loaders, older, sending, recovered,
                 misled, joined, heard>>

\* A neighbour in the list, or a conversation under the pointer.
Prefetch(c) ==
  /\ "prefetch" \in world.has
  /\ cache[c] = Nil /\ prefetch[c][1] = "idle"
  /\ prefetch' = [prefetch EXCEPT ![c] = <<"asked", 0>>]
  /\ UNCHANGED <<server, screen, cache, cacheMore, loaders, older, sending, recovered, history>>

PrefetchServed(c) ==
  /\ prefetch[c][1] = "asked"
  /\ prefetch' = [prefetch EXCEPT ![c] = <<"answered", stored[c]>>]
  /\ UNCHANGED <<server, screen, cache, cacheMore, loaders, older, sending, recovered, history>>

PrefetchLands(c) ==
  LET n == prefetch[c][2] IN
  /\ prefetch[c][1] = "answered"
  /\ cache' = [cache EXCEPT ![c] = Newest(n)]
  /\ cacheMore' = [cacheMore EXCEPT ![c] = HasMore(n)]
  /\ prefetch' = [prefetch EXCEPT ![c] = <<"idle", 0>>]
  /\ UNCHANGED <<server, screen, loaders, older, sending, recovered, history>>

\* loadOlderMessages, once the whole of the loaded timeline is on the screen.
LoadOlder ==
  /\ "older" \in world.has
  /\ open # Nil /\ shownKey = open /\ pending = Nil /\ hasOlder /\ ~paging
  /\ \E first \in shown :
       /\ first[1] = open /\ \A m \in shown : m[1] = open => first[2] <= m[2]
       /\ older' = older \cup {first}
  /\ paging' = TRUE
  /\ UNCHANGED <<server, open, shown, shownKey, hasOlder, spinner, pending, caches, loaders,
                 sending, recovered, history>>

OlderLands(first) ==
  LET c == first[1]  i == first[2] IN
  /\ first \in older /\ older' = older \ {first}
  /\ cacheMore' = [cacheMore EXCEPT ![c] = HasBefore(i)]
  /\ hasOlder' = HasBefore(i)
  /\ misled' = (misled \/ c # open)
  /\ cache' = IF Before(i) = {} THEN cache ELSE [cache EXCEPT ![c] = Merged(c, Before(i))]
  /\ IF Before(i) # {} /\ open = c
     THEN shownKey' = c /\ shown' = shown \cup Of(c, Before(i))
     ELSE UNCHANGED <<shownKey, shown>>
  /\ paging' = FALSE
  /\ UNCHANGED <<server, open, spinner, pending, prefetch, loaders, sending, recovered, strayed,
                 joined, heard>>

OlderFails(first) ==
  /\ "fail" \in world.has
  /\ first \in older /\ failures < MaxFailures
  /\ failures' = failures + 1 /\ older' = older \ {first} /\ paging' = FALSE
  /\ UNCHANGED <<world, stored, wire, online, open, shown, shownKey, hasOlder, spinner, pending, caches,
                 loaders, sending, recovered, history>>

\* A message that the last load of the open conversation had left out, or that a request
\* for older messages is about to bring.
Late(m) == m[1] = open /\ m[2] <= heard /\ m \notin shown

\* sendMessage or sendMedia: the server takes the message.
Send ==
  /\ "send" \in world.has
  /\ open # Nil /\ stored[open] < world.most[open]
  /\ stored' = [stored EXCEPT ![open] = stored[open] + 1]
  /\ Says("new", open, stored[open] + 1)
  /\ sending' = sending \cup {<<open, stored[open] + 1>>}
  /\ UNCHANGED <<world, online, failures, screen, caches, loaders, older, recovered, history>>

\* applyOutgoingMessageUpdate compares the conversation with the one that was open at
\* the time of the call, which it always is.
SendLands(m) ==
  /\ m \in sending /\ sending' = sending \ {m}
  /\ cache' = [cache EXCEPT ![m[1]] = Merged(m[1], {m[2]})]
  /\ shownKey' = m[1] /\ shown' = shown \cup {m}
  /\ strayed' = (strayed \/ m[1] # open) /\ misled' = (misled \/ Late(m))
  /\ Asks(m[1], FALSE, FALSE)
  /\ UNCHANGED <<server, open, hasOlder, paging, spinner, pending, cacheMore, prefetch, due, older,
                 recovered, joined, heard>>

\* onmessage of the WebSocket.
Deliver ==
  LET e == Head(wire) IN
  /\ wire # <<>> /\ wire' = Tail(wire)
  /\ IF e.kind = "new"
     THEN /\ cache' = [cache EXCEPT ![e.of] = Merged(e.of, {e.n})]
          /\ IF open = e.of
             THEN shownKey' = e.of /\ shown' = shown \cup {<<e.of, e.n>>}
             ELSE UNCHANGED <<shownKey, shown>>
          /\ misled' = (misled \/ Late(<<e.of, e.n>>))
          /\ UNCHANGED due
     ELSE /\ due' = IF open = e.of THEN due \cup {e.of} ELSE due
          /\ UNCHANGED <<cache, shownKey, shown, misled>>
  /\ UNCHANGED <<world, stored, online, failures, open, hasOlder, paging, spinner, pending, cacheMore,
                 prefetch, load, again, older, sending, recovered, strayed, joined, heard>>

-----------------------------------------------------------------------------
Next ==
  \/ \E c \in Conversations :
       \/ Arrives(c) \/ Acked(c)
       \/ Serve(c) \/ Land(c) \/ Fail(c) \/ Due(c)
       \/ Open(c) \/ Turn(c)
       \/ Prefetch(c) \/ PrefetchServed(c) \/ PrefetchLands(c)
  \/ \E m \in Messages : OlderLands(m) \/ OlderFails(m) \/ SendLands(m)
  \/ Cut \/ Reconnect \/ Deliver
  \/ Poll \/ Recover \/ Leave \/ LoadOlder \/ Send

\* Requests are answered and intervals fire.
Fairness ==
  /\ \A c \in Conversations : WF_vars(Serve(c)) /\ WF_vars(Land(c))
  /\ WF_vars(Poll)

Spec == Init /\ [][Next]_vars /\ Fairness

-----------------------------------------------------------------------------
Mixed == shownKey = open /\ \E m \in shown : m[1] # open

\* The timeline never stays mixed with messages of another conversation: while it is, a
\* load that replaces it is out, unless a response to a send has come after the user
\* had gone to another conversation.
MixtureHeals == Mixed => (load[open].phase # "idle" \/ strayed)

\* No message is out of reach: each one that the conversation had at its last load is on
\* the screen, or the user is offered the messages before.  The exception is a message that
\* comes late, from the socket or as the response to a send, when the last load has left it
\* to the older pages: loadOlderMessages then asks from it on and steps over the gap.
OlderReachable ==
  (open # Nil /\ shownKey = open /\ ~misled) => (hasOlder \/ Of(open, 1..heard) \subseteq shown)

\* Loading ends with the requests that started it: the skeleton of a conversation that was
\* opened stands for a request of it that is out, and the spinner for a request that will
\* stop it, unless a conversation was opened while a silent load of it was out.
LoadingEnds ==
  /\ pending # Nil => load[pending].phase # "idle"
  /\ spinner => (joined \/ \E c \in Conversations : load[c].spins)

\* With intervals that fire and requests that fail only so often, the open conversation
\* comes to show its newest messages, again and again, whatever the socket loses.
CatchesUp ==
  \A c \in Conversations :
    open = c ~> (open # c \/ (shownKey = c /\ Of(c, Newest(stored[c])) \subseteq shown))
================================================================================
