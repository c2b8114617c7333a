----------------------------- MODULE ConversationList ---------------------------
(***************************************************************************)
(* The conversations the web dashboard lists                               *)
(* (src/apps/web/src/components/dashboard-client.tsx): the overview, which *)
(* is loaded again and again, and the pages of the selected session, which *)
(* are loaded once as the user scrolls and then kept by events alone.      *)
(*                                                                         *)
(* A conversation is known by the time of its last message, 0 when it has  *)
(* none.  The server's unread counts are always zero (no code of wa-core   *)
(* raises one), so a badge is what the browser has counted itself.         *)
(***************************************************************************)
EXTENDS Naturals, Sequences, FiniteSetsExt

CONSTANTS
  Conversations,
  Nil,
  PageSize,     \* CONVERSATION_PAGE_SIZE
  MaxTime,      \* bound: messages, those of the beginning included
  MaxEvents,    \* bound: events under way to the browser
  MaxFailures,  \* bound: requests that fail
  Habits        \* bound: what happens besides messages: "open", "scroll"

ASSUME ListAssumption ==
  /\ IsFiniteSet(Conversations) /\ Nil \notin Conversations
  /\ {PageSize, MaxTime, MaxEvents} \subseteq Nat \ {0}
  /\ MaxFailures \in Nat
  /\ Habits \subseteq {"open", "scroll"}

VARIABLES
  habit,      \* the one of Habits this behaviour has
  at,         \* the server: the time of the last message
  wire,       \* events under way on the WebSocket
  failures,
  overview,   \* overview.conversations: the time, and whether there is a badge
  load,       \* overviewLoadInFlightRef, and what the server answered
  again,      \* overviewRefreshQueuedRef
  booked,     \* refreshTimer
  open,       \* activeConversationId
  visible,    \* document.visibilityState
  reading,    \* requests to mark a conversation as read
  fetching,   \* requests for the messages of a conversation
  page,       \* sessionConversationPages of the selected session
  request,    \* the request for a page, and what the server answered
  missed      \* history: conversations with a message whose event got lost, or came when
              \* the first page had not been loaded

lists == <<overview, load, again, booked>>
users == <<open, visible, reading, fetching>>
pages == <<page, request, missed>>
vars == <<habit, at, wire, failures, lists, users, pages>>

Times == 0..MaxTime
Phases == {"idle", "asked", "answered"}
Kinds == {"message", "chat"}

Entry == [at : Times, badge : BOOLEAN]
Page == [list : SUBSET Conversations, cursor : Times, more : BOOLEAN, loaded : BOOLEAN]
Request == [phase : Phases, append : BOOLEAN, list : SUBSET Conversations, cursor : Times,
            more : BOOLEAN]
NoRequest == [phase |-> "idle", append |-> FALSE, list |-> {}, cursor |-> 0, more |-> FALSE]

TypeOK ==
  /\ habit \in Habits
  /\ at \in [Conversations -> Times]
  /\ wire \in Seq([kind : Kinds, of : Conversations, at : Times]) /\ Len(wire) <= MaxEvents
  /\ failures \in 0..MaxFailures
  /\ overview \in [Conversations -> Entry]
  /\ \A c \in Conversations : overview[c].at = 0 => ~overview[c].badge
  /\ load \in [phase : Phases, saw : [Conversations -> Times]]
  /\ {again, booked, visible} \subseteq BOOLEAN
  /\ again => load.phase # "idle"
  /\ open \in Conversations \cup {Nil}
  /\ reading \subseteq Conversations /\ fetching \subseteq Conversations
  /\ page \in Page /\ request \in Request /\ missed \subseteq Conversations

Nothing == [c \in Conversations |-> 0]

Loaded(saw) == [c \in Conversations |-> [at |-> saw[c], badge |-> FALSE]]

\* The dashboard opens: some conversations are there, and the overview is asked for.
Init ==
  /\ habit \in Habits
  /\ at \in [Conversations -> Times]
  /\ \A c, d \in Conversations : at[c] = at[d] => (c = d \/ at[c] = 0)
  /\ {at[c] : c \in Conversations} \ {0} = 1..Cardinality({at[c] : c \in Conversations} \ {0})
  /\ wire = <<>> /\ failures = 0
  /\ overview = Loaded(Nothing)
  /\ load = [phase |-> "asked", saw |-> Nothing]
  /\ again = FALSE /\ booked = FALSE
  /\ open = Nil /\ visible = TRUE /\ reading = {} /\ fetching = {}
  /\ page = [list |-> {}, cursor |-> 0, more |-> TRUE, loaded |-> FALSE]
  /\ request = NoRequest
  /\ missed = {}

\* isConversationActivelyViewed
ActivelyViewed(c) == open = c /\ visible

Now == Max({at[c] : c \in Conversations})

\* areOverviewsEquivalent. The mutant does not compare the times.
EquivalentSets(old, new) == \A c \in Conversations : old[c].at > 0 <=> new[c].at > 0
Equivalent(old, new) == old = new

\* Its badge goes.
Unbadged(c) == [overview EXCEPT ![c].badge = FALSE]

-----------------------------------------------------------------------------
(* The server and the socket.                                                *)

\* Somebody writes; the event is sent, or lost while the socket is away or full.
Arrives(c) ==
  /\ Now < MaxTime
  /\ at' = [at EXCEPT ![c] = Now + 1]
  /\ \/ /\ Len(wire) < MaxEvents
        /\ \E kind \in Kinds : wire' = Append(wire, [kind |-> kind, of |-> c, at |-> Now + 1])
        /\ UNCHANGED missed
     \/ missed' = missed \cup {c} /\ UNCHANGED wire
  /\ UNCHANGED <<habit, failures, lists, users, page, request>>

-----------------------------------------------------------------------------
(* The overview.                                                             *)

\* loadOverview
Asks ==
  IF load.phase = "idle"
  THEN load' = [load EXCEPT !.phase = "asked"] /\ UNCHANGED again
  ELSE again' = TRUE /\ UNCHANGED load

\* The finally of loadOverview.
Finishes ==
  /\ load' = [phase |-> IF again THEN "asked" ELSE "idle", saw |-> Nothing]
  /\ again' = FALSE

Serve ==
  /\ load.phase = "asked"
  /\ load' = [phase |-> "answered", saw |-> at]
  /\ UNCHANGED <<habit, at, wire, failures, overview, again, booked, users, pages>>

\* The answer replaces the overview, whatever events have changed in it meanwhile.
Land ==
  LET new == Loaded(load.saw) IN
  /\ load.phase = "answered"
  /\ overview' = IF Equivalent(overview, new) THEN overview ELSE new
  /\ Finishes
  /\ UNCHANGED <<habit, at, wire, failures, booked, users, pages>>

LoadFails ==
  /\ load.phase = "asked" /\ failures < MaxFailures
  /\ failures' = failures + 1
  /\ Finishes
  /\ UNCHANGED <<habit, at, wire, overview, booked, users, pages>>

\* The interval of the conversations view: 60 s, or 8 s without the socket.
Poll ==
  /\ Asks
  /\ UNCHANGED <<habit, at, wire, failures, overview, booked, users, pages>>

\* The timer of scheduleOverviewRefresh.
Refresh ==
  /\ booked /\ booked' = FALSE
  /\ Asks
  /\ UNCHANGED <<habit, at, wire, failures, overview, users, pages>>

-----------------------------------------------------------------------------
(* The user.                                                                 *)

\* openConversation: its messages are asked for, it is marked as read, and loadOverview,
\* which has a new closure, runs again.
Open(c) ==
  /\ habit = "open"
  /\ c # open /\ overview[c].at > 0
  /\ open' = c /\ fetching' = fetching \cup {c}
  /\ IF visible
     THEN reading' = reading \cup {c} /\ overview' = Unbadged(c)
     ELSE UNCHANGED <<reading, overview>>
  /\ Asks
  /\ UNCHANGED <<habit, at, wire, failures, booked, visible, pages>>

\* visibilitychange
Turn ==
  /\ habit = "open"
  /\ visible' = ~visible
  /\ IF visible' /\ open # Nil
     THEN reading' = reading \cup {open} /\ overview' = Unbadged(open)
     ELSE UNCHANGED <<reading, overview>>
  /\ UNCHANGED <<habit, at, wire, failures, load, again, booked, open, fetching, pages>>

\* POST .../read is answered; what it says is not looked at.
ReadServed(c) ==
  /\ c \in reading /\ reading' = reading \ {c}
  /\ UNCHANGED <<habit, at, wire, failures, lists, open, visible, fetching, pages>>

ReadFails(c) ==
  /\ c \in reading /\ reading' = reading \ {c}
  /\ failures < MaxFailures /\ failures' = failures + 1
  /\ Asks
  /\ UNCHANGED <<habit, at, wire, overview, booked, open, visible, fetching, pages>>

\* loadMessages has got the messages, of the open conversation or of one that was.
MessagesLand(c) ==
  /\ c \in fetching /\ fetching' = fetching \ {c}
  /\ overview' = Unbadged(c)
  /\ UNCHANGED <<habit, at, wire, failures, load, again, booked, open, visible, reading, pages>>

-----------------------------------------------------------------------------
(* The pages of the selected session.                                        *)

\* What comes after the cursor; no cursor is 0.
After(cursor) == {c \in Conversations : at[c] > 0 /\ (cursor = 0 \/ at[c] < cursor)}

Newest(set) ==
  {c \in set : Cardinality({d \in set : at[d] > at[c]}) < PageSize}

\* The effect of the conversations view: until a page has come it asks for the first.
FirstPage ==
  /\ habit = "scroll"
  /\ ~page.loaded /\ request.phase = "idle"
  /\ request' = [NoRequest EXCEPT !.phase = "asked"]
  /\ page' = [page EXCEPT !.list = {}, !.cursor = 0]
  /\ UNCHANGED <<habit, at, wire, failures, lists, users, missed>>

\* handleConversationListScroll
NextPage ==
  /\ habit = "scroll"
  /\ page.loaded /\ page.more /\ request.phase = "idle"
  /\ request' = [NoRequest EXCEPT !.phase = "asked", !.append = TRUE, !.cursor = page.cursor]
  /\ UNCHANGED <<habit, at, wire, failures, lists, users, page, missed>>

\* ListChatsPageBySession: one more than the limit is read to see whether there are more.
PageServed ==
  LET rest == After(request.cursor)  some == Newest(rest) IN
  /\ request.phase = "asked"
  /\ request' = [request EXCEPT !.phase = "answered", !.list = some, !.more = (some # rest),
                                !.cursor = IF some = rest THEN 0 ELSE Min({at[c] : c \in some})]
  /\ UNCHANGED <<habit, at, wire, failures, lists, users, page, missed>>

\* dedupeConversations
Joined(old, new) == old \cup new

PageLands ==
  /\ request.phase = "answered"
  /\ page' = [list |-> Joined(IF request.append THEN page.list ELSE {}, request.list),
              cursor |-> request.cursor, more |-> request.more, loaded |-> TRUE]
  /\ request' = NoRequest
  /\ UNCHANGED <<habit, at, wire, failures, lists, users, missed>>

PageFails ==
  /\ request.phase = "asked" /\ failures < MaxFailures
  /\ failures' = failures + 1
  /\ request' = NoRequest
  /\ UNCHANGED <<habit, at, wire, lists, users, page, missed>>

-----------------------------------------------------------------------------
(* onmessage of the WebSocket.                                               *)

\* applyRealtimeMessageToOverview
Heard(c, time) ==
  [overview EXCEPT ![c] = [at |-> time, badge |-> ~ActivelyViewed(c)]]

\* applyRealtimeMessageToSessionConversationPages. Faulty variant: not while a page is loading.
PageHearsIdle(c) ==
  IF page.loaded /\ request.phase = "idle" THEN [page EXCEPT !.list = page.list \cup {c}] ELSE page
PageHears(c) ==
  IF page.loaded THEN [page EXCEPT !.list = page.list \cup {c}] ELSE page

Message(e) ==
  /\ overview' = Heard(e.of, e.at)
  /\ page' = PageHears(e.of)
  /\ missed' = IF page.loaded THEN missed ELSE missed \cup {e.of}
  /\ reading' = IF ActivelyViewed(e.of) THEN reading \cup {e.of} ELSE reading
  /\ UNCHANGED booked

\* chat.new, or a message.new without a message to show: the overview is loaded, and the
\* pages learn nothing.
Chat(e) ==
  /\ booked' = TRUE
  /\ missed' = missed \cup {e.of}
  /\ UNCHANGED <<overview, page, reading>>

Deliver ==
  LET e == Head(wire) IN
  /\ wire # <<>> /\ wire' = Tail(wire)
  /\ IF e.kind = "message" THEN Message(e) ELSE Chat(e)
  /\ UNCHANGED <<habit, at, failures, load, again, open, visible, fetching, request>>

-----------------------------------------------------------------------------
Next ==
  \/ \E c \in Conversations :
       Arrives(c) \/ Open(c) \/ ReadServed(c) \/ ReadFails(c) \/ MessagesLand(c)
  \/ Serve \/ Land \/ LoadFails \/ Poll \/ Refresh \/ Turn \/ Deliver
  \/ FirstPage \/ NextPage \/ PageServed \/ PageLands \/ PageFails

\* Intervals fire and requests are answered.
Fairness == WF_vars(Poll) /\ WF_vars(Serve) /\ WF_vars(Land)

Spec == Init /\ [][Next]_vars /\ Fairness

-----------------------------------------------------------------------------
\* allSessionConversations: what the view lists of the selected session, when nothing is
\* searched for or left out.
Listed == IF page.loaded THEN page.list ELSE {c \in Conversations : overview[c].at > 0}

\* A list scrolled to its end has every conversation of the session, although conversations
\* move to the front from page to page, but for those with a message whose event was lost
\* or did not reach the pages: nothing ever loads these again.
PagesComplete ==
  (page.loaded /\ ~page.more /\ request.phase = "idle" /\ wire = <<>>) =>
    \A c \in Conversations : at[c] > 0 => c \in Listed \cup missed

\* When messages cease the overview comes to show what the server has, and keeps it,
\* whatever the socket has lost and whichever answer came before an event.
OverviewSettles == <>[](\A c \in Conversations : overview[c].at = at[c])
================================================================================
