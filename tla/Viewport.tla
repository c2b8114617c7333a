-------------------------------- MODULE Viewport --------------------------------
(***************************************************************************)
(* What the web dashboard shows of the timeline of the open conversation   *)
(* (src/apps/web/src/components/dashboard-client.tsx): the newest of its   *)
(* loaded messages, the divider before the unread ones, the button that    *)
(* counts what has come below, and the scroll position, which is to stay   *)
(* where it is when older messages come in above.                          *)
(*                                                                         *)
(* Timeline has which messages are loaded; here they are a number, always  *)
(* the newest ones.  A step includes the layout effect that follows it.    *)
(***************************************************************************)
EXTENDS Integers

CONSTANTS
  Shown,        \* INITIAL_VISIBLE_MESSAGE_COUNT and MESSAGE_PAGE_SIZE
  FetchLimit,   \* MESSAGE_FETCH_LIMIT
  MaxMessages,  \* bound: messages of a conversation
  MaxNews       \* bound: messages that come while the user is above

VARIABLES
  total,      \* the messages of the conversation
  len,        \* timelineMessages.length
  limit,      \* visibleMessageCount
  more,       \* hasOlderMessages
  fetching,   \* isLoadingOlderMessages
  asked,      \* requests for older messages: "mine", "stray" when they are of another visit
  switching,  \* pendingConversationKey
  stick,      \* shouldStickToBottomRef
  preserve,   \* preserveScrollOnOlderMessagesRef, and the snapshot
  lock,       \* olderMessagesAutoLoadLockRef
  news,       \* newTimelineMessageCount
  marker,     \* openedUnreadMarker.unreadCount
  read,       \* history: the messages of the conversation that were not unread when it was opened
  came,       \* history: messages have come since
  jumped,     \* history: older messages came in and the position was not restored
  disturbed,  \* history: something else changed the timeline while they were awaited
  held        \* history: the request the lock was taken for has failed, or brought nothing, or
              \* was not made as there is no message, or another conversation was opened

timeline == <<total, len, more, fetching, asked>>
window == <<limit, switching, stick, preserve, lock>>
notes == <<news, marker, read, came>>
history == <<jumped, disturbed, held>>
vars == <<timeline, window, notes, history>>

\* The region the position is in: within 96 pixels of the top, of the bottom, or of both;
\* within 160 pixels of the top; or elsewhere.
Spots == {"top", "bottom", "both", "edge", "middle"}

FirstShown == IF len > limit THEN len - limit ELSE 0

TypeOK ==
  /\ total \in 0..MaxMessages /\ len \in 0..total /\ limit \in Shown..MaxMessages
  /\ {more, fetching, switching, stick, preserve, lock} \subseteq BOOLEAN
  /\ asked \subseteq {"mine", "stray"} /\ (fetching => asked # {})
  /\ news \in 0..MaxNews /\ marker \in 0..MaxMessages /\ read \in 0..MaxMessages
  /\ {came, jumped, disturbed, held} \subseteq BOOLEAN

Least(a, b) == IF a < b THEN a ELSE b

\* Beyond the bound of the messages a limit does not matter.
Capped(n) == Least(n, MaxMessages)

\* A conversation is opened: some of its messages are unread, and some are cached.
Begins ==
  /\ total' \in 0..MaxMessages /\ len' \in 0..Least(total', FetchLimit)
  /\ \E unread \in 0..total' : marker' = unread /\ read' = total' - unread
  /\ came' = FALSE /\ switching' = TRUE

\* The effect of another conversation or view.
Resets ==
  /\ preserve' = FALSE /\ stick' = TRUE /\ limit' = Shown
  /\ more' = FALSE /\ fetching' = FALSE /\ news' = 0

Init ==
  /\ total \in 0..MaxMessages /\ len = 0
  /\ \E unread \in 0..total : marker = unread /\ read = total - unread
  /\ came = FALSE /\ switching = TRUE
  /\ preserve = FALSE /\ stick = TRUE /\ limit = Shown
  /\ more = FALSE /\ fetching = FALSE /\ news = 0
  /\ asked = {} /\ lock = FALSE
  /\ jumped = FALSE /\ disturbed = FALSE /\ held = FALSE

-----------------------------------------------------------------------------
\* Faulty variant: the lock is left to the next scroll.
LaysLocked == preserve' = FALSE /\ UNCHANGED <<lock, held>>

\* The layout effect, when the messages or their number on the screen change: a position
\* that was to be kept is restored; otherwise the bottom is gone to, if the user was there.
Lays ==
  /\ preserve' = FALSE
  /\ lock' = (lock /\ ~preserve) /\ held' = (held /\ ~preserve)

Open ==
  /\ Begins /\ Resets
  /\ asked' = IF asked = {} THEN {} ELSE {"stray"}
  /\ held' = lock /\ jumped' = FALSE /\ disturbed' = FALSE
  /\ UNCHANGED lock

\* The user leaves the conversations and comes back to the one he had; the marker stays.
Return ==
  /\ Resets /\ len' = 0
  /\ held' = lock /\ disturbed' = TRUE
  /\ UNCHANGED <<total, asked, switching, lock, marker, read, came, jumped>>

\* loadMessages has loaded the newest messages, which replace the others.
Land ==
  /\ len' = Least(total, FetchLimit) /\ more' = (total > FetchLimit) /\ switching' = FALSE
  /\ IF len' # len \/ switching THEN Lays /\ disturbed' = TRUE
                                ELSE UNCHANGED <<preserve, lock, held, disturbed>>
  /\ UNCHANGED <<total, fetching, asked, limit, stick, notes, jumped>>

\* Somebody writes; the event shows the message, or is lost.
Arrives ==
  /\ total < MaxMessages /\ total' = total + 1 /\ came' = TRUE
  /\ \/ /\ len' = len + 1
        /\ stick \/ news < MaxNews
        /\ news' = IF stick THEN news ELSE news + 1
        /\ IF switching THEN UNCHANGED <<preserve, lock, held, disturbed>>
                        ELSE Lays /\ disturbed' = TRUE
     \/ UNCHANGED <<len, preserve, lock, news, held, disturbed>>
  /\ UNCHANGED <<more, fetching, asked, limit, switching, stick, marker, read, jumped>>

\* loadOlderMessages; locking is whether the scroll handler has called it.
Older(locking) ==
  /\ stick' = FALSE
  /\ IF FirstShown > 0
     THEN /\ limit' = Capped(limit + Shown)  \* the layout effect restores the position at once
          /\ preserve' = FALSE /\ lock' = FALSE /\ held' = FALSE
          /\ disturbed' = TRUE
          /\ UNCHANGED <<fetching, asked>>
     ELSE /\ preserve' = TRUE /\ lock' = (lock \/ locking)
          /\ IF more /\ ~fetching /\ len > 0
             THEN /\ fetching' = TRUE /\ asked' = asked \cup {"mine"}
                  /\ disturbed' = ("mine" \in asked) /\ held' = FALSE
             ELSE held' = (held \/ len = 0) /\ UNCHANGED <<fetching, asked, disturbed>>
          /\ UNCHANGED limit
  /\ UNCHANGED <<total, len, more, switching, jumped>>

\* handleMessagesScroll; loading is isLoadingMessages, which Timeline has.
Scroll(spot, loading) ==
  LET low == spot \in {"bottom", "both"}
      high == spot \in {"top", "both"}
      free == spot \in {"bottom", "middle"}  \* the lock goes
      loads == high /\ ~lock /\ ~switching /\ ~loading /\ (FirstShown > 0 \/ more)
  IN
  /\ news' = IF low THEN 0 ELSE news
  /\ IF loads
     THEN Older(TRUE)
     ELSE /\ stick' = low
          /\ lock' = (lock /\ ~free) /\ held' = (held /\ ~free)
          /\ UNCHANGED <<timeline, limit, switching, preserve, jumped, disturbed>>
  /\ UNCHANGED <<marker, read, came>>

\* The button above the messages.
Button ==
  /\ ~switching /\ ~fetching /\ (FirstShown > 0 \/ more)
  /\ Older(FALSE)
  /\ UNCHANGED notes

OlderLands(whose) ==
  /\ whose \in asked /\ asked' = asked \ {whose} /\ fetching' = FALSE
  /\ more' \in BOOLEAN
  /\ \/ /\ whose = "mine"
        /\ \E n \in 1..Shown : len + n <= total /\ len' = len + n /\ limit' = Capped(limit + n)
        /\ jumped' = (jumped \/ (~preserve /\ ~disturbed))
        /\ Lays
     \/ /\ held' = lock
        /\ UNCHANGED <<len, limit, jumped, preserve, lock>>
  /\ UNCHANGED <<total, switching, stick, notes, disturbed>>

OlderFails(whose) ==
  /\ whose \in asked /\ asked' = asked \ {whose} /\ fetching' = FALSE
  /\ held' = lock
  /\ UNCHANGED <<total, len, more, window, notes, jumped, disturbed>>

\* jumpToMessage, with enough messages on the screen.
Jump ==
  /\ ~switching /\ len > 0 /\ stick' = FALSE
  /\ \/ /\ FirstShown > 0
        /\ \E i \in 0..(FirstShown - 1) : limit' = Capped(len - i + Shown)
        /\ Lays /\ disturbed' = TRUE
     \/ UNCHANGED <<limit, preserve, lock, held, disturbed>>
  /\ UNCHANGED <<timeline, switching, notes, jumped>>

\* scrollToLatestMessage
ToLatest ==
  /\ news > 0 /\ news' = 0 /\ stick' = TRUE
  /\ UNCHANGED <<timeline, limit, switching, preserve, lock, marker, read, came, history>>

Next ==
  \/ Open \/ Return \/ Land \/ Arrives \/ Button \/ Jump \/ ToLatest
  \/ \E spot \in Spots, loading \in BOOLEAN : Scroll(spot, loading)
  \/ \E whose \in {"mine", "stray"} : OlderLands(whose) \/ OlderFails(whose)

Spec == Init /\ [][Next]_vars

-----------------------------------------------------------------------------
\* The button that counts new messages is not there while the user is at the bottom.
NewsBelow == stick => news = 0

\* Where the divider is among the loaded messages.
Divider == len - Least(marker, len)

\* Until more come, the divider has the messages that were unread below it and the others
\* above; when they are no more than are shown at first, it is on the screen.
DividerKept ==
  /\ (~came /\ len >= total - read) => Divider + total - len = read
  /\ marker <= Shown => Divider >= FirstShown

\* Older messages come in above a position that is restored, unless the timeline has changed
\* in between.
Anchored == ~jumped

\* The scroll handler never waits for nothing: while it is locked a request is out, unless
\* that has failed, or brought nothing, or the user went elsewhere, or nothing is there.
LockReleased == lock => (fetching \/ held)

\* What the user looks at stays, or goes on: NewsBelow, DividerKept, Anchored and LockReleased,
\* however scrolling, arriving messages and requests for older ones follow each other.
ViewportKept == NewsBelow /\ DividerKept /\ Anchored /\ LockReleased
================================================================================
