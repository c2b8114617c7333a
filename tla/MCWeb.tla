---------------------------------- MODULE MCWeb ---------------------------------
(***************************************************************************)
(* Instances of ConversationList, Crm, Workspace, Composer, Viewport,      *)
(* VirtualList, Alerts and Settings for model checking.  These parts of    *)
(* the dashboard share no state, so a behaviour is one of a single part    *)
(* while the others stand still in one of their initial states.  Fairness  *)
(* is that of the list, where the behaviour is one of the list.            *)
(***************************************************************************)
EXTENDS ConversationList

CONSTANTS
  Calls, Items, MaxCrmChanges, MaxCrmEvents,
  Sessions,
  Chats, c1, c2, Queries, None, Texts, MaxChanges, MaxLookups,
  Shown, FetchLimit, MaxMessages, MaxNews,
  RowHeight, Overscan, MaxRows, Heights,
  Keys, MaxIds, MaxHeld, Subjects,
  Urls, MaxLists, Topics

ASSUME WebAssumption ==
  /\ MaxCrmChanges \in Nat /\ MaxCrmEvents \in Nat
  /\ Nil \notin Sessions
  /\ {c1, c2} \subseteq Chats /\ Nil \notin Chats /\ None \in Queries
  /\ MaxChanges \in Nat /\ MaxLookups \in Nat
  /\ FetchLimit \in Nat /\ MaxNews \in Nat
  /\ MaxMessages \in Nat /\ Shown \in 1..MaxMessages
  /\ RowHeight \in Nat \ {0} /\ Overscan \in Nat \ {0}
  /\ MaxRows \in Nat /\ Heights \subseteq Nat \ {0}
  /\ Nil \notin Urls /\ MaxLists \in Nat
  /\ MaxIds \in Nat /\ MaxHeld \in Nat

VARIABLES
  part,
  about, server, local, active, crmWire, call, used, changes, upset,
  cookie, csrf, screen, role, view, going, sessions, made, shown, selected, frameLoad, frameAgain,
  action, wanted,
  way, chat, draft, saving, stored, attached, sending, reply, searching, asked, lookups, results,
  list, told, due, wrote, hasty, lostOffer,
  total, len, limit, more, fetchingOlder, askedOlder, switching, stick, preserve, lock, news, marker,
  read, came, jumped, disturbed, heldLock,
  rows, tall, position, height, top,
  subject, toasts, lastId, timers, held, stale, browser, permission, enabled, sound, kept, asking,
  socket, wantedOn, changed, silent,
  topic, ownRole, section, dialog, status, loading, form, preview, urls, usedUrls, publishing, posts,
  unsure, signedIn, shownIn, expanded, busy, lookedUp, revokes, doubt

crm == <<about, server, local, active, crmWire, call, used, changes, upset>>
frame == <<cookie, csrf, screen, role, view, going, sessions, made, shown, selected, frameLoad,
           frameAgain, action, wanted>>
composer == <<way, chat, draft, saving, stored, attached, sending, reply, searching, asked, lookups,
              results, list, told, due, wrote, hasty, lostOffer>>
viewport == <<total, len, limit, more, fetchingOlder, askedOlder, switching, stick, preserve, lock,
              news, marker, read, came, jumped, disturbed, heldLock>>
virtual == <<rows, tall, position, height, top>>
alerts == <<subject, toasts, lastId, timers, held, stale, browser, permission, enabled, sound, kept,
            asking, socket, wantedOn, changed, silent>>
settings == <<topic, ownRole, section, dialog, status, loading, form, preview, urls, usedUrls,
              publishing, posts, unsure, signedIn, shownIn, expanded, busy, lookedUp, revokes, doubt>>
all == <<vars, crm, frame, composer, viewport, virtual, alerts, settings, part>>

MCWays ==
  {[does |-> "media", chats |-> {c1, c2}, sends |-> 2],
   [does |-> "slash", chats |-> {c1}, sends |-> 1]}

TheCrm == INSTANCE Crm
  WITH wire <- crmWire, MaxChanges <- MaxCrmChanges, MaxEvents <- MaxCrmEvents
Frame == INSTANCE Workspace WITH load <- frameLoad, again <- frameAgain
TheComposer == INSTANCE Composer WITH missed <- lostOffer, Ways <- MCWays
TheViewport == INSTANCE Viewport
  WITH fetching <- fetchingOlder, asked <- askedOlder, held <- heldLock
Virtual == INSTANCE VirtualList WITH at <- position
TheAlerts == INSTANCE Alerts WITH wanted <- wantedOn
TheSettings == INSTANCE Settings
  WITH role <- ownRole, used <- usedUrls, signed <- signedIn, shown <- shownIn, lists <- lookedUp

Parts == {"list", "crm", "frame", "composer", "viewport", "virtual", "alerts", "settings"}

MCInit ==
  /\ part \in Parts
  /\ Init /\ (part = "list" \/ (habit = "open" /\ at = Nothing))
  /\ TheCrm!Init
  /\ part = "crm" \/ (about = "stage" /\ call[CHOOSE c \in Calls : TRUE].kind = "get")
  /\ Frame!Init /\ (part = "frame" \/ sessions = {})
  /\ TheComposer!Init /\ (part = "composer" \/ way.does = "slash")
  /\ TheViewport!Init /\ (part = "viewport" \/ (total = 0 /\ marker = 0))
  /\ Virtual!Init /\ (part = "virtual" \/ (rows = 0 /\ tall = CHOOSE h \in Heights : TRUE))
  /\ TheAlerts!Init
  /\ part = "alerts" \/ (subject = "toasts" /\ browser = "default" /\ sound)
  /\ TheSettings!Init /\ (part = "settings" \/ (topic = "revoke" /\ ownRole = "admin"))

MCNext ==
  /\ UNCHANGED part
  /\ \/ part = "list" /\ Next
        /\ UNCHANGED <<crm, frame, composer, viewport, virtual, alerts, settings>>
     \/ part = "crm" /\ TheCrm!Next
        /\ UNCHANGED <<vars, frame, composer, viewport, virtual, alerts, settings>>
     \/ part = "frame" /\ Frame!Next
        /\ UNCHANGED <<vars, crm, composer, viewport, virtual, alerts, settings>>
     \/ part = "composer" /\ TheComposer!Next
        /\ UNCHANGED <<vars, crm, frame, viewport, virtual, alerts, settings>>
     \/ part = "viewport" /\ TheViewport!Next
        /\ UNCHANGED <<vars, crm, frame, composer, virtual, alerts, settings>>
     \/ part = "virtual" /\ Virtual!Next
        /\ UNCHANGED <<vars, crm, frame, composer, viewport, alerts, settings>>
     \/ part = "alerts" /\ TheAlerts!Next
        /\ UNCHANGED <<vars, crm, frame, composer, viewport, virtual, settings>>
     \/ part = "settings" /\ TheSettings!Next
        /\ UNCHANGED <<vars, crm, frame, composer, viewport, virtual, alerts>>

\* Fairness of ConversationList.
MCFairness ==
  /\ WF_vars(part = "list" /\ Poll)
  /\ WF_vars(part = "list" /\ Serve)
  /\ WF_vars(part = "list" /\ Land)

MCSpec == MCInit /\ [][MCNext]_all /\ MCFairness

\* What stands still needs no looking at.
TypesOK ==
  /\ part = "list" => TypeOK
  /\ part = "crm" => TheCrm!TypeOK
  /\ part = "frame" => Frame!TypeOK
  /\ part = "composer" => TheComposer!TypeOK
  /\ part = "viewport" => TheViewport!TypeOK
  /\ part = "virtual" => Virtual!TypeOK
  /\ part = "alerts" => TheAlerts!TypeOK
  /\ part = "settings" => TheSettings!TypeOK

\* loadOverview runs one request at a time, and whoever asks while one is out gets a run that
\* starts after it, whether it is the interval, the timer of the events or the user that asks,
\* and whether the request fails or not.  The dashboard opens with a request out.
OverviewLoader == INSTANCE Refresher WITH running <- load.phase # "idle"

OverviewJoined == [][OverviewLoader!Next]_(OverviewLoader!vars)

ListSettles == part = "list" => OverviewSettles

CrmAgrees == part = "crm" => TheCrm!CrmAgrees

\* What the user does stays done: WorkspaceKept of the frame, SettingsKept of the settings and
\* AlertsKept of what is told meanwhile.
FrameKept ==
  /\ part = "frame" => Frame!WorkspaceKept
  /\ part = "settings" => TheSettings!SettingsKept
  /\ part = "alerts" => TheAlerts!AlertsKept

\* What he sees and writes stays: ComposerKept of the composer, ViewportKept of the timeline and
\* RowsShown of the lists.
ScreenKept ==
  /\ part = "composer" => TheComposer!ComposerKept
  /\ part = "viewport" => TheViewport!ViewportKept
  /\ part = "virtual" => Virtual!RowsShown
================================================================================
