--------------------------------- MODULE Alerts ---------------------------------
(***************************************************************************)
(* How the web dashboard draws attention: the toasts, the switches of the  *)
(* browser's notifications and of the sound, and who is told of a message  *)
(* (src/apps/web/src/components/dashboard-client.tsx).                     *)
(*                                                                         *)
(* pushToast knows the toasts of the rendering it was made in: an action   *)
(* that waits for a request pushes its toast with what it knew at the      *)
(* click.  The socket belongs to an effect that depends on the switches:   *)
(* with a switch it is closed, and another is opened.                      *)
(***************************************************************************)
EXTENDS Naturals, Sequences, FiniteSets, SequencesExt

CONSTANTS
  Keys,     \* buildToastKey: what tells toasts apart
  MaxIds,   \* bound: toasts ever made
  MaxHeld,  \* bound: actions that have their toast to come
  Subjects  \* bound: what a behaviour is about: "toasts", "switches"

VARIABLES
  subject,
  toasts,      \* as shown, the newest last
  lastId,      \* toastIdRef
  timers,      \* toastTimersRef
  held,        \* actions under way: the toasts that they know
  stale,       \* history: the keys pushed by an action that did not know the toasts as they were
  browser,     \* Notification.permission
  permission,  \* notificationPermission
  enabled,     \* notificationsEnabled
  sound,       \* soundEnabled
  kept,        \* localStorage: the two switches
  asking,      \* calls that wait for requestPermission
  socket,      \* "open", "away", or "token": a token for it has been asked for
  wanted,      \* history: what the user has made of the switch of the notifications
  changed,     \* history: the permission was changed outside of the dashboard
  silent       \* history: a message came to the dashboard, and the user was not told as he wants

popups == <<toasts, lastId, timers, held, stale>>
switches == <<browser, permission, enabled, sound, kept, asking, socket, wanted, changed,
              silent>>
vars == <<subject, popups, switches>>

Permissions == {"default", "granted", "denied"}
Toast == [key : Keys, id : 1..MaxIds]
Ids == {toasts[i].id : i \in DOMAIN toasts}

TypeOK ==
  /\ subject \in Subjects
  /\ toasts \in Seq(Toast) /\ Len(toasts) <= 3
  /\ lastId \in 0..MaxIds /\ timers \subseteq 1..lastId
  /\ Len(held) <= MaxHeld /\ \A i \in DOMAIN held : held[i] \subseteq Toast
  /\ stale \subseteq Keys
  /\ browser \in Permissions /\ permission \in Permissions
  /\ {enabled, sound, wanted, changed, silent} \subseteq BOOLEAN
  /\ kept \in [enabled : BOOLEAN, sound : BOOLEAN]
  /\ asking \in BOOLEAN /\ socket \in {"open", "away", "token"}

\* The dashboard opens with what is stored; without the permission notifications are off.
Init ==
  /\ subject \in Subjects
  /\ toasts = <<>> /\ lastId = 0 /\ timers = {} /\ held = <<>> /\ stale = {}
  /\ browser \in Permissions /\ permission = browser
  /\ enabled \in (IF browser = "granted" THEN BOOLEAN ELSE {FALSE})
  /\ sound \in BOOLEAN
  /\ kept = [enabled |-> enabled, sound |-> sound]
  /\ asking = FALSE /\ socket = "away"
  /\ wanted = enabled /\ changed = FALSE /\ silent = FALSE

-----------------------------------------------------------------------------
(* Toasts.                                                                   *)

Known == {toasts[i] : i \in DOMAIN toasts}

LastTwo(seq) == IF Len(seq) <= 2 THEN seq ELSE SubSeq(seq, Len(seq) - 1, Len(seq))

\* The toasts with other ids, in their order: there are never more than three.
Spared(i, id) == IF i \in DOMAIN toasts /\ toasts[i].id # id THEN <<toasts[i]>> ELSE <<>>
Without(id) == Spared(1, id) \o Spared(2, id) \o Spared(3, id)

\* Faulty variant: the timer of a toast that is shown again is cleared, and none is started.
PushUntimed(key, known) ==
  LET same == {t \in known : t.key = key}
      id == IF same = {} THEN lastId + 1 ELSE (CHOOSE t \in same : TRUE).id
  IN
  /\ lastId' = IF same = {} THEN id ELSE lastId
  /\ toasts' = Append(LastTwo(Without(id)), [key |-> key, id |-> id])
  /\ timers' = IF same = {} THEN timers \cup {id} ELSE timers \ {id}

\* pushToast: a toast of the same key is shown again, as the newest; of the others the last
\* two stay.
Push(key, known) ==
  LET same == {t \in known : t.key = key}
      id == IF same = {} THEN lastId + 1 ELSE (CHOOSE t \in same : TRUE).id
  IN
  /\ lastId' = IF same = {} THEN id ELSE lastId
  /\ toasts' = Append(LastTwo(Without(id)), [key |-> key, id |-> id])
  /\ timers' = timers \cup {id}

\* Something is to be told at once.
Tell(key) ==
  /\ subject = "toasts" /\ lastId < MaxIds
  /\ Push(key, Known)
  /\ UNCHANGED <<subject, held, stale, switches>>

\* executeAction waits for a request, and tells how it went.
Start ==
  /\ subject = "toasts" /\ Len(held) < MaxHeld
  /\ held' = Append(held, Known)
  /\ UNCHANGED <<subject, toasts, lastId, timers, stale, switches>>

Ends(i, key) ==
  /\ i \in DOMAIN held /\ lastId < MaxIds
  /\ Push(key, held[i])
  /\ held' = RemoveAt(held, i)
  /\ stale' = IF \E t \in Known \ held[i] : t.key = key THEN stale \cup {key} ELSE stale
  /\ UNCHANGED <<subject, switches>>

\* dismissToast, by its timer or the user; a toast that was pushed out has a timer, too.
Dismiss(id) ==
  /\ id \in timers \/ id \in Ids
  /\ timers' = timers \ {id}
  /\ toasts' = Without(id)
  /\ UNCHANGED <<subject, lastId, held, stale, switches>>

-----------------------------------------------------------------------------
(* The switches.                                                             *)

\* The effects: without the permission, as the dashboard knows it, notifications go off
\* again; the switches are stored; and the socket is that of a new effect, unless neither
\* they nor the permission have changed.
Effects(on, allowed, loud) ==
  /\ enabled' = (on /\ allowed = "granted") /\ permission' = allowed /\ sound' = loud
  /\ kept' = [enabled |-> enabled', sound |-> sound']
  /\ socket' = IF on = enabled /\ allowed = permission /\ loud = sound THEN socket ELSE "away"

\* toggleBrowserNotifications, up to the request for the permission.
Toggle ==
  /\ subject = "switches"
  /\ IF enabled
     THEN Effects(FALSE, permission, sound) /\ wanted' = FALSE /\ UNCHANGED asking
     ELSE CASE browser = "denied" -> /\ Effects(FALSE, "denied", sound)
                                     /\ UNCHANGED <<wanted, asking>>
            [] browser = "granted" -> /\ Effects(TRUE, permission, sound)
                                      /\ wanted' = TRUE /\ UNCHANGED asking
            [] browser = "default" -> /\ asking' = TRUE
                                      /\ UNCHANGED <<enabled, permission, sound, kept, socket, wanted>>
  /\ UNCHANGED <<subject, popups, browser, changed, silent>>

\* The user answers the browser, or closes its question; every call goes on with that.
Answered ==
  /\ asking /\ asking' = FALSE
  /\ browser' \in IF browser = "default" THEN Permissions ELSE {browser}
  /\ Effects(enabled \/ browser' = "granted", browser', sound)
  /\ wanted' = (wanted \/ browser' = "granted")
  /\ UNCHANGED <<subject, popups, changed, silent>>

\* toggleSoundNotifications
ToggleSound ==
  /\ subject = "switches"
  /\ Effects(enabled, permission, ~sound)
  /\ UNCHANGED <<subject, popups, browser, asking, wanted, changed, silent>>

\* The permission is changed in the settings of the browser.
Elsewhere ==
  /\ subject = "switches"
  /\ browser' \in Permissions \ {browser} /\ changed' = TRUE
  /\ UNCHANGED <<subject, popups, permission, enabled, sound, kept, asking, socket, wanted,
                 silent>>

\* The dashboard is opened again.
Reopen ==
  /\ subject = "switches"
  /\ permission' = browser
  /\ enabled' = (browser = "granted" /\ kept.enabled) /\ sound' = kept.sound
  /\ kept' = [kept EXCEPT !.enabled = enabled']
  /\ asking' = FALSE /\ socket' = "away"
  /\ wanted' = enabled' /\ changed' = FALSE /\ silent' = FALSE
  /\ UNCHANGED <<subject, popups, browser>>

others == <<subject, popups, browser, permission, enabled, sound, kept, asking, wanted, changed>>

\* createWebSocketAuthToken
Token ==
  /\ subject = "switches"
  /\ socket = "away" /\ socket' = "token"
  /\ UNCHANGED <<others, silent>>

\* There is a token, or none, and the socket opens.
Connect ==
  /\ socket = "token" /\ socket' = "open"
  /\ UNCHANGED <<others, silent>>

\* onclose
Closed ==
  /\ socket = "open" /\ socket' = "away"
  /\ UNCHANGED <<others, silent>>

\* maybeShowBrowserNotification, and playNotificationSound, which needs no permission.
Notified == enabled /\ permission = "granted" /\ browser = "granted"
Sounded == sound

\* A message comes to a conversation that the user is not looking at.
Message ==
  /\ socket = "open"
  /\ silent' = (silent \/ (wanted /\ ~Notified) \/ (kept.sound /\ ~Sounded))
  /\ UNCHANGED <<others, socket>>

Next ==
  \/ \E key \in Keys : Tell(key) \/ \E i \in 1..MaxHeld : Ends(i, key)
  \/ \E id \in 1..MaxIds : Dismiss(id)
  \/ Start \/ Toggle \/ Answered \/ ToggleSound \/ Elsewhere \/ Reopen
  \/ Token \/ Connect \/ Closed \/ Message

Spec == Init /\ [][Next]_vars

-----------------------------------------------------------------------------
\* Every toast goes by itself, no two have an id in common, and a text is there twice only
\* when an action that did not know of the first has pushed it again.
ToastsGo ==
  /\ Ids \subseteq timers /\ Cardinality(Ids) = Len(toasts)
  /\ \A s, t \in Known : s.key = t.key => (s = t \/ s.key \in stale)

\* Notifications are as the user has set them, here and when he comes back, unless the
\* permission was changed behind the dashboard.
AsSet == changed \/ (enabled = wanted /\ kept = [enabled |-> enabled, sound |-> sound])

\* Of a message that comes to the dashboard the user is told as he has set it.
Told == changed \/ ~silent

\* What is told is told once, and as the user wants it: ToastsGo, AsSet and Told, with actions
\* that push what they knew, and a question of the browser that is open meanwhile.
AlertsKept == ToastsGo /\ AsSet /\ Told
================================================================================
