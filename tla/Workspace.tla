-------------------------------- MODULE Workspace ------------------------------
(***************************************************************************)
(* The frame of the web dashboard: who is signed in, the view on the       *)
(* screen, the selected WhatsApp session, and the actions that make,       *)
(* connect and remove sessions                                             *)
(* (src/apps/web/src/components/dashboard-client.tsx, login-form.tsx and   *)
(* lib/pulse-hub.ts).                                                      *)
(*                                                                         *)
(* The server's session is a cookie; the browser keeps a CSRF token, and   *)
(* the user as the server described him when the dashboard was opened.     *)
(* A step includes the effects React runs after it: the selection effect   *)
(* and the effect that leaves a view the user may not see.  Requests of a  *)
(* dashboard that has been left are not followed up.                       *)
(***************************************************************************)
EXTENDS Naturals, FiniteSets

CONSTANTS
  Sessions,    \* bound: WhatsApp sessions ever made
  Nil

VARIABLES
  cookie,    \* the server: the role of the user signed in, Nil without a session
  csrf,      \* the token in localStorage
  screen,    \* "login", "checking" (GET /auth/me is out) or "dashboard"
  role,      \* authUser
  view,      \* activeView; "settings" stands for the views with restricted access
  going,     \* viewTransition
  sessions,  \* the server's sessions
  made,      \* every session ever made
  shown,     \* overview.sessions
  selected,  \* selectedSessionId
  load,      \* overviewLoadInFlightRef, and what the server answered
  again,     \* overviewRefreshQueuedRef
  action,    \* pendingSessionAction, with what its closure remembers
  wanted     \* history: the session the user has chosen or made last; Nil when none, when
             \* the load its making waited for had begun before, or when a removal answered
             \* after the choice

signed == <<cookie, csrf, screen, role>>
views  == <<view, going>>
lists  == <<shown, selected>>
loader == <<load, again>>
vars == <<signed, views, sessions, made, lists, loader, action, wanted>>

Roles == {"admin", "attendant"}  \* a supervisor sees what an admin does
Views == {"dashboard", "conversations", "settings"}
Phases == {"idle", "asked", "answered"}

\* of: the session; before: what was selected at the call; rest: what the overview had
\* besides it; joined: the load it waits for had begun before the answer.
Action == [kind : {"none", "create", "connect", "delete"}, phase : Phases \cup {"waits"},
           of : Sessions \cup {Nil}, before : Sessions \cup {Nil}, rest : SUBSET Sessions,
           joined : BOOLEAN]
NoAction == [kind |-> "none", phase |-> "idle", of |-> Nil, before |-> Nil, rest |-> {},
             joined |-> FALSE]

\* canAccessWorkspaceView, canManageWorkspaceSessions
Allowed(who) == IF who = "admin" THEN Views ELSE Views \ {"settings"}
Manages == role = "admin"

TypeOK ==
  /\ cookie \in Roles \cup {Nil} /\ csrf \in BOOLEAN /\ role \in Roles \cup {Nil}
  /\ screen \in {"login", "checking", "dashboard"}
  /\ view \in Views /\ going \in Views \cup {Nil}
  /\ sessions \subseteq made /\ made \subseteq Sessions /\ shown \subseteq made
  /\ selected \in shown \cup {Nil}
  /\ load \in [phase : Phases, saw : SUBSET Sessions]
  /\ again \in BOOLEAN /\ (again => load.phase # "idle")
  /\ action \in Action
  /\ wanted \in Sessions \cup {Nil}
  /\ action.phase = "waits" => load.phase # "idle"
  /\ screen # "dashboard" => (action = NoAction /\ load.phase = "idle" /\ shown = {})

Init ==
  /\ cookie = Nil /\ csrf = FALSE /\ screen = "login" /\ role = Nil
  /\ view = "dashboard" /\ going = Nil
  /\ sessions \in SUBSET Sessions /\ made = sessions
  /\ shown = {} /\ selected = Nil
  /\ load = [phase |-> "idle", saw |-> {}] /\ again = FALSE
  /\ action = NoAction /\ wanted = Nil

-----------------------------------------------------------------------------
(* Effects.                                                                  *)

\* The selection effect: what is not in the overview gives way to its first session, and
\* settings opened without a selection to the dashboard.
Selects(session, list, at) ==
  IF session \in list \/ list = {}
  THEN selected' = (IF list = {} THEN Nil ELSE session) /\ view' = at
  ELSE /\ \E first \in list : selected' = first
       /\ view' = IF at = "settings" /\ session = Nil THEN "dashboard" ELSE at

\* Faulty variant: the effect of the view is run when the view changes, not when the role does.
GoesUnlessThere(who, at, to) == IF at = view THEN to ELSE IF at \in Allowed(who) THEN to ELSE "dashboard"

\* The effect of the view: while a view is not for the user's role, the way is to the
\* dashboard.
Goes(who, at, to) == IF at \in Allowed(who) THEN to ELSE "dashboard"

\* The effect of another user: nothing of the last one is selected.
Forgets == selected' = Nil

\* The page of the dashboard goes.
Leaves ==
  /\ screen' = "login" /\ csrf' = FALSE /\ role' = Nil
  /\ view' = "dashboard" /\ going' = Nil
  /\ shown' = {} /\ selected' = Nil
  /\ load' = [phase |-> "idle", saw |-> {}] /\ again' = FALSE
  /\ action' = NoAction /\ wanted' = Nil

-----------------------------------------------------------------------------
(* Signing in and out.                                                       *)

\* signIn and signOutRequest, which may fail.
SignsIn == cookie' \in Roles /\ csrf' = TRUE
SignsOut == cookie' \in {cookie, Nil}

\* The login form; the dashboard opens half a second later, and finds the token.
SignIn ==
  /\ screen = "login"
  /\ SignsIn /\ screen' = "checking"
  /\ UNCHANGED <<role, views, sessions, made, lists, loader, action, wanted>>

\* getCurrentUser
Validated == cookie # Nil

\* GET /auth/me tells who it is, and the overview is asked for.
Checked ==
  /\ screen = "checking" /\ Validated
  /\ role' = cookie /\ screen' = "dashboard"
  /\ load' = [load EXCEPT !.phase = "asked"]
  /\ Forgets
  /\ UNCHANGED <<cookie, csrf, views, sessions, made, shown, again, action, wanted>>

\* It fails, with 401 or otherwise.
CheckFails ==
  /\ screen = "checking"
  /\ Leaves
  /\ UNCHANGED <<cookie, sessions, made>>

\* signOut leaves whether the request succeeds or not.
SignOut ==
  /\ screen = "dashboard"
  /\ SignsOut
  /\ Leaves
  /\ UNCHANGED <<sessions, made>>

\* The session expires or is revoked, or an administrator changes the role.
Elsewhere ==
  /\ cookie # Nil
  /\ cookie' \in (Roles \cup {Nil}) \ {cookie}
  /\ UNCHANGED <<csrf, screen, role, views, sessions, made, lists, loader, action, wanted>>

\* authenticatedFetch gets a 401.
Unauthorized ==
  /\ cookie = Nil
  /\ load.phase = "asked" \/ action.phase = "asked"
  /\ Leaves
  /\ UNCHANGED <<cookie, sessions, made>>

\* updateUser
Updates == cookie = "admin" /\ cookie' = "attendant"

\* submitUserUpdate of the own account.
UpdateOwn ==
  /\ screen = "dashboard" /\ role = "admin"
  /\ Updates /\ role' = "attendant"
  /\ going' = Goes("attendant", view, going)
  /\ UNCHANGED <<csrf, screen, view, sessions, made, lists, loader, action, wanted>>

-----------------------------------------------------------------------------
(* Views.                                                                    *)

\* What the navigation and its keys offer.
Offered == Allowed(role)

\* navigateToView
Navigate(to) ==
  /\ screen = "dashboard" /\ to \in Offered
  /\ to # view \/ going # Nil
  /\ going' = Goes(role, view, to)
  /\ UNCHANGED <<signed, view, sessions, made, lists, loader, action, wanted>>

\* 180 ms later; the effects see the new view.
Arrives ==
  /\ going # Nil
  /\ Selects(selected, shown, going)
  /\ going' = Goes(role, view', Nil)
  /\ UNCHANGED <<signed, sessions, made, shown, loader, action, wanted>>

-----------------------------------------------------------------------------
(* The overview.                                                             *)

\* loadOverview
Asks ==
  IF load.phase = "idle"
  THEN load' = [load EXCEPT !.phase = "asked"] /\ UNCHANGED again
  ELSE again' = TRUE /\ UNCHANGED load

Finishes ==
  /\ load' = [phase |-> IF again THEN "asked" ELSE "idle", saw |-> {}]
  /\ again' = FALSE

\* An interval, an event or a timer.
Refresh ==
  /\ screen = "dashboard" /\ ~again
  /\ Asks
  /\ UNCHANGED <<signed, views, sessions, made, lists, action, wanted>>

Serve ==
  /\ load.phase = "asked" /\ cookie # Nil
  /\ load' = [phase |-> "answered", saw |-> sessions]
  /\ UNCHANGED <<signed, views, sessions, made, lists, again, action, wanted>>

\* A session that was made is selected, and settings opened.
Created ==
  /\ Selects(action.of, load.saw, view)
  /\ going' = Goes(role, view', "settings")
  /\ wanted' = IF action.joined THEN Nil ELSE action.of

\* The answer replaces the overview; whoever has waited for it goes on.
Land ==
  /\ load.phase = "answered"
  /\ shown' = load.saw
  /\ IF action.kind = "create" /\ action.phase = "waits"
     THEN Created
     ELSE /\ Selects(selected, load.saw, view)
          /\ going' = Goes(role, view', going)
          /\ UNCHANGED wanted
  /\ action' = IF action.phase = "waits" THEN NoAction ELSE action
  /\ Finishes
  /\ UNCHANGED <<signed, sessions, made>>

\* Whoever has waited fails with it, although the server has done what was asked.
LoadFails ==
  /\ load.phase = "asked"
  /\ action' = IF action.phase = "waits" THEN NoAction ELSE action
  /\ Finishes
  /\ UNCHANGED <<signed, views, sessions, made, lists, wanted>>

-----------------------------------------------------------------------------
(* Sessions.                                                                 *)

Choose(s) ==
  /\ s \in shown /\ s # selected
  /\ selected' = s /\ wanted' = s
  /\ UNCHANGED <<signed, views, sessions, made, shown, loader, action>>

\* createSession, connectSession, disconnectSession, deleteSession: one at a time.
Act(kind, s) ==
  /\ screen = "dashboard" /\ Manages /\ action = NoAction
  /\ IF kind = "create" THEN s \notin made ELSE s \in shown
  /\ made' = made \cup {s}
  /\ action' = [kind |-> kind, phase |-> "asked", of |-> s, before |-> selected,
                rest |-> shown \ {s}, joined |-> FALSE]
  /\ UNCHANGED <<signed, views, sessions, lists, loader, wanted>>

\* What authFetch sends with a request that changes something.
Accepted == cookie # Nil /\ csrf

ActServed ==
  /\ action.phase = "asked" /\ Accepted
  /\ sessions' = CASE action.kind = "create" -> sessions \cup {action.of}
                   [] action.kind = "delete" -> sessions \ {action.of}
                   [] OTHER -> sessions
  /\ action' = [action EXCEPT !.phase = "answered"]
  /\ UNCHANGED <<signed, views, made, lists, loader, wanted>>

ActFails ==
  /\ action.phase \in {"asked", "answered"}
  /\ action' = NoAction
  /\ UNCHANGED <<signed, views, sessions, made, lists, loader, wanted>>

\* It waits for the load that is out now.
Waits == action' = [action EXCEPT !.phase = "waits", !.joined = (load.phase # "idle")]

\* After the answer the overview is loaded, and the action waits for that load, or for the
\* one that is out.
ActAnswered ==
  /\ action.phase = "answered"
  /\ ~(action.kind = "delete" /\ action.before = action.of)
  /\ Asks /\ Waits
  /\ UNCHANGED <<signed, views, sessions, made, lists, wanted>>

\* A session that was removed when it was selected gives way to the first of the others,
\* as they were at the call, whatever is selected now.
RemovedSelected ==
  LET next == IF action.rest = {} THEN {Nil} ELSE action.rest IN
  /\ action.phase = "answered"
  /\ action.kind = "delete" /\ action.before = action.of
  /\ \E s \in next :
       /\ Selects(s, shown, view)
       /\ going' = Goes(role, view', IF s = Nil THEN "settings" ELSE going)
  /\ wanted' = Nil
  /\ Asks /\ Waits
  /\ UNCHANGED <<signed, sessions, made, shown>>

\* Somebody else makes or removes a session.
Others ==
  /\ \/ \E s \in Sessions \ made : sessions' = sessions \cup {s} /\ made' = made \cup {s}
     \/ \E s \in sessions : sessions' = sessions \ {s} /\ UNCHANGED made
  /\ UNCHANGED <<signed, views, lists, loader, action, wanted>>

-----------------------------------------------------------------------------
Next ==
  \/ SignIn \/ Checked \/ CheckFails \/ SignOut \/ Elsewhere \/ Unauthorized \/ UpdateOwn
  \/ \E to \in Views : Navigate(to)
  \/ Arrives \/ Refresh \/ Serve \/ Land \/ LoadFails
  \/ \E s \in Sessions : Choose(s) \/ \E kind \in {"create", "connect", "delete"} : Act(kind, s)
  \/ ActServed \/ ActFails \/ ActAnswered \/ RemovedSelected \/ Others

Spec == Init /\ [][Next]_vars

-----------------------------------------------------------------------------
\* A view that is not for the user's role is being left, however he came there: by his role
\* being changed, by a session he made, or by going back to it meanwhile.
ForbiddenIsLeft == (screen = "dashboard" /\ view \notin Allowed(role)) => going = "dashboard"

\* The session the user has chosen or made last stays selected as long as it exists,
\* whatever loads of the overview land, unless an overlap noted in wanted has lost it.
WantedIsSelected == wanted \in sessions => selected = wanted

\* What the user does stays done.
WorkspaceKept == ForbiddenIsLeft /\ WantedIsSelected
================================================================================
