-------------------------------- MODULE Settings --------------------------------
(***************************************************************************)
(* The settings of the web dashboard                                       *)
(* (src/apps/web/src/components/dashboard-client.tsx and                   *)
(* lib/pulse-hub.ts): its sections and who may see them, the form that     *)
(* publishes on Instagram, and the sessions a user is signed in with,      *)
(* which an administrator may revoke.                                      *)
(***************************************************************************)
EXTENDS Naturals, FiniteSets

CONSTANTS
  Sessions,  \* the sessions of the user that is looked at
  Urls,      \* bound: blob URLs ever made
  Nil,
  MaxLists,  \* bound: requests for the sessions under way
  Topics     \* bound: what a behaviour is about: "publish", "revoke"

VARIABLES
  topic,
  role,        \* authUser.role
  section,     \* settingsSection
  dialog,      \* showQuickReplyFormModal, as one of those that depend on the role
  status,      \* instagramStatus: whether one is shown; loading: that it is asked for
  loading,
  form,        \* what is filled in: the file, and whether there is a caption
  preview,     \* instagramPreviewUrl, Nil when empty
  urls,        \* the blob URLs that have not been revoked
  used,        \* the blob URLs that were ever made
  publishing,  \* isPublishingInstagram, and how far the request is
  posts,       \* Instagram: how often what is in the form was published
  unsure,      \* history: the answer to a request that published it was lost
  signed,      \* the server: the sessions of the user
  shown,       \* workspaceUserSessionsMap of the user, Nil until it is loaded
  expanded,    \* expandedUserSessionsId is the user
  busy,        \* loadingUserSessionsMap of the user
  lists,       \* requests for the list: what for, and what the server answered
  revokes,     \* requests to revoke a session
  doubt        \* history: a list was asked for while another was, or the answer to a revocation or
               \* the list after it was lost

page == <<role, section, dialog>>
instagram == <<status, loading, form, preview, urls, used, publishing, posts, unsure>>
access == <<signed, shown, expanded, busy, lists, revokes, doubt>>
vars == <<topic, page, instagram, access>>

Roles == {"admin", "supervisor", "attendant"}
Sections == {"sessions", "users", "instagram"}

\* isAdminUser, canManageInstagram
Open(who, s) ==
  CASE s = "users" -> who = "admin"
    [] s = "instagram" -> who \in {"admin", "supervisor"}
    [] OTHER -> TRUE

List == [for : {"view", "revoke"}, answered : BOOLEAN, saw : SUBSET Sessions]
Blank == [file |-> FALSE, caption |-> FALSE]

TypeOK ==
  /\ topic \in Topics /\ role \in Roles /\ section \in Sections
  /\ {dialog, status, loading, unsure, expanded, busy, doubt} \subseteq BOOLEAN
  /\ form \in [file : BOOLEAN, caption : BOOLEAN]
  /\ preview \in Urls \cup {Nil} /\ urls \subseteq used /\ used \subseteq Urls
  /\ publishing \in {"no", "asked", "done", "answered"} /\ posts \in 0..2
  /\ signed \subseteq Sessions /\ (shown = Nil \/ shown \subseteq Sessions)
  /\ lists \subseteq List /\ Cardinality(lists) <= MaxLists
  /\ revokes \subseteq Sessions \X {"asked", "answered"}

Init ==
  /\ topic \in Topics
  /\ role \in Roles /\ section = "sessions" /\ dialog = FALSE
  /\ status = FALSE /\ loading = FALSE /\ form = Blank
  /\ preview = Nil /\ urls = {} /\ used = {}
  /\ publishing = "no" /\ posts = 0 /\ unsure = FALSE
  /\ signed = Sessions /\ shown = Nil /\ expanded = FALSE /\ busy = FALSE
  /\ lists = {} /\ revokes = {} /\ doubt = FALSE

-----------------------------------------------------------------------------
(* The sections.                                                             *)

\* Faulty variant: the section is left alone when the role changes.
SettlesSection(who, s) == role' = who /\ section' = s

\* The effect of a section that is not for the role.
Settles(who, s) == role' = who /\ section' = IF Open(who, s) THEN s ELSE "sessions"

\* The effects of the dialogs of the role.
Closes(who) == dialog' = (dialog /\ who \in {"admin", "supervisor"})

\* The effect of the section asks for its status; without access nothing of it stays.
Asks ==
  /\ loading' = (Open(role', "instagram") /\ (loading \/ section' = "instagram"))
  /\ status' = (status /\ Open(role', "instagram"))

\* A tab is chosen, or a dialog is opened.
Choose(s) ==
  /\ Open(role, s) /\ s # section
  /\ Settles(role, s) /\ Closes(role) /\ Asks
  /\ UNCHANGED <<topic, form, preview, urls, used, publishing, posts, unsure, access>>

Dialog ==
  /\ role # "attendant" /\ dialog' = ~dialog
  /\ UNCHANGED <<topic, role, section, instagram, access>>

\* The administrator edits the own account.
UpdateOwn ==
  /\ role = "admin" /\ section = "users"
  /\ \E who \in Roles \ {"admin"} : Settles(who, section) /\ Closes(who)
  /\ Asks
  /\ UNCHANGED <<topic, form, preview, urls, used, publishing, posts, unsure, access>>

-----------------------------------------------------------------------------
(* Instagram.                                                                *)

\* getInstagramPublishStatus has answered, or failed.
StatusLands ==
  /\ loading /\ loading' = FALSE
  /\ status' \in {status, TRUE}
  /\ UNCHANGED <<topic, page, form, preview, urls, used, publishing, posts, unsure, access>>

\* The effect of the file: its cleanup and the effect revoke the URL before; a file gets a
\* URL of its own.
Previews(file) ==
  IF file
  THEN \E url \in Urls \ used :
         preview' = url /\ urls' = (urls \ {preview}) \cup {url} /\ used' = used \cup {url}
  ELSE preview' = Nil /\ urls' = urls \ {preview} /\ UNCHANGED used

\* The fields are disabled while something is being published.
Fill ==
  /\ topic = "publish" /\ publishing = "no" /\ section = "instagram"
  /\ \E file \in BOOLEAN : Previews(file) /\ form' = [file |-> file, caption |-> form.caption]
  /\ posts' = 0 /\ unsure' = FALSE
  /\ UNCHANGED <<topic, page, status, loading, publishing, access>>

Caption ==
  /\ topic = "publish" /\ publishing = "no" /\ section = "instagram"
  /\ form' = [form EXCEPT !.caption = ~form.caption]
  /\ posts' = 0 /\ unsure' = FALSE
  /\ UNCHANGED <<topic, page, status, loading, preview, urls, used, publishing, access>>

\* Faulty variant: what is being published is not looked at.
PublishAgain ==
  /\ section = "instagram" /\ status /\ ~loading /\ form.file /\ form.caption
  /\ publishing' = "asked"
  /\ UNCHANGED <<topic, page, status, loading, form, preview, urls, used, posts, unsure, access>>

\* submitInstagramPublish: to the feed, with a file and a caption. The button is there with
\* the status of a publisher that is configured.
Publish ==
  /\ section = "instagram" /\ status /\ ~loading /\ form.file /\ form.caption
  /\ publishing = "no" /\ publishing' = "asked"
  /\ UNCHANGED <<topic, page, status, loading, form, preview, urls, used, posts, unsure, access>>

\* The server publishes it.
Published ==
  /\ publishing = "asked" /\ publishing' = "done"
  /\ posts < 2 /\ posts' = posts + 1
  /\ UNCHANGED <<topic, page, status, loading, form, preview, urls, used, unsure, access>>

\* The form is emptied, and the status is asked for once more.
Answered ==
  /\ publishing = "done" /\ publishing' = "answered"
  /\ form' = Blank /\ Previews(FALSE)
  /\ posts' = 0 /\ unsure' = FALSE
  /\ UNCHANGED <<topic, page, status, loading, access>>

\* Its answer is not looked at.
Ended ==
  /\ publishing = "answered" /\ publishing' = "no"
  /\ preview' = Nil /\ urls' = urls \ {preview}
  /\ status' \in {status, TRUE}
  /\ UNCHANGED <<topic, page, loading, form, used, posts, unsure, access>>

\* The request fails, before or after the server has published; the form stays.
Failed ==
  /\ publishing \in {"asked", "done"} /\ publishing' = "no"
  /\ unsure' = (unsure \/ publishing = "done")
  /\ UNCHANGED <<topic, page, status, loading, form, preview, urls, used, posts, access>>

-----------------------------------------------------------------------------
(* The sessions of a user.                                                   *)

\* listUserSessions
Requests(for) ==
  /\ Cardinality(lists) < MaxLists
  /\ lists' = lists \cup {[for |-> for, answered |-> FALSE, saw |-> {}]}
  /\ doubt' = (doubt \/ lists # {})

\* toggleUserSessions: until a list has come every click asks for one.
Toggle ==
  /\ topic = "revoke" /\ section = "users"
  /\ expanded' = ~expanded
  /\ IF shown = Nil
     THEN Requests("view") /\ busy' = TRUE
     ELSE UNCHANGED <<lists, busy, doubt>>
  /\ UNCHANGED <<topic, page, instagram, signed, shown, revokes>>

ListServed(l) ==
  /\ l \in lists /\ ~l.answered
  /\ lists' = (lists \ {l}) \cup {[l EXCEPT !.answered = TRUE, !.saw = signed]}
  /\ UNCHANGED <<topic, page, instagram, signed, shown, expanded, busy, revokes, doubt>>

\* loadUserSessionsForUser and revokeWorkspaceUserSession put in the list they have got.
ListLands(l) ==
  /\ l \in lists /\ l.answered /\ lists' = lists \ {l}
  /\ shown' = l.saw /\ busy' = (busy /\ l.for # "view")
  /\ UNCHANGED <<topic, page, instagram, signed, expanded, revokes, doubt>>

ListFails(l) ==
  /\ l \in lists /\ lists' = lists \ {l}
  /\ busy' = (busy /\ l.for # "view")
  /\ doubt' = (doubt \/ l.for = "revoke")
  /\ UNCHANGED <<topic, page, instagram, signed, shown, expanded, revokes>>

\* revokeWorkspaceUserSession; the button is there while no list is being loaded.
Revoke(s) ==
  /\ section = "users" /\ expanded /\ ~busy /\ shown # Nil /\ s \in shown
  /\ revokes' = revokes \cup {<<s, "asked">>}
  /\ UNCHANGED <<topic, page, instagram, signed, shown, expanded, busy, lists, doubt>>

RevokeServed(s) ==
  /\ <<s, "asked">> \in revokes
  /\ revokes' = (revokes \ {<<s, "asked">>}) \cup {<<s, "answered">>}
  /\ signed' = signed \ {s}
  /\ UNCHANGED <<topic, page, instagram, shown, expanded, busy, lists, doubt>>

\* It is answered, and the list is asked for again.
Revoked(s) ==
  /\ <<s, "answered">> \in revokes /\ revokes' = revokes \ {<<s, "answered">>}
  /\ Requests("revoke")
  /\ UNCHANGED <<topic, page, instagram, signed, shown, expanded, busy>>

\* It is not, as far as the browser knows.
RevokeFails(s) ==
  /\ \E phase \in {"asked", "answered"} :
       /\ <<s, phase>> \in revokes /\ revokes' = revokes \ {<<s, phase>>}
       /\ doubt' = (doubt \/ phase = "answered")
  /\ UNCHANGED <<topic, page, instagram, signed, shown, expanded, busy, lists>>

Next ==
  \/ \E s \in Sections : Choose(s)
  \/ Dialog \/ UpdateOwn \/ StatusLands
  \/ Fill \/ Caption \/ Publish \/ Published \/ Answered \/ Ended \/ Failed
  \/ Toggle
  \/ \E l \in lists : ListServed(l) \/ ListLands(l) \/ ListFails(l)
  \/ \E s \in Sessions : Revoke(s) \/ RevokeServed(s) \/ Revoked(s) \/ RevokeFails(s)

Spec == Init /\ [][Next]_vars

-----------------------------------------------------------------------------
\* Nobody sees a section or a dialog that is not for his role, also when his role changes
\* while he sees it.
OwnSection == Open(role, section) /\ (dialog => role # "attendant")

\* What is filled in is published once, unless an answer was lost and the user tries again:
\* nothing tells the server that it is the same.
PublishedOnce == posts > 1 => unsure

\* The preview is of a URL that has not been revoked, and of the others none is left.
PreviewAlive == urls = {preview} \ {Nil}

\* A session that was revoked is not shown again, unless two lists were asked for at a time,
\* where the answer of the older may come last, or an answer was lost.
RevokedIsGone == (shown # Nil /\ lists = {} /\ revokes = {} /\ ~doubt) => shown \subseteq signed

\* OwnSection, PublishedOnce, PreviewAlive and RevokedIsGone.
SettingsKept == OwnSection /\ PublishedOnce /\ PreviewAlive /\ RevokedIsGone
================================================================================
