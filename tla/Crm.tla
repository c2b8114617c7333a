---------------------------------- MODULE Crm ----------------------------------
(***************************************************************************)
(* What the web dashboard shows of the CRM                                 *)
(* (src/apps/web/src/components/dashboard-client.tsx): the kanban stage    *)
(* and the profile of a contact, the boards and the labels, the users who  *)
(* may sign in, and the quick replies.                                     *)
(*                                                                         *)
(* The server has one copy, which several people change, and the browser   *)
(* another.  Stages and profiles are changed in the browser first and put  *)
(* back when the server refuses; the lists are loaded again after a        *)
(* change.  The server tells every browser of a change in an event that    *)
(* carries the stage or the profile, or that says to load the list again;  *)
(* of users it tells nothing.  A behaviour is about one of the six.        *)
(***************************************************************************)
EXTENDS Naturals, Sequences, FiniteSets

CONSTANTS
  Calls,       \* bound: requests of this browser in flight
  Items,       \* bound: boards or labels ever made
  MaxChanges,  \* bound: changes the server makes
  MaxEvents    \* bound: events under way to the browser

VARIABLES
  about,    \* "stage", "profile", "boards", "labels", "users" (the active ones) or "replies"
  server,
  local,    \* contactKanbanStageMap, contactCrmProfileMap, customContactsBoards, contactLabels
  active,   \* activeContactsBoard: the board that is open; none for one that is built in
  wire,     \* events under way on the WebSocket, each with what the server had by then
  call,
  used,     \* the items that have been made
  changes,  \* how many changes the server has made
  upset     \* history: an event got lost; a failure put back, or an answer brought, what
            \* the server no longer had; or a new board was gone before it was loaded

vars == <<about, server, local, active, wire, call, used, changes, upset>>

Lists == {"boards", "labels", "users", "replies"}

Stages == {"none", "new", "won"}
Profiles == [tags : BOOLEAN, notes : BOOLEAN]

Values(kind) == CASE kind = "stage" -> Stages
                  [] kind = "profile" -> Profiles
                  [] OTHER -> SUBSET Items

\* What somebody who has never loaded anything has.
Empty(kind) == CASE kind = "stage" -> "none"
                 [] kind = "profile" -> [tags |-> FALSE, notes |-> FALSE]
                 [] OTHER -> {}

\* kind: what is asked of the server; item: the board or label; to: the value it shall have;
\* back: what the browser is to have if it fails, or after a board is removed; saw: what a
\* GET was answered with; crossed: the server has changed since it had what the browser had
\* at the call, or since a GET was answered; open: the board was open at the call.
Call == [kind : {"none", "put", "post", "contact", "delete", "get"}, phase : {"asked", "answered"},
         item : SUBSET Items, to : Values(about), back : Values(about), saw : Values(about),
         crossed : BOOLEAN, open : BOOLEAN]

Blank(kind) == [kind |-> "none", phase |-> "asked", item |-> {}, to |-> Empty(kind),
                back |-> Empty(kind), saw |-> Empty(kind), crossed |-> FALSE, open |-> FALSE]
NoCall == Blank(about)
Get == [NoCall EXCEPT !.kind = "get"]

TypeOK ==
  /\ about \in Lists \cup {"stage", "profile"}
  /\ server \in Values(about) /\ local \in Values(about)
  /\ active \subseteq Items /\ (active # {} => about = "boards" /\ active \subseteq local)
  /\ wire \in Seq(Values(about)) /\ Len(wire) <= MaxEvents
  /\ call \in [Calls -> Call]
  /\ used \subseteq Items /\ changes \in 0..MaxChanges /\ upset \in BOOLEAN

\* The dashboard has just opened and asks for what there is.  A board of one's own that was
\* open at the last visit is closed again, the boards not being there yet.
Init ==
  /\ about \in Lists \cup {"stage", "profile"}
  /\ server = Empty(about) /\ local = Empty(about) /\ active = {}
  /\ wire = <<>> /\ used = {} /\ changes = 0 /\ upset = FALSE
  /\ \E c \in Calls :
       call = [d \in Calls |-> IF d = c THEN [Blank(about) EXCEPT !.kind = "get"] ELSE Blank(about)]

Free(c) == call[c].kind = "none"

\* The effects of a new list: a board that is not in it is left.
Opens(board) ==
  active' = IF about = "boards" /\ ~(board \subseteq local') THEN {} ELSE board

Ends(c) == call' = [call EXCEPT ![c] = NoCall]

\* The calls after the server has changed: all that are out have been crossed.
Crossed(calls) ==
  [c \in Calls |-> IF calls[c].kind = "none" \/ (calls[c].kind = "get" /\ calls[c].phase = "asked")
                   THEN calls[c] ELSE [calls[c] EXCEPT !.crossed = TRUE]]

-----------------------------------------------------------------------------
(* The server, and the others who use it.                                    *)

\* It stores the value and tells the browsers, this one too unless the event gets lost.
Stores(value) ==
  /\ changes < MaxChanges /\ changes' = changes + 1
  /\ server' = value
  /\ \/ about # "users" /\ Len(wire) < MaxEvents /\ wire' = Append(wire, value) /\ UNCHANGED upset
     \/ upset' = TRUE /\ UNCHANGED wire

\* A profile changes field by field, a list by an item.
Near(value) == CASE about = "stage" -> Stages \ {"none"}
                 [] about = "profile" -> {[value EXCEPT !.tags = ~value.tags],
                                          [value EXCEPT !.notes = ~value.notes]}
                 [] OTHER -> {value \cup {i} : i \in Items \ used} \cup {value \ {i} : i \in value}

\* Somebody else makes a change.
Elsewhere ==
  /\ \E value \in Near(server) \ {server} :
       /\ Stores(value)
       /\ used' = IF about \in Lists THEN used \cup value ELSE used
  /\ call' = Crossed(call)
  /\ UNCHANGED <<about, local, active>>

Outcome(k) == CASE k.kind = "put" -> k.to
                [] k.kind = "contact" -> k.to
                [] k.kind = "post" -> server \cup k.item
                [] k.kind = "delete" -> server \ k.item

\* A change of this browser reaches the server.
Serve(c) ==
  LET k == call[c] IN
  /\ k.kind \notin {"none", "get"} /\ k.phase = "asked"
  /\ Stores(Outcome(k))
  /\ call' = [Crossed(call) EXCEPT ![c] = [k EXCEPT !.phase = "answered"]]
  /\ UNCHANGED <<about, local, active, used>>

GetServed(c) ==
  /\ call[c].kind = "get" /\ call[c].phase = "asked"
  /\ call' = [call EXCEPT ![c].phase = "answered", ![c].saw = server]
  /\ UNCHANGED <<about, server, local, active, wire, used, changes, upset>>

-----------------------------------------------------------------------------
(* Stages and profiles.                                                      *)

\* Optimistic: the browser has the value at once, and remembers what it had.
Puts(c, value) ==
  /\ Free(c) /\ value # local
  /\ local' = value
  /\ call' = [call EXCEPT ![c] = [NoCall EXCEPT !.kind = "put", !.to = value, !.back = local,
                                              !.crossed = (local # server)]]
  /\ UNCHANGED <<about, server, active, wire, used, changes, upset>>

\* moveContactToStage, after a card was dropped on a column.
Move(c) == about = "stage" /\ \E stage \in Stages \ {"none"} : Puts(c, stage)

\* saveContactCRMProfile sends every field, the ones that did not change as the browser
\* has them; so does toggleConversationContactLabel.
Save(c) == about = "profile" /\ \E value \in Near(local) : Puts(c, value)

\* Faulty variant: a refused change stays on the screen.
PutsBackNothing(c) == UNCHANGED local /\ upset' = (upset \/ call[c].crossed)

\* The catch: the value of the time of the call, whatever has come since.
PutsBack(c) == local' = call[c].back /\ upset' = (upset \/ call[c].crossed)

\* createManualContact
AddContact(c) ==
  /\ about = "stage" /\ Free(c) /\ server = "none"
  /\ \E stage \in Stages \ {"none"} :
       call' = [call EXCEPT ![c] = [NoCall EXCEPT !.kind = "contact", !.to = stage]]
  /\ UNCHANGED <<about, server, local, active, wire, used, changes, upset>>

-----------------------------------------------------------------------------
(* Lists.                                                                    *)

\* createContactsBoard, saveContactLabel, submitQuickReplyForm, submitNewUser; a user who
\* was there before is made active again by submitUserUpdate.
Create(c) ==
  /\ about \in Lists /\ Free(c)
  /\ \E i \in Items \ (IF about = "users" THEN local ELSE used) :
       /\ used' = used \cup {i}
       /\ call' = [call EXCEPT ![c] = [NoCall EXCEPT !.kind = "post", !.item = {i}]]
  /\ UNCHANGED <<about, server, local, active, wire, changes, upset>>

\* removeContactsBoard, deleteContactLabel, confirmDeleteQuickReply, and submitUserUpdate,
\* which makes a user inactive.
Remove(c) ==
  /\ about \in Lists /\ Free(c)
  /\ \E i \in local :
       /\ call' = [call EXCEPT ![c] = [NoCall EXCEPT !.kind = "delete", !.item = {i},
                                                     !.back = local \ {i},
                                                     !.crossed = (local # server),
                                                     !.open = (active = {i})]]
       /\ active' = active \ {i}
  /\ UNCHANGED <<about, server, local, wire, used, changes, upset>>

\* activateContactsBoard
Activate(board) ==
  /\ about = "boards" /\ board \subseteq local /\ board # active
  /\ active' = board
  /\ UNCHANGED <<about, server, local, wire, call, used, changes, upset>>

\* removeContactsBoard sets the list it has computed at the call.
Removed(c) ==
  /\ local' = call[c].back /\ upset' = (upset \/ call[c].crossed)
  /\ Opens(active)
  /\ Ends(c)

\* Settings ask for the list again.
AskAgain(c) ==
  /\ about \in Lists \ {"boards"} /\ Free(c)
  /\ call' = [call EXCEPT ![c] = Get]
  /\ UNCHANGED <<about, server, local, active, wire, used, changes, upset>>

\* What the answer brings is put into the list at once.
Takes(k) ==
  local' = CASE about \in {"users", "replies"} /\ k.kind = "post" -> local \cup k.item
             [] about = "users" /\ k.kind = "delete" -> local \ k.item
             [] OTHER -> local

\* Another change is followed by a GET; a new board is put into the list if it is not there.
Reloads(c) ==
  /\ Takes(call[c])
  /\ call' = [call EXCEPT ![c] = [Get EXCEPT !.item = IF call[c].kind = "post" /\ about = "boards"
                                                      THEN call[c].item ELSE {}]]
  /\ UNCHANGED <<active, upset>>

-----------------------------------------------------------------------------
(* Answers.                                                                  *)

\* A change has been made.
Done(c) ==
  LET k == call[c] IN
  /\ k.kind \notin {"none", "get"} /\ k.phase = "answered"
  /\ IF k.kind = "put" THEN Ends(c) /\ UNCHANGED <<local, active, upset>>
     ELSE IF k.kind = "delete" /\ about = "boards" THEN Removed(c)
     ELSE Reloads(c)
  /\ UNCHANGED <<about, server, wire, used, changes>>

\* The request fails, before it reached the server or after.
Fails(c) ==
  LET k == call[c] IN
  /\ k.kind \notin {"none", "get"}
  /\ IF k.kind = "put"
     THEN IF k.phase = "asked" THEN PutsBack(c) ELSE local' = k.back /\ upset' = TRUE
     ELSE UNCHANGED <<local, upset>>
  /\ Opens(IF k.open THEN k.item ELSE active)
  /\ Ends(c)
  /\ UNCHANGED <<about, server, wire, used, changes>>

\* loadContactKanbanStages, loadContactCRMProfiles, loadContactBoards, loadContactLabels,
\* loadWorkspaceUsers, loadQuickRepliesList: the answer replaces what is there, however
\* late it is.
GetLands(c) ==
  LET k == call[c] IN
  /\ k.kind = "get" /\ k.phase = "answered"
  /\ local' = IF about = "boards" THEN k.saw \cup k.item ELSE k.saw
  /\ Opens(IF k.item # {} THEN k.item ELSE active)
  /\ upset' = (k.crossed \/ local' # k.saw \/ (upset /\ wire # <<>>))
  /\ Ends(c)
  /\ UNCHANGED <<about, server, wire, used, changes>>

\* Nobody asks again.
GetFails(c) ==
  /\ call[c].kind = "get"
  /\ upset' = TRUE
  /\ Ends(c)
  /\ UNCHANGED <<about, server, local, active, wire, used, changes>>

\* onmessage: the stage or the profile is taken over, a list is loaded. The last event
\* makes up for those lost before.
Deliver ==
  /\ wire # <<>> /\ wire' = Tail(wire)
  /\ IF about \in Lists
     THEN /\ \E c \in Calls : Free(c) /\ call' = [call EXCEPT ![c] = Get]
          /\ UNCHANGED <<local, upset>>
     ELSE /\ local' = Head(wire)
          /\ upset' = (upset /\ (Head(wire) # server \/ Len(wire) > 1))
          /\ UNCHANGED call
  /\ UNCHANGED <<about, server, active, used, changes>>

-----------------------------------------------------------------------------
Next ==
  \/ \E c \in Calls :
       \/ Move(c) \/ Save(c) \/ AddContact(c) \/ Create(c) \/ Remove(c) \/ AskAgain(c)
       \/ Serve(c) \/ Done(c) \/ Fails(c) \/ GetServed(c) \/ GetLands(c) \/ GetFails(c)
  \/ \E board \in {{}} \cup {{i} : i \in Items} : Activate(board)
  \/ Elsewhere \/ Deliver

Spec == Init /\ [][Next]_vars

-----------------------------------------------------------------------------
\* When nothing is under way the browser shows what the server has, whatever people and
\* requests overlapped, unless an event got lost, or a failure or a late answer brought
\* back what had been changed meanwhile.
CrmAgrees == (wire = <<>> /\ \A c \in Calls : Free(c)) => (local = server \/ upset)
================================================================================
