-------------------------------- MODULE Composer --------------------------------
(***************************************************************************)
(* The composer of the web dashboard: the text being written, its copy in  *)
(* localStorage, what is being sent, the message being replied to, and the *)
(* quick replies offered after a slash                                     *)
(* (src/apps/web/src/components/dashboard-client.tsx).                     *)
(*                                                                         *)
(* The component is keyed by the conversation: it is mounted afresh when   *)
(* the user goes to another one, and what an earlier one still waits for   *)
(* changes the draft of nobody.  The search of the slash goes through the  *)
(* dashboard, which outlives the composer.                                 *)
(***************************************************************************)
EXTENDS Naturals, FiniteSets

CONSTANTS
  Chats,       \* the conversations
  Queries,     \* what may follow a slash, the empty query included
  None,        \* the empty query, of Queries
  Nil,
  Texts,       \* bound: what is written
  MaxChanges,  \* bound: changes of the quick replies
  MaxLookups,  \* bound: searches under way
  Ways         \* bound: the chats the user visits, the sends under way, and whether he
               \* attaches and replies ("media") or uses quick replies ("slash")

VARIABLES
  way,       \* the one of Ways this behaviour has
  chat,      \* the conversation of the mounted composer, Nil when there is none
  draft,
  saving,    \* draftPersistTimerRef
  stored,    \* localStorage, by draftStorageKey
  attached,  \* selectedAttachment
  sending,   \* what is being sent; here: by the mounted composer
  reply,     \* replyTargetMessage: its conversation
  searching, \* quickReplySearchTimerRef
  asked,     \* composerQuickReplyQueryRef
  lookups,   \* searches under way; latest: of composerQuickReplyRequestIdRef
  results,   \* composerQuickReplyResults: the query and the state of the list they are of
  list,      \* the server: the state of the list
  told,      \* quick_reply.updated events under way
  due,       \* a change made here has its reload to come
  wrote,     \* history: what the user has written in a conversation and not sent
  hasty,     \* history: conversations left within the timer, or while their text was sent
  missed     \* history: the last search failed, or an event was lost after it

texting == <<way, chat, draft, saving, stored, attached, sending, reply, wrote, hasty>>
offers == <<asked, lookups, results, list, told, due, missed>>
vars == <<texting, searching, offers>>

Draft == [text : Texts \cup {Nil}, slash : Queries \cup {Nil}, for : Chats \cup {Nil}]
Empty == [text |-> Nil, slash |-> Nil, for |-> Nil]
Media == {"none", "file", "sticker"}
Result == [query : Queries, saw : 0..MaxChanges]

Busy == \E s \in sending : s.here
Loading == \E l \in lookups : l.latest  \* isLoadingComposerQuickReplies

TypeOK ==
  /\ way \in Ways /\ chat \in Chats \cup {Nil} /\ draft \in Draft
  /\ {saving, searching, due, missed} \subseteq BOOLEAN
  /\ stored \in [Chats -> Draft] /\ wrote \in [Chats -> Draft]
  /\ attached \in Media /\ reply \in Chats \cup {Nil}
  /\ sending \subseteq [of : Chats, draft : Draft, media : Media, here : BOOLEAN]
  /\ Cardinality({s \in sending : s.here}) <= 1
  /\ asked \in Queries /\ results \in Result
  /\ lookups \subseteq [query : Queries, latest : BOOLEAN, answered : BOOLEAN, saw : 0..MaxChanges]
  /\ Cardinality({l \in lookups : l.latest}) <= 1
  /\ list \in 0..MaxChanges /\ told \in 0..MaxChanges
  /\ hasty \subseteq Chats
  /\ chat = Nil => draft = Empty /\ ~saving /\ ~searching /\ ~Busy
  /\ searching => draft.slash # Nil /\ ~Busy
  /\ draft = Empty => ~saving

Lookup(query) == [query |-> query, latest |-> TRUE, answered |-> FALSE, saw |-> 0]

\* The dashboard opens and asks for the quick replies; what earlier visits stored is there.
Init ==
  /\ way \in Ways
  /\ chat = Nil /\ draft = Empty /\ saving = FALSE
  /\ stored = [c \in Chats |-> Empty]
  /\ attached = "none" /\ sending = {} /\ reply = Nil /\ searching = FALSE
  /\ asked = None /\ lookups = {Lookup(None)} /\ results = [query |-> None, saw |-> 0]
  /\ list = 0 /\ told = 0 /\ due = FALSE
  /\ wrote = [c \in Chats |-> Empty] /\ hasty = {} /\ missed = TRUE

-----------------------------------------------------------------------------
(* The draft.                                                                *)

\* The draft effect: an empty one goes from the store at once, another is stored later.
Keeps(new) ==
  /\ draft' = new /\ saving' = (new # Empty)
  /\ stored' = IF new = Empty /\ chat # Nil THEN [stored EXCEPT ![chat] = Empty] ELSE stored

\* Faulty variant: the text of the conversation before is still in the composer.
TakesUpOld(c) ==
  /\ draft' = IF c = Nil THEN Empty ELSE IF chat = Nil THEN stored[c] ELSE draft
  /\ saving' = (draft' # Empty)

\* A composer is mounted with what is stored under its key, or unmounted.
TakesUp(c) ==
  /\ draft' = IF c = Nil THEN Empty ELSE stored[c]
  /\ saving' = (draft' # Empty)

\* The timers go with the composer. Faulty variant: that of the slash stays.
CleanupStore == UNCHANGED searching
Cleanup == searching' = FALSE

\* Another conversation is opened, or the view is left.
Open(c) ==
  /\ c # chat /\ c \in way.chats \cup {Nil}
  /\ chat' = c /\ TakesUp(c)
  /\ attached' = "none" /\ reply' = Nil /\ Cleanup
  /\ sending' = {[s EXCEPT !.here = FALSE] : s \in sending}
  /\ hasty' = IF chat # Nil /\ (Busy \/ draft # stored[chat]) THEN hasty \cup {chat} ELSE hasty
  /\ UNCHANGED <<way, stored, wrote, offers>>

\* The slash effect, while the composer has the focus.
Looks(slash) == searching' = (slash # Nil)

\* A text is written, an emoji or a quick reply is put in, or the slash is taken back.
Write(slash) ==
  /\ chat # Nil /\ ~Busy /\ (slash # Nil => way.does = "slash")
  /\ \/ \E text \in Texts : Keeps([text |-> text, slash |-> slash, for |-> chat])
     \/ slash = Nil /\ Keeps(Empty)
  /\ Looks(slash)
  /\ wrote' = [wrote EXCEPT ![chat] = draft'] /\ hasty' = hasty \ {chat}
  /\ UNCHANGED <<way, chat, attached, sending, reply, offers>>

\* The timer stores the draft.
Save ==
  /\ saving
  /\ stored' = [stored EXCEPT ![chat] = draft] /\ saving' = FALSE
  /\ UNCHANGED <<way, chat, draft, attached, sending, reply, searching, wrote, hasty, offers>>

\* queueAttachment, which a drop reaches while something is being sent, and clearAttachment.
Attach(media) ==
  /\ way.does = "media" /\ chat # Nil /\ media # attached
  /\ media = "none" => ~Busy
  /\ attached' = media
  /\ UNCHANGED <<way, chat, draft, saving, stored, sending, reply, searching, wrote, hasty,
                 offers>>

\* A message to reply to is chosen, or taken back.
Reply ==
  /\ way.does = "media" /\ chat # Nil
  /\ \/ reply' = chat
     \/ ~Busy /\ reply' = Nil
  /\ UNCHANGED <<way, chat, draft, saving, stored, attached, sending, searching, wrote, hasty,
                 offers>>

-----------------------------------------------------------------------------
(* Sending.                                                                  *)

\* submit; with a list of quick replies on the screen, Enter puts one in instead.
Submit ==
  /\ chat # Nil /\ ~Busy
  /\ attached # "none" \/ draft # Empty
  /\ Cardinality(sending) < way.sends
  /\ sending' = sending \cup
       {[of |-> chat, draft |-> draft, media |-> attached, here |-> TRUE]}
  /\ searching' = FALSE
  /\ UNCHANGED <<way, chat, draft, saving, stored, attached, reply, wrote, hasty, offers>>

\* It is sent.  The draft goes, with a sticker too, which has no caption; so does what is
\* replied to, whatever the conversation.
Sent(s) ==
  /\ s \in sending
  /\ sending' = sending \ {s} /\ reply' = Nil
  /\ IF s.here
     THEN /\ Keeps(Empty) /\ wrote' = [wrote EXCEPT ![chat] = Empty]
          /\ attached' = IF s.media = "none" THEN attached ELSE "none"
     ELSE UNCHANGED <<draft, saving, stored, wrote, attached>>
  /\ UNCHANGED <<way, chat, searching, hasty, offers>>

\* It is not, as far as the browser knows: the draft stays, and the slash is looked at again.
NotSent(s) ==
  /\ s \in sending
  /\ sending' = sending \ {s}
  /\ searching' \in IF s.here THEN {FALSE, draft.slash # Nil} ELSE {searching}
  /\ UNCHANGED <<way, chat, draft, saving, stored, attached, reply, wrote, hasty, offers>>

-----------------------------------------------------------------------------
(* The quick replies of the slash.                                           *)

\* loadComposerQuickReplies
Ask(query) ==
  /\ way.does = "slash" /\ Cardinality(lookups) < MaxLookups
  /\ asked' = query
  /\ lookups' = {[l EXCEPT !.latest = FALSE] : l \in lookups} \cup {Lookup(query)}

\* The focus comes or goes.
Focus ==
  /\ chat # Nil /\ ~Busy /\ draft.slash # Nil
  /\ searching' = ~searching
  /\ UNCHANGED <<texting, offers>>

\* The timer of the slash.
Search ==
  /\ searching /\ searching' = FALSE
  /\ Ask(draft.slash)
  /\ UNCHANGED <<texting, results, list, told, due, missed>>

Serve(l) ==
  /\ way.does = "slash" /\ l \in lookups /\ ~l.answered
  /\ lookups' = (lookups \ {l}) \cup {[l EXCEPT !.answered = TRUE, !.saw = list]}
  /\ UNCHANGED <<texting, searching, asked, results, list, told, due, missed>>

\* The answer: only that of the last search counts.
Land(l) ==
  /\ l \in lookups /\ l.answered
  /\ lookups' = lookups \ {l}
  /\ IF l.latest
     THEN results' = [query |-> l.query, saw |-> l.saw] /\ missed' = (missed /\ l.saw # list)
     ELSE UNCHANGED <<results, missed>>
  /\ UNCHANGED <<texting, searching, asked, list, told, due>>

Fails(l) ==
  /\ way.does = "slash" /\ l \in lookups
  /\ lookups' = lookups \ {l}
  /\ missed' = (missed \/ l.latest)
  /\ UNCHANGED <<texting, searching, asked, results, list, told, due>>

\* Somebody saves or removes a quick reply; the event is sent, or lost.
Change ==
  /\ way.does = "slash" /\ list < MaxChanges /\ list' = list + 1
  /\ \/ told' = told + 1 /\ UNCHANGED missed
     \/ missed' = TRUE /\ UNCHANGED told
  /\ due' \in {due, TRUE}
  /\ UNCHANGED <<texting, searching, asked, lookups, results>>

\* quick_reply.updated: the last query is asked again.
Event ==
  /\ told > 0 /\ told' = told - 1
  /\ Ask(asked)
  /\ UNCHANGED <<texting, searching, results, list, due, missed>>

\* submitQuickReplyForm and confirmDeleteQuickReply, once the manager's own list is there.
Reload ==
  /\ due /\ due' = FALSE
  /\ Ask(None)
  /\ UNCHANGED <<texting, searching, results, list, told, missed>>

Next ==
  \/ \E c \in Chats \cup {Nil} : Open(c)
  \/ \E slash \in Queries \cup {Nil} : Write(slash)
  \/ \E media \in Media : Attach(media)
  \/ Save \/ Reply \/ Submit \/ Focus \/ Search \/ Change \/ Event \/ Reload
  \/ \E s \in sending : Sent(s) \/ NotSent(s)
  \/ \E l \in lookups : Serve(l) \/ Land(l) \/ Fails(l)

Spec == Init /\ [][Next]_vars

-----------------------------------------------------------------------------
\* What is written, sent or replied to belongs to the conversation it was written in.
OwnText ==
  /\ draft # Empty => draft.for = chat
  /\ \A s \in sending : s.draft # Empty => s.draft.for = s.of
  /\ reply \in {chat, Nil}

\* What the user has written and not sent is in the composer, or stored for when he comes
\* back, and what he has sent is neither, unless he left within the 220 ms of the timer or
\* while the text was being sent.
DraftsKept ==
  \A c \in Chats \ hasty :
    /\ wrote[c] = IF c = chat THEN draft ELSE stored[c]
    /\ c = chat /\ ~saving => stored[c] = draft

\* Once the last search has ended and its events have come, what is offered answers the
\* last query, with the quick replies as they are.
OffersFresh ==
  ~Loading /\ told = 0 /\ ~missed => results = [query |-> asked, saw |-> list]

\* The composer loses nothing and offers nothing old: OwnText, DraftsKept and OffersFresh,
\* whatever the user leaves while something is under way (lines 1818 to 1841 and 8643 to 8680).
ComposerKept == OwnText /\ DraftsKept /\ OffersFresh
================================================================================
