------------------------------- MODULE LegacyInbox ------------------------------
(***************************************************************************)
(* A conversation of the legacy server: how messages come in from          *)
(* WPPConnect, how they are read, and the cached overview                  *)
(* (src/apps/server/src/whatsapp/whatsapp.service.ts, whatsapp.store.ts    *)
(* and pollNewMessages of engine/wppconnect.engine.ts).                    *)
(*                                                                         *)
(* Nothing is locked: the row of the conversation is read, and later saved *)
(* with an unread count computed from what was read.  A step is one        *)
(* statement or one request, with what Node runs up to the next await;     *)
(* appendMessage is two steps because READ COMMITTED lets another          *)
(* transaction in between its SELECT and its UPDATE.                       *)
(***************************************************************************)
EXTENDS Naturals, FiniteSets

CONSTANTS
  Messages,     \* incoming messages
  Tasks,        \* bound: asynchronous calls in flight
  MaxSends,     \* bound: messages the user sends (a natural number)
  Nil

VARIABLES
  arrived,    \* messages WPPConnect knows
  seen,       \* runtime.seenMessageIds
  conv,       \* the row of the conversation
  stored,     \* messages
  cache,      \* the overview in Redis: the unread count it shows, or Nil
  task,
  sends,
  failed,     \* history: messages whose callback threw
  since,      \* history: messages counted since the conversation was last read
  raced,      \* history: the row was changed between the reading and the saving of a call
  late,       \* history: tasks that read for the overview before the cache was dropped
  stale       \* history: the cached overview is one of those, or a reading has not dropped it

vars == <<arrived, seen, conv, stored, cache, task, sends, failed, since, raced, late, stale>>
history == <<failed, since, raced, late, stale>>

\* A message of the phone's own count may be counted once more when it is polled.
Unread == 0..(2 * Cardinality(Messages))

Row == [there : BOOLEAN, unread : Unread, avatar : BOOLEAN]
NoRow == [there |-> FALSE, unread |-> 0, avatar |-> FALSE]

Awaits == {"free", "poll", "next", "ingest", "avatar", "create", "append", "count", "drop",
           "open", "load", "list", "look", "mark", "zero", "compare",
           "chats", "restore", "send", "out", "outcount", "fill", "cached"}

\* left: what is left of a poll's messages; item: the one being ingested; saw: the row.
Task == [at : Awaits, left : SUBSET Messages, item : Messages \cup {Nil}, saw : Row,
         polls : BOOLEAN]
Free == [at |-> "free", left |-> {}, item |-> Nil, saw |-> NoRow, polls |-> FALSE]

TypeOK ==
  /\ arrived \subseteq Messages /\ seen \subseteq arrived /\ stored \subseteq arrived
  /\ conv \in Row /\ (~conv.there => conv = NoRow)
  /\ cache \in Unread \cup {Nil}
  /\ task \in [Tasks -> Task]
  /\ sends \in 0..MaxSends
  /\ failed \subseteq seen /\ since \in Unread /\ raced \in BOOLEAN
  /\ late \subseteq Tasks /\ stale \in BOOLEAN

Init ==
  /\ arrived = {} /\ seen = {} /\ stored = {}
  /\ conv = NoRow
  /\ cache = Nil
  /\ task = [t \in Tasks |-> Free]
  /\ sends = 0
  /\ failed = {} /\ since = 0 /\ raced = FALSE /\ late = {} /\ stale = FALSE

Quiet == \A t \in Tasks : task[t].at = "free"

Goes(t, at) == task' = [task EXCEPT ![t].at = at]

\* Goes on, having read the row.
Reads(t, at) == task' = [task EXCEPT ![t].at = at, ![t].saw = conv]

Ends(t) == task' = [task EXCEPT ![t] = Free]

\* A row saved over one that has changed since it was read.
Overtakes(t) == raced' = (raced \/ task[t].saw # conv)

\* invalidateOverviewCache; whoever is filling the cache has read too early.
Filling == {t \in Tasks : task[t].at = "cached"}
Invalidates == cache' = Nil /\ stale' = FALSE /\ late' = Filling

-----------------------------------------------------------------------------
(* pollNewMessages and ingestIncomingMessage.                                *)

Poll(t) ==
  /\ task[t].at = "free" /\ Goes(t, "poll")
  /\ UNCHANGED <<arrived, seen, conv, stored, cache, sends, history>>

\* all-new-messages answers.
Polled(t) ==
  /\ task[t].at = "poll"
  /\ task' = [task EXCEPT ![t].at = "next", ![t].left = arrived, ![t].polls = TRUE]
  /\ UNCHANGED <<arrived, seen, conv, stored, cache, sends, history>>

\* Faulty variant: the id is not noted before the callback.
NextMessageLate(t) ==
  /\ task[t].at = "next"
  /\ \/ /\ task[t].left \ seen = {} /\ Ends(t) /\ UNCHANGED seen
     \/ \E m \in task[t].left \ seen :
          /\ UNCHANGED seen
          /\ task' = [task EXCEPT ![t].at = "ingest", ![t].left = task[t].left \ {m},
                                  ![t].item = m]
  /\ UNCHANGED <<arrived, conv, stored, cache, sends, history>>

\* Faulty variant: the ids that were noted are not passed by.
NextMessageBlindly(t) ==
  /\ task[t].at = "next"
  /\ \/ /\ task[t].left = {} /\ Ends(t) /\ UNCHANGED seen
     \/ \E m \in task[t].left :
          /\ seen' = seen \cup {m}
          /\ task' = [task EXCEPT ![t].at = "ingest", ![t].left = task[t].left \ {m},
                                  ![t].item = m]
  /\ UNCHANGED <<arrived, conv, stored, cache, sends, history>>

\* The id is noted before the callback is awaited, so that another poll passes it by.
NextMessage(t) ==
  /\ task[t].at = "next"
  /\ \/ /\ task[t].left \ seen = {} /\ Ends(t) /\ UNCHANGED seen
     \/ \E m \in task[t].left \ seen :
          /\ seen' = seen \cup {m}
          /\ task' = [task EXCEPT ![t].at = "ingest", ![t].left = task[t].left \ {m},
                                  ![t].item = m]
  /\ UNCHANGED <<arrived, conv, stored, cache, sends, history>>

Ingest(t) ==
  /\ task[t].at = "ingest" /\ Reads(t, "avatar")
  /\ UNCHANGED <<arrived, seen, conv, stored, cache, sends, history>>

\* A new conversation is saved, or a known one whose picture has changed.
Avatar(t) ==
  /\ task[t].at = "avatar"
  /\ \/ Goes(t, "create") /\ (task[t].saw.there => ~task[t].saw.avatar)
     \/ Goes(t, "append") /\ task[t].saw.there
  /\ UNCHANGED <<arrived, seen, conv, stored, cache, sends, history>>

\* The callback throws: the message and the rest of the answer are dropped, the message stays
\* noted, and a row that was saved by then has not dropped the cache.
IngestFails(t) ==
  /\ task[t].at \in {"ingest", "avatar", "create", "append", "count"}
  /\ Ends(t) /\ failed' = failed \cup {task[t].item}
  /\ late' = late \cup Filling /\ stale' = TRUE
  /\ UNCHANGED <<arrived, seen, conv, stored, cache, sends, since, raced>>

\* saveConversation with the row that was read, or a fresh one with nothing unread.
Create(t) ==
  /\ task[t].at = "create"
  /\ \E avatar \in (IF task[t].saw.there THEN {TRUE} ELSE BOOLEAN) :
       conv' = [there |-> TRUE, unread |-> task[t].saw.unread, avatar |-> avatar]
  /\ Overtakes(t)
  /\ Goes(t, "append")
  /\ UNCHANGED <<arrived, seen, stored, cache, sends, failed, since, late, stale>>

\* appendMessage: the SELECT.
Append(t) ==
  /\ task[t].at = "append" /\ Reads(t, "count")
  /\ UNCHANGED <<arrived, seen, conv, stored, cache, sends, history>>

\* appendMessage: the INSERT, the UPDATE and the COMMIT.
Count(t) ==
  /\ task[t].at = "count"
  /\ IF task[t].saw.there
     THEN /\ stored' = stored \cup {task[t].item}
          /\ conv' = [conv EXCEPT !.unread = task[t].saw.unread + 1]
          /\ since' = since + 1
          /\ raced' = (raced \/ task[t].saw.unread # conv.unread)
     ELSE UNCHANGED <<stored, conv, since, raced>>
  /\ Goes(t, "drop")
  /\ UNCHANGED <<arrived, seen, cache, sends, failed, late, stale>>

\* The end of every change: the cached overview is dropped.
Drop(t) ==
  /\ task[t].at = "drop"
  /\ Invalidates
  /\ IF task[t].polls
     THEN task' = [task EXCEPT ![t].at = "next", ![t].item = Nil, ![t].saw = NoRow]
     ELSE Ends(t)
  /\ UNCHANGED <<arrived, seen, conv, stored, sends, failed, since, raced>>

-----------------------------------------------------------------------------
(* getMessages, with loadConversationMessages and markConversationAsRead.    *)

Open(t) ==
  /\ task[t].at = "free" /\ conv.there
  /\ Goes(t, "open") \/ Goes(t, "look")
  /\ UNCHANGED <<arrived, seen, conv, stored, cache, sends, history>>

\* Messages are asked for only if there are none, or no picture.
OpenReads(t) ==
  /\ task[t].at = "open"
  /\ IF stored = {} \/ ~conv.avatar THEN Reads(t, "list") ELSE Goes(t, "look")
  /\ UNCHANGED <<arrived, seen, conv, stored, cache, sends, history>>

\* saveConversation with the row that was read and every message listed.
Load(t) ==
  /\ task[t].at = "list"
  /\ \E avatar \in {task[t].saw.avatar, TRUE} : conv' = [task[t].saw EXCEPT !.avatar = avatar]
  /\ stored' = arrived
  /\ Overtakes(t)
  /\ Goes(t, "load")
  /\ UNCHANGED <<arrived, seen, cache, sends, failed, since, late, stale>>

LoadInvalidates(t) ==
  /\ task[t].at = "load"
  /\ Invalidates /\ Goes(t, "look")
  /\ UNCHANGED <<arrived, seen, conv, stored, sends, failed, since, raced>>

\* The failure is logged, and what is stored is returned.
LoadFails(t) ==
  /\ task[t].at = "list" /\ Goes(t, "look")
  /\ UNCHANGED <<arrived, seen, conv, stored, cache, sends, history>>

\* markConversationAsRead reads the row and tells WhatsApp.
Look(t) ==
  /\ task[t].at = "look" /\ Reads(t, "zero")
  /\ UNCHANGED <<arrived, seen, conv, stored, cache, sends, history>>

Zero(t) ==
  /\ task[t].at = "zero"
  /\ conv' = [conv EXCEPT !.unread = 0] /\ since' = 0
  /\ Goes(t, "compare")
  /\ IF task[t].saw.unread = conv.unread THEN UNCHANGED <<late, stale>>
     ELSE late' = late \cup Filling /\ stale' = TRUE
  /\ UNCHANGED <<arrived, seen, stored, cache, sends, failed, raced>>

\* Faulty variant: the cache is never dropped.
CompareOnly(t) ==
  /\ task[t].at = "compare" /\ Ends(t)
  /\ UNCHANGED <<arrived, seen, conv, stored, cache, sends, history>>

\* The row is read again; the cache is dropped only if its count differs from the first.
Compare(t) ==
  /\ task[t].at = "compare"
  /\ IF conv.unread # task[t].saw.unread THEN Goes(t, "drop") ELSE Ends(t)
  /\ UNCHANGED <<arrived, seen, conv, stored, cache, sends, history>>

-----------------------------------------------------------------------------
(* bootstrapChats, sendMessage and getOverview.                              *)

\* When the session becomes ready and has no conversation yet.
Bootstrap(t) ==
  /\ task[t].at = "free" /\ ~conv.there /\ Reads(t, "chats")
  /\ UNCHANGED <<arrived, seen, conv, stored, cache, sends, history>>

\* The chats and the picture have come; the count is the phone's.
Restore(t) ==
  /\ task[t].at = "chats"
  /\ \E n \in 0..Cardinality(arrived), avatar \in BOOLEAN :
       /\ conv' = [there |-> TRUE, unread |-> n, avatar |-> avatar]
       /\ since' = n
  /\ Overtakes(t)
  /\ Goes(t, "drop")
  /\ UNCHANGED <<arrived, seen, stored, cache, sends, failed, late, stale>>

Send(t) ==
  /\ task[t].at = "free" /\ conv.there /\ sends < MaxSends
  /\ sends' = sends + 1 /\ Goes(t, "send")
  /\ UNCHANGED <<arrived, seen, conv, stored, cache, history>>

\* WhatsApp has taken the message: appendMessage, which saves the count it reads.
Sent(t) ==
  /\ task[t].at = "send" /\ Reads(t, "outcount")
  /\ UNCHANGED <<arrived, seen, conv, stored, cache, sends, history>>

\* Faulty variant: the user's own message counts as unread.
SentCountAll(t) ==
  /\ task[t].at = "outcount"
  /\ conv' = [conv EXCEPT !.unread = task[t].saw.unread + 1]
  /\ raced' = (raced \/ task[t].saw.unread # conv.unread)
  /\ Goes(t, "drop")
  /\ UNCHANGED <<arrived, seen, stored, cache, sends, failed, since, late, stale>>

SentCount(t) ==
  /\ task[t].at = "outcount"
  /\ conv' = [conv EXCEPT !.unread = task[t].saw.unread]
  /\ raced' = (raced \/ task[t].saw.unread # conv.unread)
  /\ Goes(t, "drop")
  /\ UNCHANGED <<arrived, seen, stored, cache, sends, failed, since, late, stale>>

\* getOverview misses the cache and reads; a hit changes nothing.
Overview(t) ==
  /\ task[t].at = "free" /\ cache = Nil /\ Goes(t, "fill")
  /\ UNCHANGED <<arrived, seen, conv, stored, cache, sends, history>>

Fill(t) ==
  /\ task[t].at = "fill" /\ Reads(t, "cached")
  /\ UNCHANGED <<arrived, seen, conv, stored, cache, sends, history>>

\* setJson, for 15 s; the key is t's word from now on, however old.
Cached(t) ==
  /\ task[t].at = "cached"
  /\ cache' = task[t].saw.unread
  /\ stale' = (t \in late) /\ late' = late \ {t}
  /\ Ends(t)
  /\ UNCHANGED <<arrived, seen, conv, stored, sends, failed, since, raced>>

Expire ==
  /\ cache # Nil /\ cache' = Nil /\ stale' = FALSE
  /\ UNCHANGED <<arrived, seen, conv, stored, task, sends, failed, since, raced, late>>

Arrives(m) ==
  /\ m \notin arrived /\ arrived' = arrived \cup {m}
  /\ UNCHANGED <<seen, conv, stored, cache, task, sends, history>>

Next ==
  \/ \E t \in Tasks :
       \/ Poll(t) \/ Polled(t) \/ NextMessage(t) \/ Ingest(t) \/ Avatar(t) \/ Create(t)
       \/ Append(t) \/ Count(t) \/ IngestFails(t) \/ Drop(t)
       \/ Open(t) \/ OpenReads(t) \/ Load(t) \/ LoadInvalidates(t) \/ LoadFails(t)
       \/ Look(t) \/ Zero(t) \/ Compare(t)
       \/ Bootstrap(t) \/ Restore(t) \/ Send(t) \/ Sent(t) \/ SentCount(t)
       \/ Overview(t) \/ Fill(t) \/ Cached(t)
  \/ \E m \in Messages : Arrives(m)
  \/ Expire

Spec == Init /\ [][Next]_vars

-----------------------------------------------------------------------------
\* However many polls overlap, a message goes through the callback once; and a message
\* that was noted is stored, or is being stored, unless its callback threw.
SeenIsKept ==
  /\ \A t, u \in Tasks : task[t].item = task[u].item /\ task[t].item # Nil => t = u
  /\ \A m \in seen : m \in stored \cup failed \/ \E t \in Tasks : task[t].item = m

\* The count of unread messages is that of the messages counted since the last reading, at
\* every moment, unless somebody saved a row that had changed since he read it.
UnreadKept == (conv.there /\ ~raced) => conv.unread = since

\* A cached overview that shows another count than the row was filled by a call that had
\* read before somebody else dropped the cache; otherwise it is never stale at rest.
CacheExplained == (Quiet /\ cache # Nil /\ ~stale) => cache = conv.unread
================================================================================
