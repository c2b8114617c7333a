-------------------------------- MODULE Baileys --------------------------------
(***************************************************************************)
(* The other engine of the legacy server, BaileysEngine                    *)
(* (src/apps/server/src/whatsapp/engine/baileys.engine.ts): the sockets it *)
(* opens for a session, and the thread it caches of a chat.  The two share *)
(* nothing but the session, so that each is a next-state relation of its   *)
(* own.  A step is what runs from one await to the next; a callback that   *)
(* throws ends the process and is left out.                                *)
(***************************************************************************)
EXTENDS Naturals, Sequences, FiniteSets

CONSTANTS
  Sockets,    \* WASocket objects; a closed one that nobody can reach is reused
  Jobs,       \* bound: asynchronous calls in flight
  Incoming,   \* messages of the chat the user gets
  Own,        \* and those he sends
  Times,      \* timestamps
  Batch,      \* how many messages a reading reports (20 in the code)
  MaxEvents,  \* bound: events about messages (a natural number)
  Nil

VARIABLES
  socket,       \* sockets.get(sessionId)
  open,         \* sockets that have not reported their end
  ended,        \* those of them that end() was called for
  reconnecting, \* reconnectingSessions.has(sessionId)
  job,
  told,         \* the last word a callback gave the service
  replaced,     \* history: sockets that lost their place in the map to another's connect or close
  muddled,      \* history: a word came of another socket than that in the map
  thread,       \* messages.get(sessionId).get(chatId)
  count,        \* chat.unreadCount
  unread,       \* what the phone has not read
  reader,       \* what the calls of markConversationAsRead are reporting
  overlooked,   \* history: unread messages a reading did not report, though it cleared the count
  retimed,      \* history: a known message came with another time, and no new one since
  events

socketVars == <<socket, open, ended, reconnecting, job, told, replaced, muddled>>
threadVars == <<thread, count, unread, reader, overlooked, retimed, events>>
vars == <<socketVars, threadVars>>

ChatMessages == Incoming \cup Own

Words == {"qr", "syncing", "ready", "gone", "failed"}
Lively == {"qr", "syncing", "ready"}

\* says: the callbacks still to be awaited; retry: the job is a reconnectSession.
Job == [at : {"free", "auth", "wait", "say"},
        says : {<<>>, <<"qr">>, <<"syncing", "ready">>, <<"ready">>, <<"gone">>, <<"failed">>},
        of : Sockets \cup {Nil}, retry : BOOLEAN]
Free == [at |-> "free", says |-> <<>>, of |-> Nil, retry |-> FALSE]

Threads == UNION {[1..n -> [id : ChatMessages, at : Times]] : n \in 0..Cardinality(ChatMessages)}

TypeOK ==
  /\ socket \in Sockets \cup {Nil}
  /\ ended \subseteq open /\ open \subseteq Sockets
  /\ reconnecting \in BOOLEAN
  /\ job \in [Jobs -> Job]
  /\ told \in Words \cup {"none"}
  /\ replaced \subseteq Sockets /\ muddled \in BOOLEAN
  /\ thread \in Threads
  /\ count \in 0..MaxEvents
  /\ unread \subseteq Incoming
  /\ reader \in [Jobs -> SUBSET ChatMessages]
  /\ overlooked \subseteq unread /\ retimed \in BOOLEAN
  /\ events \in 0..MaxEvents

Init ==
  /\ socket = Nil /\ open = {} /\ ended = {} /\ reconnecting = FALSE
  /\ job = [j \in Jobs |-> Free]
  /\ told = "none"
  /\ replaced = {} /\ muddled = FALSE
  /\ thread = <<>> /\ count = 0 /\ unread = {}
  /\ reader = [j \in Jobs |-> {}]
  /\ overlooked = {} /\ retimed = FALSE /\ events = 0

-----------------------------------------------------------------------------
(* The sockets.                                                              *)

Says(j, words, s) == job' = [job EXCEPT ![j] = [Free EXCEPT !.at = "say", !.says = words, !.of = s]]

Connect(j) ==
  /\ job[j].at = "free" /\ socket = Nil
  /\ job' = [job EXCEPT ![j].at = "auth"]
  /\ UNCHANGED <<socket, open, ended, reconnecting, told, replaced, muddled>>

\* The credentials are read: the new socket takes the place in the map, whoever holds it.
Opens(j) ==
  /\ job[j].at = "auth"
  /\ \E s \in Sockets \ open :
       /\ \A i \in Jobs : job[i].of # s
       /\ socket' = s /\ open' = open \cup {s}
       /\ replaced' = (replaced \cup {socket}) \ {s, Nil}
  /\ reconnecting' = (reconnecting /\ ~job[j].retry)
  /\ job' = [job EXCEPT ![j] = Free]
  /\ UNCHANGED <<ended, told, muddled>>

\* They cannot be read, and the caller of connectSession gets the error.
NoCredentials(j) ==
  /\ job[j].at = "auth" /\ ~job[j].retry
  /\ job' = [job EXCEPT ![j] = Free]
  /\ UNCHANGED <<socket, open, ended, reconnecting, told, replaced, muddled>>

\* A connection.update with a QR code, or an open connection.
Update(j, s) ==
  /\ job[j].at = "free" /\ s \in open \ ended
  /\ Says(j, <<"qr">>, s) \/ Says(j, <<"syncing", "ready">>, s)
  /\ UNCHANGED <<socket, open, ended, reconnecting, told, replaced, muddled>>

\* What follows a close: a reconnection unless one is under way, or a word to the service.
AfterClose(j, s, reason) ==
  CASE reason = "logged out" -> Says(j, <<"failed">>, s) /\ UNCHANGED reconnecting
    [] reason = "restart" /\ reconnecting -> UNCHANGED <<job, reconnecting>>
    [] reason = "restart" /\ ~reconnecting ->
         /\ reconnecting' = TRUE
         /\ job' = [job EXCEPT ![j] = [Free EXCEPT !.at = "wait", !.of = s, !.retry = TRUE]]
    [] OTHER -> Says(j, <<"gone">>, s) /\ UNCHANGED reconnecting

\* Faulty variant: the socket that was closed stays in the map.
CloseStaying(j, s, reason) ==
  /\ job[j].at = "free" /\ s \in open
  /\ s \in ended => reason = "other"
  /\ open' = open \ {s} /\ ended' = ended \ {s}
  /\ replaced' = replaced \ {s}
  /\ AfterClose(j, s, reason)
  /\ UNCHANGED <<socket, told, muddled>>

\* A closed connection takes the socket out of the map, whichever it is.  A socket that was
\* ended on request gives no reason, and the library may report it at once or later.
Close(j, s, reason) ==
  /\ job[j].at = "free" /\ s \in open
  /\ s \in ended => reason = "other"
  /\ socket' = Nil
  /\ open' = open \ {s} /\ ended' = ended \ {s}
  /\ replaced' = (replaced \cup {socket}) \ {s, Nil}
  /\ AfterClose(j, s, reason)
  /\ UNCHANGED <<told, muddled>>

\* 1.2 s later.
Waited(j) ==
  /\ job[j].at = "wait"
  /\ job' = [job EXCEPT ![j].at = "say", ![j].says = <<"gone">>]
  /\ UNCHANGED <<socket, open, ended, reconnecting, told, replaced, muddled>>

\* A callback has returned.  After its last one a reconnection goes on to connectSession,
\* which does nothing if there is a socket by now.
Say(j) ==
  LET k == job[j]  word == Head(k.says)  over == Len(k.says) = 1  again == k.retry /\ socket = Nil
  IN
  /\ k.at = "say"
  /\ told' = word
  /\ muddled' = (muddled \/ socket # IF word \in Lively THEN k.of ELSE Nil)
  /\ reconnecting' = (reconnecting /\ (k.retry => again))
  /\ job' = [job EXCEPT ![j] = CASE ~over -> [k EXCEPT !.says = Tail(k.says)]
                                 [] over /\ again -> [Free EXCEPT !.at = "auth", !.retry = TRUE]
                                 [] OTHER -> Free]
  /\ UNCHANGED <<socket, open, ended, replaced>>

\* The service disconnects: end() for the socket in the map, then its own word.
Disconnect(j) ==
  /\ job[j].at = "free"
  /\ ended' = ended \cup ({socket} \ {Nil})
  /\ socket' = Nil
  /\ Says(j, <<"gone">>, Nil)
  /\ UNCHANGED <<open, reconnecting, told, replaced, muddled>>

SocketNext ==
  \E j \in Jobs :
    \/ Connect(j) \/ Opens(j) \/ NoCredentials(j) \/ Waited(j) \/ Say(j) \/ Disconnect(j)
    \/ \E s \in Sockets : Update(j, s)
    \/ \E s \in Sockets, reason \in {"logged out", "restart", "other"} : Close(j, s, reason)

-----------------------------------------------------------------------------
(* The thread of a chat.                                                     *)

Ids == {thread[i].id : i \in DOMAIN thread}

Sorted(s) == \A i, j \in DOMAIN s : i < j => s[i].at <= s[j].at

\* Where a stable sort by time puts the i-th element.
Place(s, i) == Cardinality({k \in DOMAIN s : s[k].at < s[i].at \/ (s[k].at = s[i].at /\ k <= i)})

Resorted(s) == [p \in DOMAIN s |-> s[CHOOSE i \in DOMAIN s : Place(s, i) = p]]

\* Faulty variant: a message that is known already is pushed again.
RecordedTwice(m) == Resorted(Append(thread, m))

\* A known message is replaced where it is; another is pushed, and all are sorted again.
Recorded(m) ==
  IF m.id \in Ids THEN [i \in DOMAIN thread |-> IF thread[i].id = m.id THEN m ELSE thread[i]]
  ELSE Resorted(Append(thread, m))

\* upsertMessageRecord, of messages.upsert, of a history and of a message sent: one that is
\* not the user's own counts as unread, though it be known.
Upsert(m) ==
  /\ events < MaxEvents /\ events' = events + 1
  /\ thread' = Recorded(m)
  /\ retimed' = /\ m.id \in Ids
                /\ retimed \/ \E i \in DOMAIN thread : thread[i].id = m.id /\ thread[i].at # m.at
  /\ count' = IF m.id \in Own THEN count ELSE count + 1
  /\ unread' = IF m.id \in Ids \cup Own THEN unread ELSE unread \cup {m.id}
  /\ UNCHANGED <<reader, overlooked>>

\* chats.upsert and chats.update: the phone's number, which the user may have read down.
UpdateChats ==
  /\ events < MaxEvents /\ events' = events + 1
  /\ unread' \in {unread, {}}
  /\ count' = Cardinality(unread')
  /\ overlooked' = {}
  /\ UNCHANGED <<thread, reader, retimed>>

\* markConversationAsRead takes the keys of the last messages and reports them.
MarkRead(j) ==
  /\ reader[j] = {} /\ thread # <<>>
  /\ reader' = [reader EXCEPT
       ![j] = {thread[i].id : i \in {k \in DOMAIN thread : k + Batch > Len(thread)}}]
  /\ UNCHANGED <<thread, count, unread, overlooked, retimed, events>>

\* They are read; the count is cleared, whatever came meanwhile.
MarkedRead(j) ==
  /\ reader[j] # {}
  /\ unread' = unread \ reader[j]
  /\ count' = 0 /\ overlooked' = unread'
  /\ reader' = [reader EXCEPT ![j] = {}]
  /\ UNCHANGED <<thread, retimed, events>>

\* readMessages throws.
ReadFails(j) ==
  /\ reader[j] # {}
  /\ reader' = [reader EXCEPT ![j] = {}]
  /\ UNCHANGED <<thread, count, unread, overlooked, retimed, events>>

ThreadNext ==
  \/ \E m \in [id : ChatMessages, at : Times] : Upsert(m)
  \/ UpdateChats
  \/ \E j \in Jobs : MarkRead(j) \/ MarkedRead(j) \/ ReadFails(j)

Next ==
  \/ SocketNext /\ UNCHANGED threadVars
  \/ ThreadNext /\ UNCHANGED socketVars

Spec == Init /\ [][Next]_vars

-----------------------------------------------------------------------------
\* The socket in the map is one that has neither ended nor been told to, and every other such
\* socket lost its place to an overlapping connect or to a close of another socket.  One
\* reconnection is under way at a time, and its mark is never left behind.  At rest, unless a
\* word was muddled, the service that believes in a connection has a socket for it.
SocketsKept ==
  /\ socket # Nil => socket \in open \ ended
  /\ open \ ended \subseteq {socket} \cup replaced
  /\ Cardinality({j \in Jobs : job[j].retry}) = IF reconnecting THEN 1 ELSE 0
  /\ (~muddled /\ told \in Lively /\ \A j \in Jobs : job[j].at = "free") => socket # Nil

\* However often messages come again, a thread holds each once, in the order of their times
\* unless one has changed its time since the last new one; and the count never hides an unread
\* message but those a reading cleared without having reported them.
ThreadKept ==
  /\ Cardinality(Ids) = Len(thread)
  /\ ~retimed => Sorted(thread)
  /\ count >= Cardinality(unread \ overlooked)
================================================================================
