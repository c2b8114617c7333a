------------------------------ MODULE Conversations -----------------------------
(***************************************************************************)
(* Chats and messages of one WhatsApp session in wa-core: how a message    *)
(* becomes a row and is announced to the browsers, by whatever way it      *)
(* comes (internal/whatsapp/manager.go, internal/store/postgres.go).       *)
(*                                                                         *)
(* Every event of whatsmeow is handled in a goroutine of its own, requests *)
(* run in theirs, and the rows are changed by single statements without a  *)
(* transaction around them.  A step is one statement, one broadcast or one *)
(* call of WhatsApp.  Names, previews and times of a chat are left out:    *)
(* a chat is there or not.  So is its unread count, which nothing in       *)
(* wa-core ever raises above zero.                                         *)
(***************************************************************************)
EXTENDS Naturals

CONSTANTS
  Chats,
  Messages,
  ChatOf,      \* the chat of a message
  Mine,        \* the messages of the session's own user, from whatever device
  Ways,        \* bound: what is going on
  World,       \* bound: what may fail
  MaxPurges,   \* bound: how often the session is deleted
  Procs,       \* bound: handlers and requests in flight
  Nil

ASSUME ConversationsAssumption ==
  /\ ChatOf \in [Messages -> Chats]
  /\ Mine \subseteq Messages
  /\ Chats \cap Messages = {}
  /\ Nil \notin Chats \cup Messages
  /\ MaxPurges \in Nat
  /\ Ways \subseteq {"live", "send", "react", "history", "identity", "markRead", "receipt"}
  /\ World \subseteq {"statement", "offline"}

VARIABLES
  chats,      \* the chats that have a row
  ack,        \* ack_status of a message, "none" without a row
  task,       \* the handlers and requests in flight
  told,       \* the messages WhatsApp was told are read
  purges,     \* how often the session has been deleted
  notices,    \* history: the message.new events; a row is named by its message and
              \* the number of deletions before it
  owed,       \* history: rows made since the browsers were last told to look
  delivered,  \* history: messages WhatsApp has handed over or accepted
  excused     \* history: messages that met a failing statement or a deletion

rowVars  == <<chats, ack>>
histVars == <<notices, owed, delivered, excused>>
vars == <<rowVars, task, told, purges, histVars>>

Acks  == {"none", "sent", "received", "delivered", "read", "read-self"}
Steps == {"free", "next", "probe", "upsert", "chatNew", "insert", "announce", "tell", "mark"}

\* `rest` is what a history sync has still to go through, or what a mark-as-read has
\* found unread; `fresh` is the answer of a chat lookup; `born` names a row.
Task == [op : Ways \cup {"none"}, step : Steps, item : Chats \cup Messages \cup {Nil},
         rest : SUBSET (Chats \cup Messages), fresh : BOOLEAN, born : Nat]

NoTask == [op |-> "none", step |-> "free", item |-> Nil, rest |-> {}, fresh |-> FALSE, born |-> 0]

TypeOK ==
  /\ chats \subseteq Chats
  /\ ack \in [Messages -> Acks]
  /\ task \in [Procs -> Task]
  /\ told \subseteq Messages \ Mine
  /\ purges \in 0 .. MaxPurges
  /\ notices \subseteq Messages \X Nat
  /\ owed \subseteq Messages /\ delivered \subseteq Messages /\ excused \subseteq Messages

Init ==
  /\ chats = {}
  /\ ack = [m \in Messages |-> "none"]
  /\ task = [t \in Procs |-> NoTask]
  /\ told = {}
  /\ purges = 0
  /\ notices = {} /\ owed = {} /\ delivered = {} /\ excused = {}

Stored(m) == ack[m] # "none"
At(t, step) == task[t].step = step

Becomes(t, new) == task' = [task EXCEPT ![t] = new]

Goes(t, step) ==
  Becomes(t, IF step = "end" THEN NoTask ELSE [task[t] EXCEPT !.step = step])

\* What a handler does after the item it is at.
Done(t) == IF task[t].op = "history" THEN "next" ELSE "end"

Starts(t, op, step, item, rest) ==
  /\ op \in Ways
  /\ At(t, "free")
  /\ Becomes(t, [op |-> op, step |-> step, item |-> item, rest |-> rest,
                 fresh |-> FALSE, born |-> 0])

--------------------------------------------------------------------------------
(* What comes in.                                                           *)

\* handleRealtimeMessage; the same message may come more than once.
Live(t, m) ==
  /\ Starts(t, "live", "probe", m, {})
  /\ delivered' = delivered \cup {m}
  /\ UNCHANGED <<rowVars, told, purges, notices, owed, excused>>

\* SendText, SendMedia: WhatsApp has taken a new message.
Send(t, m) ==
  /\ m \in Mine \ delivered
  /\ Starts(t, "send", "probe", m, {})
  /\ delivered' = delivered \cup {m}
  /\ UNCHANGED <<rowVars, told, purges, notices, owed, excused>>

\* Faulty variant: the message reacted to is not looked up.
ReactBlindly(t, m) ==
  /\ m \in Mine \ delivered
  /\ Starts(t, "react", "insert", m, {})
  /\ delivered' = delivered \cup {m}
  /\ UNCHANGED <<rowVars, told, purges, notices, owed, excused>>

\* SendReaction: to a message of that chat that has a row.
React(t, m) ==
  /\ m \in Mine \ delivered
  /\ \E target \in Messages : Stored(target) /\ ChatOf[target] = ChatOf[m]
  /\ Starts(t, "react", "insert", m, {})
  /\ delivered' = delivered \cup {m}
  /\ UNCHANGED <<rowVars, told, purges, notices, owed, excused>>

\* handleHistorySync: some conversations and some of their messages.
History(t) ==
  /\ \E C \in SUBSET Chats \ {{}}, M \in SUBSET Messages :
       /\ \A m \in M : ChatOf[m] \in C
       /\ Starts(t, "history", "next", Nil, C \cup M)
       /\ delivered' = delivered \cup M
  /\ UNCHANGED <<rowVars, told, purges, notices, owed, excused>>

\* handleGroupInfo, handleJoinedGroup and the group sync name a chat.
Identity(t, c) ==
  /\ Starts(t, "identity", "probe", c, {})
  /\ UNCHANGED <<rowVars, told, purges, histVars>>

\* handleReceipt.  A receipt that comes before its row is lost.  The statuses of
\* retries, of the server and of played voice messages are left out: all of them go
\* the same way.
Receipt(m) ==
  /\ "receipt" \in Ways
  /\ Stored(m)
  /\ \E status \in (IF m \in Mine THEN {"delivered", "read"} ELSE {"read-self"}) :
       ack' = [ack EXCEPT ![m] = status]
  /\ UNCHANGED <<chats, task, told, purges, histVars>>

--------------------------------------------------------------------------------
(* ensureChatRecord: a lookup, an upsert, and chat.new if the lookup had     *)
(* found nothing.                                                           *)

Chat(t) == IF task[t].item \in Chats THEN task[t].item ELSE ChatOf[task[t].item]

AfterChat(t) == IF task[t].item \in Messages THEN "insert" ELSE Done(t)

Probe(t) ==
  /\ At(t, "probe")
  /\ Becomes(t, [task[t] EXCEPT !.step = "upsert", !.fresh = Chat(t) \notin chats])
  /\ UNCHANGED <<rowVars, told, purges, histVars>>

\* A conversation that gets its name makes the row without chat.new.
Upsert(t) ==
  /\ At(t, "upsert")
  /\ chats' = chats \cup {Chat(t)}
  /\ \/ /\ task[t].fresh /\ task[t].op # "identity"
        /\ Goes(t, "chatNew")
     \/ /\ ~task[t].fresh \/ task[t].item \in Chats
        /\ Goes(t, AfterChat(t))
  /\ UNCHANGED <<ack, told, purges, histVars>>

ChatNew(t) ==
  /\ At(t, "chatNew")
  /\ owed' = {}
  /\ Goes(t, AfterChat(t))
  /\ UNCHANGED <<rowVars, told, purges, notices, delivered, excused>>

--------------------------------------------------------------------------------
(* SaveMessageBySession and message.new.                                     *)

\* Faulty variant: an existing row is overwritten, and counts as a new one.
InsertOver(t) ==
  /\ At(t, "insert")
  /\ LET m == task[t].item IN
       /\ ChatOf[m] \in chats
       /\ ack' = [ack EXCEPT ![m] = IF m \in Mine THEN "sent" ELSE "received"]
       /\ owed' = owed \cup {m}
       /\ IF task[t].op = "history" THEN Goes(t, "next")
          ELSE Becomes(t, [task[t] EXCEPT !.step = "announce", !.born = purges])
  /\ UNCHANGED <<chats, told, purges, notices, delivered, excused>>

\* INSERT ... ON CONFLICT DO NOTHING.  Only history syncs keep quiet about it.
Insert(t) ==
  /\ At(t, "insert")
  /\ LET m == task[t].item IN
       /\ ~Stored(m) /\ ChatOf[m] \in chats
       /\ ack' = [ack EXCEPT ![m] = IF m \in Mine THEN "sent" ELSE "received"]
       /\ owed' = owed \cup {m}
       /\ IF task[t].op = "history" THEN Goes(t, "next")
          ELSE Becomes(t, [task[t] EXCEPT !.step = "announce", !.born = purges])
  /\ UNCHANGED <<chats, told, purges, notices, delivered, excused>>

\* There is a row already, or the foreign key of the chat fails.
InsertNothing(t) ==
  /\ At(t, "insert")
  /\ Stored(task[t].item) \/ Chat(t) \notin chats
  /\ Goes(t, Done(t))
  /\ UNCHANGED <<rowVars, told, purges, histVars>>

Announce(t) ==
  /\ At(t, "announce")
  /\ notices' = notices \cup {<<task[t].item, task[t].born>>}
  /\ owed' = owed \ {task[t].item}
  /\ Goes(t, "end")
  /\ UNCHANGED <<rowVars, told, purges, delivered, excused>>

--------------------------------------------------------------------------------
(* The loop of a history sync.                                              *)

NextItem(t) ==
  /\ At(t, "next")
  /\ \E i \in task[t].rest :
       /\ i \in Messages => ChatOf[i] \notin task[t].rest
       /\ Becomes(t, [task[t] EXCEPT !.step = "probe", !.item = i, !.rest = @ \ {i}])
  /\ UNCHANGED <<rowVars, told, purges, histVars>>

\* Faulty variant: the sync ends without a word.
HistoryEndSilently(t) ==
  /\ At(t, "next") /\ task[t].rest = {}
  /\ Goes(t, "end")
  /\ UNCHANGED <<rowVars, told, purges, histVars>>

\* One chat.new for all of it.
HistoryEnd(t) ==
  /\ At(t, "next") /\ task[t].rest = {}
  /\ owed' = {}
  /\ Goes(t, "end")
  /\ UNCHANGED <<rowVars, told, purges, notices, delivered, excused>>

--------------------------------------------------------------------------------
(* MarkChatRead.                                                            *)

\* Faulty variant: the user's own messages are among the unread ones.
UnreadAny(c) ==
  {m \in Messages : ChatOf[m] = c /\ ack[m] \notin {"none", "read", "read-self"}}

\* ListUnreadMessageGroupsByChat.
Unread(c) ==
  {m \in Messages \ Mine : ChatOf[m] = c /\ ack[m] \notin {"none", "read", "read-self"}}

MarkRead(t, c) ==
  /\ Starts(t, "markRead", "tell", c, Unread(c))
  /\ UNCHANGED <<rowVars, told, purges, histVars>>

\* One receipt for each sender; one that fails is only logged, and without a
\* connection there are none.
Tell(t) ==
  /\ At(t, "tell")
  /\ \E M \in SUBSET task[t].rest :
       /\ "offline" \notin World => M = task[t].rest
       /\ told' = told \cup M
  /\ Goes(t, "mark")
  /\ UNCHANGED <<rowVars, purges, histVars>>

\* All incoming rows of the chat, not only those that were found unread.
Mark(t) ==
  /\ At(t, "mark")
  /\ ack' = [m \in Messages |->
               IF Stored(m) /\ m \notin Mine /\ ChatOf[m] = task[t].item THEN "read" ELSE ack[m]]
  /\ Goes(t, "end")
  /\ UNCHANGED <<chats, told, purges, histVars>>

--------------------------------------------------------------------------------
\* A statement fails: it is logged, or the request gets the error.  A history sync
\* goes on with the next item.
Fails(t) ==
  /\ "statement" \in World
  /\ task[t].step \in {"probe", "upsert", "insert", "mark"}
  /\ Goes(t, Done(t))
  /\ excused' = excused \cup ({task[t].item} \cap Messages)
  /\ UNCHANGED <<rowVars, told, purges, notices, owed, delivered>>

\* DeleteSessionByID: one transaction, whatever is in flight.
Purge ==
  /\ purges < MaxPurges
  /\ purges' = purges + 1
  /\ chats' = {}
  /\ ack' = [m \in Messages |-> "none"]
  /\ owed' = {}
  /\ excused' = excused \cup delivered
  /\ UNCHANGED <<task, told, notices, delivered>>

Arrives(t) ==
  \/ \E m \in Messages : Live(t, m) \/ Send(t, m) \/ React(t, m)
  \/ \E c \in Chats : Identity(t, c) \/ MarkRead(t, c)
  \/ History(t)

Work(t) ==
  \/ Probe(t) \/ Upsert(t) \/ ChatNew(t) \/ Insert(t) \/ InsertNothing(t) \/ Announce(t)
  \/ NextItem(t) \/ HistoryEnd(t) \/ Tell(t) \/ Mark(t) \/ Fails(t)

Next ==
  \/ \E t \in Procs : Arrives(t) \/ Work(t)
  \/ \E m \in Messages : Receipt(m)
  \/ Purge

Spec == Init /\ [][Next]_vars

--------------------------------------------------------------------------------
(* Properties.                                                              *)

Row(t) == <<task[t].item, task[t].born>>

\* However often and by however many ways a message comes, its row is announced
\* once: no handler is about to send a message.new that was sent, or that another
\* handler is about to send.  (A row made again after a deletion is another row.)
OneNotice ==
  \A t \in Procs : At(t, "announce") =>
    /\ Row(t) \notin notices
    /\ \A u \in Procs : At(u, "announce") /\ Row(u) = Row(t) => u = t

\* No row stays unknown to the browsers: somebody is still on the way to announce it,
\* by its message.new or by the chat.new at the end of a history sync.  This has to
\* hold for a live message that finds its row made by a history sync, too, which then
\* says nothing itself.
Announced ==
  \A m \in owed : \E t \in Procs :
    \/ At(t, "announce") /\ task[t].item = m
    \/ task[t].op = "history"

Storing(k, m) ==
  \/ k.item = m /\ k.step \in {"probe", "upsert", "chatNew", "insert"}
  \/ k.op = "history" /\ m \in k.rest

\* No message is lost: one that WhatsApp has handed over or accepted has a row, or a
\* handler will make it, unless a statement failed or the session was deleted.  The
\* foreign key of the chat must never be what stops it.
NothingLost ==
  \A m \in delivered \ excused : Stored(m) \/ \E t \in Procs : Storing(task[t], m)

\* The README: "Text, media, reactions, and read receipts."  A message that the store
\* holds as read gets no receipt any more, so it must have had one.  The code breaks
\* this with every call succeeding: a message that is saved while the receipts are
\* being sent is marked as read with the others.
ReadWasTold == \A m \in Messages \ Mine : ack[m] = "read" => m \in told

================================================================================
