--------------------------- MODULE ConversationsProofs --------------------------
(***************************************************************************)
(* Theorems about Conversations, for any chats and messages, any handlers  *)
(* in flight, any failures and any number of deletions.                    *)
(***************************************************************************)
EXTENDS Conversations, TLAPS

--------------------------------------------------------------------------------
(* The invariant.                                                           *)

\* What a handler or a request can be at each of its steps.
Fine(k) ==
  /\ k \in Task
  /\ k.step = "free" => k.op = "none"
  /\ k.step = "next" => k.op = "history"
  /\ k.step \in {"probe", "upsert", "chatNew"} => k.item \in Chats \cup Messages
  /\ k.step \in {"insert", "announce"} => k.item \in Messages
  /\ k.step \in {"announce", "tell", "mark"} => k.op # "history"
  /\ k.step \in {"tell", "mark"} => k.item \in Chats /\ k.rest \subseteq Messages \ Mine

TasksFine == task \in [Procs -> Task] /\ \A t \in Procs : Fine(task[t])

DataTypes ==
  /\ chats \subseteq Chats
  /\ ack \in [Messages -> Acks]
  /\ told \subseteq Messages \ Mine
  /\ purges \in 0 .. MaxPurges
  /\ notices \subseteq Messages \X Nat
  /\ owed \subseteq Messages /\ delivered \subseteq Messages /\ excused \subseteq Messages

\* The foreign key.
RowsHaveChats == \A m \in Messages : Stored(m) => ChatOf[m] \in chats

Inv == TasksFine /\ DataTypes /\ RowsHaveChats

LEMMA NoTaskFine == Fine(NoTask)
  BY ConversationsAssumption DEF ConversationsAssumption, Fine, NoTask, Task, Steps

LEMMA InitInv == Init => Inv
  BY NoTaskFine, ConversationsAssumption
     DEF ConversationsAssumption, Init, Inv, TasksFine, DataTypes, RowsHaveChats, Stored, Acks, Fine

--------------------------------------------------------------------------------
(* Each step keeps the tasks fine.                                          *)

LEMMA BecomesFine ==
  ASSUME Inv, NEW t \in Procs, NEW k, Fine(k), Becomes(t, k)
  PROVE  TasksFine'
  BY DEF Inv, TasksFine, Becomes, Fine

LEMMA StartsFine ==
  ASSUME Inv, NEW t \in Procs, NEW op, NEW step \in Steps \ {"free", "announce"}, NEW item, NEW rest,
         Starts(t, op, step, item, rest),
         rest \in SUBSET (Chats \cup Messages),
         step = "next" => op = "history" /\ item = Nil,
         step = "probe" => item \in Chats \cup Messages,
         step = "insert" => item \in Messages,
         step \in {"tell", "mark"} =>
           op # "history" /\ item \in Chats /\ rest \subseteq Messages \ Mine,
         step \notin {"upsert", "chatNew"}
  PROVE  TasksFine'
  <1> DEFINE k == [op |-> op, step |-> step, item |-> item, rest |-> rest, fresh |-> FALSE, born |-> 0]
  <1>1. item \in Chats \cup Messages \cup {Nil}
    BY DEF Steps
  <1>2. k \in Task
    BY <1>1 DEF Starts, Task
  <1>3. Fine(k)
    BY <1>2 DEF Fine, Steps
  <1> QED BY <1>3, BecomesFine DEF Starts

LEMMA ArrivesFine == ASSUME Inv, NEW t \in Procs, Arrives(t) PROVE TasksFine'
  <1>1. ASSUME NEW m \in Messages, Live(t, m) \/ Send(t, m) PROVE TasksFine'
    BY <1>1, StartsFine DEF Live, Send, Steps
  <1>2. ASSUME NEW m \in Messages, React(t, m) PROVE TasksFine'
    BY <1>2, StartsFine DEF React, Steps
  <1>3. ASSUME NEW c \in Chats, Identity(t, c) PROVE TasksFine'
    BY <1>3, StartsFine DEF Identity, Steps
  <1>4. ASSUME NEW c \in Chats, MarkRead(t, c) PROVE TasksFine'
    <2>1. Unread(c) \subseteq Messages \ Mine
      BY DEF Unread
    <2> QED BY <1>4, <2>1, StartsFine DEF MarkRead, Steps
  <1>5. CASE History(t)
    BY <1>5, StartsFine DEF History, Steps
  <1> QED BY <1>1, <1>2, <1>3, <1>4, <1>5 DEF Arrives

LEMMA GoesFine ==
  ASSUME Inv, NEW t \in Procs, NEW step, Goes(t, step),
         \/ step = "end"
         \/ step = "next" /\ task[t].op = "history"
         \/ step \in {"chatNew"} /\ task[t].item \in Chats \cup Messages
         \/ step = "insert" /\ task[t].item \in Messages
         \/ step = "mark" /\ At(t, "tell")
  PROVE  TasksFine'
  <1>1. Fine(task[t])
    BY DEF Inv, TasksFine
  <1>2. CASE step = "end"
    BY <1>2, NoTaskFine, BecomesFine DEF Goes
  <1>3. CASE step # "end"
    <2>1. Fine([task[t] EXCEPT !.step = step])
      BY <1>1, <1>3 DEF Fine, Task, Steps, At
    <2> QED BY <1>3, <2>1, BecomesFine DEF Goes
  <1> QED BY <1>2, <1>3

\* Where a handler can go after the item it is at.
LEMMA DoneIs ==
  ASSUME NEW t PROVE Done(t) = "end" \/ (Done(t) = "next" /\ task[t].op = "history")
  <1>1. CASE task[t].op = "history"
    BY <1>1 DEF Done
  <1>2. CASE task[t].op # "history"
    BY <1>2 DEF Done
  <1> QED BY <1>1, <1>2

LEMMA WorkFine == ASSUME Inv, NEW t \in Procs, Work(t) PROVE TasksFine'
  <1>1. Fine(task[t])
    BY DEF Inv, TasksFine
  <1>2. CASE Probe(t)
    <2>1. Fine([task[t] EXCEPT !.step = "upsert", !.fresh = Chat(t) \notin chats])
      BY <1>1, <1>2 DEF Probe, At, Fine, Task, Steps
    <2> QED BY <1>2, <2>1, BecomesFine DEF Probe
  <1>3. CASE Upsert(t) \/ ChatNew(t)
    <2>1. task[t].item \in Chats \cup Messages
      BY <1>1, <1>3 DEF Upsert, ChatNew, At, Fine
    <2> QED BY <1>3, <2>1, GoesFine, DoneIs DEF Upsert, ChatNew, AfterChat
  <1>4. CASE Insert(t)
    <2>1. CASE task[t].op = "history"
      BY <1>4, <2>1, GoesFine DEF Insert
    <2>2. CASE task[t].op # "history"
      <3>1. purges \in Nat
        BY ConversationsAssumption DEF ConversationsAssumption, Inv, DataTypes
      <3>2. task[t].step = "insert"
        BY <1>4 DEF Insert, At
      <3>3. Fine([task[t] EXCEPT !.step = "announce", !.born = purges])
        BY <1>1, <2>2, <3>1, <3>2 DEF Fine, Task, Steps
      <3> QED BY <1>4, <2>2, <3>3, BecomesFine DEF Insert
    <2> QED BY <2>1, <2>2
  <1>5. CASE InsertNothing(t) \/ Fails(t)
    BY <1>5, GoesFine, DoneIs DEF InsertNothing, Fails
  <1>6. CASE NextItem(t)
    <2>1. PICK i \in task[t].rest :
            Becomes(t, [task[t] EXCEPT !.step = "probe", !.item = i, !.rest = @ \ {i}])
      BY <1>6 DEF NextItem
    <2>2. Fine([task[t] EXCEPT !.step = "probe", !.item = i, !.rest = @ \ {i}])
      BY <1>1, <1>6, <2>1 DEF NextItem, At, Fine, Task, Steps
    <2> QED BY <2>1, <2>2, BecomesFine
  <1>7. CASE Announce(t) \/ HistoryEnd(t) \/ Mark(t) \/ Tell(t)
    BY <1>7, GoesFine DEF Announce, HistoryEnd, Mark, Tell
  <1> QED BY <1>2, <1>3, <1>4, <1>5, <1>6, <1>7 DEF Work

--------------------------------------------------------------------------------
(* Each step keeps the data's types and the foreign key.                    *)

LEMMA ArrivesData == ASSUME Inv, NEW t \in Procs, Arrives(t) PROVE DataTypes' /\ RowsHaveChats'
  <1>1. UNCHANGED <<chats, ack, told, purges, notices, owed, excused>>
    BY DEF Arrives, Live, Send, React, Identity, MarkRead, History, rowVars, histVars
  <1>2. delivered' \subseteq Messages
    BY DEF Arrives, Live, Send, React, Identity, MarkRead, History, histVars, Inv, DataTypes
  <1> QED BY <1>1, <1>2 DEF Inv, DataTypes, RowsHaveChats, Stored

LEMMA WorkData == ASSUME Inv, NEW t \in Procs, Work(t) PROVE DataTypes' /\ RowsHaveChats'
  <1>1. Fine(task[t]) /\ task[t] \in Task
    BY DEF Inv, TasksFine, Fine
  <1>2. CASE Probe(t) \/ InsertNothing(t) \/ NextItem(t)
    BY <1>2 DEF Probe, InsertNothing, NextItem, rowVars, histVars, Inv, DataTypes,
       RowsHaveChats, Stored
  <1>3. CASE Upsert(t)
    <2>1. task[t].item \in Chats \cup Messages
      BY <1>1, <1>3 DEF Upsert, At, Fine
    <2>2. Chat(t) \in Chats
      BY <2>1, ConversationsAssumption DEF ConversationsAssumption, Chat
    <2> QED BY <1>3, <2>2 DEF Upsert, histVars, Inv, DataTypes, RowsHaveChats, Stored
  <1>4. CASE ChatNew(t) \/ HistoryEnd(t)
    BY <1>4 DEF ChatNew, HistoryEnd, rowVars, Inv, DataTypes, RowsHaveChats, Stored
  <1>5. CASE Insert(t)
    <2>1. task[t].item \in Messages
      BY <1>1, <1>5 DEF Insert, At, Fine
    <2> QED BY <1>5, <2>1 DEF Insert, Inv, DataTypes, RowsHaveChats, Stored, Acks
  <1>6. CASE Announce(t)
    <2>1. task[t].item \in Messages /\ task[t].born \in Nat
      BY <1>1, <1>6 DEF Announce, At, Fine, Task
    <2> QED BY <1>6, <2>1 DEF Announce, rowVars, Inv, DataTypes, RowsHaveChats, Stored
  <1>7. CASE Tell(t)
    <2>1. task[t].rest \subseteq Messages \ Mine
      BY <1>1, <1>7 DEF Tell, At, Fine
    <2> QED BY <1>7, <2>1 DEF Tell, rowVars, histVars, Inv, DataTypes, RowsHaveChats, Stored
  <1>8. CASE Mark(t)
    BY <1>8 DEF Mark, histVars, Inv, DataTypes, RowsHaveChats, Stored, Acks
  <1>9. CASE Fails(t)
    BY <1>9 DEF Fails, rowVars, Inv, DataTypes, RowsHaveChats, Stored
  <1> QED BY <1>2, <1>3, <1>4, <1>5, <1>6, <1>7, <1>8, <1>9 DEF Work

LEMMA ReceiptData ==
  ASSUME Inv, NEW m \in Messages, Receipt(m) PROVE DataTypes' /\ RowsHaveChats'
  BY DEF Receipt, histVars, Inv, DataTypes, RowsHaveChats, Stored, Acks

LEMMA PurgeData == ASSUME Inv, Purge PROVE DataTypes' /\ RowsHaveChats'
  <1>1. purges' \in 0 .. MaxPurges
    BY ConversationsAssumption DEF ConversationsAssumption, Purge, Inv, DataTypes
  <1> QED BY <1>1 DEF Purge, Inv, DataTypes, RowsHaveChats, Stored, Acks

LEMMA NextInv == Inv /\ [Next]_vars => Inv'
  <1> SUFFICES ASSUME Inv, [Next]_vars PROVE Inv'
    OBVIOUS
  <1>1. CASE UNCHANGED vars
    BY <1>1 DEF vars, rowVars, histVars, Inv, TasksFine, DataTypes, RowsHaveChats, Stored
  <1>2. ASSUME NEW t \in Procs, Arrives(t) PROVE Inv'
    BY <1>2, ArrivesFine, ArrivesData DEF Inv
  <1>3. ASSUME NEW t \in Procs, Work(t) PROVE Inv'
    BY <1>3, WorkFine, WorkData DEF Inv
  <1>4. ASSUME NEW m \in Messages, Receipt(m) PROVE Inv'
    <2>1. TasksFine'
      BY <1>4 DEF Receipt, Inv, TasksFine
    <2> QED BY <1>4, <2>1, ReceiptData DEF Inv
  <1>5. CASE Purge
    <2>1. TasksFine'
      BY <1>5 DEF Purge, Inv, TasksFine
    <2> QED BY <1>5, <2>1, PurgeData DEF Inv
  <1> QED BY <1>1, <1>2, <1>3, <1>4, <1>5 DEF Next

\* Rows, handlers and the history of a session have their types (TypeOK).
THEOREM ConversationsTypeCorrect == Spec => []TypeOK
  <1>1. Inv => TypeOK
    BY DEF Inv, TypeOK, TasksFine, DataTypes
  <1> QED BY <1>1, InitInv, NextInv, PTL DEF Spec

--------------------------------------------------------------------------------
(* One notice for each row.                                                 *)

\* What makes OneNotice inductive: notices and the rows in the hands of a handler
\* belong to this deletion or an earlier one, and a message without a row has
\* neither of this deletion.
NoticesPast ==
  /\ \A m \in Messages, k \in Nat : <<m, k>> \in notices => k <= purges
  /\ \A t \in Procs : At(t, "announce") => task[t].born <= purges
  /\ \A m \in Messages : ~Stored(m) =>
       /\ <<m, purges>> \notin notices
       /\ \A t \in Procs : At(t, "announce") => Row(t) # <<m, purges>>

NoticeInv == NoticesPast /\ OneNotice

\* Steps that leave the rows, their number and the notices alone, and do not bring a
\* task to its announcement.
LEMMA QuietNotices ==
  ASSUME Inv, NoticeInv,
         \A m \in Messages : Stored(m) => Stored(m)',
         notices' \subseteq notices, purges' = purges,
         \A u \in Procs : At(u, "announce")' => task'[u] = task[u]
  PROVE  NoticeInv'
  BY DEF NoticeInv, NoticesPast, OneNotice, Row, At

\* The tasks but one are the same, and that one is not at an announcement.
LEMMA TaskNotices ==
  ASSUME Inv, NEW t \in Procs, NEW k, Becomes(t, k), k.step # "announce"
  PROVE  \A u \in Procs : At(u, "announce")' => task'[u] = task[u]
  BY DEF Inv, TasksFine, Becomes, At

LEMMA GoesNotices ==
  ASSUME Inv, NEW t \in Procs, NEW step, Goes(t, step), step # "announce"
  PROVE  \A u \in Procs : At(u, "announce")' => task'[u] = task[u]
  <1>1. Fine(task[t]) /\ task[t] \in Task
    BY DEF Inv, TasksFine, Fine
  <1>2. CASE step = "end"
    BY <1>2, TaskNotices DEF Goes, NoTask
  <1>3. CASE step # "end"
    <2>1. [task[t] EXCEPT !.step = step].step = step
      BY <1>1 DEF Task
    <2> QED BY <1>3, <2>1, TaskNotices DEF Goes
  <1> QED BY <1>2, <1>3

LEMMA ArrivesNotices ==
  ASSUME Inv, NoticeInv, NEW t \in Procs, Arrives(t) PROVE NoticeInv'
  <1>1. UNCHANGED <<ack, purges, notices>>
    BY DEF Arrives, Live, Send, React, Identity, MarkRead, History, rowVars, histVars
  <1>2. \E op, item, rest : \E step \in Steps \ {"announce"} : Starts(t, op, step, item, rest)
    BY DEF Arrives, Live, Send, React, Identity, MarkRead, History, Steps
  <1>3. \E k : Becomes(t, k) /\ k.step # "announce"
    BY <1>2 DEF Starts
  <1> QED BY <1>1, <1>3, TaskNotices, QuietNotices DEF Stored

LEMMA InsertNotices ==
  ASSUME Inv, NoticeInv, NEW t \in Procs, Insert(t) PROVE NoticeInv'
  <1>0. PICK m \in Messages : m = task[t].item
    BY DEF Insert, At, Inv, TasksFine, Fine
  <1>1. m \in Messages /\ purges \in Nat /\ task[t] \in Task
    BY ConversationsAssumption
       DEF ConversationsAssumption, Insert, At, Inv, TasksFine, Fine, DataTypes
  <1>2. ~Stored(m) /\ \A i \in Messages : Stored(i) => Stored(i)'
    BY <1>0, <1>1 DEF Insert, Stored, Inv, DataTypes
  <1>3. UNCHANGED <<notices, purges>>
    BY DEF Insert
  <1>4. CASE task[t].op = "history"
    <2>1. \A u \in Procs : At(u, "announce")' => task'[u] = task[u]
      BY <1>4, GoesNotices DEF Insert
    <2> QED BY <1>2, <1>3, <2>1, QuietNotices
  <1>5. CASE task[t].op # "history"
    <2> DEFINE k == [task[t] EXCEPT !.step = "announce", !.born = purges]
    <2>1. task' = [task EXCEPT ![t] = k] /\ task \in [Procs -> Task]
      BY <1>5 DEF Insert, Becomes, Inv, TasksFine
    <2>2. k.item = m /\ k.born = purges
      BY <1>0, <1>1 DEF Task
    <2>3. \A u \in Procs : u # t => task'[u] = task[u]
      BY <2>1
    <2>4. task'[t].item = m /\ task'[t].born = purges
      BY <2>1, <2>2
    <2>5. <<m, purges>> \notin notices
      BY <1>1, <1>2 DEF NoticeInv, NoticesPast
    <2>6. \A u \in Procs : u # t /\ At(u, "announce") => Row(u) # <<m, purges>>
      BY <1>1, <1>2 DEF NoticeInv, NoticesPast
    <2>7. OneNotice'
      BY <1>3, <2>3, <2>4, <2>5, <2>6 DEF NoticeInv, OneNotice, Row, At
    <2>8. Stored(m)'
      <3>1. ack' = [ack EXCEPT ![m] = IF m \in Mine THEN "sent" ELSE "received"]
        BY <1>0 DEF Insert
      <3>2. ack'[m] = IF m \in Mine THEN "sent" ELSE "received"
        BY <1>1, <3>1 DEF Inv, DataTypes
      <3> QED BY <3>2 DEF Stored
    <2>9. NoticesPast'
      <3>1. \A u \in Procs : At(u, "announce")' => task'[u].born <= purges
        BY <1>1, <2>3, <2>4 DEF NoticeInv, NoticesPast, At
      <3>2. \A i \in Messages : ~Stored(i)' =>
              /\ <<i, purges>> \notin notices
              /\ \A u \in Procs : At(u, "announce")' => Row(u)' # <<i, purges>>
        <4> SUFFICES ASSUME NEW i \in Messages, ~Stored(i)'
                     PROVE  /\ <<i, purges>> \notin notices
                            /\ \A u \in Procs : At(u, "announce")' => Row(u)' # <<i, purges>>
          OBVIOUS
        <4>1. i # m /\ ~Stored(i)
          BY <1>2, <2>8
        <4>2. Row(t)' = <<m, purges>>
          BY <2>4 DEF Row
        <4>3. \A u \in Procs : u # t => Row(u)' = Row(u) /\ (At(u, "announce")' <=> At(u, "announce"))
          BY <2>3 DEF Row, At
        <4> QED BY <4>1, <4>2, <4>3 DEF NoticeInv, NoticesPast
      <3> QED BY <1>3, <3>1, <3>2 DEF NoticeInv, NoticesPast
    <2> QED BY <2>7, <2>9 DEF NoticeInv
  <1> QED BY <1>4, <1>5

LEMMA AnnounceNotices ==
  ASSUME Inv, NoticeInv, NEW t \in Procs, Announce(t) PROVE NoticeInv'
  <1>1. task[t].item \in Messages /\ task[t].born \in Nat
    BY DEF Announce, At, Inv, TasksFine, Fine, Task
  <1>2. notices' = notices \cup {Row(t)} /\ UNCHANGED <<ack, purges>>
    BY DEF Announce, Row, rowVars
  <1>3. \A u \in Procs : At(u, "announce")' => task'[u] = task[u]
    BY GoesNotices DEF Announce
  <1>4. ~At(t, "announce")'
    BY DEF Announce, Goes, Becomes, NoTask, At, Inv, TasksFine
  <1>5. \A u \in Procs : At(u, "announce")' => At(u, "announce") /\ u # t /\ Row(u)' = Row(u)
    BY <1>3, <1>4 DEF At, Row
  <1>6. OneNotice'
    BY <1>2, <1>5 DEF NoticeInv, OneNotice, Announce
  <1>7. NoticesPast'
    BY <1>1, <1>2, <1>3, <1>5 DEF NoticeInv, NoticesPast, Announce, Stored, Row
  <1> QED BY <1>6, <1>7 DEF NoticeInv

LEMMA PurgeNotices == ASSUME Inv, NoticeInv, Purge PROVE NoticeInv'
  <1>1. purges \in Nat /\ purges' = purges + 1 /\ UNCHANGED <<task, notices>>
    BY ConversationsAssumption DEF ConversationsAssumption, Purge, Inv, DataTypes
  <1>2. OneNotice'
    BY <1>1 DEF NoticeInv, OneNotice, Row, At
  <1>3. \A t \in Procs : At(t, "announce") => task[t].born \in Nat /\ task[t].born < purges'
    BY <1>1 DEF NoticeInv, NoticesPast, Inv, TasksFine, Task, Fine
  <1>4. \A m \in Messages, k \in Nat : <<m, k>> \in notices => k < purges'
    BY <1>1 DEF NoticeInv, NoticesPast
  <1>5. NoticesPast'
    BY <1>1, <1>3, <1>4 DEF NoticesPast, Row, At
  <1> QED BY <1>2, <1>5 DEF NoticeInv

LEMMA WorkNotices ==
  ASSUME Inv, NoticeInv, NEW t \in Procs, Work(t) PROVE NoticeInv'
  <1>1. CASE Insert(t)
    BY <1>1, InsertNotices
  <1>2. CASE Announce(t)
    BY <1>2, AnnounceNotices
  <1>3. CASE ~Insert(t) /\ ~Announce(t)
    <2>1. UNCHANGED <<purges, notices>> /\ \A m \in Messages : Stored(m) => Stored(m)'
      BY <1>3 DEF Work, Probe, Upsert, ChatNew, InsertNothing, NextItem, HistoryEnd, Tell, Mark,
         Fails, rowVars, histVars, Stored
    <2>2. \/ \E step : Goes(t, step) /\ step # "announce"
          \/ \E k : Becomes(t, k) /\ k.step # "announce"
      <3>1. CASE Probe(t)
        <4>1. [task[t] EXCEPT !.step = "upsert", !.fresh = Chat(t) \notin chats].step = "upsert"
          BY DEF Inv, TasksFine, Task
        <4> QED BY <3>1, <4>1 DEF Probe
      <3>2. CASE NextItem(t)
        <4>1. PICK i : Becomes(t, [task[t] EXCEPT !.step = "probe", !.item = i, !.rest = @ \ {i}])
          BY <3>2 DEF NextItem
        <4>2. [task[t] EXCEPT !.step = "probe", !.item = i, !.rest = @ \ {i}].step = "probe"
          BY DEF Inv, TasksFine, Task
        <4> QED BY <4>1, <4>2
      <3> QED BY <1>3, <3>1, <3>2, DoneIs
           DEF Work, Upsert, ChatNew, AfterChat, InsertNothing, HistoryEnd, Tell, Mark, Fails
    <2> QED BY <2>1, <2>2, GoesNotices, TaskNotices, QuietNotices
  <1> QED BY <1>1, <1>2, <1>3

\* A row is announced once, whatever ways its message comes by (OneNotice).
THEOREM RowsAnnouncedOnce == Spec => []OneNotice
  <1>1. Init => NoticeInv
    BY DEF Init, NoticeInv, NoticesPast, OneNotice, At, NoTask
  <1>2. Inv /\ NoticeInv /\ [Next]_vars => NoticeInv'
    <2> SUFFICES ASSUME Inv, NoticeInv, [Next]_vars PROVE NoticeInv'
      OBVIOUS
    <2>1. CASE UNCHANGED vars
      BY <2>1, QuietNotices DEF vars, rowVars, histVars, Stored
    <2>2. ASSUME NEW m \in Messages, Receipt(m) PROVE NoticeInv'
      BY <2>2, QuietNotices DEF Receipt, histVars, Stored, Inv, DataTypes
    <2> QED BY <2>1, <2>2, ArrivesNotices, WorkNotices, PurgeNotices DEF Next
  <1>3. NoticeInv => OneNotice
    BY DEF NoticeInv
  <1> QED BY <1>1, <1>2, <1>3, InitInv, NextInv, PTL DEF Spec

--------------------------------------------------------------------------------
(* No row stays unknown to the browsers.                                    *)

\* A handler that is neither announcing a row nor leaving a history sync is not missed.
LEMMA NotMissed ==
  ASSUME Inv, Announced, NEW t \in Procs, NEW k, Becomes(t, k), owed' \subseteq owed,
         ~At(t, "announce"), task[t].op = "history" => k.op = "history"
  PROVE  Announced'
  BY DEF Inv, TasksFine, Announced, Becomes, At

\* What Goes makes of a task.
Gone(k, step) == IF step = "end" THEN NoTask ELSE [k EXCEPT !.step = step]

LEMMA GoesIs ==
  ASSUME Inv, NEW t \in Procs, NEW step, Goes(t, step)
  PROVE  /\ Becomes(t, Gone(task[t], step))
         /\ step # "end" =>
              LET k == Gone(task[t], step) IN
                k.step = step /\ k.op = task[t].op /\ k.item = task[t].item /\ k.rest = task[t].rest
         /\ step = "end" => Gone(task[t], step) = NoTask
  <1>1. task[t] \in Task
    BY DEF Inv, TasksFine
  <1> QED BY <1>1 DEF Goes, Gone, Task

LEMMA NotMissedGoes ==
  ASSUME Inv, Announced, NEW t \in Procs, NEW step, Goes(t, step), owed' \subseteq owed,
         ~At(t, "announce"), task[t].op = "history" => step # "end"
  PROVE  Announced'
  BY GoesIs, NotMissed

LEMMA ArrivesAnnounced ==
  ASSUME Inv, Announced, NEW t \in Procs, Arrives(t) PROVE Announced'
  <1>1. UNCHANGED owed
    BY DEF Arrives, Live, Send, React, Identity, MarkRead, History, histVars
  <1>2. \E op, step, item, rest : Starts(t, op, step, item, rest)
    BY DEF Arrives, Live, Send, React, Identity, MarkRead, History
  <1>3. task[t].step = "free" /\ task[t].op # "history" /\ \E k : Becomes(t, k)
    BY <1>2 DEF Starts, At, Inv, TasksFine, Fine
  <1> QED BY <1>1, <1>3, NotMissed DEF At

LEMMA InsertAnnounced ==
  ASSUME Inv, Announced, NEW t \in Procs, Insert(t) PROVE Announced'
  <1>1. task[t].step = "insert" /\ task[t] \in Task /\ task \in [Procs -> Task]
    BY DEF Insert, At, Inv, TasksFine
  <1>2. owed' = owed \cup {task[t].item}
    BY DEF Insert
  <1>3. /\ task[t].op = "history" => task'[t].op = "history"
        /\ task[t].op # "history" => task'[t].step = "announce" /\ task'[t].item = task[t].item
    <2>1. CASE task[t].op = "history"
      BY <1>1, <2>1, GoesIs DEF Insert, Becomes
    <2>2. CASE task[t].op # "history"
      <3>1. task'[t] = [task[t] EXCEPT !.step = "announce", !.born = purges]
        BY <1>1, <2>2 DEF Insert, Becomes
      <3> QED BY <1>1, <3>1 DEF At, Task
    <2> QED BY <2>1, <2>2
  <1>4. \A u \in Procs : u # t => task'[u] = task[u]
    BY <1>1 DEF Insert, Goes, Becomes
  <1>5. ASSUME NEW m \in owed'
        PROVE  \E u \in Procs : \/ task'[u].step = "announce" /\ task'[u].item = m
                               \/ task'[u].op = "history"
    <2>1. CASE m = task[t].item
      BY <1>3, <2>1
    <2>2. CASE m # task[t].item
      <3>1. m \in owed
        BY <1>2, <1>5, <2>2
      <3>2. PICK u \in Procs : \/ task[u].step = "announce" /\ task[u].item = m
                              \/ task[u].op = "history"
        BY <3>1 DEF Announced, At
      <3>3. CASE u = t
        <4>1. task[t].op = "history"
          BY <1>1, <3>2, <3>3
        <4> QED BY <1>3, <4>1
      <3>4. CASE u # t
        BY <1>4, <3>2, <3>4
      <3> QED BY <3>3, <3>4
    <2> QED BY <2>1, <2>2
  <1> QED BY <1>5 DEF Announced, At

LEMMA WorkAnnounced ==
  ASSUME Inv, Announced, NEW t \in Procs, Work(t) PROVE Announced'
  <1>1. Fine(task[t]) /\ task[t] \in Task
    BY DEF Inv, TasksFine, Fine
  <1>2. CASE ChatNew(t) \/ HistoryEnd(t)
    BY <1>2 DEF ChatNew, HistoryEnd, Announced
  <1>3. CASE Insert(t)
    BY <1>3, InsertAnnounced
  <1>4. CASE Announce(t)
    <2>1. task[t].op # "history" /\ owed' = owed \ {task[t].item}
      BY <1>1, <1>4 DEF Announce, At, Fine
    <2>2. \A u \in Procs : u # t => task'[u] = task[u]
      BY <1>4 DEF Announce, Goes, Becomes, Inv, TasksFine
    <2>3. ASSUME NEW m \in owed'
          PROVE  \E u \in Procs : \/ task'[u].step = "announce" /\ task'[u].item = m
                                 \/ task'[u].op = "history"
      <3>1. m \in owed /\ m # task[t].item
        BY <2>1, <2>3
      <3>2. PICK u \in Procs : \/ task[u].step = "announce" /\ task[u].item = m
                              \/ task[u].op = "history"
        BY <3>1 DEF Announced, At
      <3>3. u # t
        BY <2>1, <3>1, <3>2
      <3> QED BY <2>2, <3>2, <3>3
    <2> QED BY <2>3 DEF Announced, At
  <1>5. CASE Probe(t)
    <2>1. [task[t] EXCEPT !.step = "upsert", !.fresh = Chat(t) \notin chats].op = task[t].op
      BY <1>1 DEF Task
    <2> QED BY <1>5, <2>1, NotMissed DEF Probe, At, histVars
  <1>6. CASE NextItem(t)
    <2>1. PICK i : Becomes(t, [task[t] EXCEPT !.step = "probe", !.item = i, !.rest = @ \ {i}])
      BY <1>6 DEF NextItem
    <2>2. [task[t] EXCEPT !.step = "probe", !.item = i, !.rest = @ \ {i}].op = task[t].op
      BY <1>1 DEF Task
    <2> QED BY <1>6, <2>1, <2>2, NotMissed DEF NextItem, At, histVars
  <1>7. CASE Upsert(t)
    <2>1. owed' = owed /\ ~At(t, "announce")
      BY <1>7 DEF Upsert, At, histVars
    <2>2. \E step \in {"chatNew", AfterChat(t)} : Goes(t, step)
      BY <1>7 DEF Upsert
    <2>3. task[t].op = "history" => AfterChat(t) # "end"
      BY DEF AfterChat, Done
    <2> QED BY <2>1, <2>2, <2>3, NotMissedGoes
  <1>8. CASE InsertNothing(t) \/ Fails(t)
    <2>1. owed' = owed /\ ~At(t, "announce") /\ Goes(t, Done(t))
      BY <1>8 DEF InsertNothing, Fails, At, histVars
    <2>2. task[t].op = "history" => Done(t) # "end"
      BY DEF Done
    <2> QED BY <2>1, <2>2, NotMissedGoes
  <1>9. CASE Tell(t) \/ Mark(t)
    <2>1. owed' = owed /\ ~At(t, "announce") /\ task[t].op # "history"
      BY <1>1, <1>9 DEF Tell, Mark, At, histVars, Fine
    <2> QED BY <1>9, <2>1, NotMissedGoes DEF Tell, Mark
  <1> QED BY <1>2, <1>3, <1>4, <1>5, <1>6, <1>7, <1>8, <1>9 DEF Work

\* Every row the browsers were not told about is still going to be announced
\* (Announced).
THEOREM RowsGetAnnounced == Spec => []Announced
  <1>1. Init => Announced
    BY DEF Init, Announced
  <1>2. Inv /\ Announced /\ [Next]_vars => Announced'
    <2> SUFFICES ASSUME Inv, Announced, [Next]_vars PROVE Announced'
      OBVIOUS
    <2>1. CASE UNCHANGED vars
      BY <2>1 DEF vars, histVars, Announced, At
    <2>2. ASSUME NEW m \in Messages, Receipt(m) PROVE Announced'
      BY <2>2 DEF Receipt, histVars, Announced, At
    <2>3. CASE Purge
      BY <2>3 DEF Purge, Announced
    <2> QED BY <2>1, <2>2, <2>3, ArrivesAnnounced, WorkAnnounced DEF Next
  <1> QED BY <1>1, <1>2, InitInv, NextInv, PTL DEF Spec

--------------------------------------------------------------------------------
(* No message is lost.                                                      *)

\* What makes NothingLost inductive: a handler stores only what was delivered, so a
\* deletion excuses all of it, and the chat of what it is about to insert has a row.
StoreInv ==
  /\ \A t \in Procs, m \in Messages : Storing(task[t], m) => m \in delivered
  /\ \A t \in Procs :
       task[t].step \in {"chatNew", "insert"} /\ task[t].item \in Messages \ excused
         => ChatOf[task[t].item] \in chats
  /\ NothingLost

\* One task becomes another, and what the first would have stored is not lost.
LEMMA HandsOver ==
  ASSUME Inv, StoreInv, NEW t \in Procs, NEW k, Becomes(t, k),
         chats \subseteq chats', delivered \subseteq delivered', excused \subseteq excused',
         \A m \in Messages : Stored(m) => Stored(m)',
         \A m \in Messages : Storing(k, m) => m \in delivered',
         k.step \in {"chatNew", "insert"} /\ k.item \in Messages \ excused'
           => ChatOf[k.item] \in chats',
         \A m \in Messages : m \in delivered' \ delivered => Storing(k, m),
         \A m \in Messages : Storing(task[t], m)
           => Storing(k, m) \/ Stored(m)' \/ m \in excused',
         delivered' \subseteq Messages
  PROVE  StoreInv'
  <1>1. task'[t] = k /\ \A u \in Procs : u # t => task'[u] = task[u]
    BY DEF Becomes, Inv, TasksFine
  <1>2. \A u \in Procs, m \in Messages : Storing(task'[u], m) => m \in delivered'
    BY <1>1 DEF StoreInv
  <1>3. \A u \in Procs :
          task'[u].step \in {"chatNew", "insert"} /\ task'[u].item \in Messages \ excused'
            => ChatOf[task'[u].item] \in chats'
    BY <1>1 DEF StoreInv
  <1>4. ASSUME NEW m \in delivered' \ excused'
        PROVE  Stored(m)' \/ \E u \in Procs : Storing(task'[u], m)
    <2>1. CASE m \notin delivered
      BY <1>1, <2>1
    <2>2. CASE m \in delivered
      <3>1. Stored(m) \/ \E u \in Procs : Storing(task[u], m)
        BY <2>2 DEF StoreInv, NothingLost
      <3>2. CASE Stored(m)
        BY <3>2
      <3>3. ASSUME NEW u \in Procs, Storing(task[u], m)
            PROVE  Stored(m)' \/ \E v \in Procs : Storing(task'[v], m)
        <4>1. CASE u = t
          BY <1>1, <3>3, <4>1
        <4>2. CASE u # t
          BY <1>1, <3>3, <4>2
        <4> QED BY <4>1, <4>2
      <3> QED BY <3>1, <3>2, <3>3
    <2> QED BY <2>1, <2>2
  <1>5. NothingLost'
    BY <1>4 DEF NothingLost
  <1> QED BY <1>2, <1>3, <1>5 DEF StoreInv, Storing

\* A task that is not storing anything loses nothing by starting something else.
LEMMA FreeStoresNothing ==
  ASSUME Inv, NEW t \in Procs, At(t, "free"), NEW m \in Messages PROVE ~Storing(task[t], m)
  BY DEF Inv, TasksFine, Fine, At, Storing

LEMMA ArrivesStore ==
  ASSUME Inv, StoreInv, NEW t \in Procs, Arrives(t) PROVE StoreInv'
  <1>1. At(t, "free") /\ UNCHANGED <<chats, ack, excused>>
    BY DEF Arrives, Live, Send, React, Identity, MarkRead, History, Starts, rowVars, histVars
  <1>2. \A m \in Messages : ~Storing(task[t], m)
    BY <1>1, FreeStoresNothing
  <1>3. \A m \in Messages : Stored(m) => Stored(m)'
    BY <1>1 DEF Stored
  <1>4. delivered \subseteq Messages
    BY DEF Inv, DataTypes
  <1>5. ASSUME NEW m \in Messages, NEW op, NEW step \in {"probe", "insert"}, op # "history",
               Starts(t, op, step, m, {}), delivered' = delivered \cup {m},
               step = "insert" => ChatOf[m] \in chats
        PROVE  StoreInv'
    <2> DEFINE k == [op |-> op, step |-> step, item |-> m, rest |-> {}, fresh |-> FALSE, born |-> 0]
    <2>1. Becomes(t, k)
      BY <1>5 DEF Starts
    <2>2. \A i \in Messages : Storing(k, i) <=> i = m
      BY <1>5 DEF Storing
    <2>3. k.step \in {"chatNew", "insert"} /\ k.item \in Messages \ excused'
            => ChatOf[k.item] \in chats'
      BY <1>1, <1>5
    <2> HIDE DEF k
    <2> QED BY <1>1, <1>2, <1>3, <1>4, <1>5, <2>1, <2>2, <2>3, HandsOver
  <1>6. ASSUME NEW m \in Messages, Live(t, m) \/ Send(t, m) PROVE StoreInv'
    BY <1>5, <1>6 DEF Live, Send
  <1>7. ASSUME NEW m \in Messages, React(t, m) PROVE StoreInv'
    <2>1. ChatOf[m] \in chats
      BY <1>7 DEF React, Inv, RowsHaveChats
    <2> QED BY <1>5, <1>7, <2>1 DEF React
  <1>8. ASSUME NEW c \in Chats, Identity(t, c) \/ MarkRead(t, c) PROVE StoreInv'
    <2>1. PICK k : Becomes(t, k) /\ k.op # "history" /\ k.step \in {"probe", "tell"} /\ k.item = c
      BY <1>8 DEF Identity, MarkRead, Starts
    <2>2. \A m \in Messages : ~Storing(k, m)
      BY <2>1, ConversationsAssumption DEF ConversationsAssumption, Storing
    <2>3. delivered' = delivered
      BY <1>8 DEF Identity, MarkRead, histVars
    <2> QED BY <1>1, <1>2, <1>3, <1>4, <2>1, <2>2, <2>3, HandsOver
  <1>9. CASE History(t)
    <2>1. PICK C \in SUBSET Chats, M \in SUBSET Messages :
            Starts(t, "history", "next", Nil, C \cup M) /\ delivered' = delivered \cup M
      BY <1>9 DEF History
    <2>2. PICK k : Becomes(t, k) /\ k.op = "history" /\ k.step = "next" /\ k.rest = C \cup M
      BY <2>1 DEF Starts
    <2>3. \A m \in Messages : Storing(k, m) <=> m \in M
      BY <2>2, ConversationsAssumption DEF ConversationsAssumption, Storing
    <2> QED BY <1>1, <1>2, <1>3, <1>4, <2>1, <2>2, <2>3, HandsOver
  <1> QED BY <1>6, <1>7, <1>8, <1>9 DEF Arrives

\* A task that goes on or ends keeps what it has still to store, but the message it
\* leaves must have its row or be excused.
LEMMA GoesOver ==
  ASSUME Inv, StoreInv, NEW t \in Procs,
         NEW step \in {"next", "mark", "insert", "chatNew", "announce", "end"}, Goes(t, step),
         delivered' = delivered, chats \subseteq chats', excused \subseteq excused',
         \A m \in Messages : Stored(m) => Stored(m)',
         step = "end" => task[t].op # "history" \/ task[t].rest = {},
         step \in {"insert", "chatNew"} =>
           /\ task[t].step \in {"upsert", "chatNew"}
           /\ task[t].item \in Messages \ excused' => ChatOf[task[t].item] \in chats',
         step \notin {"insert", "chatNew"}
           /\ task[t].step \in {"probe", "upsert", "chatNew", "insert"}
           => \A m \in Messages : m = task[t].item => Stored(m)' \/ m \in excused'
  PROVE  StoreInv'
  <1> DEFINE k == Gone(task[t], step)
  <1>1. Becomes(t, k)
    BY GoesIs
  <1>2. step # "end" =>
          k.step = step /\ k.op = task[t].op /\ k.item = task[t].item /\ k.rest = task[t].rest
    BY GoesIs
  <1>3. step = "end" => k = NoTask
    BY GoesIs
  <1>4. \A m \in Messages : Storing(k, m) => Storing(task[t], m)
    BY <1>2, <1>3 DEF NoTask, Storing
  <1>5. k.step \in {"chatNew", "insert"} /\ k.item \in Messages \ excused'
          => ChatOf[k.item] \in chats'
    BY <1>2, <1>3 DEF NoTask
  <1>6. ASSUME NEW m \in Messages, Storing(task[t], m)
        PROVE  Storing(k, m) \/ Stored(m)' \/ m \in excused'
    <2>1. CASE task[t].op = "history" /\ m \in task[t].rest
      BY <1>2, <2>1 DEF Storing
    <2>2. CASE task[t].item = m /\ task[t].step \in {"probe", "upsert", "chatNew", "insert"}
      <3>1. CASE step \in {"insert", "chatNew"}
        BY <1>2, <2>2, <3>1 DEF Storing
      <3>2. CASE step \notin {"insert", "chatNew"}
        BY <2>2, <3>2
      <3> QED BY <3>1, <3>2
    <2> QED BY <1>6, <2>1, <2>2 DEF Storing
  <1>7. delivered \subseteq Messages /\ \A m \in Messages : Storing(k, m) => m \in delivered
    BY <1>4 DEF StoreInv, Inv, DataTypes
  <1> HIDE DEF k
  <1> QED BY <1>1, <1>5, <1>6, <1>7, HandsOver

LEMMA InsertStore ==
  ASSUME Inv, StoreInv, NEW t \in Procs, Insert(t) PROVE StoreInv'
  <1>1. task[t].step = "insert" /\ task[t] \in Task
    BY DEF Insert, At, Inv, TasksFine
  <1>2. PICK m \in Messages : m = task[t].item
    BY DEF Insert, At, Inv, TasksFine, Fine
  <1>3. ack' = [ack EXCEPT ![m] = IF m \in Mine THEN "sent" ELSE "received"]
    BY <1>2 DEF Insert
  <1>4. Stored(m)' /\ \A i \in Messages : Stored(i) => Stored(i)'
    BY <1>3 DEF Inv, DataTypes, Stored
  <1>5. UNCHANGED <<chats, delivered, excused>>
    BY DEF Insert
  <1>6. CASE task[t].op = "history"
    <2>1. Goes(t, "next")
      BY <1>6 DEF Insert
    <2>2. \A i \in Messages : i = task[t].item => Stored(i)'
      BY <1>2, <1>4
    <2>3. /\ delivered' = delivered /\ chats \subseteq chats' /\ excused \subseteq excused'
          /\ \A i \in Messages : i = task[t].item => Stored(i)' \/ i \in excused'
      BY <1>5, <2>2
    <2> QED BY <1>4, <2>1, <2>3, GoesOver
  <1>7. CASE task[t].op # "history"
    <2> DEFINE k == [task[t] EXCEPT !.step = "announce", !.born = purges]
    <2>0. k.step = "announce" /\ k.op = task[t].op
      BY <1>1 DEF Task
    <2>1. Becomes(t, k)
      BY <1>7 DEF Insert
    <2> HIDE DEF k
    <2>2. \A i \in Messages : ~Storing(k, i)
      BY <1>7, <2>0 DEF Storing
    <2>3. \A i \in Messages : Storing(task[t], i) => i = m
      BY <1>2, <1>7 DEF Storing
    <2>4. delivered \subseteq Messages
      BY DEF Inv, DataTypes
    <2>5. \A i \in Messages : Storing(task[t], i) => Stored(i)'
      BY <1>4, <2>3
    <2> QED BY <1>4, <1>5, <2>0, <2>1, <2>2, <2>4, <2>5, HandsOver
  <1> QED BY <1>6, <1>7

LEMMA WorkStore ==
  ASSUME Inv, StoreInv, NEW t \in Procs, Work(t) PROVE StoreInv'
  <1>1. Fine(task[t]) /\ task[t] \in Task /\ delivered \subseteq Messages
    BY DEF Inv, TasksFine, DataTypes, Fine
  <1>2. CASE Probe(t)
    <2> DEFINE k == [task[t] EXCEPT !.step = "upsert", !.fresh = Chat(t) \notin chats]
    <2>0. /\ k.step = "upsert"
          /\ k.op = task[t].op /\ k.item = task[t].item /\ k.rest = task[t].rest
      BY <1>1 DEF Task
    <2>1. Becomes(t, k)
      BY <1>2 DEF Probe
    <2> HIDE DEF k
    <2>2. \A m \in Messages : Storing(k, m) <=> Storing(task[t], m)
      BY <1>2, <2>0 DEF Probe, At, Storing
    <2>3. UNCHANGED <<chats, ack, delivered, excused>>
      BY <1>2 DEF Probe, rowVars, histVars
    <2>4. \A m \in Messages : Storing(k, m) => m \in delivered
      BY <2>2 DEF StoreInv
    <2> QED BY <1>1, <2>0, <2>1, <2>2, <2>3, <2>4, HandsOver DEF Stored
  <1>3. CASE Upsert(t) \/ ChatNew(t)
    <2>1. task[t].step \in {"upsert", "chatNew"} /\ task[t].item \in Chats \cup Messages
      BY <1>1, <1>3 DEF Upsert, ChatNew, At, Fine
    <2>2. UNCHANGED <<ack, delivered, excused>> /\ chats \subseteq chats'
      BY <1>3 DEF Upsert, ChatNew, rowVars, histVars
    <2>3. task[t].item \in Messages \ excused => ChatOf[task[t].item] \in chats'
      <3>1. CASE Upsert(t)
        BY <3>1, ConversationsAssumption DEF ConversationsAssumption, Upsert, Chat
      <3>2. CASE ChatNew(t)
        BY <2>2, <3>2 DEF ChatNew, At, StoreInv
      <3> QED BY <1>3, <3>1, <3>2
    <2>4. Goes(t, "chatNew") \/ Goes(t, AfterChat(t))
      BY <1>3 DEF Upsert, ChatNew
    <2>5. CASE Goes(t, "chatNew")
      BY <2>1, <2>2, <2>3, <2>5, GoesOver DEF Stored
    <2>6. CASE Goes(t, AfterChat(t)) /\ task[t].item \in Messages
      BY <2>1, <2>2, <2>3, <2>6, GoesOver DEF Stored, AfterChat
    <2>7. CASE Goes(t, AfterChat(t)) /\ task[t].item \notin Messages
      BY <2>1, <2>2, <2>7, GoesOver DEF Stored, AfterChat, Done
    <2> QED BY <2>4, <2>5, <2>6, <2>7
  <1>4. CASE Insert(t)
    BY <1>4, InsertStore
  <1>5. CASE InsertNothing(t)
    <2>1. task[t].step = "insert" /\ task[t].item \in Messages
      BY <1>1, <1>5 DEF InsertNothing, At, Fine
    <2>2. UNCHANGED <<chats, ack, delivered, excused>> /\ Goes(t, Done(t))
      BY <1>5 DEF InsertNothing, rowVars, histVars
    <2>3. \A m \in Messages : m = task[t].item => Stored(m) \/ m \in excused
      BY <1>5, <2>1, ConversationsAssumption
         DEF ConversationsAssumption, InsertNothing, Chat, StoreInv
    <2> QED BY <2>1, <2>2, <2>3, GoesOver DEF Stored, Done
  <1>6. CASE Announce(t) \/ Tell(t) \/ Mark(t)
    <2>1. task[t].step \in {"announce", "tell", "mark"} /\ task[t].op # "history"
      BY <1>1, <1>6 DEF Announce, Tell, Mark, At, Fine
    <2>2. UNCHANGED <<chats, delivered, excused>> /\ \A m \in Messages : Stored(m) => Stored(m)'
      BY <1>6 DEF Announce, Tell, Mark, rowVars, histVars, Stored
    <2>3. \E step \in {"end", "mark"} : Goes(t, step)
      BY <1>6 DEF Announce, Tell, Mark
    <2> QED BY <2>1, <2>2, <2>3, GoesOver
  <1>7. CASE NextItem(t)
    <2>1. PICK i \in task[t].rest :
            Becomes(t, [task[t] EXCEPT !.step = "probe", !.item = i, !.rest = @ \ {i}])
      BY <1>7 DEF NextItem
    <2> DEFINE k == [task[t] EXCEPT !.step = "probe", !.item = i, !.rest = @ \ {i}]
    <2>2. /\ k.step = "probe"
          /\ k.op = task[t].op /\ k.item = i /\ k.rest = task[t].rest \ {i}
      BY <1>1 DEF Task
    <2>3. Becomes(t, k)
      BY <2>1
    <2> HIDE DEF k
    <2>4. task[t].step = "next" /\ task[t].op = "history"
      BY <1>1, <1>7 DEF NextItem, At, Fine
    <2>5. \A m \in Messages : Storing(k, m) <=> Storing(task[t], m)
      BY <2>1, <2>2, <2>4 DEF Storing
    <2>6. UNCHANGED <<chats, ack, delivered, excused>>
      BY <1>7 DEF NextItem, rowVars, histVars
    <2>7. \A m \in Messages : Storing(k, m) => m \in delivered
      BY <2>5 DEF StoreInv
    <2> QED BY <1>1, <2>2, <2>3, <2>5, <2>6, <2>7, HandsOver DEF Stored
  <1>8. CASE HistoryEnd(t)
    <2>1. task[t].step = "next" /\ task[t].rest = {} /\ Goes(t, "end")
      BY <1>8 DEF HistoryEnd, At
    <2>2. UNCHANGED <<chats, ack, delivered, excused>>
      BY <1>8 DEF HistoryEnd, rowVars
    <2> QED BY <2>1, <2>2, GoesOver DEF Stored
  <1>9. CASE Fails(t)
    <2>1. UNCHANGED <<chats, ack, delivered>> /\ Goes(t, Done(t)) /\ excused \subseteq excused'
      BY <1>9 DEF Fails, rowVars
    <2>2. \A m \in Messages : m = task[t].item => m \in excused'
      BY <1>9 DEF Fails
    <2> QED BY <2>1, <2>2, GoesOver DEF Stored, Done
  <1> QED BY <1>2, <1>3, <1>4, <1>5, <1>6, <1>7, <1>8, <1>9 DEF Work

\* A message that was handed over or accepted gets its row, whatever else goes on, if
\* no statement fails for it and the session is not deleted (NothingLost).
THEOREM MessagesGetStored == Spec => []NothingLost
  <1>1. Init => StoreInv
    BY DEF Init, StoreInv, NothingLost, Storing, NoTask
  <1>2. Inv /\ StoreInv /\ [Next]_vars => StoreInv'
    <2> SUFFICES ASSUME Inv, StoreInv, [Next]_vars PROVE StoreInv'
      OBVIOUS
    <2>1. CASE UNCHANGED vars
      BY <2>1 DEF vars, rowVars, histVars, StoreInv, NothingLost, Storing, Stored
    <2>2. ASSUME NEW m \in Messages, Receipt(m) PROVE StoreInv'
      <3>1. UNCHANGED <<chats, task, delivered, excused>> /\ \A i \in Messages : Stored(i) => Stored(i)'
        BY <2>2 DEF Receipt, histVars, Stored, Inv, DataTypes
      <3> QED BY <3>1 DEF StoreInv, NothingLost, Storing, Inv, DataTypes
    <2>3. CASE Purge
      BY <2>3 DEF Purge, StoreInv, NothingLost, Storing
    <2> QED BY <2>1, <2>2, <2>3, ArrivesStore, WorkStore DEF Next
  <1>3. StoreInv => NothingLost
    BY DEF StoreInv
  <1> QED BY <1>1, <1>2, <1>3, InitInv, NextInv, PTL DEF Spec

================================================================================
