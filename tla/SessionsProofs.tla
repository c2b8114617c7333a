----------------------------- MODULE SessionsProofs -----------------------------
(***************************************************************************)
(* Theorems about Sessions, for any sessions, devices, clients and tasks,  *)
(* any requests and any of the things that can happen around the manager.  *)
(***************************************************************************)
EXTENDS Sessions, TLAPS

--------------------------------------------------------------------------------
(* The invariant.                                                           *)

UpdateOps == {"online", "initializing", "fail", "dropped", "connected", "paired",
              "code", "success", "disconnect", "loggedOut"}

ClientSteps == {"test", "busy", "flag", "open", "dial", "unflag"}

Owned(c) == c \in Clients => owner[c] \in Sessions

\* What a task can be: which steps have a client, which operations update a row,
\* and what is left to do after an update.
Fine(t, k) ==
  /\ k \in Task
  /\ k.step # "free" => k.of \in Sessions
  /\ k.step \in ClientSteps => k.arg \in Clients
  /\ k.step = "cut" => k.arg \in Clients \cup {Nil}
  /\ k.step \in {"read", "save"} => k.op \in UpdateOps
  /\ k.step \in {"read", "save"} /\ k.op \in {"connected", "paired"} => k.arg \in Devices \cup {Nil}
  /\ k.step \notin {"read", "save"} => k.then = "end"
  /\ k.then \in {"dial", "unflag"} => k.arg \in Clients
  /\ k.then \in {"end", "wait", "dial", "unflag", "reset"}
  /\ t \in Clients => k.step \in {"free", "wait", "read", "save"} /\ k.then \in {"end", "wait"}

TasksFine ==
  /\ task \in [Tasks -> Task]
  /\ \A t \in Tasks : Fine(t, task[t]) /\ Owned(task[t].arg)

\* A client that anybody can reach belongs to a session.
ClientsOwned ==
  /\ \A s \in Sessions : Owned(runtime[s].client)
  /\ \A c \in Clients : link[c] # "down" => owner[c] \in Sessions

RowTypes     == row \in [Sessions -> Row]
RuntimeTypes == runtime \in [Sessions -> [client : Clients \cup {Nil}, connecting : BOOLEAN]]
WorldTypes   == devices \subseteq Devices /\ trusted \subseteq Devices

Inv ==
  /\ RowTypes /\ RuntimeTypes /\ WorldTypes /\ ClientTypes
  /\ booting \subseteq Sessions
  /\ TasksFine /\ ClientsOwned

SessionsInv == Inv /\ disturbed \subseteq Sessions

LEMMA InvTypes == SessionsInv => TypeOK
  BY DEF SessionsInv, Inv, TypeOK, RowTypes, RuntimeTypes, WorldTypes, TasksFine

LEMMA NoTaskType == NoTask \in Task /\ NoTask.arg \notin Clients
  BY SessionsAssumption DEF SessionsAssumption, NoTask, NoRow, Task, Row, Status, Ops, Steps

LEMMA NoTaskFine == \A t \in Tasks : Fine(t, NoTask) /\ Owned(NoTask.arg)
  BY NoTaskType DEF Fine, Owned, NoTask, ClientSteps

LEMMA InitInv == Init => SessionsInv
  <1> SUFFICES ASSUME Init PROVE SessionsInv
    OBVIOUS
  <1>1. RowTypes /\ RuntimeTypes /\ WorldTypes /\ ClientTypes /\ booting \subseteq Sessions
    BY DEF Init, RowTypes, RuntimeTypes, WorldTypes, ClientTypes, NoRow, NoRuntime, Row, Status
  <1>2. TasksFine
    BY NoTaskFine DEF Init, TasksFine, Fine
  <1>3. ClientsOwned
    BY SessionsAssumption DEF Init, ClientsOwned, Owned, NoRuntime, SessionsAssumption
  <1> QED BY <1>1, <1>2, <1>3 DEF SessionsInv, Inv, Init

--------------------------------------------------------------------------------
(* Steps that change a task and nothing else.                               *)

dataVars == <<row, runtime, booting, worldVars, clientVars>>

\* Clients never lose their session while the process lives.
OwnersKept == \A c \in Clients : owner[c] \in Sessions => owner'[c] \in Sessions

LEMMA TaskChange ==
  ASSUME Inv, NEW t \in Tasks, NEW k, Fine(t, k), Owned(k.arg), Becomes(t, k), OwnersKept
  PROVE  TasksFine'
  BY DEF Inv, TasksFine, Becomes, Fine, Owned, OwnersKept

LEMMA OneTask ==
  ASSUME Inv, NEW t \in Tasks, NEW k, Fine(t, k), Owned(k.arg), Becomes(t, k),
         UNCHANGED dataVars
  PROVE  Inv'
  <1>1. OwnersKept
    BY DEF dataVars, clientVars, OwnersKept
  <1>2. TasksFine'
    BY <1>1, TaskChange
  <1> QED
    BY <1>2 DEF Inv, dataVars, worldVars, clientVars, RowTypes, RuntimeTypes, WorldTypes,
       ClientTypes, ClientsOwned, Owned

LEMMA UpdatingFine ==
  ASSUME Inv, NEW t \in Tasks, ~Free(t), NEW op \in UpdateOps,
         NEW then \in {"end", "wait", "dial", "unflag", "reset"},
         op \in {"connected", "paired"} => task[t].arg \in Devices \cup {Nil},
         then \in {"dial", "unflag"} => task[t].arg \in Clients,
         t \in Clients => then \in {"end", "wait"}
  PROVE  Fine(t, Updating(t, op, then)) /\ Owned(Updating(t, op, then).arg)
  <1>1. Fine(t, task[t]) /\ Owned(task[t].arg) /\ task[t] \in Task
    BY DEF Inv, TasksFine
  <1>2. NoRow \in Row
    BY DEF NoRow, Row, Status
  <1>3. Updating(t, op, then) \in Task
    BY <1>1, <1>2 DEF Updating, Task, UpdateOps, Ops, Steps
  <1>4. /\ Updating(t, op, then).step = "read" /\ Updating(t, op, then).op = op
        /\ Updating(t, op, then).then = then /\ Updating(t, op, then).arg = task[t].arg
        /\ Updating(t, op, then).of = task[t].of
    BY <1>1 DEF Updating, Task
  <1> QED BY <1>1, <1>3, <1>4 DEF Fine, Free, ClientSteps

LEMMA ReturnsFine ==
  ASSUME Inv, NEW t \in Tasks, task[t].step \in {"read", "save"}, Returns(t)
  PROVE  \E k : Fine(t, k) /\ Owned(k.arg) /\ Becomes(t, k)
  <1>1. Fine(t, task[t]) /\ Owned(task[t].arg) /\ task[t] \in Task
    BY DEF Inv, TasksFine
  <1>2. NoRow \in Row
    BY DEF NoRow, Row, Status
  <1>3. CASE task[t].then = "end"
    BY <1>3, NoTaskFine DEF Returns
  <1>4. CASE task[t].then # "end"
    <2> DEFINE k == [task[t] EXCEPT !.step = task[t].then, !.then = "end", !.saw = NoRow]
    <2>1. k \in Task
      BY <1>1, <1>2 DEF Task, Steps, Fine
    <2>2. k.step = task[t].then /\ k.then = "end" /\ k.arg = task[t].arg /\ k.of = task[t].of
      BY <1>1 DEF Task
    <2>3. Fine(t, k) /\ Owned(k.arg)
      BY <1>1, <1>4, <2>1, <2>2 DEF Fine, ClientSteps
    <2>4. Becomes(t, k)
      BY <1>4 DEF Returns
    <2> QED BY <2>3, <2>4
  <1> QED BY <1>3, <1>4

\* A step of a task that is not updating.
LEMMA GoesFine ==
  ASSUME Inv, NEW t \in Tasks, ~Free(t), task[t].step \notin {"read", "save"},
         NEW step \in Steps \ {"free", "read", "save"}, Goes(t, step),
         step \in ClientSteps => task[t].arg \in Clients,
         step = "cut" => task[t].arg \in Clients \cup {Nil},
         t \in Clients => step \in {"wait", "end"}
  PROVE  \E k : Fine(t, k) /\ Owned(k.arg) /\ Becomes(t, k)
  <1>1. Fine(t, task[t]) /\ Owned(task[t].arg) /\ task[t] \in Task
    BY DEF Inv, TasksFine
  <1>2. CASE step = "end"
    BY <1>2, NoTaskFine DEF Goes
  <1>3. CASE step # "end"
    <2> DEFINE k == [task[t] EXCEPT !.step = step]
    <2>1. k \in Task
      BY <1>1 DEF Task
    <2>2. k.step = step /\ k.then = task[t].then /\ k.arg = task[t].arg /\ k.of = task[t].of
      BY <1>1 DEF Task
    <2>3. Fine(t, k) /\ Owned(k.arg)
      BY <1>1, <1>3, <2>1, <2>2 DEF Fine, ClientSteps, Free
    <2>4. Becomes(t, k)
      BY <1>3 DEF Goes
    <2> QED BY <2>3, <2>4
  <1> QED BY <1>2, <1>3

\* A task that begins.
LEMMA StartsFine ==
  ASSUME Inv, NEW t, NEW op \in Ops, NEW s \in Sessions, NEW arg \in Devices \cup {Nil},
         NEW step \in {"create", "look", "fetch", "read"}, NEW then \in {"end", "reset"},
         step = "read" => op \in UpdateOps,
         step # "read" => then = "end",
         Starts(t, op, s, arg, step, then)
  PROVE  t \in Tasks /\ \E k : Fine(t, k) /\ Owned(k.arg) /\ Becomes(t, k)
  <1> DEFINE k == [op |-> op, of |-> s, step |-> step, then |-> then, arg |-> arg, saw |-> NoRow]
  <1>1. t \in Procs /\ Becomes(t, k)
    BY DEF Starts
  <1>2. t \in Tasks /\ t \notin Clients /\ arg \notin Clients
    BY <1>1, SessionsAssumption DEF SessionsAssumption, Tasks
  <1>3. NoRow \in Row
    BY DEF NoRow, Row, Status
  <1>4. k \in Task
    BY <1>3 DEF Task, Steps
  <1>5. Fine(t, k) /\ Owned(k.arg)
    BY <1>2, <1>4 DEF Fine, Owned, ClientSteps
  <1> QED BY <1>1, <1>2, <1>5

--------------------------------------------------------------------------------
(* Clients.                                                                 *)

LEMMA LoadDeviceType ==
  ASSUME Inv, NEW s \in Sessions
  PROVE  LoadDevice(s) \subseteq Devices \cup {Blank, Lost}
  BY DEF LoadDevice, Inv, WorldTypes

LEMMA NewClientOK ==
  ASSUME Inv, NEW c \in Clients, NEW s \in Sessions, NEW choice,
         choice \subseteq Devices \cup {Blank, Lost}, NewClient(c, s, choice)
  PROVE  ClientTypes' /\ OwnersKept /\ owner'[c] = s /\ UNCHANGED link
  BY DEF Inv, NewClient, ClientTypes, OwnersKept

LEMMA OwnedKept ==
  ASSUME Inv, OwnersKept, NEW c, Owned(c)
  PROVE  Owned(c)'
  BY DEF OwnersKept, Owned

LEMMA GetsOK ==
  ASSUME Inv, NEW s \in Sessions, NEW choice, NEW flag \in BOOLEAN,
         choice \subseteq Devices \cup {Blank, Lost}, Gets(s, choice, flag)
  PROVE  ClientTypes' /\ RuntimeTypes' /\ ClientsOwned' /\ OwnersKept
  <1>1. PICK c \in Clients :
          /\ NewClient(c, s, choice)
          /\ runtime' = [runtime EXCEPT ![s] = [client |-> c, connecting |-> flag]]
    BY DEF Gets
  <1>2. ClientTypes' /\ OwnersKept /\ owner'[c] = s /\ UNCHANGED link
    BY <1>1, NewClientOK
  <1>3. RuntimeTypes'
    BY <1>1 DEF Inv, RuntimeTypes
  <1>4. ClientsOwned'
    BY <1>1, <1>2 DEF Inv, RuntimeTypes, ClientsOwned, Owned, OwnersKept
  <1> QED BY <1>2, <1>3, <1>4

\* ensureClientForSession keeps the types, and the client it installs is the session's.
LEMMA EnsureClientOK ==
  ASSUME Inv, NEW s \in Sessions, EnsureClient(s)
  PROVE  ClientTypes' /\ RuntimeTypes' /\ ClientsOwned' /\ OwnersKept
  <1>1. CASE UNCHANGED <<runtime, clientVars>>
    BY <1>1 DEF Inv, clientVars, ClientTypes, RuntimeTypes, ClientsOwned, Owned, OwnersKept
  <1>2. CASE Gets(s, LoadDevice(s), runtime[s].connecting)
    <2>1. runtime[s].connecting \in BOOLEAN
      BY DEF Inv, RuntimeTypes
    <2> QED BY <1>2, <2>1, LoadDeviceType, GetsOK
  <1> QED BY <1>1, <1>2 DEF EnsureClient

--------------------------------------------------------------------------------
(* Every step of Sessions keeps the invariant.                              *)

LEMMA OwnersUnchanged == ASSUME UNCHANGED owner PROVE OwnersKept
  BY DEF OwnersKept

LEMMA FoundType ==
  ASSUME Inv, NEW s \in Sessions
  PROVE  Found(s) \in Row
  BY DEF Inv, RowTypes, Found, NoRow, Row, Status

LEMMA TaskType ==
  ASSUME Inv, NEW t \in Tasks
  PROVE  /\ Fine(t, task[t]) /\ Owned(task[t].arg)
         /\ task[t] \in Task
         /\ ~Free(t) => task[t].of \in Sessions
  BY DEF Inv, TasksFine, Fine, Free

\* What a task remembers of a row is one of its fields.
LEMMA SeenFine ==
  ASSUME Inv, NEW t \in Tasks, ~Free(t), NEW r \in Row,
         NEW step \in {"createSave", "reread", "look", "save"},
         t \notin Clients \/ step = "save",
         step = "save" <=> task[t].step \in {"read", "save"}
  PROVE  LET k == [task[t] EXCEPT !.step = step, !.saw = r] IN Fine(t, k) /\ Owned(k.arg)
  <1> DEFINE k == [task[t] EXCEPT !.step = step, !.saw = r]
  <1>1. Fine(t, task[t]) /\ Owned(task[t].arg) /\ task[t] \in Task
    BY TaskType
  <1>2. k \in Task
    BY <1>1 DEF Task, Steps
  <1>3. /\ k.step = step /\ k.then = task[t].then /\ k.arg = task[t].arg
        /\ k.of = task[t].of /\ k.op = task[t].op
    BY <1>1 DEF Task
  <1> QED BY <1>1, <1>2, <1>3 DEF Fine, ClientSteps, Free

LEMMA CreateInv ==
  ASSUME Inv, NEW t \in Tasks, CreateRead(t) \/ CreateSave(t) \/ CreateReread(t)
  PROVE  Inv'
  <1>1. Fine(t, task[t]) /\ task[t].of \in Sessions /\ ~Free(t) /\ t \notin Clients
    BY TaskType DEF Free, CreateRead, CreateSave, CreateReread, At, Fine
  <1>2. CASE CreateRead(t)
    <2>1. Found(task[t].of) \in Row
      BY <1>1, FoundType
    <2> QED BY <1>1, <1>2, <2>1, SeenFine, OneTask DEF CreateRead, At, dataVars
  <1>3. CASE CreateReread(t)
    BY <1>1, <1>3, GoesFine, OneTask DEF CreateReread, At, dataVars, Steps, ClientSteps
  <1>4. CASE CreateSave(t)
    <2>1. row' \in [Sessions -> Row]
      BY <1>4, TaskType DEF CreateSave, Inv, RowTypes, Task
    <2>2. NoRow \in Row
      BY DEF NoRow, Row, Status
    <2>3. TasksFine'
      BY <1>1, <1>4, <2>2, SeenFine, TaskChange, OwnersUnchanged DEF CreateSave, At, clientVars
    <2> QED BY <1>4, <2>1, <2>3 DEF CreateSave, Inv, RowTypes, RuntimeTypes, WorldTypes, ClientTypes,
               ClientsOwned, Owned, worldVars, clientVars
  <1> QED BY <1>2, <1>3, <1>4

LEMMA EnsureInv ==
  ASSUME Inv, NEW t \in Tasks, Ensure(t)
  PROVE  Inv'
  <1>1. Fine(t, task[t]) /\ task[t].of \in Sessions /\ ~Free(t) /\ t \notin Clients
    BY TaskType DEF Free, Ensure, At, Fine
  <1>2. ClientTypes' /\ RuntimeTypes' /\ ClientsOwned' /\ OwnersKept
    BY <1>1, EnsureClientOK DEF Ensure
  <1>3. PICK k : Fine(t, k) /\ Owned(k.arg) /\ Becomes(t, k)
    BY <1>1, GoesFine DEF Ensure, At, Steps, ClientSteps
  <1>4. TasksFine'
    BY <1>2, <1>3, TaskChange
  <1> QED BY <1>2, <1>4 DEF Ensure, Inv, RowTypes, WorldTypes, worldVars

LEMMA LookInv ==
  ASSUME Inv, NEW t \in Tasks, Look(t)
  PROVE  Inv'
  <1> DEFINE c == runtime[task[t].of].client
  <1>1. Fine(t, task[t]) /\ task[t].of \in Sessions /\ ~Free(t) /\ t \notin Clients /\ task[t] \in Task
    BY TaskType DEF Free, Look, At, Fine
  <1>2. c \in Clients \cup {Nil} /\ Owned(c)
    BY <1>1 DEF Inv, RuntimeTypes, ClientsOwned
  <1>3. task[t].then = "end"
    BY <1>1 DEF Look, At, Fine
  <1>4. SUFFICES \E k : Fine(t, k) /\ Owned(k.arg) /\ Becomes(t, k)
    BY OneTask DEF Look, dataVars
  <1>5. CASE c = Nil /\ task[t].op = "init" /\ Goes(t, "end")
    BY <1>1, <1>5, GoesFine DEF Look, At, Steps, ClientSteps
  <1>6. ASSUME NEW step \in {"test", "cut"}, step = "test" => c # Nil,
               Becomes(t, [task[t] EXCEPT !.step = step, !.arg = c])
        PROVE  \E k : Fine(t, k) /\ Owned(k.arg) /\ Becomes(t, k)
    <2> DEFINE k == [task[t] EXCEPT !.step = step, !.arg = c]
    <2>1. k \in Task
      BY <1>1, <1>2 DEF Task, Steps
    <2>2. /\ k.step = step /\ k.then = "end" /\ k.arg = c /\ k.of = task[t].of
      BY <1>1, <1>3 DEF Task
    <2>3. Fine(t, k)
      BY <1>1, <1>2, <1>6, <2>1, <2>2 DEF Fine, ClientSteps
    <2> QED BY <1>2, <1>6, <2>2, <2>3
  <1>7. ASSUME task[t].op = "connected",
               Becomes(t, [Updating(t, "connected", "end") EXCEPT !.arg = DeviceOf(c)])
        PROVE  \E k : Fine(t, k) /\ Owned(k.arg) /\ Becomes(t, k)
    <2> DEFINE d == DeviceOf(c)
               k == [Updating(t, "connected", "end") EXCEPT !.arg = d]
    <2>1. d \in Devices \cup {Nil} /\ d \notin Clients
      BY SessionsAssumption DEF DeviceOf, SessionsAssumption
    <2>2. NoRow \in Row
      BY DEF NoRow, Row, Status
    <2>3. k \in Task
      BY <1>1, <2>1, <2>2 DEF Updating, Task, Ops, Steps
    <2>4. /\ k.step = "read" /\ k.then = "end" /\ k.arg = d /\ k.of = task[t].of /\ k.op = "connected"
      BY <1>1 DEF Updating, Task
    <2>5. Fine(t, k) /\ Owned(k.arg)
      BY <1>1, <2>1, <2>3, <2>4 DEF Fine, ClientSteps, UpdateOps, Owned
    <2> QED BY <1>7, <2>5
  <1> QED BY <1>5, <1>6, <1>7 DEF Look

\* A step that changes one task and the connecting flag.
LEMMA FlagChange ==
  ASSUME Inv, NEW s, NEW value \in BOOLEAN, SetConnecting(s, value)
  PROVE  RuntimeTypes' /\ (UNCHANGED <<owner, link>> => ClientsOwned')
  BY DEF Inv, SetConnecting, RuntimeTypes, ClientsOwned, Owned

LEMMA InitTestInv ==
  ASSUME Inv, NEW t \in Tasks, InitTest(t) \/ InitBusy(t)
  PROVE  Inv'
  <1>1. Fine(t, task[t]) /\ ~Free(t) /\ t \notin Clients /\ task[t].arg \in Clients
    BY TaskType DEF Free, InitTest, InitBusy, At, Fine, ClientSteps
  <1>2. CASE InitTest(t)
    <2>1. CASE Becomes(t, Updating(t, "online", "end"))
      BY <1>1, <1>2, <2>1, UpdatingFine, OneTask DEF InitTest, dataVars, UpdateOps
    <2>2. CASE Goes(t, "busy")
      BY <1>1, <1>2, <2>2, GoesFine, OneTask DEF InitTest, At, dataVars, Steps, ClientSteps
    <2> QED BY <1>2, <2>1, <2>2 DEF InitTest
  <1>3. CASE InitBusy(t)
    <2>1. PICK step \in {"end", "flag"} : Goes(t, step)
      BY <1>3 DEF InitBusy
    <2> QED
      BY <1>1, <1>3, <2>1, GoesFine, OneTask DEF InitBusy, At, dataVars, Steps, ClientSteps
  <1> QED BY <1>2, <1>3

LEMMA FlagInv ==
  ASSUME Inv, NEW t \in Tasks, InitFlag(t) \/ InitOpenFails(t) \/ Unflag(t)
  PROVE  Inv'
  <1>1. Fine(t, task[t]) /\ ~Free(t) /\ t \notin Clients /\ task[t].arg \in Clients
    BY TaskType DEF Free, InitFlag, InitOpenFails, Unflag, At, Fine, ClientSteps
  <1>2. RuntimeTypes' /\ ClientsOwned' /\ OwnersKept
    BY FlagChange, OwnersUnchanged DEF InitFlag, InitOpenFails, Unflag, clientVars
  <1>3. \E k : Fine(t, k) /\ Owned(k.arg) /\ Becomes(t, k)
    <2>1. CASE InitFlag(t)
      BY <1>1, <2>1, GoesFine DEF InitFlag, At, Steps, ClientSteps
    <2>2. CASE Unflag(t)
      BY <1>1, <2>2, GoesFine DEF Unflag, At, Steps, ClientSteps
    <2>3. CASE InitOpenFails(t)
      BY <1>1, <2>3, UpdatingFine DEF InitOpenFails, UpdateOps
    <2> QED BY <2>1, <2>2, <2>3
  <1>4. TasksFine'
    BY <1>2, <1>3, TaskChange
  <1> QED BY <1>2, <1>4 DEF Inv, InitFlag, InitOpenFails, Unflag, RowTypes, WorldTypes, ClientTypes,
             worldVars, clientVars

\* InitOpen changes two tasks: the call, and the QR reader of its client.
LEMMA InitOpenInv ==
  ASSUME Inv, NEW t \in Tasks, InitOpen(t)
  PROVE  Inv'
  <1> DEFINE c      == task[t].arg
             reader == [NoTask EXCEPT !.op = "qr", !.of = task[t].of, !.step = "wait", !.arg = c]
             next   == Updating(t, "initializing", "dial")
  <1>1. /\ Fine(t, task[t]) /\ Owned(c) /\ ~Free(t) /\ t \notin Clients /\ c \in Clients
        /\ task[t].of \in Sessions /\ t # c /\ c \in Tasks
    BY TaskType DEF Free, InitOpen, At, Fine, ClientSteps, Tasks
  <1>2. Fine(t, next) /\ Owned(next.arg)
    BY <1>1, UpdatingFine DEF UpdateOps
  <1>3. Fine(c, reader) /\ Owned(reader.arg)
    <2>1. NoRow \in Row
      BY DEF NoRow, Row, Status
    <2>2. reader \in Task
      BY <1>1, <2>1 DEF NoTask, Task, Ops, Steps
    <2>3. reader.step = "wait" /\ reader.then = "end" /\ reader.arg = c /\ reader.of = task[t].of
      BY DEF NoTask
    <2> QED BY <1>1, <2>2, <2>3 DEF Fine, ClientSteps
  <1>4. CASE Becomes(t, next)
    BY <1>2, <1>4, OneTask DEF InitOpen, dataVars
  <1>5. CASE task' = [task EXCEPT ![t] = next, ![c] = IF Free(c) THEN reader ELSE @]
    <2>1. UNCHANGED owner
      BY DEF InitOpen, clientVars
    <2>2. task' \in [Tasks -> Task]
      BY <1>1, <1>2, <1>3, <1>5 DEF Inv, TasksFine, Fine
    <2>3. ASSUME NEW u \in Tasks PROVE (Fine(u, task[u]) /\ Owned(task[u].arg))'
      <3>1. (task'[u] = next /\ u = t) \/ (task'[u] = reader /\ u = c) \/ task'[u] = task[u]
        BY <1>1, <1>5 DEF Inv, TasksFine
      <3>2. Fine(u, task'[u]) /\ Owned(task'[u].arg)
        BY <1>2, <1>3, <3>1, TaskType
      <3> QED BY <2>1, <3>2 DEF Fine, Owned
    <2>4. TasksFine'
      BY <2>2, <2>3 DEF TasksFine
    <2> QED BY <2>4 DEF InitOpen, Inv, RowTypes, RuntimeTypes, WorldTypes, ClientTypes, ClientsOwned,
               Owned, worldVars, clientVars
  <1> QED BY <1>4, <1>5 DEF InitOpen

\* A step that changes one task and the sockets or logins of clients.
LEMMA SocketInv ==
  ASSUME Inv, NEW t \in Tasks, \E k : Fine(t, k) /\ Owned(k.arg) /\ Becomes(t, k),
         UNCHANGED <<row, runtime, booting, worldVars, owner>>, ClientTypes',
         \A c \in Clients : link'[c] # "down" => owner[c] \in Sessions
  PROVE  Inv'
  <1>1. TasksFine'
    BY TaskChange, OwnersUnchanged
  <1> QED BY <1>1 DEF Inv, RowTypes, RuntimeTypes, WorldTypes, ClientsOwned, Owned, worldVars

LEMMA DialInv ==
  ASSUME Inv, NEW t \in Tasks, Dial(t) \/ DialFails(t)
  PROVE  Inv'
  <1>1. /\ Fine(t, task[t]) /\ ~Free(t) /\ t \notin Clients /\ task[t].arg \in Clients
        /\ Owned(task[t].arg)
    BY TaskType DEF Free, Dial, DialFails, At, Fine, ClientSteps
  <1>2. CASE Dial(t)
    <2>1. \E k : Fine(t, k) /\ Owned(k.arg) /\ Becomes(t, k)
      BY <1>1, <1>2, GoesFine DEF Dial, At, Steps, ClientSteps
    <2>2. ClientTypes' /\ \A c \in Clients : link'[c] # "down" => owner[c] \in Sessions
      BY <1>1, <1>2 DEF Dial, Inv, ClientTypes, ClientsOwned, Owned
    <2> QED BY <1>2, <2>1, <2>2, SocketInv DEF Dial
  <1>3. CASE DialFails(t)
    BY <1>1, <1>3, UpdatingFine, OneTask DEF DialFails, dataVars, UpdateOps
  <1> QED BY <1>2, <1>3

--------------------------------------------------------------------------------
(* Updates of a row, and the statements that fail.                          *)

LEMMA MutateType ==
  ASSUME NEW op \in UpdateOps, NEW r \in Row, NEW d,
         op \in {"connected", "paired"} => d \in Devices \cup {Nil}
  PROVE  Mutate(op, r, d) \in Row
  <1>1. CASE op \in {"online", "initializing", "fail", "dropped"}
    BY <1>1 DEF Mutate, Row, Status
  <1>2. CASE op \in {"disconnect", "loggedOut"}
    BY <1>2 DEF Mutate, Row, Status
  <1>3. CASE op \in {"code", "success"}
    BY <1>3 DEF Mutate, Row, Status
  <1>4. CASE op = "connected"
    BY <1>4 DEF Mutate, Row, Status
  <1>5. CASE op = "paired"
    BY <1>5 DEF Mutate, Row, Status
  <1> QED BY <1>1, <1>2, <1>3, <1>4, <1>5 DEF UpdateOps

LEMMA UpdateInv ==
  ASSUME Inv, NEW t \in Tasks, Read(t) \/ Save(t)
  PROVE  Inv'
  <1>1. Fine(t, task[t]) /\ ~Free(t) /\ task[t] \in Task /\ task[t].of \in Sessions
    BY TaskType DEF Free, Read, Save, At
  <1>2. CASE Read(t)
    <2>1. Found(task[t].of) \in Row
      BY <1>1, FoundType
    <2> QED BY <1>1, <1>2, <2>1, SeenFine, OneTask DEF Read, At, dataVars
  <1>3. CASE Save(t)
    <2>1. Mutate(task[t].op, task[t].saw, task[t].arg) \in Row
      BY <1>1, <1>3, MutateType DEF Save, At, Fine, Task
    <2>2. RowTypes'
      BY <1>3, <2>1 DEF Save, Inv, RowTypes
    <2>3. TasksFine'
      BY <1>3, ReturnsFine, TaskChange, OwnersUnchanged DEF Save, At, clientVars
    <2> QED BY <1>3, <2>2, <2>3 DEF Save, Inv, RuntimeTypes, WorldTypes, ClientTypes, ClientsOwned, Owned,
               worldVars, clientVars
  <1> QED BY <1>2, <1>3

LEMMA ResetInv ==
  ASSUME Inv, NEW t \in Tasks, Reset(t)
  PROVE  Inv'
  <1>1. Fine(t, task[t]) /\ ~Free(t) /\ task[t].of \in Sessions /\ t \notin Clients
    BY TaskType DEF Free, Reset, At, Fine
  <1>2. ClientTypes' /\ RuntimeTypes' /\ ClientsOwned' /\ OwnersKept
    BY <1>1, LoadDeviceType, GetsOK DEF Reset
  <1>3. TasksFine'
    BY <1>1, <1>2, GoesFine, TaskChange DEF Reset, At, Steps, ClientSteps
  <1> QED BY <1>2, <1>3 DEF Reset, Inv, RowTypes, WorldTypes, worldVars

LEMMA DbFailsInv ==
  ASSUME Inv, NEW t \in Tasks, DbFails(t)
  PROVE  Inv' /\ task[t].of \in Sessions
  <1>1. ~Free(t)
    BY DEF Free, DbFails, At
  <1>2. Fine(t, task[t]) /\ task[t].of \in Sessions
    BY <1>1, TaskType
  <1> SUFFICES Inv'
    BY <1>2
  <1>3. CASE task[t].step \in {"read", "save"} /\ Returns(t) /\ UNCHANGED <<runtime, clientVars>>
    BY <1>3, ReturnsFine, OneTask DEF DbFails, dataVars
  <1>4. CASE /\ task[t].step \in {"create", "createSave", "reread", "ensure", "fetch", "wipe", "dropRow"}
             /\ Goes(t, "end") /\ UNCHANGED <<runtime, clientVars>>
    BY <1>1, <1>4, GoesFine, OneTask DEF DbFails, dataVars, Steps, ClientSteps
  <1>5. CASE /\ At(t, "reset") /\ Goes(t, "end")
             /\ runtime' = [runtime EXCEPT ![task[t].of] = NoRuntime] /\ UNCHANGED clientVars
    <2>1. RuntimeTypes' /\ ClientsOwned' /\ OwnersKept
      BY <1>5, SessionsAssumption DEF SessionsAssumption, Inv, RuntimeTypes, NoRuntime, ClientsOwned,
         Owned, OwnersKept, clientVars
    <2>2. TasksFine'
      BY <1>1, <1>5, <2>1, GoesFine, TaskChange DEF At, Steps, ClientSteps
    <2> QED BY <1>5, <2>1, <2>2 DEF DbFails, Inv, RowTypes, WorldTypes, ClientTypes, worldVars, clientVars
  <1>6. ASSUME NEW step \in {"end", "look"}, task[t].step \in {"reset", "ensure"}, Goes(t, step),
               NEW flag \in BOOLEAN, Gets(task[t].of, {Blank}, flag)
        PROVE  Inv'
    <2>1. ClientTypes' /\ RuntimeTypes' /\ ClientsOwned' /\ OwnersKept
      BY <1>2, <1>6, GetsOK
    <2>2. \E k : Fine(t, k) /\ Owned(k.arg) /\ Becomes(t, k)
      BY <1>1, <1>2, <1>6, GoesFine DEF Steps, ClientSteps, Fine
    <2>3. TasksFine'
      BY <2>1, <2>2, TaskChange
    <2> QED BY <2>1, <2>3 DEF DbFails, Inv, RowTypes, WorldTypes, worldVars
  <1>7. runtime[task[t].of].connecting \in BOOLEAN
    BY <1>2 DEF Inv, RuntimeTypes
  <1> QED BY <1>3, <1>4, <1>5, <1>6, <1>7 DEF DbFails, At

--------------------------------------------------------------------------------
(* Disconnecting and deleting.                                              *)

LEMMA FetchInv ==
  ASSUME Inv, NEW t \in Tasks, Fetch(t)
  PROVE  Inv'
  <1>1. Fine(t, task[t]) /\ ~Free(t) /\ task[t].of \in Sessions /\ t \notin Clients
    BY TaskType DEF Free, Fetch, At, Fine
  <1>2. row[task[t].of] \in Row
    BY <1>1 DEF Inv, RowTypes
  <1>3. CASE Goes(t, "end")
    BY <1>1, <1>3, GoesFine, OneTask DEF Fetch, At, dataVars, Steps, ClientSteps
  <1>4. CASE Becomes(t, [task[t] EXCEPT !.step = "look", !.saw = row[task[t].of]])
    BY <1>1, <1>2, <1>4, SeenFine, OneTask DEF Fetch, At, dataVars
  <1> QED BY <1>3, <1>4 DEF Fetch

LEMMA CutInv ==
  ASSUME Inv, NEW t \in Tasks, Cut(t)
  PROVE  Inv'
  <1>1. /\ Fine(t, task[t]) /\ ~Free(t) /\ task[t].of \in Sessions /\ t \notin Clients
        /\ task[t] \in Task /\ task[t].arg \in Clients \cup {Nil}
    BY TaskType DEF Free, Cut, At, Fine
  <1>2. \E k : Fine(t, k) /\ Owned(k.arg) /\ Becomes(t, k)
    <2>1. CASE Goes(t, "wipe")
      BY <1>1, <2>1, GoesFine DEF Cut, At, Steps, ClientSteps
    <2>2. CASE Becomes(t, [Updating(t, "disconnect", "end") EXCEPT !.arg = Nil])
      <3> DEFINE k == [Updating(t, "disconnect", "end") EXCEPT !.arg = Nil]
      <3>1. NoRow \in Row
        BY DEF NoRow, Row, Status
      <3>2. k \in Task
        BY <1>1, <3>1 DEF Updating, Task, Ops, Steps
      <3>3. /\ k.step = "read" /\ k.then = "end" /\ k.arg = Nil /\ k.of = task[t].of /\ k.op = "disconnect"
        BY <1>1 DEF Updating, Task
      <3>4. Fine(t, k) /\ Owned(k.arg)
        BY <1>1, <3>2, <3>3, SessionsAssumption DEF SessionsAssumption, Fine, ClientSteps, UpdateOps, Owned
      <3> QED BY <2>2, <3>4
    <2> QED BY <2>1, <2>2 DEF Cut
  <1>3. ClientTypes' /\ \A c \in Clients : link'[c] # "down" => owner[c] \in Sessions
    <2>1. CASE UNCHANGED <<link, auth>>
      BY <2>1 DEF Cut, Inv, ClientTypes, ClientsOwned
    <2>2. CASE link' = [link EXCEPT ![task[t].arg] = "down"] /\ auth' = auth \ {task[t].arg}
      BY <2>2 DEF Cut, Inv, ClientTypes, ClientsOwned
    <2> QED BY <2>1, <2>2 DEF Cut
  <1> QED BY <1>2, <1>3, SocketInv DEF Cut

LEMMA DeleteInv ==
  ASSUME Inv, NEW t \in Tasks, Wipe(t) \/ DropRow(t) \/ Forget(t)
  PROVE  Inv'
  <1>1. Fine(t, task[t]) /\ ~Free(t) /\ task[t].of \in Sessions /\ t \notin Clients
    BY TaskType DEF Free, Wipe, DropRow, Forget, At, Fine
  <1>2. OwnersKept
    BY OwnersUnchanged DEF Wipe, DropRow, Forget, clientVars
  <1>3. \E k : Fine(t, k) /\ Owned(k.arg) /\ Becomes(t, k)
    BY <1>1, GoesFine DEF Wipe, DropRow, Forget, At, Steps, ClientSteps
  <1>4. TasksFine'
    BY <1>2, <1>3, TaskChange
  <1>5. RowTypes'
    <2>1. NoRow \in Row
      BY DEF NoRow, Row, Status
    <2> QED BY <2>1 DEF Wipe, DropRow, Forget, Inv, RowTypes
  <1>6. RuntimeTypes' /\ ClientsOwned'
    <2>1. CASE UNCHANGED <<runtime, clientVars>>
      BY <2>1 DEF Inv, RuntimeTypes, ClientsOwned, Owned, clientVars
    <2>2. CASE Forget(t)
      BY <2>2, SessionsAssumption DEF SessionsAssumption, Forget, Inv, RuntimeTypes, ClientsOwned, Owned,
         NoRuntime, clientVars
    <2> QED BY <2>1, <2>2 DEF Wipe, DropRow
  <1> QED BY <1>4, <1>5, <1>6 DEF Wipe, DropRow, Forget, Inv, WorldTypes, ClientTypes, worldVars, clientVars

--------------------------------------------------------------------------------
(* QR channels and events.                                                  *)

LEMMA QrInv ==
  ASSUME Inv, NEW c \in Clients, QrCode(c) \/ QrSuccess(c) \/ QrFailure(c)
  PROVE  Inv'
  <1>1. /\ c \in Tasks /\ ~Free(c)
    BY DEF Tasks, Free, At, QrCode, QrSuccess, QrFailure
  <1>2. CASE QrCode(c)
    BY <1>1, <1>2, UpdatingFine, OneTask DEF QrCode, dataVars, UpdateOps
  <1>3. CASE QrSuccess(c)
    <2>1. ClientTypes'
      BY <1>3 DEF QrSuccess, Inv, ClientTypes
    <2>2. \A b \in Clients : link'[b] # "down" => owner[b] \in Sessions
      BY <1>3 DEF QrSuccess, Inv, ClientsOwned
    <2>3. \E k : Fine(c, k) /\ Owned(k.arg) /\ Becomes(c, k)
      BY <1>1, <1>3, UpdatingFine DEF QrSuccess, UpdateOps
    <2> QED BY <1>1, <1>3, <2>1, <2>2, <2>3, SocketInv DEF QrSuccess
  <1>4. CASE QrFailure(c)
    <2>1. ClientTypes'
      BY <1>4 DEF QrFailure, Inv, ClientTypes
    <2>2. \A b \in Clients : link'[b] # "down" => owner[b] \in Sessions
      BY <1>4 DEF QrFailure, Inv, ClientTypes, ClientsOwned
    <2>3. \E k : Fine(c, k) /\ Owned(k.arg) /\ Becomes(c, k)
      BY <1>1, <1>4, UpdatingFine DEF QrFailure, UpdateOps
    <2> QED BY <1>1, <1>4, <2>1, <2>2, <2>3, SocketInv DEF QrFailure
  <1> QED BY <1>2, <1>3, <1>4

LEMMA RedialInv ==
  ASSUME Inv, NEW c \in Clients, Redial(c)
  PROVE  Inv'
  <1>1. ClientTypes' /\ ClientsOwned'
    BY DEF Redial, Inv, ClientTypes, ClientsOwned, Owned
  <1>2. TasksFine'
    BY DEF Redial, Inv, TasksFine, Fine, Owned
  <1> QED BY <1>1, <1>2 DEF Redial, Inv, RowTypes, RuntimeTypes, WorldTypes, worldVars

\* The handler of an event of a client is a task of the client's session.
LEMMA EventsInv ==
  ASSUME Inv, NEW c \in Clients, NEW t \in Procs, Events(c, t)
  PROVE  Inv'
  <1>1. link[c] = "up" /\ owner[c] \in Sessions
    BY DEF Events, Scan, Login, Drop, Refuse, Logout, Inv, ClientsOwned
  <1>2. ClientTypes' /\ OwnersKept
    BY DEF Events, Scan, Login, Drop, Refuse, Logout, Inv, ClientTypes, OwnersKept
  <1>3. \A b \in Clients : link'[b] # "down" => owner'[b] \in Sessions
    BY <1>1 DEF Events, Scan, Login, Drop, Refuse, Logout, Inv, ClientTypes, ClientsOwned
  <1>4. WorldTypes'
    BY DEF Events, Scan, Login, Drop, Refuse, Logout, Inv, WorldTypes, worldVars
  <1>5. t \in Tasks /\ \E k : Fine(t, k) /\ Owned(k.arg) /\ Becomes(t, k)
    <2>1. CASE Scan(c, t)
      BY <1>1, <2>1, StartsFine DEF Scan, Ops, UpdateOps
    <2>2. CASE Login(c, t)
      BY <1>1, <2>2, StartsFine DEF Login, Ops
    <2>3. CASE Drop(c, t)
      BY <1>1, <2>3, StartsFine DEF Drop, Ops, UpdateOps
    <2>4. CASE Refuse(c, t)
      BY <1>1, <2>4, StartsFine DEF Refuse, Ops, UpdateOps
    <2>5. CASE Logout(c, t)
      <3>1. PICK op \in {"loggedOut", "fail"} : Starts(t, op, owner[c], Nil, "read", "reset")
        BY <2>5 DEF Logout
      <3> QED BY <1>1, <3>1, StartsFine DEF Ops, UpdateOps
    <2> QED BY <2>1, <2>2, <2>3, <2>4, <2>5 DEF Events
  <1>6. TasksFine'
    BY <1>2, <1>5, TaskChange
  <1>7. UNCHANGED <<row, runtime, booting, owner>>
    BY DEF Events, Scan, Login, Drop, Refuse, Logout
  <1> QED BY <1>2, <1>3, <1>4, <1>6, <1>7 DEF Inv, RowTypes, RuntimeTypes, ClientsOwned, Owned

--------------------------------------------------------------------------------
(* Requests, crashes and the start of the process.                          *)

LEMMA RequestInv ==
  ASSUME Inv, NEW t \in Procs, NEW s \in Sessions, Request(t, s)
  PROVE  Inv'
  <1>1. PICK op \in {"create", "init", "disconnect", "delete"}, step \in {"create", "look", "fetch"} :
          Ask(t, s, op, step)
    BY DEF Request
  <1> QED BY <1>1, StartsFine, OneTask DEF Ask, Ops, dataVars

LEMMA CrashInv ==
  ASSUME Inv, Crash
  PROVE  Inv'
  <1>1. ClientTypes' /\ RuntimeTypes' /\ ClientsOwned'
    BY SessionsAssumption DEF SessionsAssumption, Crash, ClientTypes, RuntimeTypes, NoRuntime,
       ClientsOwned, Owned
  <1>2. TasksFine'
    <2>1. task' = [t \in Tasks |-> NoTask]
      BY DEF Crash
    <2>2. \A t \in Tasks : Fine(t, NoTask)
      BY NoTaskFine
    <2> QED BY <2>1, <2>2, NoTaskType DEF TasksFine, Fine, Owned
  <1> QED BY <1>1, <1>2 DEF Crash, Inv, RowTypes, WorldTypes, worldVars

LEMMA BootReconnectsInv ==
  ASSUME Inv, NEW t \in Procs, NEW s \in Sessions, BootReconnects(t, s)
  PROVE  Inv'
  <1>1. ClientTypes' /\ RuntimeTypes' /\ ClientsOwned' /\ OwnersKept
    BY EnsureClientOK DEF BootReconnects
  <1>2. t \in Tasks /\ \E k : Fine(t, k) /\ Owned(k.arg) /\ Becomes(t, k)
    BY StartsFine DEF BootReconnects, Ops
  <1>3. TasksFine'
    BY <1>1, <1>2, TaskChange
  <1> QED BY <1>1, <1>3 DEF BootReconnects, Inv, RowTypes, WorldTypes, worldVars

LEMMA BootWaitsInv ==
  ASSUME Inv, NEW s \in Sessions, BootWaits(s)
  PROVE  Inv'
  <1>1. ClientTypes' /\ RuntimeTypes' /\ ClientsOwned' /\ OwnersKept
    <2>1. CASE EnsureClient(s)
      BY <2>1, EnsureClientOK
    <2>2. CASE UNCHANGED <<runtime, clientVars>>
      BY <2>2 DEF Inv, ClientTypes, RuntimeTypes, ClientsOwned, Owned, OwnersKept, clientVars
    <2> QED BY <2>1, <2>2 DEF BootWaits
  <1>2. RowTypes'
    <2>1. [row[s] EXCEPT !.status = "disconnected", !.qr = FALSE] \in Row
      BY DEF Inv, RowTypes, Row, Status
    <2>2. \/ UNCHANGED row
          \/ row' = [row EXCEPT ![s] = [row[s] EXCEPT !.status = "disconnected", !.qr = FALSE]]
      BY DEF BootWaits, Inv, RowTypes, Row
    <2> QED BY <2>1, <2>2 DEF Inv, RowTypes
  <1>3. TasksFine'
    BY <1>1 DEF BootWaits, Inv, TasksFine, Fine, Owned, OwnersKept
  <1> QED BY <1>1, <1>2, <1>3 DEF BootWaits, Inv, WorldTypes, worldVars

--------------------------------------------------------------------------------
(* The theorems.                                                            *)

LEMMA WorkInv ==
  ASSUME Inv, NEW t \in Tasks, Work(t)
  PROVE  Inv'
  BY CreateInv, EnsureInv, LookInv, InitTestInv, FlagInv, InitOpenInv, DialInv, UpdateInv,
     FetchInv, CutInv, DeleteInv, ResetInv DEF Work

LEMMA StepInv ==
  ASSUME Inv, Step
  PROVE  Inv'
  <1>1. CASE \E t \in Tasks : Work(t)
    BY <1>1, WorkInv
  <1>2. CASE \E t \in Procs, s \in Sessions : Request(t, s) \/ BootReconnects(t, s)
    BY <1>2, RequestInv, BootReconnectsInv
  <1>3. CASE \E s \in Sessions : BootWaits(s)
    BY <1>3, BootWaitsInv
  <1>4. CASE \E c \in Clients : QrCode(c) \/ QrSuccess(c) \/ QrFailure(c) \/ Redial(c)
    BY <1>4, QrInv, RedialInv
  <1>5. CASE \E c \in Clients, t \in Procs : Events(c, t)
    BY <1>5, EventsInv
  <1>6. CASE Crash
    BY <1>6, CrashInv
  <1> QED BY <1>1, <1>2, <1>3, <1>4, <1>5, <1>6 DEF Step

LEMMA NextInv == SessionsInv /\ [Next]_vars => SessionsInv'
  <1> SUFFICES ASSUME Inv, disturbed \subseteq Sessions, [Next]_vars
               PROVE  Inv' /\ disturbed' \subseteq Sessions
    BY DEF SessionsInv
  <1>1. CASE UNCHANGED vars
    BY <1>1 DEF vars, worldVars, clientVars, Inv, RowTypes, RuntimeTypes, WorldTypes, ClientTypes, TasksFine,
       Fine, ClientsOwned, Owned
  <1>2. CASE Step /\ Recorded({})
    BY <1>2, StepInv DEF Recorded, Missed, Overlapping
  <1>3. CASE \E t \in Tasks : DbFails(t) /\ Recorded({task[t].of})
    BY <1>3, DbFailsInv DEF Recorded, Missed, Overlapping
  <1> QED BY <1>1, <1>2, <1>3 DEF Next

\* The types of the variables (TypeOK): a row always has one of the statuses, and
\* every task, client and runtime is one that the code can have.
THEOREM SessionsTypeCorrect == Spec => []TypeOK
  BY InitInv, NextInv, InvTypes, PTL DEF Spec

--------------------------------------------------------------------------------
(* The client of a session.                                                 *)

LEMMA GetsClient ==
  ASSUME Inv, NEW s \in Sessions, NEW choice, NEW flag, Gets(s, choice, flag)
  PROVE  /\ \A r \in Sessions \ {s} : runtime'[r] = runtime[r]
         /\ runtime'[s].connecting = flag
  BY DEF Gets, Inv, RuntimeTypes

\* A step replaces the client of a session only if it resets it.
LEMMA KeptStep ==
  ASSUME Inv, Next, NEW s \in Sessions, runtime[s].client # Nil
  PROVE  \/ runtime'[s].client \in {runtime[s].client, Nil}
         \/ \E t \in Procs : At(t, "reset") /\ task[t].of = s
  <1> DEFINE Kept == runtime'[s].client \in {runtime[s].client, Nil}
  <1>1. ASSUME NEW r \in Sessions, EnsureClient(r)
        PROVE  Kept
    BY <1>1, GetsClient DEF EnsureClient
  <1>2. ASSUME NEW t \in Tasks, At(t, "reset")
        PROVE  t \in Procs /\ task[t].of \in Sessions
    BY <1>2, TaskType DEF At, Free, Fine, Tasks
  <1>3. ASSUME NEW r, NEW value, SetConnecting(r, value)
        PROVE  Kept
    BY <1>3 DEF SetConnecting, Inv, RuntimeTypes
  <1>4. ASSUME NEW t \in Tasks, Work(t), runtime' # runtime
        PROVE  Kept \/ (At(t, "reset") /\ task[t].of = s)
    <2>1. CASE Ensure(t)
      BY <1>1, <2>1, TaskType DEF Ensure, At, Free
    <2>2. CASE InitFlag(t) \/ InitOpenFails(t) \/ Unflag(t)
      BY <1>3, <2>2 DEF InitFlag, InitOpenFails, Unflag
    <2>3. CASE Forget(t)
      BY <2>3 DEF Forget, NoRuntime, Inv, RuntimeTypes
    <2>4. CASE Reset(t)
      BY <2>4, <1>2, GetsClient DEF Reset
    <2>5. Ensure(t) \/ InitFlag(t) \/ InitOpenFails(t) \/ Unflag(t) \/ Forget(t) \/ Reset(t)
      BY <1>4 DEF Work, CreateRead, CreateSave, CreateReread, Look, InitTest, InitBusy, InitOpen, Dial,
         DialFails, Read, Save, Fetch, Cut, Wipe, DropRow
    <2> QED BY <2>1, <2>2, <2>3, <2>4, <2>5
  <1>5. CASE Step
    <2>1. CASE \E t \in Tasks : Work(t)
      BY <1>2, <1>4, <2>1
    <2>2. CASE \E t \in Procs, r \in Sessions : Request(t, r) \/ BootReconnects(t, r)
      BY <1>1, <2>2 DEF Request, Ask, BootReconnects
    <2>3. CASE \E r \in Sessions : BootWaits(r)
      BY <1>1, <2>3 DEF BootWaits
    <2>4. CASE \E c \in Clients : QrCode(c) \/ QrSuccess(c) \/ QrFailure(c) \/ Redial(c)
      BY <2>4 DEF QrCode, QrSuccess, QrFailure, Redial
    <2>5. CASE \E c \in Clients, t \in Procs : Events(c, t)
      BY <2>5 DEF Events, Scan, Login, Drop, Refuse, Logout
    <2>6. CASE Crash
      BY <2>6 DEF Crash, NoRuntime
    <2> QED BY <1>5, <2>1, <2>2, <2>3, <2>4, <2>5, <2>6 DEF Step
  <1>6. CASE \E t \in Tasks : DbFails(t)
    <2>1. PICK t \in Tasks : DbFails(t)
      BY <1>6
    <2>2. CASE UNCHANGED runtime
      BY <2>2
    <2>3. CASE At(t, "reset") /\ runtime' = [runtime EXCEPT ![task[t].of] = NoRuntime]
      BY <2>3 DEF NoRuntime, Inv, RuntimeTypes
    <2>4. CASE At(t, "reset") /\ Gets(task[t].of, {Blank}, FALSE)
      BY <2>4, <1>2, GetsClient
    <2>5. CASE /\ At(t, "ensure") /\ runtime[task[t].of].client = Nil
               /\ Gets(task[t].of, {Blank}, runtime[task[t].of].connecting)
      <3>1. task[t].of \in Sessions
        BY <2>5, TaskType DEF At, Free
      <3> QED BY <2>5, <3>1, GetsClient
    <2> QED BY <2>1, <2>2, <2>3, <2>4, <2>5 DEF DbFails
  <1> QED BY <1>5, <1>6 DEF Next

\* A session gets one client, for any number of calls that meet (ClientKept).
THEOREM OneClientEach == Spec => ClientKept
  <1>1. SessionsInv /\ [Next]_vars =>
          [\A s \in Sessions :
             runtime[s].client # Nil =>
               \/ runtime'[s].client \in {runtime[s].client, Nil}
               \/ \E t \in Procs : At(t, "reset") /\ task[t].of = s]_vars
    BY KeptStep DEF SessionsInv
  <1> QED BY <1>1, InitInv, NextInv, PTL DEF Spec, ClientKept

--------------------------------------------------------------------------------
(* The connecting flag.                                                     *)

\* Flags only come down, except that of the session r.
NoneRaised(r) ==
  \A s \in Sessions \ {r} : runtime'[s].connecting => runtime[s].connecting

\* A task that does not lower a flag may do what it likes.
LEMMA BystanderFlag ==
  ASSUME Inv, FlagHasOwner, NEW t \in Tasks, NEW k, Becomes(t, k),
         \A s \in Sessions : ~Lowers(t, s) \/ t \notin Procs, NoneRaised(Nil)
  PROVE  FlagHasOwner'
  <1> SUFFICES ASSUME NEW s \in Sessions, runtime'[s].connecting
               PROVE  \E u \in Procs : Lowers(u, s)'
    BY DEF FlagHasOwner
  <1>1. PICK u \in Procs : Lowers(u, s)
    BY SessionsAssumption DEF SessionsAssumption, FlagHasOwner, NoneRaised
  <1>2. u # t /\ u \in Tasks
    BY <1>1 DEF Tasks
  <1>3. task'[u] = task[u]
    BY <1>2 DEF Becomes, Inv, TasksFine
  <1> QED BY <1>1, <1>3 DEF Lowers

\* The task that lowers a flag goes on doing so, or the flag comes down.
LEMMA OwnerFlag ==
  ASSUME Inv, FlagHasOwner, NEW t \in Tasks, NEW k, Becomes(t, k), NoneRaised(task[t].of),
         \/ ~runtime'[task[t].of].connecting
         \/ /\ t \in Procs /\ k.of = task[t].of
            /\ k.step \in {"open", "dial", "unflag"} \/ k.then \in {"dial", "unflag"}
  PROVE  FlagHasOwner'
  <1> SUFFICES ASSUME NEW s \in Sessions, runtime'[s].connecting
               PROVE  \E u \in Procs : Lowers(u, s)'
    BY DEF FlagHasOwner
  <1>1. task'[t] = k /\ \A u \in Tasks \ {t} : task'[u] = task[u]
    BY DEF Becomes, Inv, TasksFine
  <1>2. CASE s = task[t].of
    BY <1>1, <1>2 DEF Lowers
  <1>3. CASE s # task[t].of
    <2>1. PICK u \in Procs : Lowers(u, s)
      BY <1>3 DEF FlagHasOwner, NoneRaised
    <2>2. u # t /\ u \in Tasks
      BY <1>3, <2>1 DEF Lowers, Tasks
    <2> QED BY <1>1, <2>1, <2>2 DEF Lowers
  <1> QED BY <1>2, <1>3

LEMMA NotLowering ==
  ASSUME Inv, NEW t \in Tasks, task[t].step \notin {"open", "dial", "unflag", "read", "save"}
  PROVE  \A s \in Sessions : ~Lowers(t, s)
  BY TaskType DEF Lowers, Fine

LEMMA SameFlags == ASSUME UNCHANGED runtime, NEW r PROVE NoneRaised(r)
  BY DEF NoneRaised

LEMMA EnsureFlags == ASSUME Inv, NEW s \in Sessions, EnsureClient(s), NEW r PROVE NoneRaised(r)
  BY GetsClient DEF EnsureClient, NoneRaised

\* An update, on its way to the end of Connect or not.
LEMMA UpdateFlag ==
  ASSUME Inv, FlagHasOwner, NEW t \in Tasks, UNCHANGED runtime, task[t].step \in {"read", "save"},
         Returns(t) \/ Becomes(t, [task[t] EXCEPT !.step = "save", !.saw = Found(task[t].of)])
  PROVE  FlagHasOwner'
  <1>1. Fine(t, task[t]) /\ task[t] \in Task
    BY TaskType
  <1>2. CASE task[t].then \notin {"dial", "unflag"}
    <2>1. \A s \in Sessions : ~Lowers(t, s)
      BY <1>2 DEF Lowers
    <2>2. \E k : Becomes(t, k)
      BY DEF Returns
    <2> QED BY <2>1, <2>2, BystanderFlag, SameFlags
  <1>3. CASE task[t].then \in {"dial", "unflag"}
    <2>1. t \in Procs
      BY <1>1, <1>3 DEF Fine, Tasks
    <2>2. CASE Returns(t)
      <3> DEFINE k == [task[t] EXCEPT !.step = task[t].then, !.then = "end", !.saw = NoRow]
      <3>1. Becomes(t, k)
        BY <1>3, <2>2 DEF Returns
      <3>2. k.of = task[t].of /\ k.step = task[t].then
        BY <1>1 DEF Task
      <3> QED BY <1>3, <2>1, <3>1, <3>2, OwnerFlag, SameFlags
    <2>3. CASE Becomes(t, [task[t] EXCEPT !.step = "save", !.saw = Found(task[t].of)])
      <3> DEFINE k == [task[t] EXCEPT !.step = "save", !.saw = Found(task[t].of)]
      <3>1. k.of = task[t].of /\ k.then = task[t].then
        BY <1>1 DEF Task
      <3> QED BY <1>3, <2>1, <2>3, <3>1, OwnerFlag, SameFlags
    <2> QED BY <2>2, <2>3
  <1> QED BY <1>2, <1>3

\* The steps of a task that is not between raising a flag and lowering it.
LEMMA QuietFlag ==
  ASSUME Inv, FlagHasOwner, NEW t \in Tasks,
         \/ CreateRead(t) \/ CreateSave(t) \/ CreateReread(t) \/ Ensure(t) \/ Look(t)
         \/ InitTest(t) \/ InitBusy(t) \/ Fetch(t) \/ Cut(t) \/ Wipe(t) \/ DropRow(t)
         \/ Forget(t) \/ Reset(t)
  PROVE  FlagHasOwner'
  <1>1. \A s \in Sessions : ~Lowers(t, s)
    BY NotLowering DEF CreateRead, CreateSave, CreateReread, Ensure, Look, InitTest, InitBusy, Fetch,
       Cut, Wipe, DropRow, Forget, Reset, At
  <1>2. \E k : Becomes(t, k)
    BY DEF CreateRead, CreateSave, CreateReread, Ensure, Look, InitTest, InitBusy, Fetch,
       Cut, Wipe, DropRow, Forget, Reset, Goes
  <1>3. NoneRaised(Nil)
    <2>1. CASE Ensure(t)
      BY <2>1, EnsureFlags, TaskType DEF Ensure, At, Free
    <2>2. CASE Forget(t)
      BY <2>2 DEF Forget, NoneRaised, NoRuntime, Inv, RuntimeTypes
    <2>3. CASE Reset(t)
      BY <2>3, GetsClient, TaskType DEF Reset, At, Free, NoneRaised
    <2>4. CASE UNCHANGED runtime
      BY <2>4, SameFlags
    <2> QED BY <2>1, <2>2, <2>3, <2>4 DEF CreateRead, CreateSave, CreateReread, Look, InitTest, InitBusy,
               Fetch, Cut, Wipe, DropRow
  <1> QED BY <1>1, <1>2, <1>3, BystanderFlag

LEMMA ConnectFlag ==
  ASSUME Inv, FlagHasOwner, NEW t \in Tasks,
         InitFlag(t) \/ InitOpenFails(t) \/ Unflag(t) \/ Dial(t) \/ DialFails(t)
  PROVE  FlagHasOwner'
  <1>1. /\ task[t] \in Task /\ task[t].of \in Sessions /\ t \in Procs
    BY TaskType DEF InitFlag, InitOpenFails, Unflag, Dial, DialFails, At, Free, Fine, Tasks
  <1>2. NoneRaised(task[t].of)
    BY <1>1 DEF InitFlag, InitOpenFails, Unflag, Dial, DialFails, SetConnecting, NoneRaised, Inv,
       RuntimeTypes
  <1>3. CASE InitFlag(t)
    <2> DEFINE k == [task[t] EXCEPT !.step = "open"]
    <2>1. k.of = task[t].of /\ k.step = "open" /\ Becomes(t, k)
      BY <1>1, <1>3 DEF Task, InitFlag, Goes
    <2> QED BY <1>1, <1>2, <2>1, OwnerFlag
  <1>4. CASE InitOpenFails(t) \/ Unflag(t)
    <2>1. ~runtime'[task[t].of].connecting
      BY <1>1, <1>4 DEF InitOpenFails, Unflag, SetConnecting, Inv, RuntimeTypes
    <2>2. \E k : Becomes(t, k)
      BY <1>4 DEF InitOpenFails, Unflag, Goes
    <2> QED BY <1>2, <2>1, <2>2, OwnerFlag
  <1>5. CASE Dial(t)
    <2> DEFINE k == [task[t] EXCEPT !.step = "unflag"]
    <2>1. k.of = task[t].of /\ k.step = "unflag" /\ Becomes(t, k)
      BY <1>1, <1>5 DEF Task, Dial, Goes
    <2> QED BY <1>1, <1>2, <2>1, OwnerFlag
  <1>6. CASE DialFails(t)
    <2> DEFINE k == Updating(t, "fail", "unflag")
    <2>1. k.of = task[t].of /\ k.then = "unflag" /\ Becomes(t, k)
      BY <1>1, <1>6 DEF Task, DialFails, Updating
    <2> QED BY <1>1, <1>2, <2>1, OwnerFlag
  <1> QED BY <1>3, <1>4, <1>5, <1>6

LEMMA InitOpenFlag ==
  ASSUME Inv, FlagHasOwner, NEW t \in Tasks, InitOpen(t)
  PROVE  FlagHasOwner'
  <1> DEFINE next == Updating(t, "initializing", "dial")
  <1>1. task[t] \in Task /\ t \in Procs /\ t \notin Clients /\ task[t].arg \in Clients
    BY TaskType, SessionsAssumption DEF SessionsAssumption, InitOpen, At, Free, Fine, Tasks, ClientSteps
  <1>2. next.of = task[t].of /\ next.then = "dial"
    BY <1>1 DEF Task, Updating
  <1>3. task'[t] = next /\ \A u \in Procs \ {t} : task'[u] = task[u]
    BY <1>1, SessionsAssumption DEF SessionsAssumption, InitOpen, Becomes, Inv, TasksFine, Tasks
  <1>4. UNCHANGED runtime
    BY DEF InitOpen
  <1> QED BY <1>2, <1>3, <1>4 DEF FlagHasOwner, Lowers

LEMMA FailureFlag ==
  ASSUME Inv, FlagHasOwner, NEW t \in Tasks, DbFails(t)
  PROVE  FlagHasOwner'
  <1>1. CASE task[t].step \in {"read", "save"} /\ Returns(t) /\ UNCHANGED runtime
    BY <1>1, UpdateFlag
  <1>2. ASSUME task[t].step \in {"create", "createSave", "reread", "ensure",
                                "fetch", "wipe", "dropRow", "reset"},
               NEW step, Goes(t, step), NoneRaised(Nil)
        PROVE  FlagHasOwner'
    BY <1>2, NotLowering, BystanderFlag DEF Goes
  <1>3. CASE UNCHANGED runtime
    BY <1>1, <1>2, <1>3, SameFlags DEF DbFails, At
  <1>4. CASE At(t, "reset") /\ Goes(t, "end") /\ runtime' = [runtime EXCEPT ![task[t].of] = NoRuntime]
    <2>1. NoneRaised(Nil)
      BY <1>4 DEF NoneRaised, NoRuntime, Inv, RuntimeTypes
    <2> QED BY <1>2, <1>4, <2>1 DEF At
  <1>5. CASE At(t, "reset") /\ Goes(t, "end") /\ Gets(task[t].of, {Blank}, FALSE)
    <2>1. NoneRaised(Nil)
      BY <1>5, GetsClient, TaskType DEF NoneRaised, At, Free
    <2> QED BY <1>2, <1>5, <2>1 DEF At
  <1>6. CASE /\ At(t, "ensure") /\ Goes(t, "look")
             /\ Gets(task[t].of, {Blank}, runtime[task[t].of].connecting)
    <2>1. NoneRaised(Nil)
      BY <1>6, GetsClient, TaskType DEF NoneRaised, At, Free
    <2> QED BY <1>2, <1>6, <2>1 DEF At
  <1> QED BY <1>3, <1>4, <1>5, <1>6 DEF DbFails

\* A goroutine that begins was nobody's before.
LEMMA StartFlag ==
  ASSUME Inv, FlagHasOwner, NEW t, NEW op, NEW s, NEW arg, NEW step, NEW then,
         Starts(t, op, s, arg, step, then), NoneRaised(Nil)
  PROVE  FlagHasOwner'
  <1>1. t \in Tasks /\ task[t].step = "free"
    BY DEF Starts, Tasks, Free
  <1> QED BY <1>1, NotLowering, BystanderFlag DEF Starts

LEMMA OthersFlag ==
  ASSUME Inv, FlagHasOwner, Step, \A t \in Tasks : ~Work(t)
  PROVE  FlagHasOwner'
  <1>1. CASE \E t \in Procs, s \in Sessions : Request(t, s)
    BY <1>1, StartFlag, SameFlags DEF Request, Ask
  <1>2. CASE \E t \in Procs, s \in Sessions : BootReconnects(t, s)
    BY <1>2, StartFlag, EnsureFlags DEF BootReconnects
  <1>3. CASE \E s \in Sessions : BootWaits(s)
    <2>1. NoneRaised(Nil) /\ UNCHANGED task
      BY <1>3, EnsureFlags, SameFlags DEF BootWaits
    <2> QED BY <2>1, SessionsAssumption DEF SessionsAssumption, NoneRaised, FlagHasOwner, Lowers
  <1>4. CASE \E c \in Clients : QrCode(c) \/ QrSuccess(c) \/ QrFailure(c)
    <2>1. PICK c \in Clients : QrCode(c) \/ QrSuccess(c) \/ QrFailure(c)
      BY <1>4
    <2>2. c \in Tasks /\ c \notin Procs /\ UNCHANGED runtime /\ \E k : Becomes(c, k)
      BY <2>1, SessionsAssumption DEF SessionsAssumption, Tasks, QrCode, QrSuccess, QrFailure
    <2> QED BY <2>2, BystanderFlag, SameFlags
  <1>5. CASE \E c \in Clients : Redial(c)
    BY <1>5 DEF Redial, FlagHasOwner, Lowers
  <1>6. CASE \E c \in Clients, t \in Procs : Events(c, t)
    BY <1>6, StartFlag, SameFlags DEF Events, Scan, Login, Drop, Refuse, Logout
  <1>7. CASE Crash
    BY <1>7 DEF Crash, NoRuntime, FlagHasOwner
  <1> QED BY <1>1, <1>2, <1>3, <1>4, <1>5, <1>6, <1>7 DEF Step

LEMMA WorkFlag ==
  ASSUME Inv, FlagHasOwner, NEW t \in Tasks, Work(t)
  PROVE  FlagHasOwner'
  <1>1. CASE Read(t) \/ Save(t)
    BY <1>1, UpdateFlag DEF Read, Save, At
  <1> QED BY <1>1, QuietFlag, ConnectFlag, InitOpenFlag DEF Work

\* The connecting flag is never stranded, whatever fails and whatever meets
\* (FlagHasOwner).
THEOREM FlagNeverStranded == Spec => []FlagHasOwner
  <1>1. Init => FlagHasOwner
    BY DEF Init, FlagHasOwner, NoRuntime
  <1>2. SessionsInv /\ FlagHasOwner /\ [Next]_vars => FlagHasOwner'
    <2> SUFFICES ASSUME Inv, FlagHasOwner, [Next]_vars PROVE FlagHasOwner'
      BY DEF SessionsInv
    <2>1. CASE UNCHANGED vars
      BY <2>1 DEF vars, FlagHasOwner, Lowers
    <2>2. CASE Next
      BY <2>2, WorkFlag, OthersFlag, FailureFlag DEF Next
    <2> QED BY <2>1, <2>2
  <1> QED BY <1>1, <1>2, InitInv, NextInv, PTL DEF Spec

--------------------------------------------------------------------------------
(* What a session's row and clients say.  Only sessions that are not       *)
(* disturbed are spoken for; at most one task at a time writes to such a    *)
(* session, and what holds of it is what that task has still to do.        *)

\* A session whose updates overlap is disturbed.
Solo == Overlapping \subseteq disturbed

\* Whoever holds a client belongs to the session that client was made for.
OwnersAgree ==
  /\ \A s \in Sessions : runtime[s].client # Nil => owner[runtime[s].client] = s
  /\ \A t \in Procs : task[t].arg \in Clients => owner[task[t].arg] = task[t].of
  /\ \A c \in Clients : ~Free(c) => task[c].arg = c /\ task[c].of = owner[c]

\* Start finds a session without a runtime, a task or a client of its own.
BootClean ==
  \A s \in booting :
    /\ runtime[s].client = Nil /\ ~runtime[s].connecting
    /\ \A t \in Tasks : task[t].of # s
    /\ \A c \in Clients : owner[c] # s

\* The first steps of a request are those of its kind.
RequestSteps ==
  \A t \in Tasks :
    /\ task[t].step \in {"create", "createSave", "reread", "ensure"} => task[t].op \in {"create", "init"}
    /\ At(t, "fetch") => task[t].op = "delete"

Ground == OwnersAgree /\ BootClean /\ RequestSteps

ConnectStep(k) ==
  \/ k.step \in {"test", "busy", "flag", "open", "dial"}
  \/ k.step \in {"read", "save"} /\ k.then = "dial"

\* The client a task has looked up is still the session's.
ClientHeld(s) ==
  \A t \in Procs : task[t].of = s /\ (ConnectStep(task[t]) \/ At(t, "cut")) => runtime[s].client = task[t].arg

NoneUp(s) == \A c \in Clients : owner[c] = s => link[c] = "down"

NoneDialing(s) == \A t \in Procs : task[t].of = s => ~At(t, "dial")

CutSteps == {"wipe", "dropRow", "forget"}

\* A session that is being deleted has no socket, and none to come.
DeletedIsCut(s) ==
  \A t \in Procs : task[t].of = s /\ task[t].step \in CutSteps => NoneUp(s) /\ NoneDialing(s)

ClaimsLive(k) ==
  \/ k.step \in {"read", "save"} /\ k.op \in {"online", "connected"}
  \/ k.step = "look" /\ k.op = "connected"

\* "active" is on its way to the row only while the session has a socket.
ClaimHolds(s) == \A t \in Tasks : task[t].of = s /\ ClaimsLive(task[t]) => Live(s)

\* The copy that CreateOrUpdateSession saves is the row as it is.
CopyIsFresh(s) == \A t \in Procs : task[t].of = s /\ At(t, "createSave") => task[t].saw = Found(s)

ClientEnsured(s) ==
  \A t \in Procs : task[t].of = s /\ At(t, "look") /\ task[t].op = "init" => runtime[s].client # Nil

\* A task that will take "active" out of the row: an update to another status, a
\* delete, or the reconnection of a session whose row a dead process has left behind.
Lowering(t) ==
  \/ task[t].step \in {"read", "save"} /\ task[t].op \notin {"online", "connected"}
  \/ task[t].step \in {"wipe", "dropRow"}
  \/ task[t].op = "init" /\ task[t].step \in {"flag", "open"}
  \/ /\ task[t].op = "init"
     /\ task[t].step \in {"create", "createSave", "reread", "ensure", "look", "test", "busy"}
     /\ ~runtime[task[t].of].connecting

Stale(s) == HasStatus(s, "active") /\ ~Live(s)

ActiveExplained(s) == s \notin booting /\ Stale(s) => \E t \in Tasks : task[t].of = s /\ Lowering(t)

OneClientOf(s) == \A c \in Clients : owner[c] = s /\ link[c] # "down" => runtime[s].client = c

CalmInv(s) ==
  /\ ClientHeld(s) /\ DeletedIsCut(s) /\ ClaimHolds(s) /\ CopyIsFresh(s) /\ ClientEnsured(s)
  /\ ActiveExplained(s) /\ OneClientOf(s)

SettledInv == Solo /\ Ground /\ \A s \in Sessions \ disturbed : CalmInv(s)

\* SettledStatus and OneClient are what this says of sessions with nothing under way.
LEMMA SettledInvImplies == Inv /\ SettledInv => SettledStatus /\ OneClient
  <1> SUFFICES ASSUME Inv, SettledInv PROVE SettledStatus /\ OneClient
    OBVIOUS
  <1>1. SettledStatus
    BY DEF SettledInv, SettledStatus, CalmInv, ActiveExplained, Stale, Lowering, Quiet, Writing, Free
  <1>2. OneClient
    BY DEF SettledInv, OneClient, CalmInv, OneClientOf, Inv, ClientsOwned
  <1> QED BY <1>1, <1>2

--------------------------------------------------------------------------------
(* Other sessions, and the own one.                                         *)

\* A step that concerns the session s only.
Within(s) ==
  /\ \A r \in Sessions \ {s} :
       row'[r] = row[r] /\ runtime'[r] = runtime[r] /\ (r \in booting' <=> r \in booting)
  /\ \A t \in Tasks :
       \/ task'[t] = task[t]
       \/ (task[t].of = s \/ Free(t)) /\ task'[t].of \in {s, Nil}
  /\ \A c \in Clients :
       \/ owner'[c] = owner[c] /\ link'[c] = link[c]
       \/ (owner[c] = s \/ link[c] = "down") /\ owner'[c] = s

LEMMA OthersCalm ==
  ASSUME Inv, NEW s \in Sessions, Within(s), NEW r \in Sessions \ {s}, CalmInv(r)
  PROVE  CalmInv(r)'
  <1>1. r # Nil
    BY SessionsAssumption DEF SessionsAssumption
  <1>2. \A t \in Tasks : task'[t].of = r => task'[t] = task[t]
    BY <1>1 DEF Within
  <1>3. \A t \in Tasks : task[t].of = r => task'[t] = task[t] \/ Free(t)
    BY DEF Within
  <1>4. Live(r) <=> Live(r)'
    BY DEF Within, Live
  <1>5. UNCHANGED <<row[r], runtime[r], Found(r)>> /\ (r \in booting' <=> r \in booting)
    BY DEF Within, Found
  <1>6. Procs \subseteq Tasks
    BY DEF Tasks
  <1>7. ClientHeld(r)'
    BY <1>2, <1>5, <1>6 DEF CalmInv, ClientHeld, ConnectStep, At
  <1>8. DeletedIsCut(r)'
    BY <1>2, <1>6 DEF CalmInv, DeletedIsCut, CutSteps, NoneUp, NoneDialing, Within, At
  <1>9. ClaimHolds(r)'
    BY <1>2, <1>4 DEF CalmInv, ClaimHolds, ClaimsLive
  <1>10. CopyIsFresh(r)' /\ ClientEnsured(r)'
    BY <1>2, <1>5, <1>6 DEF CalmInv, CopyIsFresh, ClientEnsured, At
  <1>11. ActiveExplained(r)'
    <2> SUFFICES ASSUME r \notin booting', Stale(r)' PROVE \E t \in Tasks : task'[t].of = r /\ Lowering(t)'
      BY DEF ActiveExplained
    <2>1. PICK t \in Tasks : task[t].of = r /\ Lowering(t)
      BY <1>4, <1>5 DEF CalmInv, ActiveExplained, Stale, HasStatus
    <2>2. task'[t] = task[t]
      BY <1>3, <2>1 DEF Lowering, Free
    <2> QED BY <1>5, <2>1, <2>2 DEF Lowering
  <1>12. OneClientOf(r)'
    BY <1>5 DEF CalmInv, OneClientOf, Within
  <1> QED BY <1>7, <1>8, <1>9, <1>10, <1>11, <1>12 DEF CalmInv

\* The other tasks do nothing; a QR reader may have been left waiting.
OthersSame(t) ==
  \A u \in Tasks \ {t} : task'[u] = task[u] \/ (u \in Clients /\ task'[u].step = "wait")

Alone(s, t) == \A u \in Tasks \ {t} : task[u].of = s => ~Writing(u)

\* What the one task that writes to a session has to leave behind.
LEMMA OwnCalm ==
  ASSUME Inv, NEW s \in Sessions, NEW t \in Tasks, OthersSame(t), Alone(s, t),
         \A u \in Procs \ {t} : task[u].of = s /\ At(u, "dial") => runtime'[s].client = task[u].arg,
         task'[t].of = s /\ (ConnectStep(task'[t]) \/ task'[t].step = "cut")
           => runtime'[s].client = task'[t].arg,
         task'[t].of = s /\ task'[t].step \in CutSteps
           => NoneUp(s)' /\ \A u \in Procs : task[u].of = s => ~At(u, "dial"),
         task'[t].of = s /\ ClaimsLive(task'[t]) => Live(s)',
         task'[t].of = s /\ task'[t].step = "createSave" => task'[t].saw = Found(s)',
         task'[t].of = s /\ task'[t].step = "look" /\ task'[t].op = "init" => runtime'[s].client # Nil,
         s \notin booting' /\ Stale(s)' => task'[t].of = s /\ Lowering(t)',
         OneClientOf(s)'
  PROVE  CalmInv(s)'
  <1> SUFFICES ASSUME SessionsAssumption PROVE CalmInv(s)'
    BY SessionsAssumption
  <1>1. Procs \subseteq Tasks /\ Procs \cap Clients = {}
    BY DEF Tasks, SessionsAssumption
  <1>2. \A u \in Procs \ {t} : task'[u] = task[u]
    BY <1>1 DEF OthersSame
  <1>3. \A u \in Tasks \ {t} : task'[u].of = s => task'[u].step \in {"free", "wait", "dial", "unflag"}
    BY DEF OthersSame, Alone, Writing, Free
  <1>4. ClientHeld(s)'
    BY <1>1, <1>2, <1>3 DEF ClientHeld, ConnectStep, At
  <1>5. DeletedIsCut(s)'
    <2> SUFFICES ASSUME NEW u \in Procs, task'[u].of = s, task'[u].step \in CutSteps
                 PROVE  NoneUp(s)' /\ NoneDialing(s)'
      BY DEF DeletedIsCut
    <2>1. u = t
      BY <1>1, <1>3 DEF CutSteps
    <2> QED BY <1>2, <2>1 DEF NoneDialing, At, CutSteps
  <1>6. ClaimHolds(s)'
    BY <1>3 DEF ClaimHolds, ClaimsLive
  <1>7. CopyIsFresh(s)' /\ ClientEnsured(s)'
    BY <1>1, <1>3 DEF CopyIsFresh, ClientEnsured, At
  <1>8. ActiveExplained(s)'
    BY DEF ActiveExplained
  <1> QED BY <1>4, <1>5, <1>6, <1>7, <1>8 DEF CalmInv

\* While one task writes to a session, nobody else does.
LEMMA AloneBefore ==
  ASSUME NEW s \in Sessions, s \notin Overlapping, NEW t \in Tasks, task[t].of = s, Writing(t)
  PROVE  Alone(s, t)
  BY DEF Alone, Overlapping

LEMMA AloneAfter ==
  ASSUME Inv, NEW s \in Sessions, s \notin Overlapping', NEW t \in Tasks, NEW k, Becomes(t, k),
         k.of = s, k.step \notin {"free", "wait", "dial", "unflag"}
  PROVE  Alone(s, t)
  <1>1. task'[t] = k /\ \A u \in Tasks \ {t} : task'[u] = task[u]
    BY DEF Becomes, Inv, TasksFine
  <1> QED BY <1>1 DEF Alone, Overlapping, Writing, Free

--------------------------------------------------------------------------------
(* What every step of a task does to the session it works for.              *)

FirstSteps(k) ==
  /\ k.step \in {"create", "createSave", "reread", "ensure"} => k.op \in {"create", "init"}
  /\ k.step = "fetch" => k.op = "delete"

RuntimeMove(s) ==
  \/ UNCHANGED <<runtime, owner>>
  \/ UNCHANGED owner /\ \E v \in BOOLEAN : SetConnecting(s, v)
  \/ UNCHANGED owner /\ runtime' = [runtime EXCEPT ![s] = NoRuntime]
  \/ \E choice, flag : Gets(s, choice, flag)

\* The task t goes on as k, in the name of the session s.
TaskMove(t, s, k) ==
  /\ Becomes(t, k)
  /\ task[t].of = s \/ Free(t)
  /\ k.of \in {s, Nil}
  /\ k.arg \in Clients => Reachable(k.arg) /\ owner[k.arg] = s /\ k.of = s
  /\ t \in Clients => k.step = "free" \/ (k.arg = t /\ k.of = s)
  /\ FirstSteps(k)

DataMove(s) ==
  /\ RuntimeMove(s)
  /\ booting' = booting \ {s}
  /\ \A r \in Sessions \ {s} : row'[r] = row[r]
  /\ \A c \in Clients : link'[c] = link[c] \/ owner[c] = s

\* Of the runtimes and owners, only those of the session change, and a client that
\* changes hands was reachable from nowhere.
LEMMA RuntimeMoved ==
  ASSUME Inv, OwnersAgree, NEW s \in Sessions, RuntimeMove(s)
  PROVE  /\ \A r \in Sessions \ {s} : runtime'[r] = runtime[r]
         /\ \A c \in Clients : Reachable(c) => owner'[c] = owner[c]
         /\ \A c \in Clients : owner'[c] = owner[c] \/ owner'[c] = s
         /\ runtime'[s].client # Nil => runtime'[s].client \in Clients /\ owner'[runtime'[s].client] = s
  <1>0. runtime[s].client \in Clients \cup {Nil}
    BY DEF Inv, RuntimeTypes
  <1>1. CASE UNCHANGED <<runtime, owner>>
    BY <1>0, <1>1 DEF OwnersAgree
  <1>2. CASE UNCHANGED owner /\ \E v \in BOOLEAN : SetConnecting(s, v)
    BY <1>0, <1>2 DEF OwnersAgree, SetConnecting, Inv, RuntimeTypes
  <1>3. CASE UNCHANGED owner /\ runtime' = [runtime EXCEPT ![s] = NoRuntime]
    BY <1>3 DEF NoRuntime, Inv, RuntimeTypes
  <1>4. CASE \E choice, flag : Gets(s, choice, flag)
    <2>1. PICK choice, flag : Gets(s, choice, flag)
      BY <1>4
    <2>2. PICK c \in Clients :
            /\ NewClient(c, s, choice)
            /\ runtime' = [runtime EXCEPT ![s] = [client |-> c, connecting |-> flag]]
      BY <2>1 DEF Gets
    <2>3. owner' = [owner EXCEPT ![c] = s] /\ ~Reachable(c)
      BY <2>2 DEF NewClient
    <2> QED BY <2>2, <2>3 DEF Inv, RuntimeTypes, ClientTypes
  <1> QED BY <1>1, <1>2, <1>3, <1>4 DEF RuntimeMove

LEMMA MoveWithin ==
  ASSUME Inv, OwnersAgree, NEW s \in Sessions, NEW t \in Tasks, NEW k, TaskMove(t, s, k), DataMove(s)
  PROVE  Within(s)
  <1>1. /\ \A r \in Sessions \ {s} : runtime'[r] = runtime[r]
        /\ \A c \in Clients : Reachable(c) => owner'[c] = owner[c]
        /\ \A c \in Clients : owner'[c] = owner[c] \/ owner'[c] = s
    BY RuntimeMoved DEF DataMove
  <1>2. \A u \in Tasks : task'[u] = IF u = t THEN k ELSE task[u]
    BY DEF TaskMove, Becomes, Inv, TasksFine
  <1>3. \A c \in Clients : \/ owner'[c] = owner[c] /\ link'[c] = link[c]
                           \/ (owner[c] = s \/ link[c] = "down") /\ owner'[c] = s
    BY <1>1 DEF Reachable, DataMove
  <1> QED BY <1>1, <1>2, <1>3 DEF Within, DataMove, TaskMove

LEMMA MoveGround ==
  ASSUME Inv, Ground, NEW s \in Sessions, NEW t \in Tasks, NEW k, TaskMove(t, s, k), DataMove(s)
  PROVE  Ground'
  <1>0. s # Nil
    BY SessionsAssumption DEF SessionsAssumption
  <1>1. /\ \A r \in Sessions \ {s} : runtime'[r] = runtime[r]
        /\ \A c \in Clients : Reachable(c) => owner'[c] = owner[c]
        /\ \A c \in Clients : owner'[c] = owner[c] \/ owner'[c] = s
        /\ runtime'[s].client # Nil => runtime'[s].client \in Clients /\ owner'[runtime'[s].client] = s
    BY RuntimeMoved DEF DataMove, Ground
  <1>2. task'[t] = k /\ \A u \in Tasks \ {t} : task'[u] = task[u]
    BY DEF TaskMove, Becomes, Inv, TasksFine
  <1>3. OwnersAgree'
    <2>1. ASSUME NEW r \in Sessions, runtime'[r].client # Nil
          PROVE  owner'[runtime'[r].client] = r
      <3>1. CASE r = s
        BY <1>1, <2>1, <3>1
      <3>2. CASE r # s
        <4>1. runtime[r].client \in Clients /\ runtime'[r] = runtime[r]
          BY <1>1, <2>1, <3>2 DEF Inv, RuntimeTypes
        <4>2. Reachable(runtime[r].client)
          BY <4>1 DEF Reachable
        <4> QED BY <1>1, <2>1, <4>1, <4>2 DEF Ground, OwnersAgree
      <3> QED BY <3>1, <3>2
    <2>2. ASSUME NEW u \in Procs, task'[u].arg \in Clients
          PROVE  owner'[task'[u].arg] = task'[u].of
      <3>1. CASE u = t
        BY <1>1, <1>2, <2>2, <3>1 DEF TaskMove
      <3>2. CASE u # t
        <4>1. task'[u] = task[u]
          BY <1>2, <3>2 DEF Tasks
        <4>2. Reachable(task[u].arg)
          BY <4>1 DEF Reachable
        <4> QED BY <1>1, <2>2, <4>1, <4>2 DEF Ground, OwnersAgree
      <3> QED BY <3>1, <3>2
    <2>3. ASSUME NEW c \in Clients, ~Free(c)'
          PROVE  task'[c].arg = c /\ task'[c].of = owner'[c]
      <3>1. CASE c = t
        <4>1. k.arg = c /\ k.of = s /\ owner[c] = s /\ Reachable(c)
          BY <1>2, <2>3, <3>1 DEF TaskMove, Free
        <4> QED BY <1>1, <1>2, <3>1, <4>1
      <3>2. CASE c # t
        <4>1. task'[c] = task[c] /\ ~Free(c)
          BY <1>2, <2>3, <3>2 DEF Tasks, Free
        <4>2. Reachable(c)
          BY <4>1 DEF Reachable
        <4> QED BY <1>1, <4>1, <4>2 DEF Ground, OwnersAgree
      <3> QED BY <3>1, <3>2
    <2> QED BY <2>1, <2>2, <2>3 DEF OwnersAgree
  <1>4. BootClean'
    <2> SUFFICES ASSUME NEW r \in booting, r # s
                 PROVE  /\ runtime'[r].client = Nil /\ ~runtime'[r].connecting
                        /\ \A u \in Tasks : task'[u].of # r
                        /\ \A c \in Clients : owner'[c] # r
      BY DEF BootClean, DataMove
    <2>1. r \in Sessions /\ r # Nil
      BY SessionsAssumption DEF Inv, SessionsAssumption
    <2>2. \A u \in Tasks : task'[u].of # r
      BY <1>2, <2>1 DEF Ground, BootClean, TaskMove
    <2> QED BY <1>1, <2>1, <2>2 DEF Ground, BootClean
  <1>5. RequestSteps'
    <2> SUFFICES ASSUME NEW u \in Tasks PROVE FirstSteps(task'[u])
      BY DEF RequestSteps, FirstSteps, At
    <2>1. FirstSteps(task[u])
      BY DEF Ground, RequestSteps, FirstSteps, At
    <2> QED BY <1>2, <2>1 DEF TaskMove
  <1> QED BY <1>3, <1>4, <1>5 DEF Ground

\* A task that goes on for its session, with its client or another one it may hold.
LEMMA KeepMove ==
  ASSUME Inv, Ground, NEW t \in Tasks, ~Free(t), NEW k, Becomes(t, k), k.of = task[t].of, FirstSteps(k),
         \/ k.arg = task[t].arg
         \/ t \notin Clients /\ (k.arg \in Clients => k.arg = runtime[task[t].of].client)
  PROVE  TaskMove(t, task[t].of, k)
  <1> DEFINE s == task[t].of
  <1>1. s \in Sessions
    BY TaskType
  <1>2. t \in Clients => task[t].arg = t /\ owner[t] = s
    BY DEF Ground, OwnersAgree
  <1>3. task[t].arg \in Clients => owner[task[t].arg] = s /\ Reachable(task[t].arg)
    BY <1>2 DEF Ground, OwnersAgree, Reachable, Tasks
  <1>4. runtime[s].client \in Clients => owner[runtime[s].client] = s /\ Reachable(runtime[s].client)
    BY <1>1, SessionsAssumption DEF Ground, OwnersAgree, Reachable, SessionsAssumption
  <1>5. k.arg \in Clients => Reachable(k.arg) /\ owner[k.arg] = s
    BY <1>3, <1>4
  <1> QED BY <1>2, <1>5 DEF TaskMove

LEMMA EndMove ==
  ASSUME Inv, Ground, NEW t \in Tasks, Becomes(t, NoTask)
  PROVE  TaskMove(t, task[t].of, NoTask)
  <1>1. NoTask.of = Nil /\ NoTask.step = "free"
    BY DEF NoTask
  <1> QED BY <1>1, NoTaskType DEF TaskMove, FirstSteps

LEMMA GoesMove ==
  ASSUME Inv, Ground, NEW t \in Tasks, ~Free(t), NEW step, Goes(t, step), step # "fetch",
         step \in {"create", "createSave", "reread", "ensure"} => task[t].op \in {"create", "init"}
  PROVE  \E k : TaskMove(t, task[t].of, k)
  <1>1. CASE step = "end"
    BY <1>1, EndMove DEF Goes
  <1>2. CASE step # "end"
    <2> DEFINE k == [task[t] EXCEPT !.step = step]
    <2>1. k.of = task[t].of /\ k.arg = task[t].arg /\ k.step = step /\ k.op = task[t].op
      BY TaskType DEF Task
    <2>2. Becomes(t, k)
      BY <1>2 DEF Goes
    <2> HIDE DEF k
    <2> QED BY <2>1, <2>2, KeepMove DEF FirstSteps
  <1> QED BY <1>1, <1>2

LEMMA ReturnsMove ==
  ASSUME Inv, Ground, NEW t \in Tasks, task[t].step \in {"read", "save"}, Returns(t)
  PROVE  \E k : TaskMove(t, task[t].of, k)
  <1>1. CASE task[t].then = "end"
    BY <1>1, EndMove DEF Returns
  <1>2. CASE task[t].then # "end"
    <2> DEFINE k == [task[t] EXCEPT !.step = task[t].then, !.then = "end", !.saw = NoRow]
    <2>1. k.of = task[t].of /\ k.arg = task[t].arg /\ k.step = task[t].then
      BY TaskType DEF Task
    <2>2. k.step \in {"wait", "dial", "unflag", "reset"} /\ ~Free(t)
      BY <1>2, <2>1, TaskType DEF Fine, Free
    <2>3. Becomes(t, k)
      BY <1>2 DEF Returns
    <2> HIDE DEF k
    <2> QED BY <2>1, <2>2, <2>3, KeepMove DEF FirstSteps
  <1> QED BY <1>1, <1>2

LEMMA UpdatingMove ==
  ASSUME Inv, Ground, NEW t \in Tasks, ~Free(t), NEW op, NEW then, Becomes(t, Updating(t, op, then))
  PROVE  TaskMove(t, task[t].of, Updating(t, op, then))
  <1> DEFINE k == Updating(t, op, then)
  <1>1. k.of = task[t].of /\ k.arg = task[t].arg /\ k.step = "read"
    BY TaskType DEF Updating, Task
  <1> HIDE DEF k
  <1>2. TaskMove(t, task[t].of, k)
    BY <1>1, KeepMove DEF FirstSteps, k
  <1> QED BY <1>2 DEF k

\* A task that reads a row keeps its operation.
LEMMA SeenMove ==
  ASSUME Inv, Ground, NEW t \in Tasks, ~Free(t), NEW r, NEW step \in {"createSave", "reread", "look", "save"},
         step \in {"createSave", "reread"} => task[t].step \in {"create", "createSave"},
         Becomes(t, [task[t] EXCEPT !.step = step, !.saw = r])
  PROVE  TaskMove(t, task[t].of, [task[t] EXCEPT !.step = step, !.saw = r])
  <1> DEFINE k == [task[t] EXCEPT !.step = step, !.saw = r]
  <1>1. k.of = task[t].of /\ k.arg = task[t].arg /\ k.step = step /\ k.op = task[t].op
    BY TaskType DEF Task
  <1> HIDE DEF k
  <1>2. FirstSteps(k)
    BY <1>1 DEF Ground, RequestSteps, FirstSteps
  <1>3. TaskMove(t, task[t].of, k)
    BY <1>1, <1>2, KeepMove DEF k
  <1> QED BY <1>3 DEF k

LEMMA LookMove ==
  ASSUME Inv, Ground, NEW t \in Tasks, Look(t)
  PROVE  \E k : TaskMove(t, task[t].of, k)
  <1> DEFINE c == runtime[task[t].of].client
  <1>1. ~Free(t) /\ t \notin Clients /\ task[t] \in Task
    BY TaskType DEF Look, At, Free, Fine
  <1>2. CASE Goes(t, "end")
    BY <1>1, <1>2, GoesMove
  <1>3. ASSUME NEW step \in {"test", "cut"}, Becomes(t, [task[t] EXCEPT !.step = step, !.arg = c])
        PROVE  \E k : TaskMove(t, task[t].of, k)
    <2> DEFINE k == [task[t] EXCEPT !.step = step, !.arg = c]
    <2>1. k.of = task[t].of /\ k.arg = c /\ k.step = step
      BY <1>1 DEF Task
    <2>2. Becomes(t, k)
      BY <1>3
    <2> HIDE DEF k
    <2> QED BY <1>1, <2>1, <2>2, KeepMove DEF FirstSteps
  <1>4. CASE Becomes(t, [Updating(t, task[t].op, "end") EXCEPT !.arg = DeviceOf(c)])
    <2> DEFINE k == [Updating(t, task[t].op, "end") EXCEPT !.arg = DeviceOf(c)]
    <2>1. k.of = task[t].of /\ k.arg = DeviceOf(c) /\ k.step = "read"
      BY <1>1 DEF Updating, Task
    <2>2. DeviceOf(c) \notin Clients
      BY SessionsAssumption DEF DeviceOf, SessionsAssumption
    <2>3. Becomes(t, k)
      BY <1>4
    <2> HIDE DEF k
    <2> QED BY <1>1, <2>1, <2>2, <2>3, KeepMove DEF FirstSteps
  <1> QED BY <1>2, <1>3, <1>4 DEF Look

LEMMA CutMove ==
  ASSUME Inv, Ground, NEW t \in Tasks, Cut(t)
  PROVE  \E k : TaskMove(t, task[t].of, k)
  <1>1. ~Free(t) /\ t \notin Clients /\ task[t] \in Task
    BY TaskType DEF Cut, At, Free, Fine
  <1>2. CASE Goes(t, "wipe")
    BY <1>1, <1>2, GoesMove
  <1>3. CASE Becomes(t, [Updating(t, "disconnect", "end") EXCEPT !.arg = Nil])
    <2> DEFINE k == [Updating(t, "disconnect", "end") EXCEPT !.arg = Nil]
    <2>1. k.of = task[t].of /\ k.arg = Nil /\ k.step = "read"
      BY <1>1 DEF Updating, Task
    <2>2. Becomes(t, k)
      BY <1>3
    <2> HIDE DEF k
    <2> QED BY <1>1, <2>1, <2>2, KeepMove, SessionsAssumption DEF FirstSteps, SessionsAssumption
  <1> QED BY <1>2, <1>3 DEF Cut

\* InitOpen may leave a reader; every other step of a task is a step of that task.
LEMMA WorkMove ==
  ASSUME Inv, Ground, NEW t \in Tasks, Work(t), ~InitOpen(t)
  PROVE  ~Free(t) /\ \E k : TaskMove(t, task[t].of, k)
  <1>1. CASE CreateRead(t) \/ Read(t) \/ CreateSave(t)
    BY <1>1, SeenMove DEF CreateRead, Read, CreateSave, At, Free
  <1>2. CASE CreateReread(t)
    <2>1. ~Free(t) /\ task[t].op \in {"create", "init"}
      BY <1>2 DEF CreateReread, At, Free, Ground, RequestSteps
    <2>2. PICK step \in {"ensure", "end"} : Goes(t, step)
      BY <1>2 DEF CreateReread
    <2> QED BY <2>1, <2>2, GoesMove
  <1>3. CASE Ensure(t)
    BY <1>3, GoesMove DEF Ensure, At, Free
  <1>4. CASE Look(t)
    BY <1>4, LookMove DEF Look, At, Free
  <1>5. CASE InitTest(t)
    BY <1>5, GoesMove, UpdatingMove DEF InitTest, At, Free
  <1>6. CASE InitBusy(t)
    <2>1. ~Free(t)
      BY <1>6 DEF InitBusy, At, Free
    <2>2. PICK step \in {"flag", "end"} : Goes(t, step)
      BY <1>6 DEF InitBusy
    <2> QED BY <2>1, <2>2, GoesMove
  <1>7. CASE InitFlag(t)
    BY <1>7, GoesMove DEF InitFlag, At, Free
  <1>8. CASE InitOpenFails(t) \/ DialFails(t)
    BY <1>8, UpdatingMove DEF InitOpenFails, DialFails, At, Free
  <1>9. CASE Dial(t) \/ Unflag(t) \/ Wipe(t) \/ DropRow(t) \/ Forget(t) \/ Reset(t)
    BY <1>9, GoesMove DEF Dial, Unflag, Wipe, DropRow, Forget, Reset, At, Free
  <1>10. CASE Save(t)
    BY <1>10, ReturnsMove DEF Save, At, Free
  <1>11. CASE Fetch(t)
    BY <1>11, GoesMove, SeenMove DEF Fetch, At, Free
  <1>12. CASE Cut(t)
    BY <1>12, CutMove DEF Cut, At, Free
  <1> QED BY <1>1, <1>2, <1>3, <1>4, <1>5, <1>6, <1>7, <1>8, <1>9, <1>10, <1>11, <1>12 DEF Work

LEMMA EnsureMove == ASSUME NEW s, EnsureClient(s) PROVE RuntimeMove(s)
  BY DEF EnsureClient, RuntimeMove, clientVars

LEMMA FlagMove ==
  ASSUME NEW s, NEW v \in BOOLEAN, SetConnecting(s, v), UNCHANGED owner
  PROVE  RuntimeMove(s)
  BY DEF RuntimeMove

LEMMA GetsLinks == ASSUME NEW s, EnsureClient(s) \/ \E choice, flag : Gets(s, choice, flag) PROVE UNCHANGED link
  BY DEF EnsureClient, Gets, NewClient, clientVars

LEMMA SameMove == ASSUME NEW s, UNCHANGED <<runtime, owner>> PROVE RuntimeMove(s)
  BY DEF RuntimeMove

LEMMA WorkData ==
  ASSUME Inv, Ground, NEW t \in Tasks, Work(t)
  PROVE  DataMove(task[t].of)
  <1> DEFINE s == task[t].of
  <1>1. s \in Sessions /\ ~Free(t) /\ Fine(t, task[t])
    BY TaskType DEF Work, CreateRead, CreateSave, CreateReread, Ensure, Look, InitTest, InitBusy, InitFlag,
       InitOpen, InitOpenFails, Dial, DialFails, Unflag, Read, Save, Fetch, Cut, Wipe, DropRow, Forget,
       Reset, At, Free
  <1>2. booting' = booting /\ s \notin booting
    BY <1>1 DEF Work, CreateRead, CreateSave, CreateReread, Ensure, Look, InitTest, InitBusy, InitFlag,
       InitOpen, InitOpenFails, Dial, DialFails, Unflag, Read, Save, Fetch, Cut, Wipe, DropRow, Forget,
       Reset, Ground, BootClean
  <1>3. \A r \in Sessions \ {s} : row'[r] = row[r]
    BY DEF Work, CreateRead, CreateSave, CreateReread, Ensure, Look, InitTest, InitBusy, InitFlag,
       InitOpen, InitOpenFails, Dial, DialFails, Unflag, Read, Save, Fetch, Cut, Wipe, DropRow, Forget,
       Reset, Inv, RowTypes
  <1>4. RuntimeMove(s)
    <2>1. CASE Ensure(t)
      BY <2>1, EnsureMove DEF Ensure
    <2>2. CASE InitFlag(t) \/ InitOpenFails(t) \/ Unflag(t)
      BY <2>2, FlagMove DEF InitFlag, InitOpenFails, Unflag, clientVars
    <2>3. CASE Forget(t)
      BY <2>3 DEF Forget, RuntimeMove, clientVars
    <2>4. CASE Reset(t)
      BY <2>4 DEF Reset, RuntimeMove
    <2> QED BY <2>1, <2>2, <2>3, <2>4, SameMove DEF Work, CreateRead, CreateSave, CreateReread, Look, InitTest,
               InitBusy, InitOpen, Dial, DialFails, Read, Save, Fetch, Cut, Wipe, DropRow, clientVars
  <1>5. \A c \in Clients : link'[c] = link[c] \/ owner[c] = s
    <2>1. CASE Ensure(t) \/ Reset(t)
      BY <2>1, GetsLinks DEF Ensure, Reset
    <2>2. CASE Dial(t) \/ Cut(t)
      <3>1. t \in Procs
        BY <1>1, <2>2 DEF Dial, Cut, At, Fine, Tasks
      <3> QED BY <2>2, <3>1 DEF Dial, Cut, Ground, OwnersAgree, Inv, ClientTypes
    <2> QED BY <2>1, <2>2 DEF Work, CreateRead, CreateSave, CreateReread, Look, InitTest, InitBusy, InitFlag,
               InitOpen, InitOpenFails, DialFails, Unflag, Read, Save, Fetch, Wipe, DropRow, Forget, clientVars
  <1>6. booting' = booting \ {s}
    BY <1>2
  <1> QED BY <1>3, <1>4, <1>5, <1>6 DEF DataMove

\* A QR reader that InitOpen leaves behind belongs to the client's session too.
LEMMA OpenGround ==
  ASSUME Inv, Ground, NEW t \in Tasks, InitOpen(t)
  PROVE  Ground' /\ Within(task[t].of) /\ OthersSame(t)
  <1> DEFINE s      == task[t].of
             c      == task[t].arg
             reader == [NoTask EXCEPT !.op = "qr", !.of = s, !.step = "wait", !.arg = c]
             next   == Updating(t, "initializing", "dial")
  <1>1. /\ ~Free(t) /\ t \notin Clients /\ t \in Procs /\ c \in Clients /\ s \in Sessions /\ s \notin booting
        /\ c \in Tasks /\ t # c
    BY TaskType, SessionsAssumption DEF SessionsAssumption, InitOpen, At, Free, Fine, ClientSteps, Tasks,
       Ground, BootClean
  <1>2. UNCHANGED <<row, runtime, booting, owner, link>>
    BY DEF InitOpen, clientVars
  <1>3. CASE Becomes(t, next)
    <2>1. TaskMove(t, s, next)
      BY <1>1, <1>3, UpdatingMove
    <2>2. DataMove(s)
      BY <1>1, <1>2, SameMove DEF DataMove
    <2>3. OthersSame(t)
      BY <1>3 DEF OthersSame, Becomes, Inv, TasksFine
    <2> QED BY <1>1, <2>1, <2>2, <2>3, MoveGround, MoveWithin DEF Ground
  <1>4. CASE task' = [task EXCEPT ![t] = next, ![c] = IF Free(c) THEN reader ELSE @]
    <2>1. /\ reader.of = s /\ reader.arg = c /\ reader.step = "wait"
          /\ next.of = s /\ next.arg = c /\ next.step = "read"
      BY TaskType DEF NoTask, Updating, Task
    <2>2. /\ task'[t] = next
          /\ task'[c] = task[c] \/ (Free(c) /\ task'[c] = reader)
          /\ \A u \in Tasks \ {t, c} : task'[u] = task[u]
      BY <1>1, <1>4 DEF Inv, TasksFine
    <2> HIDE DEF next, reader
    <2>3. owner[c] = s
      BY <1>1 DEF Ground, OwnersAgree
    <2>4. OthersSame(t)
      BY <1>1, <2>1, <2>2 DEF OthersSame
    <2>5. Within(s)
      BY <1>1, <1>2, <2>1, <2>2 DEF Within
    <2>6. OwnersAgree'
      <3>1. \A u \in Procs : task'[u].arg \in Clients => owner'[task'[u].arg] = task'[u].of
        BY <1>1, <1>2, <2>1, <2>2, <2>3, SessionsAssumption
           DEF Ground, OwnersAgree, Tasks, SessionsAssumption
      <3>2. \A d \in Clients : ~Free(d)' => task'[d].arg = d /\ task'[d].of = owner'[d]
        BY <1>1, <1>2, <2>1, <2>2, <2>3 DEF Ground, OwnersAgree, Tasks, Free
      <3> QED BY <1>2, <3>1, <3>2 DEF Ground, OwnersAgree
    <2>7. BootClean'
      BY <1>1, <1>2, <2>1, <2>2 DEF Ground, BootClean
    <2>8. RequestSteps'
      BY <1>1, <2>1, <2>2 DEF Ground, RequestSteps, At
    <2> QED BY <2>4, <2>5, <2>6, <2>7, <2>8 DEF Ground
  <1> QED BY <1>3, <1>4 DEF InitOpen

LEMMA WorkGround ==
  ASSUME Inv, Ground, NEW t \in Tasks, Work(t)
  PROVE  Ground' /\ Within(task[t].of) /\ OthersSame(t)
  <1>1. CASE InitOpen(t)
    BY <1>1, OpenGround
  <1>2. CASE ~InitOpen(t)
    <2>1. PICK k : TaskMove(t, task[t].of, k)
      BY <1>2, WorkMove
    <2>2. task[t].of \in Sessions
      BY <1>2, WorkMove, TaskType
    <2>3. DataMove(task[t].of)
      BY WorkData
    <2>4. OthersSame(t)
      BY <2>1 DEF TaskMove, OthersSame, Becomes, Inv, TasksFine
    <2> QED BY <2>1, <2>2, <2>3, <2>4, MoveGround, MoveWithin DEF Ground
  <1> QED BY <1>1, <1>2

LEMMA FailureGround ==
  ASSUME Inv, Ground, NEW t \in Tasks, DbFails(t)
  PROVE  Ground' /\ Within(task[t].of)
  <1> DEFINE s == task[t].of
  <1>1. ~Free(t)
    BY DEF DbFails, At, Free
  <1>2. s \in Sessions /\ s \notin booting
    BY <1>1, TaskType DEF Ground, BootClean
  <1>3. \E k : TaskMove(t, s, k)
    <2>1. CASE Returns(t) /\ task[t].step \in {"read", "save"}
      BY <2>1, ReturnsMove
    <2>2. CASE Goes(t, "end") \/ Goes(t, "look")
      BY <1>1, <2>2, GoesMove
    <2> QED BY <2>1, <2>2 DEF DbFails
  <1>4. RuntimeMove(s)
    BY DEF DbFails, RuntimeMove, clientVars
  <1>5. DataMove(s)
    <2>1. UNCHANGED link
      BY GetsLinks DEF DbFails, clientVars
    <2> QED BY <1>2, <1>4, <2>1 DEF DbFails, DataMove
  <1> QED BY <1>2, <1>3, <1>5, MoveGround, MoveWithin DEF Ground

LEMMA StartMove ==
  ASSUME Inv, NEW t, NEW op, NEW s \in Sessions, NEW arg \in Devices \cup {Nil}, NEW step, NEW then,
         Starts(t, op, s, arg, step, then),
         step \in {"create", "createSave", "reread", "ensure"} => op \in {"create", "init"},
         step = "fetch" => op = "delete"
  PROVE  LET k == [op |-> op, of |-> s, step |-> step, then |-> then, arg |-> arg, saw |-> NoRow]
         IN  t \in Procs /\ t \in Tasks /\ Free(t) /\ TaskMove(t, s, k)
  <1> DEFINE k == [op |-> op, of |-> s, step |-> step, then |-> then, arg |-> arg, saw |-> NoRow]
  <1>1. k.op = op /\ k.of = s /\ k.step = step /\ k.arg = arg
    OBVIOUS
  <1>2. t \in Procs /\ t \in Tasks /\ Free(t) /\ Becomes(t, k)
    BY DEF Starts, Tasks
  <1>3. t \notin Clients /\ arg \notin Clients
    BY <1>2, SessionsAssumption DEF SessionsAssumption
  <1> HIDE DEF k
  <1>4. TaskMove(t, s, k)
    BY <1>1, <1>2, <1>3 DEF TaskMove, FirstSteps
  <1> QED BY <1>2, <1>4 DEF k

LEMMA RequestGround ==
  ASSUME Inv, Ground, NEW t \in Procs, NEW s \in Sessions, Request(t, s)
  PROVE  Ground' /\ Within(s)
  <1>1. PICK op, step : Ask(t, s, op, step) /\ <<op, step>> \in
          {<<"create", "create">>, <<"init", "create">>, <<"disconnect", "look">>, <<"delete", "fetch">>}
    BY DEF Request
  <1>2. t \in Tasks /\ \E k : TaskMove(t, s, k)
    BY <1>1, StartMove DEF Ask
  <1>3. DataMove(s)
    BY <1>1, SameMove DEF Ask, DataMove, clientVars
  <1> QED BY <1>2, <1>3, MoveGround, MoveWithin DEF Ground

LEMMA BootReconnectsGround ==
  ASSUME Inv, Ground, NEW t \in Procs, NEW s \in Sessions, BootReconnects(t, s)
  PROVE  Ground' /\ Within(s)
  <1>1. t \in Tasks /\ \E k : TaskMove(t, s, k)
    BY StartMove DEF BootReconnects
  <1>2. DataMove(s)
    BY EnsureMove, GetsLinks DEF BootReconnects, DataMove
  <1> QED BY <1>1, <1>2, MoveGround, MoveWithin DEF Ground

LEMMA QrGround ==
  ASSUME Inv, Ground, NEW c \in Clients, QrCode(c) \/ QrSuccess(c) \/ QrFailure(c)
  PROVE  Ground' /\ owner[c] \in Sessions /\ Within(owner[c]) /\ task[c].of = owner[c]
  <1>1. c \in Tasks /\ ~Free(c)
    BY DEF QrCode, QrSuccess, QrFailure, At, Free, Tasks
  <1>2. task[c].of = owner[c] /\ owner[c] \in Sessions /\ owner[c] \notin booting
    BY <1>1, TaskType DEF Ground, OwnersAgree, BootClean
  <1>3. \E k : TaskMove(c, owner[c], k)
    BY <1>1, <1>2, UpdatingMove DEF QrCode, QrSuccess, QrFailure
  <1>4. DataMove(owner[c])
    <2>1. UNCHANGED <<row, runtime, booting, owner>> /\ \A d \in Clients \ {c} : link'[d] = link[d]
      BY DEF QrCode, QrSuccess, QrFailure, clientVars, Inv, ClientTypes
    <2> QED BY <1>2, <2>1, SameMove DEF DataMove
  <1> QED BY <1>1, <1>2, <1>3, <1>4, MoveGround, MoveWithin DEF Ground

EventOps == {"paired", "connected", "dropped", "fail", "loggedOut"}

FirstStep(op) == IF op = "connected" THEN "look" ELSE "read"

\* The handler of an event begins with an update, or with a look at the client.
LEMMA EventStart ==
  ASSUME NEW c \in Clients, NEW t \in Procs, Events(c, t)
  PROVE  \E op \in EventOps, arg \in Devices \cup {Nil}, then \in {"end", "reset"} :
           Starts(t, op, owner[c], arg, FirstStep(op), then)
  <1>1. CASE Scan(c, t)
    <2>1. PICK d \in Devices : Starts(t, "paired", owner[c], d, "read", "end")
      BY <1>1 DEF Scan
    <2> QED BY <2>1 DEF EventOps, FirstStep
  <1>2. CASE Login(c, t)
    <2>1. Starts(t, "connected", owner[c], Nil, "look", "end")
      BY <1>2 DEF Login
    <2> QED BY <2>1 DEF EventOps, FirstStep
  <1>3. CASE Drop(c, t)
    <2>1. Starts(t, "dropped", owner[c], Nil, "read", "end")
      BY <1>3 DEF Drop
    <2> QED BY <2>1 DEF EventOps, FirstStep
  <1>4. CASE Refuse(c, t)
    <2>1. Starts(t, "fail", owner[c], Nil, "read", "end")
      BY <1>4 DEF Refuse
    <2> QED BY <2>1 DEF EventOps, FirstStep
  <1>5. CASE Logout(c, t)
    <2>1. PICK op \in {"loggedOut", "fail"} : Starts(t, op, owner[c], Nil, "read", "reset")
      BY <1>5 DEF Logout
    <2> QED BY <2>1 DEF EventOps, FirstStep
  <1> QED BY <1>1, <1>2, <1>3, <1>4, <1>5 DEF Events

LEMMA EventsGround ==
  ASSUME Inv, Ground, NEW c \in Clients, NEW t \in Procs, Events(c, t)
  PROVE  Ground' /\ owner[c] \in Sessions /\ Within(owner[c])
  <1>1. owner[c] \in Sessions /\ owner[c] \notin booting
    BY DEF Events, Scan, Login, Drop, Refuse, Logout, Inv, ClientsOwned, Ground, BootClean
  <1>2. t \in Tasks /\ \E k : TaskMove(t, owner[c], k)
    <2>1. PICK op \in EventOps, arg \in Devices \cup {Nil}, then \in {"end", "reset"} :
            Starts(t, op, owner[c], arg, FirstStep(op), then)
      BY EventStart
    <2>2. FirstStep(op) \in {"look", "read"}
      BY DEF FirstStep
    <2> QED BY <1>1, <2>1, <2>2, StartMove
  <1>3. UNCHANGED <<row, runtime, booting, owner>> /\ \A d \in Clients \ {c} : link'[d] = link[d]
    BY DEF Events, Scan, Login, Drop, Refuse, Logout, Inv, ClientTypes
  <1>4. DataMove(owner[c])
    BY <1>1, <1>3, SameMove DEF DataMove
  <1> QED BY <1>1, <1>2, <1>4, MoveGround, MoveWithin DEF Ground

LEMMA RedialGround ==
  ASSUME Inv, Ground, NEW c \in Clients, Redial(c)
  PROVE  Ground' /\ owner[c] \in Sessions /\ Within(owner[c])
  <1>1. owner[c] \in Sessions /\ \A d \in Clients \ {c} : link'[d] = link[d]
    BY DEF Redial, Inv, ClientsOwned, ClientTypes
  <1> QED BY <1>1 DEF Redial, Within, Ground, OwnersAgree, BootClean, RequestSteps, Free, At

LEMMA BootWaitsGround ==
  ASSUME Inv, Ground, NEW s \in Sessions, BootWaits(s)
  PROVE  Ground' /\ Within(s)
  <1>1. RuntimeMove(s) /\ UNCHANGED <<link, task>>
    BY EnsureMove, GetsLinks, SameMove DEF BootWaits, clientVars
  <1>2. /\ \A r \in Sessions \ {s} : runtime'[r] = runtime[r]
        /\ \A c \in Clients : Reachable(c) => owner'[c] = owner[c]
        /\ \A c \in Clients : owner'[c] = owner[c] \/ owner'[c] = s
        /\ runtime'[s].client # Nil => runtime'[s].client \in Clients /\ owner'[runtime'[s].client] = s
    BY <1>1, RuntimeMoved DEF Ground
  <1>3. booting' = booting \ {s} /\ \A r \in Sessions \ {s} : row'[r] = row[r]
    BY DEF BootWaits, Inv, RowTypes
  <1>4. Within(s)
    BY <1>1, <1>2, <1>3 DEF Within, Reachable
  <1>5. OwnersAgree'
    <2>1. ASSUME NEW r \in Sessions, runtime'[r].client # Nil
          PROVE  owner'[runtime'[r].client] = r
      <3>1. CASE r = s
        BY <1>2, <2>1, <3>1
      <3>2. CASE r # s
        <4>1. runtime[r].client \in Clients /\ runtime'[r] = runtime[r]
          BY <1>2, <2>1, <3>2 DEF Inv, RuntimeTypes
        <4>2. Reachable(runtime[r].client)
          BY <4>1 DEF Reachable
        <4> QED BY <1>2, <2>1, <4>1, <4>2 DEF Ground, OwnersAgree
      <3> QED BY <3>1, <3>2
    <2>2. ASSUME NEW u \in Procs, task'[u].arg \in Clients
          PROVE  owner'[task'[u].arg] = task'[u].of
      <3>1. Reachable(task[u].arg)
        BY <1>1, <2>2 DEF Reachable
      <3> QED BY <1>1, <1>2, <2>2, <3>1 DEF Ground, OwnersAgree
    <2>3. ASSUME NEW c \in Clients, ~Free(c)'
          PROVE  task'[c].arg = c /\ task'[c].of = owner'[c]
      <3>1. Reachable(c) /\ ~Free(c)
        BY <1>1, <2>3 DEF Reachable, Free
      <3> QED BY <1>1, <1>2, <3>1 DEF Ground, OwnersAgree
    <2> QED BY <2>1, <2>2, <2>3 DEF OwnersAgree
  <1>6. BootClean'
    BY <1>1, <1>2, <1>3 DEF Ground, BootClean, Inv
  <1>7. RequestSteps'
    BY <1>1 DEF Ground, RequestSteps, At
  <1> QED BY <1>4, <1>5, <1>6, <1>7 DEF Ground

LEMMA CrashGround ==
  ASSUME Inv, Crash
  PROVE  Ground' /\ \A s \in Sessions : CalmInv(s)'
  <1>1. Procs \subseteq Tasks /\ Clients \subseteq Tasks /\ Nil \notin Clients /\ Nil \notin Sessions
    BY SessionsAssumption DEF SessionsAssumption, Tasks
  <1>2. \A t \in Tasks : task'[t] = NoTask
    BY DEF Crash
  <1>3. NoTask.step = "free" /\ NoTask.of = Nil /\ NoTask.arg = Nil
    BY DEF NoTask
  <1>4. /\ \A s \in Sessions : runtime'[s] = NoRuntime
        /\ \A c \in Clients : owner'[c] = Nil /\ link'[c] = "down"
    BY DEF Crash
  <1>5. NoRuntime.client = Nil /\ NoRuntime.connecting = FALSE
    BY DEF NoRuntime
  <1>6. booting' = {s \in Sessions : row[s] # NoRow} /\ row' = row
    BY DEF Crash
  <1>7. Ground'
    BY <1>1, <1>2, <1>3, <1>4, <1>5, <1>6 DEF Ground, OwnersAgree, BootClean, RequestSteps, Free, At
  <1>8. ASSUME NEW s \in Sessions PROVE CalmInv(s)'
    <2>1. \A t \in Tasks : task'[t].of # s
      BY <1>1, <1>2, <1>3
    <2>2. ActiveExplained(s)'
      BY <1>6 DEF ActiveExplained, Stale, HasStatus, NoRow
    <2> QED BY <1>1, <1>4, <2>1, <2>2 DEF CalmInv, ClientHeld, DeletedIsCut, ClaimHolds, CopyIsFresh,
               ClientEnsured, OneClientOf
  <1> QED BY <1>7, <1>8

--------------------------------------------------------------------------------
(* What the task that works for a session leaves behind.                    *)

\* A step that does not disturb the session.
Undisturbed(s) == CalmInv(s) /\ s \notin Overlapping /\ s \notin Overlapping' /\ s \notin Missed

LEMMA Context ==
  ASSUME Inv, Ground, NEW t \in Tasks, Work(t)
  PROVE  /\ task[t] \in Task /\ Fine(t, task[t]) /\ ~Free(t)
         /\ task[t].of \in Sessions /\ task[t].of \notin booting /\ OthersSame(t)
         /\ task' = [task EXCEPT ![t] = task'[t]] \/ InitOpen(t)
         /\ task[t].step # "wait" => t \in Procs \/ task[t].step \in {"read", "save"}
         /\ task[t].step \notin {"wait", "dial", "unflag"} => Writing(t)
  <1>1. ~Free(t)
    BY DEF Work, CreateRead, CreateSave, CreateReread, Ensure, Look, InitTest, InitBusy, InitFlag,
       InitOpen, InitOpenFails, Dial, DialFails, Unflag, Read, Save, Fetch, Cut, Wipe, DropRow, Forget,
       Reset, At, Free
  <1>2. task[t] \in Task /\ Fine(t, task[t]) /\ task[t].of \in Sessions /\ task[t].of \notin booting
    BY <1>1, TaskType DEF Ground, BootClean
  <1>3. OthersSame(t)
    BY WorkGround
  <1>4. task' = [task EXCEPT ![t] = task'[t]] \/ InitOpen(t)
    BY WorkMove DEF TaskMove, Becomes, Inv, TasksFine
  <1>5. task[t].step # "wait" => t \in Procs \/ task[t].step \in {"read", "save"}
    BY <1>1, <1>2 DEF Fine, Tasks, Free
  <1>6. task[t].step \notin {"wait", "dial", "unflag"} => Writing(t)
    BY <1>1 DEF Writing
  <1> QED BY <1>1, <1>2, <1>3, <1>4, <1>5, <1>6

\* A stale "active" is in the hands of the one task that writes to the session.
LEMMA StaleTask ==
  ASSUME NEW s \in Sessions, NEW t \in Tasks, Alone(s, t), ActiveExplained(s), s \notin booting, Stale(s)
  PROVE  task[t].of = s /\ Lowering(t)
  BY DEF Alone, ActiveExplained, Lowering, Writing, Free

\* A step that leaves the sockets alone, the client of the session, and its row,
\* except for what it wrote there.
LEMMA OwnTask ==
  ASSUME Inv, NEW s \in Sessions, NEW t \in Tasks, OthersSame(t), Alone(s, t), CalmInv(s),
         s \notin booting, UNCHANGED <<owner, link, booting>>, runtime'[s].client = runtime[s].client,
         task'[t].of = s /\ (ConnectStep(task'[t]) \/ task'[t].step = "cut")
           => runtime[s].client = task'[t].arg,
         task'[t].of = s /\ task'[t].step \in CutSteps
           => t \in Procs /\ task[t].of = s /\ task[t].step \in CutSteps,
         task'[t].of = s /\ ClaimsLive(task'[t]) => Live(s),
         task'[t].of = s /\ task'[t].step = "createSave" => task'[t].saw = Found(s)',
         task'[t].of = s /\ task'[t].step = "look" /\ task'[t].op = "init" => runtime[s].client # Nil,
         HasStatus(s, "active")' /\ ~Live(s) => task'[t].of = s /\ Lowering(t)'
  PROVE  CalmInv(s)'
  <1>1. Live(s)' <=> Live(s)
    BY DEF Live
  <1>2. \A u \in Procs \ {t} : task[u].of = s /\ At(u, "dial") => runtime'[s].client = task[u].arg
    BY DEF CalmInv, ClientHeld, ConnectStep, At
  <1>3. OneClientOf(s)'
    BY DEF CalmInv, OneClientOf
  <1>4. task'[t].of = s /\ task'[t].step \in CutSteps
           => NoneUp(s)' /\ \A u \in Procs : task[u].of = s => ~At(u, "dial")
    BY DEF CalmInv, DeletedIsCut, NoneUp, NoneDialing
  <1>5. s \notin booting' /\ Stale(s)' => task'[t].of = s /\ Lowering(t)'
    BY <1>1 DEF Stale
  <1> QED BY <1>1, <1>2, <1>3, <1>4, <1>5, OwnCalm

LEMMA CreateOwn ==
  ASSUME Inv, Ground, NEW s \in Sessions, NEW t \in Tasks, task[t].of = s, Undisturbed(s),
         CreateRead(t) \/ CreateSave(t) \/ CreateReread(t)
  PROVE  CalmInv(s)'
  <1>0. Work(t)
    BY DEF Work
  <1>1. /\ task[t] \in Task /\ s \notin booting /\ OthersSame(t) /\ t \in Procs
        /\ Alone(s, t) /\ CalmInv(s) /\ task \in [Tasks -> Task] /\ row \in [Sessions -> Row]
    BY <1>0, Context, AloneBefore DEF CreateRead, CreateSave, CreateReread, At, Undisturbed, Inv, TasksFine,
       RowTypes
  <1>2. UNCHANGED <<owner, link, booting, runtime>>
    BY DEF CreateRead, CreateSave, CreateReread, clientVars
  <1>3. task[t].op \in {"create", "init"}
    BY DEF CreateRead, CreateSave, CreateReread, At, Ground, RequestSteps
  <1>4. Stale(s) => task[t].op = "init" /\ ~runtime[s].connecting
    BY <1>1, StaleTask DEF CalmInv, Lowering, CreateRead, CreateSave, CreateReread, At
  <1>5. CASE CreateRead(t)
    <2> DEFINE k == [task[t] EXCEPT !.step = "createSave", !.saw = Found(s)]
    <2>1. k.step = "createSave" /\ k.op = task[t].op /\ k.of = s /\ k.saw = Found(s)
      BY <1>1 DEF Task
    <2>2. task'[t] = k /\ row' = row
      BY <1>1, <1>5 DEF CreateRead, Becomes
    <2> HIDE DEF k
    <2>3. Found(s)' = Found(s)
      BY <2>2 DEF Found
    <2> QED BY <1>1, <1>2, <1>4, <2>1, <2>2, <2>3, OwnTask
            DEF ConnectStep, CutSteps, ClaimsLive, Lowering, Stale, HasStatus
  <1>6. CASE CreateSave(t)
    <2> DEFINE k == [task[t] EXCEPT !.step = "reread", !.saw = NoRow]
    <2>1. k.step = "reread" /\ k.op = task[t].op /\ k.of = s
      BY <1>1 DEF Task
    <2>2. task'[t] = k /\ row'[s] = Found(s)
      BY <1>1, <1>6 DEF CreateSave, Becomes, CalmInv, CopyIsFresh
    <2> HIDE DEF k
    <2>3. HasStatus(s, "active")' => HasStatus(s, "active")
      BY <2>2 DEF HasStatus, Found, NoRow
    <2> QED BY <1>1, <1>2, <1>4, <2>1, <2>2, <2>3, OwnTask
            DEF ConnectStep, CutSteps, ClaimsLive, Lowering, Stale
  <1>7. CASE CreateReread(t)
    <2>1. row' = row
      BY <1>7 DEF CreateReread
    <2>2. CASE task[t].op = "init" /\ row[s] # NoRow
      <3> DEFINE k == [task[t] EXCEPT !.step = "ensure"]
      <3>1. k.step = "ensure" /\ k.op = task[t].op /\ k.of = s
        BY <1>1 DEF Task
      <3>2. task'[t] = k
        BY <1>1, <1>7, <2>2 DEF CreateReread, Becomes, Goes
      <3> HIDE DEF k
      <3> QED BY <1>1, <1>2, <1>4, <2>1, <3>1, <3>2, OwnTask
              DEF ConnectStep, CutSteps, ClaimsLive, Lowering, Stale, HasStatus
    <2>3. CASE ~(task[t].op = "init" /\ row[s] # NoRow)
      <3>1. task'[t] = NoTask
        BY <1>1, <1>7, <2>3 DEF CreateReread, Becomes, Goes
      <3>2. ~HasStatus(s, "active") \/ Live(s)
        BY <1>4, <2>3 DEF Stale, HasStatus, NoRow
      <3>3. NoTask.step = "free"
        BY DEF NoTask
      <3> QED BY <1>1, <1>2, <2>1, <3>1, <3>2, <3>3, OwnTask
              DEF ConnectStep, CutSteps, ClaimsLive, HasStatus
    <2> QED BY <2>2, <2>3
  <1> QED BY <1>5, <1>6, <1>7

LEMMA Basics ==
  ASSUME Inv, Ground, NEW s \in Sessions, NEW t \in Tasks, task[t].of = s, Undisturbed(s), Work(t),
         task[t].step \notin {"wait", "dial", "unflag"}
  PROVE  /\ task[t] \in Task /\ Fine(t, task[t]) /\ s \notin booting /\ OthersSame(t) /\ Alone(s, t)
         /\ CalmInv(s) /\ task \in [Tasks -> Task] /\ row \in [Sessions -> Row]
         /\ task[t].step \in {"read", "save"} \/ t \in Procs
         /\ Stale(s) => Lowering(t)
  <1>1. /\ task[t] \in Task /\ Fine(t, task[t]) /\ s \notin booting /\ OthersSame(t) /\ Writing(t)
        /\ task[t].step \in {"read", "save"} \/ t \in Procs
    BY Context
  <1>2. Alone(s, t) /\ CalmInv(s)
    BY <1>1, AloneBefore DEF Undisturbed
  <1> QED BY <1>1, <1>2, StaleTask DEF CalmInv, Inv, TasksFine, RowTypes

\* The client that a session gets has no socket yet.
LEMMA GetsOwn ==
  ASSUME Inv, NEW s \in Sessions, NEW choice, NEW flag, Gets(s, choice, flag)
  PROVE  /\ runtime'[s].client \in Clients /\ ~Reachable(runtime'[s].client)
         /\ owner' = [owner EXCEPT ![runtime'[s].client] = s] /\ UNCHANGED link
         /\ Live(s)' <=> Live(s)
  <1>1. PICK c \in Clients :
          /\ NewClient(c, s, choice)
          /\ runtime' = [runtime EXCEPT ![s] = [client |-> c, connecting |-> flag]]
    BY DEF Gets
  <1>2. runtime'[s].client = c
    BY <1>1 DEF Inv, RuntimeTypes
  <1>3. ~Reachable(c) /\ owner' = [owner EXCEPT ![c] = s] /\ UNCHANGED link
    BY <1>1 DEF NewClient
  <1>4. Live(s)' <=> Live(s)
    BY <1>3 DEF Live, Reachable, Inv, ClientTypes
  <1> QED BY <1>2, <1>3, <1>4

\* A session without a client has no socket, so its first client is the only one.
LEMMA EnsureOwn ==
  ASSUME Inv, NEW s \in Sessions, OneClientOf(s), EnsureClient(s)
  PROVE  /\ OneClientOf(s)' /\ (Live(s)' <=> Live(s)) /\ runtime'[s].client # Nil
         /\ runtime[s].client # Nil => runtime'[s].client = runtime[s].client
         /\ runtime'[s].connecting = runtime[s].connecting
  <1>1. CASE runtime[s].client # Nil /\ UNCHANGED <<runtime, clientVars>>
    BY <1>1 DEF OneClientOf, Live, clientVars
  <1>2. CASE runtime[s].client = Nil /\ Gets(s, LoadDevice(s), runtime[s].connecting)
    <2>1. /\ runtime'[s].client \in Clients /\ ~Reachable(runtime'[s].client)
          /\ owner' = [owner EXCEPT ![runtime'[s].client] = s] /\ UNCHANGED link
          /\ Live(s)' <=> Live(s)
      BY <1>2, GetsOwn
    <2>2. runtime'[s].connecting = runtime[s].connecting
      BY <1>2, GetsClient
    <2>3. OneClientOf(s)'
      BY <1>2, <2>1, SessionsAssumption DEF OneClientOf, SessionsAssumption, Inv, ClientTypes
    <2> QED BY <1>2, <2>1, <2>2, <2>3, SessionsAssumption DEF SessionsAssumption
  <1> QED BY <1>1, <1>2 DEF EnsureClient

LEMMA EnsureStepOwn ==
  ASSUME Inv, Ground, NEW s \in Sessions, NEW t \in Tasks, task[t].of = s, Undisturbed(s), Ensure(t)
  PROVE  CalmInv(s)'
  <1>1. /\ task[t] \in Task /\ OthersSame(t) /\ Alone(s, t) /\ s \notin booting
        /\ CalmInv(s) /\ task \in [Tasks -> Task]
        /\ Stale(s) => Lowering(t)
    BY Basics DEF Work, Ensure, At
  <1>2. /\ OneClientOf(s)' /\ (Live(s)' <=> Live(s)) /\ runtime'[s].client # Nil
        /\ runtime[s].client # Nil => runtime'[s].client = runtime[s].client
        /\ runtime'[s].connecting = runtime[s].connecting
    BY <1>1, EnsureOwn DEF Ensure, CalmInv
  <1>3. \A u \in Procs \ {t} : task[u].of = s /\ At(u, "dial") => runtime'[s].client = task[u].arg
    <2> SUFFICES ASSUME NEW u \in Procs, task[u].of = s, At(u, "dial") PROVE runtime'[s].client = task[u].arg
      OBVIOUS
    <2>1. task[u].arg \in Clients /\ runtime[s].client = task[u].arg
      BY <1>1, TaskType DEF CalmInv, ClientHeld, ConnectStep, At, Fine, ClientSteps, Tasks
    <2> QED BY <1>2, <2>1, SessionsAssumption DEF SessionsAssumption
  <1> DEFINE k == [task[t] EXCEPT !.step = "look"]
  <1>4. k.step = "look" /\ k.op = task[t].op /\ k.of = s
    BY <1>1 DEF Task
  <1>5. task'[t] = k /\ task[t].op \in {"create", "init"} /\ row' = row
    BY <1>1 DEF Ensure, Goes, Becomes, Ground, RequestSteps, At
  <1> HIDE DEF k
  <1>6. s \notin booting' /\ Stale(s)' => task'[t].of = s /\ Lowering(t)'
    <2>1. Stale(s)' => Stale(s)
      BY <1>2, <1>5 DEF Stale, HasStatus
    <2>2. Stale(s) => task[t].op = "init" /\ ~runtime[s].connecting
      BY <1>1 DEF Lowering, Ensure, At
    <2> QED BY <1>2, <1>4, <1>5, <2>1, <2>2 DEF Lowering
  <1>7. ~ConnectStep(task'[t]) /\ ~ClaimsLive(task'[t])
    BY <1>4, <1>5 DEF ConnectStep, ClaimsLive
  <1> QED BY <1>1, <1>2, <1>3, <1>4, <1>5, <1>6, <1>7, OwnCalm DEF CutSteps

\* clientForSession: what the task takes away with it is the client of the session.
LEMMA LookOwn ==
  ASSUME Inv, Ground, NEW s \in Sessions, NEW t \in Tasks, task[t].of = s, Undisturbed(s), Look(t)
  PROVE  CalmInv(s)'
  <1> DEFINE c == runtime[s].client
  <1>1. /\ task[t] \in Task /\ OthersSame(t) /\ Alone(s, t) /\ s \notin booting /\ t \in Procs
        /\ CalmInv(s) /\ task \in [Tasks -> Task]
        /\ Stale(s) => Lowering(t)
    BY Basics DEF Work, Look, At
  <1>2. UNCHANGED <<row, owner, link, booting, runtime>>
    BY DEF Look, clientVars
  <1>3. Stale(s) => task[t].op = "init" /\ ~runtime[s].connecting
    BY <1>1 DEF Lowering, Look, At
  <1>4. CASE task[t].op = "init"
    <2>1. c # Nil
      BY <1>1, <1>4 DEF CalmInv, ClientEnsured, Look
    <2> DEFINE k == [task[t] EXCEPT !.step = "test", !.arg = c]
    <2>2. k.step = "test" /\ k.op = "init" /\ k.of = s /\ k.arg = c
      BY <1>1, <1>4 DEF Task
    <2>3. task'[t] = k
      BY <1>1, <1>4, <2>1 DEF Look, Becomes
    <2> HIDE DEF k
    <2> QED BY <1>1, <1>2, <1>3, <2>2, <2>3, OwnTask
            DEF ConnectStep, CutSteps, ClaimsLive, Lowering, Stale, HasStatus
  <1>5. CASE task[t].op \in {"disconnect", "delete"}
    <2> DEFINE k == [task[t] EXCEPT !.step = "cut", !.arg = c]
    <2>1. k.step = "cut" /\ k.of = s /\ k.arg = c
      BY <1>1 DEF Task
    <2>2. task'[t] = k
      BY <1>1, <1>5 DEF Look, Becomes
    <2> HIDE DEF k
    <2> QED BY <1>1, <1>2, <1>3, <1>5, <2>1, <2>2, OwnTask
            DEF ConnectStep, CutSteps, ClaimsLive, Stale, HasStatus
  <1>6. CASE task[t].op = "connected"
    <2> DEFINE k == [Updating(t, task[t].op, "end") EXCEPT !.arg = DeviceOf(c)]
    <2>1. k.step = "read" /\ k.of = s /\ k.then = "end"
      BY <1>1 DEF Updating, Task
    <2>2. task'[t] = k
      BY <1>1, <1>6 DEF Look, Becomes
    <2> HIDE DEF k
    <2>3. Live(s)
      BY <1>1, <1>6 DEF CalmInv, ClaimHolds, ClaimsLive, Look, At
    <2> QED BY <1>1, <1>2, <2>1, <2>2, <2>3, OwnTask DEF ConnectStep, CutSteps
  <1> QED BY <1>4, <1>5, <1>6 DEF Look

LEMMA InitOwn ==
  ASSUME Inv, Ground, NEW s \in Sessions, NEW t \in Tasks, task[t].of = s, Undisturbed(s),
         InitTest(t) \/ InitBusy(t) \/ InitFlag(t)
  PROVE  CalmInv(s)'
  <1>1. /\ task[t] \in Task /\ OthersSame(t) /\ Alone(s, t) /\ s \notin booting /\ t \in Procs
        /\ CalmInv(s) /\ task \in [Tasks -> Task]
        /\ Stale(s) => Lowering(t)
    BY Basics DEF Work, InitTest, InitBusy, InitFlag, At
  <1>2. UNCHANGED <<row, owner, link, booting>> /\ runtime'[s].client = runtime[s].client
    BY <1>1 DEF InitTest, InitBusy, InitFlag, SetConnecting, clientVars, Inv, RuntimeTypes
  <1>3. runtime[s].client = task[t].arg
    BY <1>1 DEF CalmInv, ClientHeld, ConnectStep, InitTest, InitBusy, InitFlag, At
  <1>4. Stale(s) => task[t].op = "init" /\ (At(t, "test") \/ At(t, "busy") => ~runtime[s].connecting)
    BY <1>1 DEF Lowering, InitTest, InitBusy, InitFlag, At
  <1>5. ASSUME NEW step \in {"busy", "flag", "open"}, Goes(t, step),
               step = "busy" => UNCHANGED runtime /\ At(t, "test")
        PROVE  CalmInv(s)'
    <2> DEFINE k == [task[t] EXCEPT !.step = step]
    <2>1. k.step = step /\ k.op = task[t].op /\ k.of = s /\ k.arg = task[t].arg
      BY <1>1 DEF Task
    <2>2. task'[t] = k
      BY <1>1, <1>5 DEF Goes, Becomes
    <2> HIDE DEF k
    <2>3. Stale(s) => Lowering(t)'
      BY <1>4, <1>5, <2>1, <2>2 DEF Lowering
    <2> QED BY <1>1, <1>2, <1>3, <2>1, <2>2, <2>3, OwnTask DEF ConnectStep, CutSteps, ClaimsLive, Stale, HasStatus
  <1>6. CASE InitTest(t)
    <2>1. CASE link[task[t].arg] = "up"
      <3> DEFINE k == Updating(t, "online", "end")
      <3>1. k.step = "read" /\ k.of = s /\ k.then = "end"
        BY <1>1 DEF Updating, Task
      <3>2. task'[t] = k
        BY <1>1, <1>6, <2>1 DEF InitTest, Becomes
      <3> HIDE DEF k
      <3>3. task[t].arg \in Clients
        BY <1>1, <1>6, TaskType DEF InitTest, At, Fine, ClientSteps
      <3>4. Live(s)
        BY <1>1, <2>1, <3>3 DEF Live, Ground, OwnersAgree
      <3> QED BY <1>1, <1>2, <3>1, <3>2, <3>4, OwnTask DEF ConnectStep, CutSteps
    <2>2. CASE link[task[t].arg] # "up"
      BY <1>5, <1>6, <2>2 DEF InitTest
    <2> QED BY <2>1, <2>2
  <1>7. CASE InitBusy(t)
    <2>1. CASE runtime[s].connecting
      <3>1. task'[t] = NoTask
        BY <1>1, <1>7, <2>1 DEF InitBusy, Goes, Becomes
      <3>2. NoTask.step = "free"
        BY DEF NoTask
      <3>3. ~Stale(s)
        BY <1>4, <1>7, <2>1 DEF InitBusy
      <3> QED BY <1>1, <1>2, <3>1, <3>2, <3>3, OwnTask
              DEF ConnectStep, CutSteps, ClaimsLive, Stale, HasStatus
    <2>2. CASE ~runtime[s].connecting
      BY <1>5, <1>7, <2>2 DEF InitBusy
    <2> QED BY <2>1, <2>2
  <1>8. CASE InitFlag(t)
    BY <1>5, <1>8 DEF InitFlag
  <1> QED BY <1>6, <1>7, <1>8

\* A task that begins an update to a status other than "active".
LEMMA UpdatingOwn ==
  ASSUME Inv, NEW s \in Sessions, NEW t \in Tasks, task[t] \in Task, task[t].of = s, OthersSame(t),
         Alone(s, t), CalmInv(s), s \notin booting, UNCHANGED <<owner, link, booting>>,
         runtime'[s].client = runtime[s].client, NEW op, NEW then, op \notin {"online", "connected"},
         task'[t] = Updating(t, op, then), then = "dial" => runtime[s].client = task[t].arg
  PROVE  CalmInv(s)'
  <1> DEFINE k == Updating(t, op, then)
  <1>1. k.step = "read" /\ k.of = s /\ k.then = then /\ k.op = op /\ k.arg = task[t].arg
    BY DEF Updating, Task
  <1>2. task'[t] = k
    OBVIOUS
  <1> HIDE DEF k
  <1>3. Lowering(t)'
    BY <1>1, <1>2 DEF Lowering
  <1> QED BY <1>1, <1>2, <1>3, OwnTask DEF ConnectStep, CutSteps, ClaimsLive

LEMMA OpenOwn ==
  ASSUME Inv, Ground, NEW s \in Sessions, NEW t \in Tasks, task[t].of = s, Undisturbed(s),
         InitOpen(t) \/ InitOpenFails(t)
  PROVE  CalmInv(s)'
  <1>1. /\ task[t] \in Task /\ OthersSame(t) /\ Alone(s, t) /\ s \notin booting /\ t \in Procs
        /\ CalmInv(s) /\ task \in [Tasks -> Task]
    BY Basics DEF Work, InitOpen, InitOpenFails, At
  <1>2. UNCHANGED <<owner, link, booting>> /\ runtime'[s].client = runtime[s].client
    BY <1>1 DEF InitOpen, InitOpenFails, SetConnecting, clientVars, Inv, RuntimeTypes
  <1>3. runtime[s].client = task[t].arg
    BY <1>1 DEF CalmInv, ClientHeld, ConnectStep, InitOpen, InitOpenFails, At
  <1>4. CASE InitOpen(t)
    <2>1. task[t].arg # t
      BY <1>1, <1>4, TaskType, SessionsAssumption
         DEF InitOpen, At, Fine, ClientSteps, SessionsAssumption
    <2>2. task'[t] = Updating(t, "initializing", "dial")
      BY <1>1, <1>4, <2>1 DEF InitOpen, Becomes
    <2> QED BY <1>1, <1>2, <1>3, <2>2, UpdatingOwn
  <1>5. CASE InitOpenFails(t)
    <2>1. task'[t] = Updating(t, "fail", "end")
      BY <1>1, <1>5 DEF InitOpenFails, Becomes
    <2> QED BY <1>1, <1>2, <2>1, UpdatingOwn
  <1> QED BY <1>4, <1>5

\* Connect that fails, and that succeeds: the socket is one of the session's client.
LEMMA DialOwn ==
  ASSUME Inv, Ground, NEW s \in Sessions, NEW t \in Tasks, task[t].of = s, Undisturbed(s),
         Dial(t) \/ DialFails(t) \/ Unflag(t)
  PROVE  CalmInv(s)'
  <1>0. Work(t)
    BY DEF Work
  <1>1. /\ task[t] \in Task /\ OthersSame(t) /\ s \notin booting /\ t \in Procs
        /\ CalmInv(s) /\ task \in [Tasks -> Task]
    BY <1>0, Context DEF Dial, DialFails, Unflag, At, Undisturbed, Inv, TasksFine
  <1>2. UNCHANGED <<row, owner, booting>> /\ runtime'[s].client = runtime[s].client
    BY <1>1 DEF Dial, DialFails, Unflag, SetConnecting, clientVars, Inv, RuntimeTypes
  <1>3. CASE DialFails(t)
    <2> DEFINE k == Updating(t, "fail", "unflag")
    <2>1. k.of = s /\ k.step = "read"
      BY <1>1 DEF Updating, Task
    <2>2. Becomes(t, k) /\ task'[t] = k
      BY <1>1, <1>3 DEF DialFails, Becomes
    <2>3. Alone(s, t)
      <3> HIDE DEF k
      <3> QED BY <2>1, <2>2, AloneAfter DEF Undisturbed
    <2>4. UNCHANGED link
      BY <1>3 DEF DialFails, clientVars
    <2> QED BY <1>1, <1>2, <2>2, <2>3, <2>4, UpdatingOwn
  <1>4. CASE Dial(t) \/ Unflag(t)
    <2>1. \A u \in Tasks \ {t} : task'[u] = task[u]
      BY <1>4 DEF Dial, Unflag, Goes, Becomes, Inv, TasksFine
    <2>2. task'[t].step \in {"unflag", "free"}
      <3>1. NoTask.step = "free" /\ [task[t] EXCEPT !.step = "unflag"].step = "unflag"
        BY <1>1 DEF NoTask, Task
      <3> QED BY <1>1, <1>4, <3>1 DEF Dial, Unflag, Goes, Becomes
    <2>3. runtime'[s].connecting => runtime[s].connecting
      BY <1>4 DEF Dial, Unflag, SetConnecting, Inv, RuntimeTypes
    <2>4. /\ \A c \in Clients : owner[c] = s /\ link'[c] # "down" => runtime[s].client = c
          /\ Live(s) => Live(s)'
          /\ NoneUp(s) /\ NoneDialing(s) => NoneUp(s)'
      <3>1. CASE Unflag(t)
        BY <1>1, <3>1 DEF Unflag, clientVars, Live, NoneUp, CalmInv, OneClientOf
      <3>2. CASE Dial(t)
        <4>1. task[t].arg \in Clients /\ runtime[s].client = task[t].arg /\ ~NoneDialing(s)
          BY <1>1, <3>2, TaskType DEF Dial, At, Fine, ClientSteps, CalmInv, ClientHeld, ConnectStep, NoneDialing
        <4> QED BY <1>1, <1>2, <3>2, <4>1 DEF Dial, Live, CalmInv, OneClientOf, Inv, ClientTypes
      <3> QED BY <1>4, <3>1, <3>2
    <2>5. ClientHeld(s)' /\ ClientEnsured(s)'
      BY <1>1, <1>2, <2>1, <2>2 DEF CalmInv, ClientHeld, ClientEnsured, ConnectStep, At, Tasks
    <2>6. DeletedIsCut(s)'
      BY <1>1, <1>2, <2>1, <2>2, <2>4 DEF CalmInv, DeletedIsCut, NoneDialing, CutSteps, At, Tasks
    <2>7. ClaimHolds(s)'
      BY <1>1, <2>1, <2>2, <2>4 DEF CalmInv, ClaimHolds, ClaimsLive
    <2>8. CopyIsFresh(s)'
      BY <1>1, <1>2, <2>1, <2>2 DEF CalmInv, CopyIsFresh, Found, At, Tasks
    <2>9. ActiveExplained(s)'
      <3> SUFFICES ASSUME Stale(s)' PROVE \E u \in Tasks : task'[u].of = s /\ Lowering(u)'
        BY DEF ActiveExplained
      <3>1. PICK u \in Tasks : task[u].of = s /\ Lowering(u)
        BY <1>1, <1>2, <2>4 DEF CalmInv, ActiveExplained, Stale, HasStatus
      <3>2. u # t
        BY <1>4, <3>1 DEF Lowering, Dial, Unflag, At
      <3>3. task'[u] = task[u]
        BY <2>1, <3>2
      <3> QED BY <2>3, <3>1, <3>3 DEF Lowering
    <2>10. OneClientOf(s)'
      BY <1>2, <2>4 DEF OneClientOf
    <2> QED BY <2>5, <2>6, <2>7, <2>8, <2>9, <2>10 DEF CalmInv
  <1> QED BY <1>3, <1>4

LEMMA MutateStatus ==
  ASSUME NEW op \in UpdateOps, NEW r \in Row, NEW d
  PROVE  Mutate(op, r, d).status = "active" => op \in {"online", "connected"}
  <1>1. CASE op \in {"online", "initializing", "fail", "dropped"}
    BY <1>1 DEF Mutate, Row
  <1>2. CASE op \in {"disconnect", "loggedOut"}
    BY <1>2 DEF Mutate, Row
  <1>3. CASE op \in {"code", "success"}
    BY <1>3 DEF Mutate, Row
  <1>4. CASE op \in {"connected", "paired"}
    BY <1>4 DEF Mutate, Row
  <1> QED BY <1>1, <1>2, <1>3, <1>4 DEF UpdateOps

LEMMA UpdateOwn ==
  ASSUME Inv, Ground, NEW s \in Sessions, NEW t \in Tasks, task[t].of = s, Undisturbed(s),
         Read(t) \/ Save(t)
  PROVE  CalmInv(s)'
  <1>1. /\ task[t] \in Task /\ Fine(t, task[t]) /\ OthersSame(t) /\ Alone(s, t) /\ s \notin booting
        /\ CalmInv(s) /\ task \in [Tasks -> Task] /\ row \in [Sessions -> Row]
        /\ Stale(s) => Lowering(t)
    BY Basics DEF Work, Read, Save, At
  <1>2. UNCHANGED <<owner, link, booting, runtime>>
    BY DEF Read, Save, clientVars
  <1>3. task[t].then = "dial" => runtime[s].client = task[t].arg
    <2> SUFFICES ASSUME task[t].then = "dial" PROVE t \in Procs
      BY <1>1 DEF CalmInv, ClientHeld, ConnectStep, Read, Save, At
    <2> QED BY <1>1 DEF Fine, Tasks
  <1>4. task[t].op \in {"online", "connected"} => Live(s)
    BY <1>1 DEF CalmInv, ClaimHolds, ClaimsLive, Read, Save, At
  <1>5. CASE Read(t)
    <2> DEFINE k == [task[t] EXCEPT !.step = "save", !.saw = Found(s)]
    <2>1. /\ k.step = "save" /\ k.op = task[t].op /\ k.of = s /\ k.then = task[t].then
          /\ k.arg = task[t].arg
      BY <1>1 DEF Task
    <2>2. task'[t] = k /\ row' = row
      BY <1>1, <1>5 DEF Read, Becomes
    <2> HIDE DEF k
    <2>3. HasStatus(s, "active")' /\ ~Live(s) => Lowering(t)'
      BY <1>1, <1>5, <2>1, <2>2 DEF Lowering, Stale, HasStatus, Read, At
    <2> QED BY <1>1, <1>2, <1>3, <1>4, <2>1, <2>2, <2>3, OwnTask DEF ConnectStep, CutSteps, ClaimsLive
  <1>6. CASE Save(t)
    <2>1. HasStatus(s, "active")' => Live(s)
      <3>1. row'[s] = Mutate(task[t].op, task[t].saw, task[t].arg)
        BY <1>1, <1>6 DEF Save
      <3>2. task[t].op \in UpdateOps /\ task[t].saw \in Row
        BY <1>1, <1>6 DEF Save, At, Fine, Task
      <3> QED BY <1>4, <3>1, <3>2, MutateStatus DEF HasStatus
    <2>2. CASE task[t].then = "end"
      <3>1. task'[t] = NoTask
        BY <1>1, <1>6, <2>2 DEF Save, Returns, Becomes
      <3>2. NoTask.step = "free"
        BY DEF NoTask
      <3> QED BY <1>1, <1>2, <2>1, <3>1, <3>2, OwnTask DEF ConnectStep, CutSteps, ClaimsLive
    <2>3. CASE task[t].then # "end"
      <3> DEFINE k == [task[t] EXCEPT !.step = task[t].then, !.then = "end", !.saw = NoRow]
      <3>1. /\ k.step = task[t].then /\ k.of = s /\ k.then = "end" /\ k.arg = task[t].arg
            /\ k.step \in {"wait", "dial", "unflag", "reset"}
        BY <1>1, <2>3 DEF Task, Fine
      <3>2. task'[t] = k
        BY <1>1, <1>6, <2>3 DEF Save, Returns, Becomes
      <3> HIDE DEF k
      <3> QED BY <1>1, <1>2, <1>3, <2>1, <3>1, <3>2, OwnTask DEF ConnectStep, CutSteps, ClaimsLive
    <2> QED BY <2>2, <2>3
  <1> QED BY <1>5, <1>6

LEMMA FetchOwn ==
  ASSUME Inv, Ground, NEW s \in Sessions, NEW t \in Tasks, task[t].of = s, Undisturbed(s), Fetch(t)
  PROVE  CalmInv(s)'
  <1>1. /\ task[t] \in Task /\ OthersSame(t) /\ Alone(s, t) /\ s \notin booting
        /\ CalmInv(s) /\ task \in [Tasks -> Task]
        /\ Stale(s) => Lowering(t)
    BY Basics DEF Work, Fetch, At
  <1>2. UNCHANGED <<row, owner, link, booting, runtime>> /\ task[t].op = "delete" /\ ~Stale(s)
    BY <1>1 DEF Fetch, clientVars, Ground, RequestSteps, Lowering, At
  <1>3. CASE row[s] = NoRow
    <2>1. task'[t] = NoTask
      BY <1>1, <1>3 DEF Fetch, Goes, Becomes
    <2>2. NoTask.step = "free"
      BY DEF NoTask
    <2> QED BY <1>1, <1>2, <2>1, <2>2, OwnTask DEF ConnectStep, CutSteps, ClaimsLive, Stale, HasStatus
  <1>4. CASE row[s] # NoRow
    <2> DEFINE k == [task[t] EXCEPT !.step = "look", !.saw = row[s]]
    <2>1. k.step = "look" /\ k.of = s /\ k.op = "delete"
      BY <1>1, <1>2 DEF Task
    <2>2. task'[t] = k
      BY <1>1, <1>4 DEF Fetch, Becomes
    <2> HIDE DEF k
    <2> QED BY <1>1, <1>2, <2>1, <2>2, OwnTask DEF ConnectStep, CutSteps, ClaimsLive, Stale, HasStatus
  <1> QED BY <1>3, <1>4

\* Of the clients of a session only the one at hand can have a socket; a delete that
\* would leave that one dialing disturbs the session.
LEMMA CutOwn ==
  ASSUME Inv, Ground, NEW s \in Sessions, NEW t \in Tasks, task[t].of = s, Undisturbed(s), Cut(t)
  PROVE  CalmInv(s)'
  <1> DEFINE c == task[t].arg
  <1>1. /\ task[t] \in Task /\ OthersSame(t) /\ Alone(s, t) /\ s \notin booting /\ t \in Procs
        /\ CalmInv(s) /\ task \in [Tasks -> Task]
    BY Basics DEF Work, Cut, At
  <1>2. UNCHANGED <<row, runtime, booting, owner>> /\ runtime[s].client = c
    BY <1>1 DEF Cut, CalmInv, ClientHeld
  <1>3. \A d \in Clients : link'[d] = link[d] \/ (d = c /\ link'[d] = "down")
    BY DEF Cut, Inv, ClientTypes
  <1>4. OneClientOf(s)'
    BY <1>1, <1>2, <1>3 DEF CalmInv, OneClientOf
  <1>5. \A u \in Procs \ {t} : task[u].of = s /\ At(u, "dial") => runtime'[s].client = task[u].arg
    BY <1>1, <1>2 DEF CalmInv, ClientHeld, ConnectStep, At
  <1>6. CASE task[t].op = "delete"
    <2> DEFINE k == [task[t] EXCEPT !.step = "wipe"]
    <2>1. k.step = "wipe" /\ k.of = s
      BY <1>1 DEF Task
    <2>2. task'[t] = k
      BY <1>1, <1>6 DEF Cut, Goes, Becomes
    <2> HIDE DEF k
    <2>3. ~Dialing(s, c)
      BY <1>1, <1>6 DEF Undisturbed, Missed, Cut
    <2>4. NoneUp(s)'
      <3> SUFFICES ASSUME NEW d \in Clients, owner[d] = s, link'[d] # "down" PROVE FALSE
        BY <1>2 DEF NoneUp
      <3>1. link[d] # "down" /\ d = c
        BY <1>1, <1>2, <1>3 DEF CalmInv, OneClientOf
      <3>2. link[d] = "up" /\ c # Nil
        BY <2>3, <3>1, SessionsAssumption DEF Dialing, Inv, ClientTypes, SessionsAssumption
      <3> QED BY <3>1, <3>2 DEF Cut, Inv, ClientTypes
    <2>5. \A u \in Procs : task[u].of = s => ~At(u, "dial")
      BY <2>3 DEF Dialing
    <2>6. Lowering(t)' /\ ~ConnectStep(task'[t]) /\ ~ClaimsLive(task'[t])
      BY <2>1, <2>2 DEF Lowering, ConnectStep, ClaimsLive
    <2> QED BY <1>1, <1>4, <1>5, <2>1, <2>2, <2>4, <2>5, <2>6, OwnCalm
  <1>7. CASE task[t].op # "delete"
    <2> DEFINE k == [Updating(t, "disconnect", "end") EXCEPT !.arg = Nil]
    <2>1. k.step = "read" /\ k.of = s /\ k.op = "disconnect" /\ k.then = "end"
      BY <1>1 DEF Updating, Task
    <2>2. task'[t] = k
      BY <1>1, <1>7 DEF Cut, Becomes
    <2> HIDE DEF k
    <2>3. Lowering(t)' /\ ~ConnectStep(task'[t]) /\ ~ClaimsLive(task'[t])
      BY <2>1, <2>2 DEF Lowering, ConnectStep, ClaimsLive
    <2> QED BY <1>1, <1>4, <1>5, <2>1, <2>2, <2>3, OwnCalm DEF CutSteps
  <1> QED BY <1>6, <1>7

LEMMA DeleteOwn ==
  ASSUME Inv, Ground, NEW s \in Sessions, NEW t \in Tasks, task[t].of = s, Undisturbed(s),
         Wipe(t) \/ DropRow(t) \/ Forget(t)
  PROVE  CalmInv(s)'
  <1>1. /\ task[t] \in Task /\ OthersSame(t) /\ Alone(s, t) /\ s \notin booting /\ t \in Procs
        /\ CalmInv(s) /\ task \in [Tasks -> Task] /\ row \in [Sessions -> Row]
        /\ Stale(s) => Lowering(t)
    BY Basics DEF Work, Wipe, DropRow, Forget, At
  <1>2. UNCHANGED <<owner, link, booting>> /\ NoneUp(s) /\ NoneDialing(s)
    BY <1>1 DEF Wipe, DropRow, Forget, clientVars, CalmInv, DeletedIsCut, CutSteps, At
  <1>3. CASE Wipe(t)
    <2> DEFINE k == [task[t] EXCEPT !.step = "dropRow"]
    <2>1. k.step = "dropRow" /\ k.of = s
      BY <1>1 DEF Task
    <2>2. task'[t] = k /\ UNCHANGED <<row, runtime>>
      BY <1>1, <1>3 DEF Wipe, Goes, Becomes
    <2> HIDE DEF k
    <2>3. Lowering(t)' /\ ~ConnectStep(task'[t]) /\ ~ClaimsLive(task'[t])
      BY <2>1, <2>2 DEF Lowering, ConnectStep, ClaimsLive
    <2> QED BY <1>1, <1>2, <1>3, <2>1, <2>2, <2>3, OwnTask DEF CutSteps, Wipe, At
  <1>4. CASE DropRow(t)
    <2> DEFINE k == [task[t] EXCEPT !.step = "forget"]
    <2>1. k.step = "forget" /\ k.of = s
      BY <1>1 DEF Task
    <2>2. task'[t] = k /\ UNCHANGED runtime /\ row'[s] = NoRow
      BY <1>1, <1>4 DEF DropRow, Goes, Becomes
    <2> HIDE DEF k
    <2>3. ~HasStatus(s, "active")' /\ ~ConnectStep(task'[t]) /\ ~ClaimsLive(task'[t])
      BY <2>1, <2>2 DEF HasStatus, NoRow, ConnectStep, ClaimsLive
    <2> QED BY <1>1, <1>2, <1>4, <2>1, <2>2, <2>3, OwnTask DEF CutSteps, DropRow, At
  <1>5. CASE Forget(t)
    <2>1. task'[t] = NoTask /\ row' = row
      BY <1>1, <1>5 DEF Forget, Goes, Becomes
    <2>2. NoTask.step = "free"
      BY DEF NoTask
    <2>3. ~Stale(s)' /\ OneClientOf(s)'
      <3>1. ~Stale(s)
        BY <1>1, <1>5 DEF Lowering, Forget, At
      <3> QED BY <1>2, <2>1, <3>1 DEF Stale, HasStatus, Live, OneClientOf, NoneUp
    <2>4. \A u \in Procs \ {t} : ~(task[u].of = s /\ At(u, "dial"))
      BY <1>2 DEF NoneDialing
    <2> QED BY <1>1, <2>1, <2>2, <2>3, <2>4, OwnCalm DEF ConnectStep, CutSteps, ClaimsLive
  <1> QED BY <1>3, <1>4, <1>5

\* A reset that would leave a client with a socket, or one that dials, disturbs.
LEMMA ResetOwn ==
  ASSUME Inv, Ground, NEW s \in Sessions, NEW t \in Tasks, task[t].of = s, Undisturbed(s), Reset(t)
  PROVE  CalmInv(s)'
  <1>1. /\ task[t] \in Task /\ OthersSame(t) /\ Alone(s, t) /\ s \notin booting /\ t \in Procs
        /\ CalmInv(s) /\ task \in [Tasks -> Task]
        /\ Stale(s) => Lowering(t)
    BY Basics DEF Work, Reset, At
  <1>2. ~Live(s) /\ ~Dialing(s, runtime[s].client)
    BY <1>1 DEF Undisturbed, Missed, Reset
  <1>3. \A u \in Procs \ {t} : ~(task[u].of = s /\ At(u, "dial"))
    BY <1>2 DEF Dialing
  <1>4. NoneUp(s)
    <2> SUFFICES ASSUME NEW c \in Clients, owner[c] = s, link[c] # "down" PROVE FALSE
      BY DEF NoneUp
    <2>1. runtime[s].client = c /\ c # Nil
      BY <1>1, SessionsAssumption DEF CalmInv, OneClientOf, SessionsAssumption
    <2>2. link[c] = "retrying"
      BY <1>2 DEF Live, Inv, ClientTypes
    <2> QED BY <1>2, <2>1, <2>2 DEF Dialing
  <1>5. /\ runtime'[s].client \in Clients /\ ~Reachable(runtime'[s].client)
        /\ owner' = [owner EXCEPT ![runtime'[s].client] = s] /\ UNCHANGED link
        /\ Live(s)' <=> Live(s)
    BY GetsOwn DEF Reset
  <1>6. OneClientOf(s)'
    BY <1>4, <1>5 DEF OneClientOf, NoneUp, Reachable, Inv, ClientTypes
  <1>7. task'[t] = NoTask /\ UNCHANGED <<row, booting>>
    BY <1>1 DEF Reset, Goes, Becomes
  <1>8. NoTask.step = "free"
    BY DEF NoTask
  <1>9. ~Stale(s)'
    <2>1. ~Stale(s)
      BY <1>1 DEF Lowering, Reset, At
    <2> QED BY <1>5, <1>7, <2>1 DEF Stale, HasStatus
  <1> QED BY <1>1, <1>3, <1>6, <1>7, <1>8, <1>9, OwnCalm DEF ConnectStep, CutSteps, ClaimsLive

LEMMA WorkOwn ==
  ASSUME Inv, Ground, NEW s \in Sessions, NEW t \in Tasks, task[t].of = s, Undisturbed(s), Work(t)
  PROVE  CalmInv(s)'
  BY CreateOwn, EnsureStepOwn, LookOwn, InitOwn, OpenOwn, DialOwn, UpdateOwn, FetchOwn, CutOwn,
     DeleteOwn, ResetOwn DEF Work

--------------------------------------------------------------------------------
(* What the steps that begin a task, or need none, leave behind.            *)

\* A goroutine that begins for a session nobody else is writing to.
LEMMA StartOwn ==
  ASSUME Inv, NEW s \in Sessions, NEW t, NEW op, NEW arg, NEW then,
         NEW step \in {"create", "look", "fetch", "read"},
         Starts(t, op, s, arg, step, then), Undisturbed(s),
         runtime'[s].client = runtime[s].client, OneClientOf(s)',
         then # "dial", step = "look" => op # "init",
         (step \in {"look", "read"} /\ op = "connected") \/ op = "online" => Live(s)',
         \/ step = "read" /\ op \notin {"connected", "online"}
         \/ Stale(s)' => Stale(s) /\ s \notin booting
  PROVE  CalmInv(s)'
  <1> DEFINE k == [op |-> op, of |-> s, step |-> step, then |-> then, arg |-> arg, saw |-> NoRow]
  <1>1. t \in Procs /\ t \in Tasks /\ Free(t) /\ Becomes(t, k)
    BY DEF Starts, Tasks
  <1>2. k.op = op /\ k.of = s /\ k.step = step /\ k.then = then
    OBVIOUS
  <1>3. task'[t] = k /\ OthersSame(t)
    BY <1>1 DEF Becomes, OthersSame, Inv, TasksFine
  <1> HIDE DEF k
  <1>4. Alone(s, t) /\ CalmInv(s)
    BY <1>1, <1>2, AloneAfter DEF Undisturbed
  <1>5. \A u \in Procs \ {t} : task[u].of = s /\ At(u, "dial") => runtime'[s].client = task[u].arg
    BY <1>4 DEF CalmInv, ClientHeld, ConnectStep, At
  <1>6. s \notin booting' /\ Stale(s)' => Lowering(t)'
    <2>1. CASE step = "read" /\ op \notin {"connected", "online"}
      BY <1>2, <1>3, <2>1 DEF Lowering
    <2>2. CASE Stale(s)' => Stale(s) /\ s \notin booting
      BY <1>1, <1>4, <2>2, StaleTask DEF CalmInv, Lowering, Free
    <2> QED BY <2>1, <2>2
  <1>7. /\ ~ConnectStep(task'[t]) /\ task'[t].step \notin CutSteps \cup {"cut", "createSave"}
        /\ ClaimsLive(task'[t]) => Live(s)'
    BY <1>2, <1>3 DEF ConnectStep, CutSteps, ClaimsLive
  <1> QED BY <1>1, <1>2, <1>3, <1>4, <1>5, <1>6, <1>7, OwnCalm

LEMMA RequestOwn ==
  ASSUME Inv, Ground, NEW t \in Procs, NEW s \in Sessions, Undisturbed(s), Request(t, s)
  PROVE  CalmInv(s)'
  <1>1. PICK op \in {"create", "init", "disconnect", "delete"}, step \in {"create", "look", "fetch"} :
          Ask(t, s, op, step) /\ (step = "look" => op = "disconnect")
    BY DEF Request
  <1>2. UNCHANGED <<row, runtime, booting, owner, link>> /\ booting = {}
    BY <1>1 DEF Ask, clientVars
  <1>3. OneClientOf(s)' /\ (Stale(s)' => Stale(s) /\ s \notin booting)
    BY <1>2 DEF Undisturbed, CalmInv, OneClientOf, Stale, HasStatus, Live
  <1>4. Starts(t, op, s, Nil, step, "end")
    BY <1>1 DEF Ask
  <1> QED BY <1>1, <1>2, <1>3, <1>4, StartOwn

\* Reconnecting a session that the dead process may have left as "active".
LEMMA BootReconnectsOwn ==
  ASSUME Inv, Ground, NEW t \in Procs, NEW s \in Sessions, Undisturbed(s), BootReconnects(t, s)
  PROVE  CalmInv(s)'
  <1> DEFINE k == [op |-> "init", of |-> s, step |-> "create", then |-> "end", arg |-> Nil, saw |-> NoRow]
  <1>1. t \in Tasks /\ Becomes(t, k)
    BY DEF BootReconnects, Starts, Tasks
  <1>2. k.op = "init" /\ k.of = s /\ k.step = "create"
    OBVIOUS
  <1>3. task'[t] = k /\ OthersSame(t)
    BY <1>1 DEF Becomes, OthersSame, Inv, TasksFine
  <1> HIDE DEF k
  <1>4. \A u \in Tasks : task[u].of # s
    BY DEF BootReconnects, Ground, BootClean
  <1>5. OneClientOf(s)' /\ runtime'[s].connecting = runtime[s].connecting /\ ~runtime[s].connecting
    BY EnsureOwn DEF BootReconnects, Undisturbed, CalmInv, Ground, BootClean
  <1>6. Alone(s, t) /\ \A u \in Procs : ~(task[u].of = s /\ At(u, "dial"))
    BY <1>4 DEF Alone, Tasks
  <1>7. Lowering(t)' /\ ~ConnectStep(task'[t]) /\ ~ClaimsLive(task'[t])
    BY <1>2, <1>3, <1>5 DEF Lowering, ConnectStep, ClaimsLive
  <1> QED BY <1>1, <1>2, <1>3, <1>5, <1>6, <1>7, OwnCalm DEF CutSteps

\* A session that waits for a new connection does not say "active" any longer.
LEMMA BootWaitsOwn ==
  ASSUME Inv, Ground, NEW s \in Sessions, CalmInv(s), BootWaits(s)
  PROVE  CalmInv(s)'
  <1>1. \A u \in Tasks : task'[u].of # s
    BY DEF BootWaits, Ground, BootClean
  <1>2. OneClientOf(s)'
    BY EnsureOwn DEF BootWaits, CalmInv, OneClientOf, clientVars
  <1>3. ~HasStatus(s, "active")'
    BY DEF BootWaits, Inv, RowTypes, Row, HasStatus
  <1> QED BY <1>1, <1>2, <1>3 DEF CalmInv, ClientHeld, DeletedIsCut, ClaimHolds, CopyIsFresh,
             ClientEnsured, ActiveExplained, Stale, Tasks

LEMMA QrOwn ==
  ASSUME Inv, Ground, NEW c \in Clients, NEW s \in Sessions, task[c].of = s, Undisturbed(s),
         QrCode(c) \/ QrSuccess(c) \/ QrFailure(c)
  PROVE  CalmInv(s)'
  <1>1. PICK op \in {"code", "success", "fail"}, then \in {"wait", "end"} : Becomes(c, Updating(c, op, then))
    BY DEF QrCode, QrSuccess, QrFailure
  <1>2. /\ c \in Tasks /\ task[c] \in Task /\ s \notin booting /\ CalmInv(s)
        /\ task \in [Tasks -> Task]
    BY TaskType DEF QrCode, QrSuccess, QrFailure, Tasks, Ground, BootClean, Undisturbed, Inv, TasksFine
  <1> DEFINE k == Updating(c, op, then)
  <1>3. k.step = "read" /\ k.of = s /\ k.op = op /\ k.then = then
    BY <1>2 DEF Updating, Task
  <1>4. task'[c] = k /\ OthersSame(c) /\ Becomes(c, k)
    BY <1>1, <1>2 DEF Becomes, OthersSame
  <1> HIDE DEF k
  <1>5. Alone(s, c)
    BY <1>2, <1>3, <1>4, AloneAfter DEF Undisturbed
  <1>6. UNCHANGED <<row, runtime, booting, owner>> /\ \A d \in Clients : link'[d] \in {link[d], "down"}
    BY DEF QrCode, QrSuccess, QrFailure, clientVars, Inv, ClientTypes
  <1>7. OneClientOf(s)' /\ \A u \in Procs : task[u].of = s /\ At(u, "dial") => runtime'[s].client = task[u].arg
    BY <1>2, <1>6 DEF CalmInv, OneClientOf, ClientHeld, ConnectStep, At
  <1>8. Lowering(c)' /\ ~ConnectStep(task'[c]) /\ ~ClaimsLive(task'[c])
    BY <1>3, <1>4 DEF Lowering, ConnectStep, ClaimsLive
  <1> QED BY <1>2, <1>3, <1>4, <1>5, <1>7, <1>8, OwnCalm DEF CutSteps

\* A client that dials again was not down.
LEMMA RedialOwn ==
  ASSUME Inv, NEW c \in Clients, NEW s \in Sessions, owner[c] = s, CalmInv(s), Redial(c)
  PROVE  CalmInv(s)'
  <1>1. UNCHANGED <<row, runtime, task, booting, owner>>
    BY DEF Redial
  <1>2. /\ link[c] = "retrying" /\ link'[c] = "up"
        /\ \A d \in Clients \ {c} : link'[d] = link[d]
    BY DEF Redial, Inv, ClientTypes
  <1>3. OneClientOf(s)' /\ (Live(s) => Live(s)') /\ ~NoneUp(s)
    BY <1>1, <1>2 DEF CalmInv, OneClientOf, Live, NoneUp
  <1>4. ClientHeld(s)' /\ CopyIsFresh(s)' /\ ClientEnsured(s)' /\ ClaimHolds(s)'
    BY <1>1, <1>3 DEF CalmInv, ClientHeld, CopyIsFresh, ClientEnsured, ClaimHolds, Found, At
  <1>5. DeletedIsCut(s)'
    BY <1>1, <1>3 DEF CalmInv, DeletedIsCut
  <1>6. ActiveExplained(s)'
    BY <1>1, <1>3 DEF CalmInv, ActiveExplained, Stale, HasStatus, Lowering
  <1> QED BY <1>3, <1>4, <1>5, <1>6 DEF CalmInv

LEMMA EventsOwn ==
  ASSUME Inv, Ground, NEW c \in Clients, NEW t \in Procs, NEW s \in Sessions, owner[c] = s, Undisturbed(s),
         Events(c, t)
  PROVE  CalmInv(s)'
  <1>1. /\ link[c] = "up" /\ link'[c] \in {"up", "retrying", "down"}
        /\ \A d \in Clients \ {c} : link'[d] = link[d]
        /\ UNCHANGED <<row, runtime, booting, owner>>
    BY DEF Events, Scan, Login, Drop, Refuse, Logout, Inv, ClientTypes
  <1>2. OneClientOf(s)'
    BY <1>1 DEF Undisturbed, CalmInv, OneClientOf
  <1>3. CASE Login(c, t)
    <2>1. Starts(t, "connected", s, Nil, "look", "end") /\ UNCHANGED link
      BY <1>3 DEF Login
    <2>2. Live(s)'
      BY <1>1, <2>1 DEF Live
    <2>3. ~Stale(s)'
      BY <2>2 DEF Stale
    <2> QED BY <1>1, <1>2, <2>1, <2>2, <2>3, StartOwn
  <1>4. CASE ~Login(c, t)
    <2>1. PICK op \in {"paired", "dropped", "fail", "loggedOut"}, arg \in Devices \cup {Nil},
               then \in {"end", "reset"} : Starts(t, op, s, arg, "read", then)
      <3>1. CASE Scan(c, t)
        BY <3>1 DEF Scan
      <3>2. CASE Drop(c, t)
        BY <3>2 DEF Drop
      <3>3. CASE Refuse(c, t)
        BY <3>3 DEF Refuse
      <3>4. CASE Logout(c, t)
        BY <3>4 DEF Logout
      <3> QED BY <1>4, <3>1, <3>2, <3>3, <3>4 DEF Events
    <2> QED BY <1>1, <1>2, <2>1, StartOwn
  <1> QED BY <1>3, <1>4

--------------------------------------------------------------------------------
(* Status tracking.                                                         *)

\* A step keeps what holds of every session it does not disturb.
LEMMA StepSettled ==
  ASSUME Inv, SettledInv, Step, Recorded({})
  PROVE  SettledInv'
  <1>1. Ground /\ Overlapping \subseteq disturbed
    BY DEF SettledInv, Solo
  <1>2. Solo'
    BY DEF Solo, Recorded
  <1>3. \A s \in Sessions \ disturbed' : Undisturbed(s)
    BY <1>1 DEF SettledInv, Recorded, Undisturbed
  <1>4. ASSUME NEW s \in Sessions, Within(s), Ground', Undisturbed(s) => CalmInv(s)'
        PROVE  SettledInv'
    <2>1. ASSUME NEW r \in Sessions \ disturbed' PROVE CalmInv(r)'
      BY <1>3, <1>4, OthersCalm DEF Undisturbed
    <2> QED BY <1>2, <1>4, <2>1 DEF SettledInv
  <1>5. CASE \E t \in Tasks : Work(t)
    <2>1. PICK t \in Tasks : Work(t)
      BY <1>5
    <2>2. task[t].of \in Sessions /\ Within(task[t].of) /\ Ground'
      BY <1>1, <2>1, Context, WorkGround
    <2>3. PICK s \in Sessions : task[t].of = s
      BY <2>2
    <2> QED BY <1>1, <1>4, <2>1, <2>2, <2>3, WorkOwn
  <1>6. CASE \E t \in Procs, s \in Sessions : Request(t, s)
    BY <1>1, <1>4, <1>6, RequestGround, RequestOwn
  <1>7. CASE \E t \in Procs, s \in Sessions : BootReconnects(t, s)
    BY <1>1, <1>4, <1>7, BootReconnectsGround, BootReconnectsOwn
  <1>8. CASE \E s \in Sessions : BootWaits(s)
    BY <1>1, <1>4, <1>8, BootWaitsGround, BootWaitsOwn DEF Undisturbed
  <1>9. CASE \E c \in Clients : QrCode(c) \/ QrSuccess(c) \/ QrFailure(c)
    <2>1. PICK c \in Clients : QrCode(c) \/ QrSuccess(c) \/ QrFailure(c)
      BY <1>9
    <2>2. PICK s \in Sessions : owner[c] = s /\ task[c].of = s /\ Within(s) /\ Ground'
      BY <1>1, <2>1, QrGround
    <2> QED BY <1>1, <1>4, <2>1, <2>2, QrOwn
  <1>10. CASE \E c \in Clients : Redial(c)
    <2>1. PICK c \in Clients : Redial(c)
      BY <1>10
    <2>2. PICK s \in Sessions : owner[c] = s /\ Within(s) /\ Ground'
      BY <1>1, <2>1, RedialGround
    <2> QED BY <1>4, <2>1, <2>2, RedialOwn DEF Undisturbed
  <1>11. CASE \E c \in Clients, t \in Procs : Events(c, t)
    <2>1. PICK c \in Clients, t \in Procs : Events(c, t)
      BY <1>11
    <2>2. PICK s \in Sessions : owner[c] = s /\ Within(s) /\ Ground'
      BY <1>1, <2>1, EventsGround
    <2> QED BY <1>1, <1>4, <2>1, <2>2, EventsOwn
  <1>12. CASE Crash
    BY <1>2, <1>12, CrashGround DEF SettledInv
  <1> QED BY <1>5, <1>6, <1>7, <1>8, <1>9, <1>10, <1>11, <1>12 DEF Step

LEMMA FailureSettled ==
  ASSUME Inv, SettledInv, NEW t \in Tasks, DbFails(t), Recorded({task[t].of})
  PROVE  SettledInv'
  <1>1. PICK s \in Sessions : task[t].of = s
    BY DbFailsInv
  <1>2. Ground' /\ Within(s)
    BY <1>1, FailureGround DEF SettledInv
  <1>3. s \in disturbed' /\ disturbed \subseteq disturbed' /\ Solo'
    BY <1>1 DEF Recorded, Solo
  <1>4. ASSUME NEW r \in Sessions \ disturbed' PROVE CalmInv(r)'
    BY <1>2, <1>3, OthersCalm DEF SettledInv
  <1> QED BY <1>2, <1>3, <1>4 DEF SettledInv

LEMMA InitSettled == Init => SettledInv
  <1> SUFFICES ASSUME Init PROVE SettledInv
    OBVIOUS
  <1>1. /\ \A t \in Tasks : task[t] = NoTask
        /\ Procs \subseteq Tasks /\ Clients \subseteq Tasks /\ Nil \notin Clients /\ Nil \notin Sessions
    BY SessionsAssumption DEF Init, SessionsAssumption, Tasks
  <1>2. NoTask.step = "free" /\ NoTask.of = Nil /\ NoTask.arg = Nil
    BY DEF NoTask
  <1>3. /\ \A s \in Sessions : runtime[s].client = Nil /\ row[s].status = "none"
        /\ \A c \in Clients : owner[c] = Nil /\ link[c] = "down"
        /\ booting = {}
    BY DEF Init, NoRuntime, NoRow
  <1>4. Solo
    BY <1>1, <1>2 DEF Solo, Overlapping
  <1>5. Ground
    BY <1>1, <1>2, <1>3 DEF Ground, OwnersAgree, BootClean, RequestSteps, Free, At
  <1>6. \A s \in Sessions : CalmInv(s)
    BY <1>1, <1>2, <1>3 DEF CalmInv, ClientHeld, DeletedIsCut, ClaimHolds, CopyIsFresh, ClientEnsured,
       ActiveExplained, Stale, HasStatus, OneClientOf
  <1> QED BY <1>4, <1>5, <1>6 DEF SettledInv

LEMMA NextSettled == SessionsInv /\ SettledInv /\ [Next]_vars => SettledInv'
  <1> SUFFICES ASSUME Inv, SettledInv, [Next]_vars PROVE SettledInv'
    BY DEF SessionsInv
  <1>1. CASE UNCHANGED vars
    BY <1>1 DEF vars, worldVars, clientVars, SettledInv, Solo, Overlapping, Writing, Free, At, Ground, OwnersAgree,
       BootClean, RequestSteps, CalmInv, ClientHeld, ConnectStep, DeletedIsCut, NoneUp, NoneDialing, ClaimHolds,
       ClaimsLive, CopyIsFresh, Found, ClientEnsured, ActiveExplained, Stale, HasStatus, Live, Lowering,
       OneClientOf
  <1>2. CASE Next
    BY <1>2, StepSettled, FailureSettled DEF Next
  <1> QED BY <1>1, <1>2

\* With nothing under way, and no update overlapped or failed, a row says "active"
\* only while the session has a socket, and a session the store knows as stopped
\* has none: for any sessions, clients and tasks, after any history.
THEOREM StatusIsTracked == Spec => []SettledStatus
  <1>1. SessionsInv /\ SettledInv => SettledStatus
    BY SettledInvImplies DEF SessionsInv
  <1> QED BY <1>1, InitInv, InitSettled, NextInv, NextSettled, PTL DEF Spec

\* Under the same conditions, a client that has a socket or dials is the one the
\* manager answers with: no opening leaves one behind.
THEOREM NoClientLeftBehind == Spec => []OneClient
  <1>1. SessionsInv /\ SettledInv => OneClient
    BY SettledInvImplies DEF SessionsInv
  <1> QED BY <1>1, InitInv, InitSettled, NextInv, NextSettled, PTL DEF Spec
================================================================================
