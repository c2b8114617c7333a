-------------------------------- MODULE Sessions -------------------------------
(***************************************************************************)
(* The life of WhatsApp sessions in wa-core (internal/whatsapp/manager.go, *)
(* with the session handlers of internal/http/handlers.go and the session  *)
(* rows of internal/store/postgres.go).                                    *)
(*                                                                         *)
(* A session is a row of app_session and an entry of Manager.runtimes that *)
(* holds a whatsmeow client.  The goroutines of the manager are tasks: the *)
(* call of a user, the Connect goroutine it leaves behind, one handler per *)
(* event of a client, and the reader of a client's QR channel.  A row is   *)
(* updated by reading it, changing the copy and saving the copy, with no   *)
(* lock around the two statements; only Manager.mu is a lock, and a step   *)
(* here is one of its critical sections, one SQL statement or one call of  *)
(* the client.                                                             *)
(***************************************************************************)
EXTENDS Naturals, FiniteSets

CONSTANTS
  Sessions,
  Default,      \* models.DefaultSessionID
  Devices,      \* identities a phone can hand out when it pairs
  Clients,      \* whatsmeow.Client objects; one that nobody can reach is reused
  Requests,     \* bound: the kinds of request that are made
  World,        \* bound: what happens around the manager
  Procs,        \* bound: calls, Connect goroutines and event handlers in flight
  Blank,        \* the store of a client that has not been paired
  Lost,         \* a nil store: GetDevice found no such device
  Nil

ASSUME SessionsAssumption ==
  /\ {Blank, Lost, Nil} \cap (Devices \cup Clients) = {}
  /\ Blank # Lost /\ Blank # Nil /\ Lost # Nil
  /\ Procs \cap Clients = {} /\ Devices \cap Clients = {}
  /\ Nil \notin Sessions
  /\ Requests \subseteq {"create", "init", "disconnect", "delete"}
  /\ World \subseteq {"crash", "statement", "socket", "qr"}

VARIABLES
  row,        \* app_session
  devices,    \* the device store of whatsmeow
  trusted,    \* the identities the phones still accept
  runtime,    \* Manager.runtimes; a missing entry reads like an empty one
  owner,      \* the session whose handler a client was created with
  store,      \* client.Store: a device, Blank or Lost
  link,       \* the socket of a client: "down", "up" or "retrying"
  auth,       \* the clients that have logged in on their socket
  scanned,    \* the clients whose QR channel has "success" still to be read
  task,       \* what the tasks do; the QR reader of a client is named after it
  booting,    \* the sessions Start has still to look at
  disturbed   \* history: sessions with updates that overlapped or failed, and those
              \* deleted or reset while their client was dialing

clientVars == <<owner, store, link, auth, scanned>>
worldVars  == <<devices, trusted>>
vars == <<row, runtime, task, booting, disturbed, worldVars, clientVars>>

Tasks == Procs \cup Clients

Status ==
  {"none", "idle", "initializing", "qr_ready", "syncing", "active", "disconnected", "error"}

\* Status "none" stands for a session without a row.
Row == [status : Status, device : Devices \cup {Nil}, qr : BOOLEAN]

NoRow == [status |-> "none", device |-> Nil, qr |-> FALSE]

Ops == {"none", "create", "init", "connect", "disconnect", "delete", "online",
        "initializing", "fail", "connected", "dropped", "loggedOut", "paired",
        "qr", "code", "success"}

Steps == {"free", "create", "createSave", "reread", "ensure", "look", "test", "busy",
          "flag", "open", "read", "save", "dial", "unflag", "fetch", "cut", "wipe",
          "dropRow", "forget", "reset", "wait", "end"}

Task == [op : Ops, of : Sessions \cup {Nil}, step : Steps, then : Steps,
         arg : Clients \cup Devices \cup {Nil}, saw : Row]

NoTask == [op |-> "none", of |-> Nil, step |-> "free", then |-> "end", arg |-> Nil, saw |-> NoRow]

ClientTypes ==
  /\ owner \in [Clients -> Sessions \cup {Nil}]
  /\ store \in [Clients -> Devices \cup {Blank, Lost}]
  /\ link \in [Clients -> {"down", "up", "retrying"}]
  /\ auth \subseteq Clients
  /\ scanned \subseteq Clients

TypeOK ==
  /\ row \in [Sessions -> Row]
  /\ devices \subseteq Devices /\ trusted \subseteq Devices
  /\ runtime \in [Sessions -> [client : Clients \cup {Nil}, connecting : BOOLEAN]]
  /\ ClientTypes
  /\ task \in [Tasks -> Task]
  /\ booting \subseteq Sessions
  /\ disturbed \subseteq Sessions

NoRuntime == [client |-> Nil, connecting |-> FALSE]

Init ==
  /\ row = [s \in Sessions |-> NoRow]
  /\ devices = {} /\ trusted = {}
  /\ runtime = [s \in Sessions |-> NoRuntime]
  /\ owner = [c \in Clients |-> Nil]
  /\ store = [c \in Clients |-> Blank]
  /\ link = [c \in Clients |-> "down"]
  /\ auth = {} /\ scanned = {}
  /\ task = [t \in Tasks |-> NoTask]
  /\ booting = {}
  /\ disturbed = {}

--------------------------------------------------------------------------------
(* Tasks.                                                                   *)

Free(t) == task[t].step = "free"
At(t, step) == task[t].step = step

\* A row: read, changed in memory, saved; then the task does `then`.
Updating(t, op, then) ==
  [task[t] EXCEPT !.op = op, !.step = "read", !.then = then, !.saw = NoRow]

Becomes(t, new) == task' = [task EXCEPT ![t] = new]

Goes(t, step) ==
  Becomes(t, IF step = "end" THEN NoTask ELSE [task[t] EXCEPT !.step = step])

\* An update is over, and its copy of the row is gone.
Returns(t) ==
  Becomes(t, IF task[t].then = "end" THEN NoTask
             ELSE [task[t] EXCEPT !.step = task[t].then, !.then = "end", !.saw = NoRow])

\* A new goroutine that begins with an update, or with a look at the client.
Starts(t, op, s, arg, step, then) ==
  /\ t \in Procs
  /\ Free(t)
  /\ Becomes(t, [op |-> op, of |-> s, step |-> step, then |-> then, arg |-> arg, saw |-> NoRow])

Writing(t) == ~Free(t) /\ task[t].step \notin {"wait", "dial", "unflag"}

Overlapping ==
  {s \in Sessions : \E t, u \in Tasks :
     t # u /\ task[t].of = s /\ task[u].of = s /\ Writing(t) /\ Writing(u)}

Live(s) == \E c \in Clients : owner[c] = s /\ link[c] = "up"

\* Sessions whose client is taken away, by a delete or a reset, while it is dialing
\* or about to dial.
Dialing(s, c) ==
  \/ c # Nil /\ link[c] = "retrying"
  \/ \E t \in Procs : task[t].of = s /\ At(t, "dial")

Missed ==
  {s \in Sessions : \E t \in Procs :
     /\ task[t].of = s
     /\ \/ task[t].op = "delete" /\ At(t, "cut") /\ Dialing(s, task[t].arg)
        \/ /\ At(t, "reset")
           /\ Dialing(s, runtime[s].client) \/ Live(s)}

--------------------------------------------------------------------------------
(* Clients.                                                                 *)

Reachable(c) ==
  \/ link[c] # "down"
  \/ \E s \in Sessions : runtime[s].client = c
  \/ \E t \in Procs : task[t].arg = c
  \/ ~Free(c)

\* loadDeviceStoreForSession: the device of the row; for the default session
\* without one, the first device of the store; else a new device.
LoadDevice(s) ==
  IF row[s].device # Nil
  THEN {IF row[s].device \in devices THEN row[s].device ELSE Lost}
  ELSE IF s = Default /\ devices # {} THEN devices ELSE {Blank}

NewClient(c, s, choice) ==
  /\ ~Reachable(c)
  /\ owner' = [owner EXCEPT ![c] = s]
  /\ \E d \in choice : store' = [store EXCEPT ![c] = d]
  /\ scanned' = scanned \ {c}
  /\ auth' = auth \ {c}
  /\ UNCHANGED link

\* The manager has a new client for a session.
Gets(s, choice, connecting) ==
  \E c \in Clients :
    /\ NewClient(c, s, choice)
    /\ runtime' = [runtime EXCEPT ![s] = [client |-> c, connecting |-> connecting]]

\* Faulty variant: looks for a client before it takes the lock, never under it.
EnsureClientTwice(s) == Gets(s, LoadDevice(s), runtime[s].connecting)

\* ensureClientForSession, all of it under m.mu.
EnsureClient(s) ==
  \/ runtime[s].client # Nil /\ UNCHANGED <<runtime, clientVars>>
  \/ runtime[s].client = Nil /\ Gets(s, LoadDevice(s), runtime[s].connecting)

SetConnecting(s, value) == runtime' = [runtime EXCEPT ![s].connecting = value]

--------------------------------------------------------------------------------
(* Requests.  They are served only after Start has returned.                *)

Ask(t, s, op, step) ==
  /\ op \in Requests
  /\ booting = {}
  /\ Starts(t, op, s, Nil, step, "end")
  /\ UNCHANGED <<row, runtime, booting, worldVars, clientVars>>

Request(t, s) ==
  \/ Ask(t, s, "create", "create")
  \/ Ask(t, s, "init", "create")
  \/ Ask(t, s, "disconnect", "look")
  \/ Ask(t, s, "delete", "fetch")

\* Faulty variant: a session that is not there begins without a status.
FoundBlank(s) == IF row[s] = NoRow THEN [NoRow EXCEPT !.status = ""] ELSE row[s]

\* GetSessionByID; a session that is not there begins as an idle one.
Found(s) == IF row[s] = NoRow THEN [NoRow EXCEPT !.status = "idle"] ELSE row[s]

CreateRead(t) ==
  /\ At(t, "create")
  /\ Becomes(t, [task[t] EXCEPT !.step = "createSave", !.saw = Found(task[t].of)])
  /\ UNCHANGED <<row, runtime, booting, worldVars, clientVars>>

CreateSave(t) ==
  /\ At(t, "createSave")
  /\ row' = [row EXCEPT ![task[t].of] = task[t].saw]
  /\ Becomes(t, [task[t] EXCEPT !.step = "reread", !.saw = NoRow])
  /\ UNCHANGED <<runtime, booting, worldVars, clientVars>>

\* The saved row is read back and used without a check: when it has been deleted
\* in between, the request ends in a recovered panic.
CreateReread(t) ==
  /\ At(t, "reread")
  /\ Goes(t, IF task[t].op = "init" /\ row[task[t].of] # NoRow THEN "ensure" ELSE "end")
  /\ UNCHANGED <<row, runtime, booting, worldVars, clientVars>>

Ensure(t) ==
  /\ At(t, "ensure")
  /\ EnsureClient(task[t].of)
  /\ Goes(t, "look")
  /\ UNCHANGED <<row, booting, worldVars>>

\* clientForSession, and what its caller does with the answer.
DeviceOf(c) == IF c # Nil /\ store[c] \in Devices THEN store[c] ELSE Nil

Look(t) ==
  /\ At(t, "look")
  /\ LET c  == runtime[task[t].of].client
         op == task[t].op
     IN \/ /\ op = "init"
           /\ IF c = Nil THEN Goes(t, "end")
              ELSE Becomes(t, [task[t] EXCEPT !.step = "test", !.arg = c])
        \/ /\ op \in {"disconnect", "delete"}
           /\ Becomes(t, [task[t] EXCEPT !.step = "cut", !.arg = c])
        \/ /\ op = "connected"
           /\ Becomes(t, [Updating(t, op, "end") EXCEPT !.arg = DeviceOf(c)])
  /\ UNCHANGED <<row, runtime, booting, worldVars, clientVars>>

--------------------------------------------------------------------------------
(* InitSession, after the row and the client are there.                     *)

InitTest(t) ==
  /\ At(t, "test")
  /\ IF link[task[t].arg] = "up"
     THEN Becomes(t, Updating(t, "online", "end"))
     ELSE Goes(t, "busy")
  /\ UNCHANGED <<row, runtime, booting, worldVars, clientVars>>

InitBusy(t) ==
  /\ At(t, "busy")
  /\ Goes(t, IF runtime[task[t].of].connecting THEN "end" ELSE "flag")
  /\ UNCHANGED <<row, runtime, booting, worldVars, clientVars>>

InitFlag(t) ==
  /\ At(t, "flag")
  /\ SetConnecting(task[t].of, TRUE)
  /\ Goes(t, "open")
  /\ UNCHANGED <<row, booting, worldVars, clientVars>>

\* A client without an identity gets a QR channel and a reader for it; the readers
\* of one channel do the same things, and one stands for all of them.
InitOpen(t) ==
  /\ At(t, "open")
  /\ LET c      == task[t].arg
         reader == [NoTask EXCEPT !.op = "qr", !.of = task[t].of, !.step = "wait", !.arg = c]
         next   == Updating(t, "initializing", "dial")
     IN \/ /\ store[c] = Blank /\ link[c] # "up"
           /\ task' = [task EXCEPT ![t] = next, ![c] = IF Free(c) THEN reader ELSE @]
        \/ store[c] # Blank /\ Becomes(t, next)
  /\ UNCHANGED <<row, runtime, booting, worldVars, clientVars>>

\* Faulty variant: the error return leaves the flag up.
InitOpenFailsFlagged(t) ==
  /\ At(t, "open")
  /\ store[task[t].arg] = Blank /\ link[task[t].arg] = "up"
  /\ Becomes(t, Updating(t, "fail", "end"))
  /\ UNCHANGED <<row, runtime, booting, worldVars, clientVars>>

\* GetQRChannel refuses a client that is connected already.
InitOpenFails(t) ==
  /\ At(t, "open")
  /\ store[task[t].arg] = Blank /\ link[task[t].arg] = "up"
  /\ SetConnecting(task[t].of, FALSE)
  /\ Becomes(t, Updating(t, "fail", "end"))
  /\ UNCHANGED <<row, booting, worldVars, clientVars>>

\* The goroutine that InitSession leaves behind: Connect, and the flag comes down.
Dial(t) ==
  /\ At(t, "dial")
  /\ link[task[t].arg] # "up" /\ store[task[t].arg] # Lost
  /\ link' = [link EXCEPT ![task[t].arg] = "up"]
  /\ Goes(t, "unflag")
  /\ UNCHANGED <<row, runtime, booting, worldVars, owner, store, auth, scanned>>

\* Connect fails: no network, no identity store, or connected already.
DialFails(t) ==
  /\ At(t, "dial")
  /\ Becomes(t, Updating(t, "fail", "unflag"))
  /\ UNCHANGED <<row, runtime, booting, worldVars, clientVars>>

Unflag(t) ==
  /\ At(t, "unflag")
  /\ SetConnecting(task[t].of, FALSE)
  /\ Goes(t, "end")
  /\ UNCHANGED <<row, booting, worldVars, clientVars>>

--------------------------------------------------------------------------------
(* updateSessionByID: a missing row is created again.                       *)

Read(t) ==
  /\ At(t, "read")
  /\ Becomes(t, [task[t] EXCEPT !.step = "save", !.saw = Found(task[t].of)])
  /\ UNCHANGED <<row, runtime, booting, worldVars, clientVars>>

\* What each caller of updateSessionByID and failSessionByID changes.
Mutate(op, r, d) ==
  CASE op = "online"       -> [r EXCEPT !.status = "active"]
    [] op = "initializing" -> [r EXCEPT !.status = "initializing"]
    [] op = "fail"         -> [r EXCEPT !.status = "error"]
    [] op = "dropped"      -> [r EXCEPT !.status = "disconnected"]
    [] op = "connected"    -> [status |-> "active", device |-> d, qr |-> FALSE]
    [] op = "paired"       -> [r EXCEPT !.status = "syncing", !.device = d]
    [] op = "code"         -> [r EXCEPT !.status = "qr_ready", !.qr = TRUE]
    [] op = "success"      -> [r EXCEPT !.status = "syncing", !.qr = FALSE]
    [] op \in {"disconnect", "loggedOut"} -> [r EXCEPT !.status = "disconnected", !.qr = FALSE]

Save(t) ==
  /\ At(t, "save")
  /\ row' = [row EXCEPT ![task[t].of] = Mutate(task[t].op, task[t].saw, task[t].arg)]
  /\ Returns(t)
  /\ UNCHANGED <<runtime, booting, worldVars, clientVars>>

\* A statement fails.  An update is given up and its caller goes on all the same;
\* CreateOrUpdateSession, ensureClientForSession and DeleteSessionByID return; a
\* reset leaves the session without a client; when it is GetDevice that fails, the
\* session gets a client with a new device.
DbFails(t) ==
  /\ "statement" \in World
  /\ \/ /\ task[t].step \in {"read", "save"}
        /\ Returns(t)
        /\ UNCHANGED <<runtime, clientVars>>
     \/ /\ task[t].step \in {"create", "createSave", "reread", "ensure", "fetch", "wipe", "dropRow"}
        /\ Goes(t, "end")
        /\ UNCHANGED <<runtime, clientVars>>
     \/ /\ At(t, "reset")
        /\ Goes(t, "end")
        /\ runtime' = [runtime EXCEPT ![task[t].of] = NoRuntime]
        /\ UNCHANGED clientVars
     \/ /\ At(t, "reset")
        /\ Goes(t, "end")
        /\ Gets(task[t].of, {Blank}, FALSE)
     \/ /\ At(t, "ensure") /\ runtime[task[t].of].client = Nil
        /\ Goes(t, "look")
        /\ Gets(task[t].of, {Blank}, runtime[task[t].of].connecting)
  /\ UNCHANGED <<row, booting, worldVars>>

--------------------------------------------------------------------------------
(* DisconnectByID and DeleteSessionByID.                                    *)

Fetch(t) ==
  /\ At(t, "fetch")
  /\ LET r == row[task[t].of] IN
       IF r = NoRow THEN Goes(t, "end")
       ELSE Becomes(t, [task[t] EXCEPT !.step = "look", !.saw = r])
  /\ UNCHANGED <<row, runtime, booting, worldVars, clientVars>>

\* Faulty variant: the client is left running.
CutNothing(t) ==
  /\ At(t, "cut")
  /\ UNCHANGED <<link, auth>>
  /\ IF task[t].op = "delete" THEN Goes(t, "wipe")
     ELSE Becomes(t, [Updating(t, "disconnect", "end") EXCEPT !.arg = Nil])
  /\ UNCHANGED <<row, runtime, booting, worldVars, owner, store, scanned>>

\* A client that is connected is disconnected; one that is still dialing, or waits
\* to dial again, is left alone.
Cut(t) ==
  /\ At(t, "cut")
  /\ LET c == task[t].arg IN
       IF c # Nil /\ link[c] = "up"
       THEN link' = [link EXCEPT ![c] = "down"] /\ auth' = auth \ {c}
       ELSE UNCHANGED <<link, auth>>
  /\ IF task[t].op = "delete" THEN Goes(t, "wipe")
     ELSE Becomes(t, [Updating(t, "disconnect", "end") EXCEPT !.arg = Nil])
  /\ UNCHANGED <<row, runtime, booting, worldVars, owner, store, scanned>>

Wipe(t) ==
  /\ At(t, "wipe")
  /\ devices' = devices \ {task[t].saw.device}
  /\ Goes(t, "dropRow")
  /\ UNCHANGED <<row, runtime, booting, trusted, clientVars>>

DropRow(t) ==
  /\ At(t, "dropRow")
  /\ row' = [row EXCEPT ![task[t].of] = NoRow]
  /\ Goes(t, "forget")
  /\ UNCHANGED <<runtime, booting, worldVars, clientVars>>

Forget(t) ==
  /\ At(t, "forget")
  /\ runtime' = [runtime EXCEPT ![task[t].of] = NoRuntime]
  /\ Goes(t, "end")
  /\ UNCHANGED <<row, booting, worldVars, clientVars>>

--------------------------------------------------------------------------------
(* The QR channel of a client and its reader, consumeQRChannel.             *)

QrCode(c) ==
  /\ "qr" \in World
  /\ At(c, "wait")
  /\ link[c] = "up" /\ store[c] = Blank
  /\ Becomes(c, Updating(c, "code", "wait"))
  /\ UNCHANGED <<row, runtime, booting, worldVars, clientVars>>

QrSuccess(c) ==
  /\ At(c, "wait")
  /\ c \in scanned
  /\ scanned' = scanned \ {c}
  /\ Becomes(c, Updating(c, "success", "end"))
  /\ UNCHANGED <<row, runtime, booting, worldVars, owner, store, link, auth>>

\* The code expired, or the pairing failed: the channel is closed, the socket too.
QrFailure(c) ==
  /\ "qr" \in World
  /\ At(c, "wait")
  /\ link[c] = "up" /\ store[c] = Blank
  /\ link' = [link EXCEPT ![c] = "down"]
  /\ Becomes(c, Updating(c, "fail", "end"))
  /\ UNCHANGED <<row, runtime, booting, worldVars, owner, store, auth, scanned>>

--------------------------------------------------------------------------------
(* WhatsApp, the phone and the network, with the handler of each event.     *)

Unused(d) ==
  /\ d \notin devices \cup trusted
  /\ \A s \in Sessions : row[s].device # d
  /\ \A c \in Clients : store[c] # d
  /\ \A t \in Tasks : task[t].arg # d /\ task[t].saw.device # d

\* The phone scans the code: handlePairSuccess.  The client dials again by itself.
Scan(c, t) ==
  /\ link[c] = "up" /\ store[c] = Blank
  /\ ~Free(c)
  /\ \E d \in Devices :
       /\ Unused(d)
       /\ store' = [store EXCEPT ![c] = d]
       /\ devices' = devices \cup {d}
       /\ trusted' = trusted \cup {d}
       /\ Starts(t, "paired", owner[c], d, "read", "end")
  /\ link' = [link EXCEPT ![c] = "retrying"]
  /\ scanned' = scanned \cup {c}
  /\ UNCHANGED <<row, runtime, booting, owner, auth>>

\* handleConnected.
Login(c, t) ==
  /\ link[c] = "up" /\ c \notin auth
  /\ store[c] \in trusted
  /\ auth' = auth \cup {c}
  /\ Starts(t, "connected", owner[c], Nil, "look", "end")
  /\ UNCHANGED <<row, runtime, booting, worldVars, owner, store, link, scanned>>

\* The socket is lost: handleDisconnected, while the client dials again.
Drop(c, t) ==
  /\ "socket" \in World
  /\ link[c] = "up"
  /\ link' = [link EXCEPT ![c] = "retrying"]
  /\ auth' = auth \ {c}
  /\ Starts(t, "dropped", owner[c], Nil, "read", "end")
  /\ UNCHANGED <<row, runtime, booting, worldVars, owner, store, scanned>>

Redial(c) ==
  /\ link[c] = "retrying"
  /\ link' = [link EXCEPT ![c] = "up"]
  /\ UNCHANGED <<row, runtime, task, booting, worldVars, owner, store, auth, scanned>>

\* handleConnectFailure, for a reason that leaves the login in place.
Refuse(c, t) ==
  /\ link[c] = "up" /\ c \notin auth
  /\ store[c] \in trusted
  /\ link' = [link EXCEPT ![c] = "down"]
  /\ Starts(t, "fail", owner[c], Nil, "read", "end")
  /\ UNCHANGED <<row, runtime, booting, worldVars, owner, store, auth, scanned>>

\* The login is gone, by the phone's will or because it was before: the client
\* deletes its device.  handleLoggedOut, or handleConnectFailure with such a reason.
Logout(c, t) ==
  /\ link[c] = "up" /\ store[c] \in Devices
  /\ \E op \in {"loggedOut"} \cup (IF c \in auth THEN {} ELSE {"fail"}) :
       Starts(t, op, owner[c], Nil, "read", "reset")
  /\ trusted' = trusted \ {store[c]}
  /\ devices' = devices \ {store[c]}
  /\ store' = [store EXCEPT ![c] = Blank]
  /\ link' = [link EXCEPT ![c] = "down"]
  /\ auth' = auth \ {c}
  /\ UNCHANGED <<row, runtime, booting, owner, scanned>>

\* resetClientByID: a new client, under m.mu.
Reset(t) ==
  /\ At(t, "reset")
  /\ Gets(task[t].of, LoadDevice(task[t].of), FALSE)
  /\ Goes(t, "end")
  /\ UNCHANGED <<row, booting, worldVars>>

--------------------------------------------------------------------------------
(* A crash, and Start.                                                      *)

Crash ==
  /\ "crash" \in World
  /\ runtime' = [s \in Sessions |-> NoRuntime]
  /\ owner' = [c \in Clients |-> Nil]
  /\ store' = [c \in Clients |-> Blank]
  /\ link' = [c \in Clients |-> "down"]
  /\ auth' = {} /\ scanned' = {}
  /\ task' = [t \in Tasks |-> NoTask]
  /\ booting' = {s \in Sessions : row[s] # NoRow}
  /\ UNCHANGED <<row, worldVars>>

\* A session with a stored login is reconnected in a goroutine of its own.
BootReconnects(t, s) ==
  /\ s \in booting
  /\ row[s].device \in devices
  /\ EnsureClient(s)
  /\ Starts(t, "init", s, Nil, "create", "end")
  /\ booting' = booting \ {s}
  /\ UNCHANGED <<row, worldVars>>

\* Faulty variant: the status of a session without a login is left as it was.
BootSkips(s) ==
  /\ s \in booting
  /\ row[s].device \notin devices
  /\ row[s].device # Nil => EnsureClient(s)
  /\ row[s].device = Nil => UNCHANGED <<runtime, clientVars>>
  /\ booting' = booting \ {s}
  /\ UNCHANGED <<row, task, worldVars>>

\* The others wait for a new connection.
BootWaits(s) ==
  /\ s \in booting
  /\ row[s].device \notin devices
  /\ row[s].device # Nil => EnsureClient(s)
  /\ row[s].device = Nil => UNCHANGED <<runtime, clientVars>>
  /\ row' = IF row[s].status \in {"active", "syncing", "initializing"}
            THEN [row EXCEPT ![s].status = "disconnected", ![s].qr = FALSE] ELSE row
  /\ booting' = booting \ {s}
  /\ UNCHANGED <<task, worldVars>>

--------------------------------------------------------------------------------
Work(t) ==
  \/ CreateRead(t) \/ CreateSave(t) \/ CreateReread(t) \/ Ensure(t) \/ Look(t)
  \/ InitTest(t) \/ InitBusy(t) \/ InitFlag(t) \/ InitOpen(t) \/ InitOpenFails(t)
  \/ Dial(t) \/ DialFails(t) \/ Unflag(t) \/ Read(t) \/ Save(t)
  \/ Fetch(t) \/ Cut(t) \/ Wipe(t) \/ DropRow(t) \/ Forget(t) \/ Reset(t)

Events(c, t) == Scan(c, t) \/ Login(c, t) \/ Drop(c, t) \/ Refuse(c, t) \/ Logout(c, t)

Step ==
  \/ \E t \in Tasks : Work(t)
  \/ \E t \in Procs, s \in Sessions : Request(t, s) \/ BootReconnects(t, s)
  \/ \E s \in Sessions : BootWaits(s)
  \/ \E c \in Clients : QrCode(c) \/ QrSuccess(c) \/ QrFailure(c) \/ Redial(c)
  \/ \E c \in Clients, t \in Procs : Events(c, t)
  \/ Crash

Recorded(failed) == disturbed' = disturbed \cup Missed \cup Overlapping' \cup failed

Next ==
  \/ Step /\ Recorded({})
  \/ \E t \in Tasks : DbFails(t) /\ Recorded({task[t].of})

Spec == Init /\ [][Next]_vars

--------------------------------------------------------------------------------
(* Properties.                                                              *)

\* Nothing is being done to the row of a session.
Quiet(s) == s \notin booting /\ \A t \in Tasks : task[t].of = s => ~Writing(t)

HasStatus(s, status) == row[s].status = status

\* Status tracking: when nothing is being done to a session and its updates never
\* overlapped or failed, the row says "active" only while a client of the session
\* has a socket, after any history of connects, pairings, drops, logouts, deletes
\* and restarts.  (A restart meets the rows of a process that is gone.)
SettledStatus ==
  \A s \in Sessions :
    s \notin disturbed /\ Quiet(s) /\ HasStatus(s, "active") => Live(s)

\* Under the same condition no client is left behind: one that has a socket, or
\* will dial again, is the one the manager answers for that session with.
OneClient ==
  \A c \in Clients :
    link[c] # "down" /\ owner[c] \notin disturbed => runtime[owner[c]].client = c

\* However many calls meet, a session gets one client: once it is there, it is
\* replaced by a reset only, or taken away by a delete, a failed reset or a crash.
ClientKept ==
  [][\A s \in Sessions :
       runtime[s].client # Nil =>
         \/ runtime'[s].client \in {runtime[s].client, Nil}
         \/ \E t \in Procs : At(t, "reset") /\ task[t].of = s]_vars

\* The flag that turns further connects away is never up with nobody left to lower
\* it: a goroutine of that session is between raising it and the end of Connect,
\* also when a statement, the QR channel or Connect has failed.
Lowers(t, s) ==
  /\ task[t].of = s
  /\ task[t].step \in {"open", "dial", "unflag"} \/ task[t].then \in {"dial", "unflag"}

FlagHasOwner ==
  \A s \in Sessions : runtime[s].connecting => \E t \in Procs : Lowers(t, s)
================================================================================
