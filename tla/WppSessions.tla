------------------------------ MODULE WppSessions ------------------------------
(***************************************************************************)
(* A WhatsApp session of the legacy server: WhatsappService                *)
(* (src/apps/server/src/whatsapp/whatsapp.service.ts) over the             *)
(* WPPConnect engine (engine/wppconnect.engine.ts).                        *)
(*                                                                         *)
(* The engine keeps a runtime per session, and three intervals per runtime *)
(* ask WPPConnect how the session is.  What it hears goes to a callback of *)
(* the service, which reads the row of the session and saves a changed     *)
(* copy.  Node runs one piece of code at a time; a step here is what runs  *)
(* from one await to the next, and the tasks are the asynchronous calls    *)
(* between their awaits.                                                   *)
(***************************************************************************)
EXTENDS Naturals, FiniteSets

CONSTANTS
  Runtimes,     \* SessionRuntime objects; one that nobody can reach is reused
  Tasks,        \* bound: asynchronous calls in flight
  MaxRestarts,  \* bound: how often the server is started again
  Nil

Callbacks == {"onQr", "onAuthenticated", "onReady", "onAuthFailure", "onInitError"}

ASSUME WppAssumption ==
  /\ Nil \notin Runtimes \cup Tasks \cup Callbacks
  /\ MaxRestarts \in Nat

VARIABLES
  row,        \* whatsapp_sessions: status, a QR code, an error
  mapped,     \* WppConnectEngine.sessions
  runtime,    \* the fields of the runtimes
  task,
  phone,      \* WPPConnect's word: "closed", "out" (offers a QR code), "in" or "refused"
  restarts,
  orphaned,   \* history: runtimes that were replaced while they were polling, or began to
              \* poll when they were no longer the session's
  disturbed   \* history: an update of the row was overtaken, came from a runtime that is not
              \* the session's or, being no news, from one that is ready, or no token came

vars == <<row, mapped, runtime, task, phone, restarts, orphaned, disturbed>>

Status == {"idle", "initializing", "qr_ready", "syncing", "active", "disconnected", "error"}
Row == [status : Status, qr : BOOLEAN, err : BOOLEAN]

Timers == {"state", "qr"}
Runtime == [authenticated : BOOLEAN, ready : BOOLEAN, timers : SUBSET Timers]
NewRuntime == [authenticated |-> FALSE, ready |-> FALSE, timers |-> {}]

Phones == {"closed", "out", "in", "refused"}

\* A task is at the await named at; in a callback, then is where it goes on.
Awaits == {"free", "enter", "initialize", "look", "token", "start", "check", "checked", "qrcode",
           "scanned", "read", "save", "authenticated", "poll", "give up", "end", "leave", "close",
           "write"}
Task == [at : Awaits, then : Awaits, calls : Callbacks \cup {Nil}, of : Runtimes \cup {Nil},
         connecting : BOOLEAN, heard : Phones, saw : Row]

Blank == [status |-> "idle", qr |-> FALSE, err |-> FALSE]
Free == [at |-> "free", then |-> "free", calls |-> Nil, of |-> Nil, connecting |-> FALSE,
         heard |-> "closed", saw |-> Blank]

TypeOK ==
  /\ row \in Row
  /\ mapped \in Runtimes \cup {Nil}
  /\ runtime \in [Runtimes -> Runtime]
  /\ task \in [Tasks -> Task]
  /\ phone \in Phones
  /\ restarts \in 0..MaxRestarts
  /\ orphaned \subseteq Runtimes /\ disturbed \in BOOLEAN

\* createSession has made the row.
Init ==
  /\ row = Blank
  /\ mapped = Nil
  /\ runtime = [r \in Runtimes |-> NewRuntime]
  /\ task = [t \in Tasks |-> Free]
  /\ phone = "closed"
  /\ restarts = 0
  /\ orphaned = {} /\ disturbed = FALSE

Reachable(r) == mapped = r \/ runtime[r].timers # {} \/ \E t \in Tasks : task[t].of = r

\* A call of connectSession has passed its first look at the map.
Connecting == \E t \in Tasks : task[t].at \in {"look", "token"}

Quiet == \A t \in Tasks : task[t].at = "free"

Goes(t, at) == task' = [task EXCEPT ![t].at = at]

Ends(t) == task' = [task EXCEPT ![t] = Free]

\* The task calls a callback and goes on at then.
Calls(t, callback, then) ==
  task' = [task EXCEPT ![t].at = "read", ![t].calls = callback, ![t].then = then]

\* stopPolling looks the runtime up by the session.
StopPolling ==
  runtime' = [r \in Runtimes |-> IF r = mapped THEN [runtime[r] EXCEPT !.timers = {}]
                                 ELSE runtime[r]]

-----------------------------------------------------------------------------
(* The callbacks of the service.                                             *)

Read(t) ==
  /\ task[t].at = "read"
  /\ task' = [task EXCEPT ![t].at = "save", ![t].saw = row]
  /\ UNCHANGED <<row, mapped, runtime, phone, restarts, orphaned, disturbed>>

\* Faulty variant: a session that becomes ready keeps its QR code.
UpdatedKeepingCode(saw, callback) ==
  CASE callback = "onQr" -> [status |-> "qr_ready", qr |-> TRUE, err |-> FALSE]
    [] callback = "onAuthenticated" -> [saw EXCEPT !.status = "syncing", !.err = FALSE]
    [] callback = "onReady" -> [saw EXCEPT !.status = "active"]
    [] OTHER -> [saw EXCEPT !.status = "error", !.err = TRUE]

Updated(saw, callback) ==
  CASE callback = "onQr" -> [status |-> "qr_ready", qr |-> TRUE, err |-> FALSE]
    [] callback = "onAuthenticated" -> [saw EXCEPT !.status = "syncing", !.err = FALSE]
    [] callback = "onReady" -> [saw EXCEPT !.status = "active", !.qr = FALSE]
    [] OTHER -> [saw EXCEPT !.status = "error", !.err = TRUE]

Save(t) ==
  LET k == task[t] IN
  /\ k.at = "save"
  /\ row' = Updated(k.saw, k.calls)
  /\ disturbed' = \/ disturbed \/ k.saw # row
                  \/ Connecting
                  \/ mapped # IF k.calls = "onInitError" THEN Nil ELSE k.of
                  \/ k.calls \in {"onQr", "onAuthenticated"} /\ runtime[k.of].ready
  /\ task' = [task EXCEPT ![t].at = k.then, ![t].calls = Nil, ![t].saw = Blank]
  /\ UNCHANGED <<mapped, runtime, phone, restarts, orphaned>>

-----------------------------------------------------------------------------
(* Connecting.                                                               *)

\* WhatsappService.connectSession reads the row.
Connect(t) ==
  /\ task[t].at = "free"
  /\ Goes(t, "enter")
  /\ UNCHANGED <<row, mapped, runtime, phone, restarts, orphaned, disturbed>>

Enter(t) ==
  /\ task[t].at = "enter"
  /\ IF mapped # Nil THEN Ends(t)
     ELSE task' = [task EXCEPT ![t].at = "initialize", ![t].saw = row]
  /\ UNCHANGED <<row, mapped, runtime, phone, restarts, orphaned, disturbed>>

Initialize(t) ==
  /\ task[t].at = "initialize"
  /\ row' = [task[t].saw EXCEPT !.status = "initializing", !.err = FALSE]
  /\ disturbed' = (disturbed \/ task[t].saw # row \/ mapped # Nil)
  /\ task' = [task EXCEPT ![t].at = "look", ![t].saw = Blank]
  /\ UNCHANGED <<mapped, runtime, phone, restarts, orphaned>>

\* WppConnectEngine.connectSession asks for a token unless there is a runtime.
Look(t) ==
  /\ task[t].at = "look"
  /\ IF mapped # Nil THEN Ends(t) ELSE Goes(t, "token")
  /\ UNCHANGED <<row, mapped, runtime, phone, restarts, orphaned, disturbed>>

\* The token is there: the runtime takes the place in the map, whoever holds it.
Token(t) ==
  /\ task[t].at = "token"
  /\ \E r \in Runtimes :
       /\ ~Reachable(r)
       /\ mapped' = r
       /\ runtime' = [runtime EXCEPT ![r] = NewRuntime]
       /\ task' = [task EXCEPT ![t].at = "start", ![t].of = r, ![t].connecting = TRUE]
  /\ orphaned' = IF mapped = Nil THEN orphaned ELSE orphaned \cup {mapped}
  /\ disturbed' = (disturbed \/ mapped # Nil)
  /\ UNCHANGED <<row, phone, restarts>>

\* Without a token the call throws, and nobody corrects the row.
NoToken(t) ==
  /\ task[t].at = "token" /\ Ends(t)
  /\ disturbed' = TRUE
  /\ UNCHANGED <<row, mapped, runtime, phone, restarts, orphaned>>

\* start-session answers, with or without a QR code.
Start(t) ==
  /\ task[t].at = "start"
  /\ phone' = IF phone = "closed" THEN "out" ELSE phone
  /\ IF phone' = "out" THEN Calls(t, "onQr", "poll") \/ Goes(t, "poll") ELSE Goes(t, "poll")
  /\ UNCHANGED <<row, mapped, runtime, restarts, orphaned, disturbed>>

\* It fails: the runtime in the map is dropped, whichever it is.
StartFails(t) ==
  /\ task[t].at = "start"
  /\ StopPolling /\ mapped' = Nil
  /\ Calls(t, "onInitError", "end")
  /\ disturbed' = (disturbed \/ mapped # task[t].of)
  /\ UNCHANGED <<row, phone, restarts, orphaned>>

\* startPolling, then the first syncSessionState.
Poll(t) ==
  /\ task[t].at = "poll"
  /\ runtime' = [runtime EXCEPT ![task[t].of].timers = Timers]
  /\ orphaned' = IF mapped = task[t].of THEN orphaned ELSE orphaned \cup {task[t].of}
  /\ Goes(t, "check")
  /\ UNCHANGED <<row, mapped, phone, restarts, disturbed>>

End(t) ==
  /\ task[t].at = "end" /\ Ends(t)
  /\ UNCHANGED <<row, mapped, runtime, phone, restarts, orphaned, disturbed>>

-----------------------------------------------------------------------------
(* The intervals: syncSessionState and pullQrCode.                           *)

Tick(t, r) ==
  /\ task[t].at = "free"
  /\ \/ "state" \in runtime[r].timers /\ task' = [task EXCEPT ![t].at = "check", ![t].of = r]
     \/ /\ "qr" \in runtime[r].timers /\ ~runtime[r].ready
        /\ task' = [task EXCEPT ![t].at = "qrcode", ![t].of = r]
  /\ UNCHANGED <<row, mapped, runtime, phone, restarts, orphaned, disturbed>>

\* After syncSessionState connectSession calls pullQrCode.
AfterSync(t) == IF task[t].connecting /\ ~runtime[task[t].of].ready THEN "qrcode" ELSE "end"

\* readConnectionState: a text that contains "connected" is taken for a connection, and so
\* is "Disconnected".
Heard == CASE phone \in {"closed", "out"} -> {phone, "in"}
           [] OTHER -> {phone}

\* check-connection-session answers.
Check(t) ==
  /\ task[t].at = "check"
  /\ \E answer \in Heard :
       task' = [task EXCEPT ![t].at = "checked", ![t].heard = answer]
  /\ UNCHANGED <<row, mapped, runtime, phone, restarts, orphaned, disturbed>>

Authenticates(t) ==
  LET k == task[t] IN
  /\ k.at = "checked" /\ k.heard = "in" /\ ~runtime[k.of].authenticated
  /\ runtime' = [runtime EXCEPT ![k.of].authenticated = TRUE]
  /\ Calls(t, "onAuthenticated", "authenticated")
  /\ UNCHANGED <<row, mapped, phone, restarts, orphaned, disturbed>>

\* The flag is set before the callback is awaited, so that another check passes by.
Readies(t) ==
  LET k == task[t] IN
  /\ \/ k.at = "authenticated"
     \/ k.at = "checked" /\ k.heard = "in" /\ runtime[k.of].authenticated
  /\ ~runtime[k.of].ready
  /\ runtime' = [runtime EXCEPT ![k.of].ready = TRUE,
                                ![k.of].timers = runtime[k.of].timers \ {"qr"}]
  /\ Calls(t, "onReady", "end")
  /\ UNCHANGED <<row, mapped, phone, restarts, orphaned, disturbed>>

Refused(t) ==
  /\ task[t].at = "checked" /\ task[t].heard = "refused"
  /\ Calls(t, "onAuthFailure", "give up")
  /\ UNCHANGED <<row, mapped, runtime, phone, restarts, orphaned, disturbed>>

\* After the callback the runtime in the map is dropped, whichever it is.
GiveUp(t) ==
  /\ task[t].at = "give up"
  /\ StopPolling /\ mapped' = Nil
  /\ Goes(t, AfterSync(t))
  /\ disturbed' = (disturbed \/ mapped # task[t].of \/ row.status # "error")
  /\ UNCHANGED <<row, phone, restarts, orphaned>>

\* Nothing new, or the request failed.
Unchanging(t) ==
  LET k == task[t] IN
  /\ \/ k.at = "check"
     \/ k.at = "checked" /\ k.heard \in {"closed", "out"}
     \/ k.at = "authenticated" /\ runtime[k.of].ready
     \/ k.at = "checked" /\ k.heard = "in" /\ runtime[k.of].authenticated /\ runtime[k.of].ready
  /\ Goes(t, AfterSync(t))
  /\ UNCHANGED <<row, mapped, runtime, phone, restarts, orphaned, disturbed>>

\* qrcode-session answers with a code, or has none.
QrCode(t) ==
  /\ task[t].at = "qrcode"
  /\ IF phone = "out" THEN Goes(t, "scanned") \/ Goes(t, "end") ELSE Goes(t, "end")
  /\ UNCHANGED <<row, mapped, runtime, phone, restarts, orphaned, disturbed>>

Scanned(t) ==
  /\ task[t].at = "scanned"
  /\ Calls(t, "onQr", "end")
  /\ UNCHANGED <<row, mapped, runtime, phone, restarts, orphaned, disturbed>>

-----------------------------------------------------------------------------
(* Disconnecting, restarting, and the phone.                                 *)

Disconnect(t) ==
  /\ task[t].at = "free"
  /\ Goes(t, "leave")
  /\ UNCHANGED <<row, mapped, runtime, phone, restarts, orphaned, disturbed>>

\* The row is read; if there is a runtime close-session is asked for.
LeaveSession(t) ==
  /\ task[t].at = "leave"
  /\ task' = [task EXCEPT ![t].saw = row, ![t].of = mapped,
                          ![t].at = IF mapped = Nil THEN "write" ELSE "close"]
  /\ UNCHANGED <<row, mapped, runtime, phone, restarts, orphaned, disturbed>>

\* Faulty variant: the runtime leaves the map with its intervals running.
CloseStillPolling(t) ==
  /\ task[t].at = "close"
  /\ phone' \in {phone, "closed"}
  /\ mapped' = Nil
  /\ Goes(t, "write")
  /\ UNCHANGED <<row, runtime, restarts, orphaned, disturbed>>

\* close-session has been answered, or has failed.
Close(t) ==
  /\ task[t].at = "close"
  /\ phone' \in {phone, "closed"}
  /\ StopPolling /\ mapped' = Nil
  /\ Goes(t, "write")
  /\ UNCHANGED <<row, restarts, orphaned, disturbed>>

Write(t) ==
  /\ task[t].at = "write"
  /\ row' = [task[t].saw EXCEPT !.status = "disconnected", !.qr = FALSE]
  /\ disturbed' = \/ disturbed \/ task[t].saw # row \/ mapped # Nil \/ Connecting
  /\ Ends(t)
  /\ UNCHANGED <<mapped, runtime, phone, restarts, orphaned>>

\* The process ends and starts again; onModuleInit resets the row and connects.
Restart ==
  /\ restarts < MaxRestarts /\ restarts' = restarts + 1
  /\ row' = [status |-> "disconnected", qr |-> FALSE, err |-> FALSE]
  /\ mapped' = Nil
  /\ runtime' = [r \in Runtimes |-> NewRuntime]
  /\ \E t \in Tasks :
       task' = [u \in Tasks |-> IF u = t THEN [Free EXCEPT !.at = "enter"] ELSE Free]
  /\ orphaned' = {} /\ disturbed' = FALSE
  /\ UNCHANGED phone

\* The user scans the code; WhatsApp refuses the session.
Pairs ==
  /\ phone = "out" /\ phone' = "in"
  /\ UNCHANGED <<row, mapped, runtime, task, restarts, orphaned, disturbed>>

Refuses ==
  /\ phone \in {"out", "in"} /\ phone' = "refused"
  /\ UNCHANGED <<row, mapped, runtime, task, restarts, orphaned, disturbed>>

Steps(t) ==
  \/ Read(t) \/ Save(t)
  \/ Enter(t) \/ Initialize(t) \/ Look(t) \/ Token(t) \/ Start(t) \/ Poll(t) \/ End(t)
  \/ Check(t) \/ Authenticates(t) \/ Readies(t) \/ Refused(t) \/ GiveUp(t)
  \/ Unchanging(t) \/ QrCode(t) \/ Scanned(t)
  \/ LeaveSession(t) \/ Close(t) \/ Write(t)

Next ==
  \/ \E t \in Tasks :
       \/ Connect(t) \/ Disconnect(t) \/ \E r \in Runtimes : Tick(t, r)
       \/ Steps(t) \/ NoToken(t) \/ StartFails(t)
  \/ Restart \/ Pairs \/ Refuses

Spec == Init /\ [][Next]_vars

-----------------------------------------------------------------------------
\* However many checks of a runtime overlap, its session becomes ready once: onReady, which
\* loads the chats, never runs twice for it.
ReadyOnce ==
  \A r \in Runtimes :
    /\ Cardinality({t \in Tasks : task[t].of = r /\ task[t].calls = "onReady"}) <= 1
    /\ runtime[r].ready => "qr" \notin runtime[r].timers

\* No interval outlives its session: a runtime that polls is the one in the map, so that
\* disconnecting stops it, unless connecting overlapped with a connect or a disconnect.
PollingIsOwned == \A r \in Runtimes : runtime[r].timers # {} => (mapped = r \/ r \in orphaned)

\* The runtime is kept by the service as long as it is used, and serves it once.
RuntimeKept == ReadyOnce /\ PollingIsOwned

\* When nothing is under way and no update was overtaken or late, the row says what the
\* engine has: 'active' is a ready runtime and nothing else.
SettledRow ==
  (Quiet /\ ~disturbed) =>
    /\ row.status = "active" <=> (mapped # Nil /\ runtime[mapped].ready)
    /\ row.status \in {"disconnected", "error"} => mapped = Nil
    /\ row.status \in {"active", "disconnected"} => ~row.qr
================================================================================
