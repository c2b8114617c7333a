--------------------------- MODULE WppSessionsProofs ---------------------------
(***************************************************************************)
(* Proofs about a session of the legacy server (module WppSessions), for   *)
(* any number of runtimes, asynchronous calls and restarts.                *)
(***************************************************************************)
EXTENDS WppSessions, FiniteSetTheorems, TLAPS

\* What a task holds at each await.
Held(k) ==
  /\ k.at \in {"start", "check", "checked", "qrcode", "scanned", "authenticated", "poll", "give up"}
       => k.of # Nil
  /\ k.at \in {"read", "save"} =>
       /\ k.of # Nil /\ k.calls # Nil
       /\ k.then \in {"authenticated", "poll", "give up", "end"}
       /\ k.calls = "onReady" => k.then = "end"
       /\ k.calls = "onAuthFailure" => k.then = "give up"
  /\ k.at \notin {"read", "save"} => k.calls = Nil
  /\ k.at \in {"free", "enter", "initialize", "look", "token", "leave"} => k.of = Nil

TasksHold == \A t \in Tasks : Held(task[t])

\* Before its first poll nobody but a disconnect knows a runtime, which does nothing yet.
Starts(k) == k.at \in {"start", "poll"} \/ (k.at \in {"read", "save"} /\ k.then = "poll")
StartsAlone ==
  \A t \in Tasks : Starts(task[t]) =>
    /\ runtime[task[t].of].timers = {} /\ ~runtime[task[t].of].ready
    /\ \A u \in Tasks \ {t} : task[u].of = task[t].of => task[u].at \in {"close", "write"}

\* A task that says a runtime is ready has set its flag, and is the only one to say so.
ReadyWord ==
  /\ \A t \in Tasks : task[t].calls = "onReady" => runtime[task[t].of].ready
  /\ \A t, u \in Tasks :
       task[t].calls = "onReady" /\ task[u].calls = "onReady" /\ task[t].of = task[u].of => t = u

CodeAsked == \A r \in Runtimes : runtime[r].ready => "qr" \notin runtime[r].timers

\* Unless it was disturbed, a row that differs from the engine is about to be corrected.
ActiveRow ==
  row.status = "active" => \/ mapped # Nil /\ runtime[mapped].ready
                           \/ \E t \in Tasks : task[t].at = "write"

\* A task is about to say that the runtime in the map is ready, or to drop it.
Saying(t) == task[t].of = mapped /\ (task[t].calls = "onReady" \/ task[t].at = "give up")
ReadyRow ==
  mapped # Nil /\ runtime[mapped].ready => row.status = "active" \/ \E t \in Tasks : Saying(t)

GoneRow ==
  mapped # Nil /\ row.status \in {"disconnected", "error"} =>
    \E t \in Tasks : task[t].of = mapped /\ task[t].at = "give up"

ConnectingRow == Connecting => row.status = "initializing"

Rows == ActiveRow /\ ReadyRow /\ GoneRow /\ ConnectingRow
Corrected == ~disturbed => Rows

NoOldCode == row.status \in {"active", "disconnected"} => ~row.qr

--------------------------------------------------------------------------------
(* Records and types.                                                             *)

LEMMA GoingFacts ==
  ASSUME NEW k \in Task, NEW at \in Awaits
  PROVE  LET new == [k EXCEPT !.at = at] IN
           /\ new \in Task /\ new.at = at /\ new.of = k.of /\ new.calls = k.calls /\ new.then = k.then
           /\ new.saw = k.saw
  BY DEF Task

LEMMA FreeFacts ==
  /\ Free \in Task /\ Free.at = "free" /\ Free.of = Nil /\ Free.calls = Nil
  /\ [Free EXCEPT !.at = "enter"] \in Task /\ [Free EXCEPT !.at = "enter"].at = "enter"
  /\ [Free EXCEPT !.at = "enter"].of = Nil /\ [Free EXCEPT !.at = "enter"].calls = Nil
  <1>1. Free \in Task /\ Free.at = "free" /\ Free.of = Nil /\ Free.calls = Nil
    BY DEF Free, Task, Awaits, Blank, Row, Status, Phones
  <1>2. "enter" \in Awaits
    BY DEF Awaits
  <1> QED BY <1>1, <1>2, GoingFacts

LEMMA BlankType == Blank \in Row
  BY DEF Blank, Row, Status

\* A step of one task.
Becomes(t, new) ==
  /\ task' \in [Tasks -> Task] /\ task'[t] = new
  /\ \A u \in Tasks \ {t} : task'[u] = task[u]

LEMMA OneBecomes ==
  ASSUME TypeOK, NEW t \in Tasks, NEW new \in Task, task' = [task EXCEPT ![t] = new]
  PROVE  Becomes(t, new)
  BY DEF TypeOK, Becomes

\* What each step leaves a task at, and whose runtime it then holds.
Moves(t, at, of, calls) ==
  /\ task' \in [Tasks -> Task]
  /\ task'[t].at = at /\ task'[t].of = of /\ task'[t].calls = calls
  /\ \A u \in Tasks \ {t} : task'[u] = task[u]

LEMMA GoesMoves ==
  ASSUME TypeOK, NEW t \in Tasks, NEW at \in Awaits, Goes(t, at)
  PROVE  Moves(t, at, task[t].of, task[t].calls) /\ task'[t].then = task[t].then
  <1> DEFINE new == [task[t] EXCEPT !.at = at]
  <1>1. task[t] \in Task
    BY DEF TypeOK
  <1>2. /\ new \in Task /\ new.at = at /\ new.of = task[t].of /\ new.calls = task[t].calls
        /\ new.then = task[t].then
    BY <1>1, GoingFacts
  <1>3. task' = [task EXCEPT ![t] = new]
    BY DEF Goes
  <1> HIDE DEF new
  <1>4. Becomes(t, new)
    BY <1>2, <1>3, OneBecomes
  <1> QED BY <1>2, <1>4 DEF Becomes, Moves

LEMMA EndsMoves ==
  ASSUME TypeOK, NEW t \in Tasks, Ends(t)
  PROVE  Moves(t, "free", Nil, Nil)
  <1>1. Becomes(t, Free)
    BY FreeFacts, OneBecomes DEF Ends
  <1> QED BY <1>1, FreeFacts DEF Becomes, Moves

LEMMA CallsMoves ==
  ASSUME TypeOK, NEW t \in Tasks, NEW callback \in Callbacks, NEW then \in Awaits,
         Calls(t, callback, then)
  PROVE  Moves(t, "read", task[t].of, callback) /\ task'[t].then = then
  <1> DEFINE old == task[t]
             new == [old EXCEPT !.at = "read", !.calls = callback, !.then = then]
  <1>1. old \in Task
    BY DEF TypeOK
  <1>2. task' = [task EXCEPT ![t] = new]
    BY DEF Calls
  <1> HIDE DEF old
  <1>3. /\ new \in Task /\ new.at = "read" /\ new.of = old.of /\ new.calls = callback
        /\ new.then = then
    BY <1>1 DEF Task, Awaits
  <1> HIDE DEF new
  <1>4. Becomes(t, new)
    BY <1>3, <1>2, OneBecomes
  <1> QED BY <1>3, <1>4 DEF Becomes, Moves, old

LEMMA ReadMoves ==
  ASSUME TypeOK, NEW t \in Tasks, Read(t)
  PROVE  Moves(t, "save", task[t].of, task[t].calls) /\ task'[t].then = task[t].then
  <1> DEFINE old == task[t]
             new == [old EXCEPT !.at = "save", !.saw = row]
  <1>1. old \in Task /\ row \in Row
    BY DEF TypeOK
  <1>2. task' = [task EXCEPT ![t] = new]
    BY DEF Read
  <1> HIDE DEF old
  <1>3. /\ new \in Task /\ new.at = "save" /\ new.of = old.of /\ new.calls = old.calls
        /\ new.then = old.then
    BY <1>1 DEF Task, Awaits
  <1> HIDE DEF new
  <1>4. Becomes(t, new)
    BY <1>2, <1>3, OneBecomes
  <1> QED BY <1>3, <1>4 DEF Becomes, Moves, old

LEMMA SaveMoves ==
  ASSUME TypeOK, NEW t \in Tasks, Save(t)
  PROVE  Moves(t, task[t].then, task[t].of, Nil)
  <1> DEFINE old == task[t]
             new == [old EXCEPT !.at = old.then, !.calls = Nil, !.saw = Blank]
  <1>1. old \in Task /\ Blank \in Row
    BY BlankType DEF TypeOK
  <1>2. task' = [task EXCEPT ![t] = new]
    BY DEF Save
  <1> HIDE DEF old
  <1>3. new \in Task /\ new.at = old.then /\ new.of = old.of /\ new.calls = Nil
    BY <1>1 DEF Task
  <1> HIDE DEF new
  <1>4. Becomes(t, new)
    BY <1>2, <1>3, OneBecomes
  <1> QED BY <1>3, <1>4 DEF Becomes, Moves, old

LEMMA EnterMoves ==
  ASSUME TypeOK, NEW t \in Tasks, Enter(t)
  PROVE  \/ Moves(t, "free", Nil, Nil)
         \/ Moves(t, "initialize", task[t].of, task[t].calls) /\ mapped = Nil
  <1> DEFINE old == task[t]
             new == [old EXCEPT !.at = "initialize", !.saw = row]
  <1>1. old \in Task /\ row \in Row
    BY DEF TypeOK
  <1>2. Ends(t) \/ (mapped = Nil /\ task' = [task EXCEPT ![t] = new])
    BY DEF Enter
  <1> HIDE DEF old
  <1>3. new \in Task /\ new.at = "initialize" /\ new.of = old.of /\ new.calls = old.calls
    BY <1>1 DEF Task, Awaits
  <1> HIDE DEF new
  <1>4. task' = [task EXCEPT ![t] = new] => Becomes(t, new)
    BY <1>3, OneBecomes
  <1>5. Becomes(t, new) => Moves(t, "initialize", old.of, old.calls)
    BY <1>3 DEF Becomes, Moves
  <1> QED BY <1>2, <1>4, <1>5, EndsMoves DEF old

LEMMA InitializeMoves ==
  ASSUME TypeOK, NEW t \in Tasks, Initialize(t)
  PROVE  Moves(t, "look", task[t].of, task[t].calls)
  <1> DEFINE old == task[t]
             new == [old EXCEPT !.at = "look", !.saw = Blank]
  <1>1. old \in Task /\ Blank \in Row
    BY BlankType DEF TypeOK
  <1>2. task' = [task EXCEPT ![t] = new]
    BY DEF Initialize
  <1> HIDE DEF old
  <1>3. new \in Task /\ new.at = "look" /\ new.of = old.of /\ new.calls = old.calls
    BY <1>1 DEF Task, Awaits
  <1> HIDE DEF new
  <1>4. Becomes(t, new)
    BY <1>2, <1>3, OneBecomes
  <1> QED BY <1>3, <1>4 DEF Becomes, Moves, old

LEMMA TokenMoves ==
  ASSUME TypeOK, NEW t \in Tasks, Token(t)
  PROVE  \E r \in Runtimes :
           /\ ~Reachable(r) /\ mapped' = r /\ runtime' = [runtime EXCEPT ![r] = NewRuntime]
           /\ Moves(t, "start", r, task[t].calls)
  <1>1. PICK r \in Runtimes :
          /\ ~Reachable(r) /\ mapped' = r /\ runtime' = [runtime EXCEPT ![r] = NewRuntime]
          /\ task' = [task EXCEPT ![t].at = "start", ![t].of = r, ![t].connecting = TRUE]
    BY DEF Token
  <1> DEFINE old == task[t]
             new == [old EXCEPT !.at = "start", !.of = r, !.connecting = TRUE]
  <1>2. old \in Task
    BY DEF TypeOK
  <1>3. task' = [task EXCEPT ![t] = new]
    BY <1>1
  <1> HIDE DEF old
  <1>4. new \in Task /\ new.at = "start" /\ new.of = r /\ new.calls = old.calls
    BY <1>2 DEF Task, Awaits
  <1> HIDE DEF new
  <1>5. Becomes(t, new)
    BY <1>3, <1>4, OneBecomes
  <1>6. Moves(t, "start", r, old.calls)
    BY <1>4, <1>5 DEF Becomes, Moves
  <1> QED BY <1>1, <1>6 DEF old

LEMMA TickMoves ==
  ASSUME TypeOK, NEW t \in Tasks, NEW r \in Runtimes, Tick(t, r)
  PROVE  /\ runtime[r].timers # {}
         /\ \/ Moves(t, "check", r, task[t].calls)
            \/ Moves(t, "qrcode", r, task[t].calls)
  <1> DEFINE old == task[t]
             new(at) == [old EXCEPT !.at = at, !.of = r]
  <1>1. old \in Task
    BY DEF TypeOK
  <1>2. task' = [task EXCEPT ![t] = new("check")] \/ task' = [task EXCEPT ![t] = new("qrcode")]
    BY DEF Tick
  <1> HIDE DEF old
  <1>3. ASSUME NEW at \in {"check", "qrcode"}
        PROVE  new(at) \in Task /\ new(at).at = at /\ new(at).of = r /\ new(at).calls = old.calls
    BY <1>1 DEF Task, Awaits
  <1> HIDE DEF new
  <1>4. Becomes(t, new("check")) \/ Becomes(t, new("qrcode"))
    BY <1>2, <1>3, OneBecomes
  <1>5. Moves(t, "check", r, old.calls) \/ Moves(t, "qrcode", r, old.calls)
    BY <1>3, <1>4 DEF Becomes, Moves
  <1>6. runtime[r].timers # {}
    BY DEF Tick
  <1> QED BY <1>5, <1>6 DEF old

LEMMA CheckMoves ==
  ASSUME TypeOK, NEW t \in Tasks, Check(t)
  PROVE  Moves(t, "checked", task[t].of, task[t].calls)
  <1>1. PICK answer \in Heard : task' = [task EXCEPT ![t].at = "checked", ![t].heard = answer]
    BY DEF Check
  <1>2. answer \in Phones
    BY DEF Heard, Phones, TypeOK
  <1> DEFINE old == task[t]
             new == [old EXCEPT !.at = "checked", !.heard = answer]
  <1>3. old \in Task
    BY DEF TypeOK
  <1>4. task' = [task EXCEPT ![t] = new]
    BY <1>1
  <1> HIDE DEF old
  <1>5. new \in Task /\ new.at = "checked" /\ new.of = old.of /\ new.calls = old.calls
    BY <1>2, <1>3 DEF Task, Awaits
  <1> HIDE DEF new
  <1>6. Becomes(t, new)
    BY <1>4, <1>5, OneBecomes
  <1> QED BY <1>5, <1>6 DEF Becomes, Moves, old

LEMMA LeaveSessionMoves ==
  ASSUME TypeOK, NEW t \in Tasks, LeaveSession(t)
  PROVE  Moves(t, IF mapped = Nil THEN "write" ELSE "close", mapped, task[t].calls)
  <1> DEFINE old == task[t]
             at == IF mapped = Nil THEN "write" ELSE "close"
             new == [old EXCEPT !.saw = row, !.of = mapped, !.at = at]
  <1>1. old \in Task /\ row \in Row /\ mapped \in Runtimes \cup {Nil} /\ at \in Awaits
    BY DEF TypeOK, Awaits
  <1>2. task' = [task EXCEPT ![t] = new]
    BY DEF LeaveSession
  <1> HIDE DEF old, at
  <1>3. new \in Task /\ new.at = at /\ new.of = mapped /\ new.calls = old.calls
    BY <1>1 DEF Task
  <1> HIDE DEF new
  <1>4. Becomes(t, new)
    BY <1>2, <1>3, OneBecomes
  <1> QED BY <1>3, <1>4 DEF Becomes, Moves, old, at

--------------------------------------------------------------------------------
(* Types, and what each task holds.                                               *)

HoldInv == TypeOK /\ TasksHold

LEMMA InitHold == Init => HoldInv
  <1> SUFFICES ASSUME Init PROVE HoldInv
    OBVIOUS
  <1>1. task \in [Tasks -> Task] /\ \A t \in Tasks : task[t] = Free
    BY FreeFacts DEF Init
  <1>2. runtime \in [Runtimes -> Runtime]
    BY DEF Init, Runtime, NewRuntime
  <1>3. /\ row \in Row /\ mapped = Nil /\ phone \in Phones
        /\ orphaned \subseteq Runtimes /\ disturbed \in BOOLEAN
    BY BlankType DEF Init, Phones
  <1>5. restarts \in 0..MaxRestarts
    BY WppAssumption DEF Init, WppAssumption
  <1>4. TasksHold
    BY <1>1, FreeFacts DEF TasksHold, Held
  <1> QED BY <1>1, <1>2, <1>3, <1>4, <1>5 DEF HoldInv, TypeOK

\* The rest of a step keeps the types, and the tasks that do not move hold what they held.
LEMMA HoldFrame ==
  ASSUME HoldInv, NEW t \in Tasks, NEW at, NEW of, NEW calls, Moves(t, at, of, calls),
         Held(task'[t]),
         row' \in Row, mapped' \in Runtimes \cup {Nil}, runtime' \in [Runtimes -> Runtime],
         phone' \in Phones, restarts' = restarts, orphaned' \subseteq Runtimes,
         disturbed' \in BOOLEAN
  PROVE  HoldInv'
  <1>1. TypeOK'
    BY DEF HoldInv, TypeOK, Moves
  <1>2. TasksHold'
    BY DEF HoldInv, TasksHold, Moves
  <1> QED BY <1>1, <1>2 DEF HoldInv

LEMMA SameRest ==
  ASSUME HoldInv
  PROVE  /\ row \in Row /\ mapped \in Runtimes \cup {Nil} /\ runtime \in [Runtimes -> Runtime]
         /\ phone \in Phones /\ orphaned \subseteq Runtimes /\ disturbed \in BOOLEAN
         /\ \A t \in Tasks : task[t] \in Task /\ Held(task[t])
         /\ \A t \in Tasks : task[t].of \in Runtimes \cup {Nil}
  BY DEF HoldInv, TypeOK, TasksHold, Task

LEMMA UpdatedType ==
  ASSUME NEW saw \in Row, NEW callback \in Callbacks
  PROVE  /\ Updated(saw, callback) \in Row
         /\ Updated(saw, callback).status =
              CASE callback = "onQr" -> "qr_ready" [] callback = "onAuthenticated" -> "syncing"
                [] callback = "onReady" -> "active" [] OTHER -> "error"
         /\ callback = "onReady" => ~Updated(saw, callback).qr
  <1>1. CASE callback = "onQr"
    BY <1>1 DEF Updated, Row, Status
  <1>2. CASE callback = "onAuthenticated"
    BY <1>2 DEF Updated, Row, Status
  <1>3. CASE callback = "onReady"
    BY <1>3 DEF Updated, Row, Status
  <1>4. CASE callback \notin {"onQr", "onAuthenticated", "onReady"}
    BY <1>4 DEF Updated, Row, Status
  <1> QED BY <1>1, <1>2, <1>3, <1>4

LEMMA RuntimeTypes ==
  ASSUME NEW x \in Runtime, NEW timers \in SUBSET Timers
  PROVE  /\ [x EXCEPT !.timers = timers] \in Runtime
         /\ [x EXCEPT !.timers = timers].ready = x.ready
         /\ [x EXCEPT !.timers = timers].timers = timers
         /\ [x EXCEPT !.authenticated = TRUE] \in Runtime
         /\ [x EXCEPT !.authenticated = TRUE].ready = x.ready
         /\ [x EXCEPT !.authenticated = TRUE].timers = x.timers
         /\ NewRuntime \in Runtime /\ ~NewRuntime.ready /\ NewRuntime.timers = {}
  <1>1. /\ [x EXCEPT !.timers = timers] \in Runtime
        /\ [x EXCEPT !.timers = timers].ready = x.ready
        /\ [x EXCEPT !.timers = timers].timers = timers
    BY DEF Runtime
  <1>2. /\ [x EXCEPT !.authenticated = TRUE] \in Runtime
        /\ [x EXCEPT !.authenticated = TRUE].ready = x.ready
        /\ [x EXCEPT !.authenticated = TRUE].timers = x.timers
    BY DEF Runtime
  <1>3. NewRuntime \in Runtime /\ ~NewRuntime.ready /\ NewRuntime.timers = {}
    BY DEF Runtime, NewRuntime
  <1> QED BY <1>1, <1>2, <1>3

\* What the steps do to the runtimes: one ends its intervals,
LEMMA StopFacts ==
  ASSUME HoldInv, StopPolling
  PROVE  /\ runtime' \in [Runtimes -> Runtime]
         /\ \A r \in Runtimes : /\ runtime'[r].ready = runtime[r].ready
                                /\ runtime'[r].timers = IF r = mapped THEN {} ELSE runtime[r].timers
  <1>1. \A r \in Runtimes : runtime[r] \in Runtime
    BY DEF HoldInv, TypeOK
  <1>2. \A r \in Runtimes :
          /\ [runtime[r] EXCEPT !.timers = {}] \in Runtime
          /\ [runtime[r] EXCEPT !.timers = {}].ready = runtime[r].ready
          /\ [runtime[r] EXCEPT !.timers = {}].timers = {}
    BY <1>1, RuntimeTypes
  <1> QED BY <1>1, <1>2 DEF StopPolling

\* one begins them,
LEMMA PollFacts ==
  ASSUME HoldInv, NEW t \in Tasks, Poll(t)
  PROVE  /\ runtime' \in [Runtimes -> Runtime] /\ task[t].of \in Runtimes
         /\ \A r \in Runtimes :
              /\ runtime'[r].ready = runtime[r].ready
              /\ runtime'[r].timers = IF r = task[t].of THEN Timers ELSE runtime[r].timers
  <1> DEFINE r == task[t].of
             old == runtime[r]
             new == [old EXCEPT !.timers = Timers]
  <1>1. r \in Runtimes /\ runtime \in [Runtimes -> Runtime] /\ old \in Runtime
    BY SameRest DEF Poll, Held
  <1>2. runtime' = [runtime EXCEPT ![r] = new]
    BY DEF Poll
  <1> HIDE DEF old
  <1>3. new \in Runtime /\ new.ready = old.ready /\ new.timers = Timers
    BY <1>1 DEF Runtime
  <1> HIDE DEF new
  <1> QED BY <1>1, <1>2, <1>3 DEF old

\* one is known to be authenticated,
LEMMA AuthenticatesFacts ==
  ASSUME HoldInv, NEW t \in Tasks, Authenticates(t)
  PROVE  /\ runtime' \in [Runtimes -> Runtime]
         /\ \A r \in Runtimes : /\ runtime'[r].ready = runtime[r].ready
                                /\ runtime'[r].timers = runtime[r].timers
  <1> DEFINE r == task[t].of
             new == [runtime[r] EXCEPT !.authenticated = TRUE]
  <1>1. r \in Runtimes /\ runtime \in [Runtimes -> Runtime]
    BY SameRest DEF Authenticates, Held
  <1>2. runtime' = [runtime EXCEPT ![r] = new]
    BY DEF Authenticates
  <1>3. new \in Runtime /\ new.ready = runtime[r].ready /\ new.timers = runtime[r].timers
    BY <1>1, RuntimeTypes
  <1> HIDE DEF new
  <1> QED BY <1>1, <1>2, <1>3

\* and one becomes ready.
LEMMA ReadiesFacts ==
  ASSUME HoldInv, NEW t \in Tasks, Readies(t)
  PROVE  /\ runtime' \in [Runtimes -> Runtime] /\ task[t].of \in Runtimes
         /\ ~runtime[task[t].of].ready
         /\ \A r \in Runtimes :
              /\ runtime'[r].ready <=> (runtime[r].ready \/ r = task[t].of)
              /\ runtime'[r].timers
                   = IF r = task[t].of THEN runtime[r].timers \ {"qr"} ELSE runtime[r].timers
  <1> DEFINE r == task[t].of
             old == runtime[r]
             new == [old EXCEPT !.ready = TRUE, !.timers = old.timers \ {"qr"}]
  <1>1. r \in Runtimes /\ runtime \in [Runtimes -> Runtime] /\ old \in Runtime /\ ~old.ready
    BY SameRest DEF Readies, Held
  <1>2. runtime' = [runtime EXCEPT ![r] = new]
    BY DEF Readies
  <1> HIDE DEF old
  <1>3. new \in Runtime /\ new.ready /\ new.timers = old.timers \ {"qr"}
    BY <1>1 DEF Runtime
  <1> HIDE DEF new
  <1>4. old = runtime[r]
    BY DEF old
  <1> QED BY <1>1, <1>2, <1>3, <1>4

\* Steps that touch neither the row nor the engine.
LEMMA WalkingHold ==
  ASSUME HoldInv, NEW t \in Tasks,
         \/ Read(t) \/ Connect(t) \/ Disconnect(t) \/ Enter(t) \/ Look(t) \/ End(t)
         \/ Check(t) \/ Refused(t) \/ Unchanging(t) \/ QrCode(t) \/ Scanned(t) \/ LeaveSession(t)
         \/ \E r \in Runtimes : Tick(t, r)
  PROVE  HoldInv'
  <1>1. UNCHANGED <<row, mapped, runtime, phone, restarts, orphaned, disturbed>>
    BY DEF Read, Connect, Disconnect, Enter, Look, End, Check, Refused, Unchanging, QrCode, Scanned,
           LeaveSession, Tick
  <1>2. TypeOK /\ Held(task[t])
    BY DEF HoldInv, TasksHold
  <1>3. \E at, of, calls : Moves(t, at, of, calls) /\ Held(task'[t])
    <2>1. CASE Read(t)
      BY <1>2, <2>1, ReadMoves DEF Read, Moves, Held
    <2>2. CASE Connect(t) \/ Disconnect(t)
      <3>1. Moves(t, "enter", task[t].of, task[t].calls) \/ Moves(t, "leave", task[t].of, task[t].calls)
        BY <1>2, <2>2, GoesMoves DEF Connect, Disconnect, Awaits
      <3>2. task[t].at = "free"
        BY <2>2 DEF Connect, Disconnect
      <3> QED BY <1>2, <3>1, <3>2 DEF Moves, Held
    <2>3. CASE Enter(t)
      BY <1>2, <2>3, EnterMoves DEF Enter, Moves, Held
    <2>4. CASE Look(t)
      <3>1. Moves(t, "free", Nil, Nil) \/ Moves(t, "token", task[t].of, task[t].calls)
        BY <1>2, <2>4, EndsMoves, GoesMoves DEF Look, Awaits
      <3> QED BY <1>2, <2>4, <3>1 DEF Look, Moves, Held
    <2>5. CASE End(t)
      BY <1>2, <2>5, EndsMoves DEF End, Moves, Held
    <2>6. CASE Check(t)
      BY <1>2, <2>6, CheckMoves DEF Check, Moves, Held
    <2>7. CASE Refused(t)
      <3>1. Moves(t, "read", task[t].of, "onAuthFailure") /\ task'[t].then = "give up"
        BY <1>2, <2>7, CallsMoves DEF Refused, Awaits, Callbacks
      <3> QED BY <1>2, <2>7, <3>1, WppAssumption DEF Refused, Moves, Held, WppAssumption, Callbacks
    <2>8. CASE Unchanging(t)
      <3>1. AfterSync(t) \in {"qrcode", "end"}
        BY DEF AfterSync
      <3>2. Moves(t, AfterSync(t), task[t].of, task[t].calls)
        BY <1>2, <2>8, <3>1, GoesMoves DEF Unchanging, Awaits
      <3> QED BY <1>2, <2>8, <3>1, <3>2 DEF Unchanging, Moves, Held
    <2>9. CASE QrCode(t)
      <3>1. \/ Moves(t, "scanned", task[t].of, task[t].calls)
            \/ Moves(t, "end", task[t].of, task[t].calls)
        BY <1>2, <2>9, GoesMoves DEF QrCode, Awaits
      <3> QED BY <1>2, <2>9, <3>1 DEF QrCode, Moves, Held
    <2>10. CASE Scanned(t)
      <3>1. Moves(t, "read", task[t].of, "onQr") /\ task'[t].then = "end"
        BY <1>2, <2>10, CallsMoves DEF Scanned, Awaits, Callbacks
      <3> QED BY <1>2, <2>10, <3>1, WppAssumption DEF Scanned, Moves, Held, WppAssumption, Callbacks
    <2>11. CASE LeaveSession(t)
      <3>1. \E at \in {"write", "close"} : Moves(t, at, mapped, task[t].calls)
        BY <1>2, <2>11, LeaveSessionMoves
      <3> QED BY <1>2, <2>11, <3>1 DEF LeaveSession, Moves, Held
    <2>12. ASSUME NEW r \in Runtimes, Tick(t, r)
           PROVE  \E at, of, calls : Moves(t, at, of, calls) /\ Held(task'[t])
      <3>1. r # Nil /\ task[t].at = "free"
        BY <2>12, WppAssumption DEF Tick, WppAssumption
      <3> QED BY <1>2, <2>12, <3>1, TickMoves DEF Moves, Held
    <2> QED BY <2>1, <2>2, <2>3, <2>4, <2>5, <2>6, <2>7, <2>8, <2>9, <2>10, <2>11, <2>12
  <1> QED BY <1>1, <1>3, SameRest, HoldFrame

LEMMA SaveHold == ASSUME HoldInv, NEW t \in Tasks, Save(t) PROVE HoldInv'
  <1>1. /\ task[t] \in Task /\ Held(task[t]) /\ task[t].at = "save" /\ task[t].calls \in Callbacks
        /\ task[t].saw \in Row
    BY SameRest DEF Save, Held, Task
  <1>2. Moves(t, task[t].then, task[t].of, Nil)
    BY SaveMoves DEF HoldInv
  <1>3. Held(task'[t])
    BY <1>1, <1>2 DEF Moves, Held
  <1>4. row' \in Row
    BY <1>1, UpdatedType DEF Save
  <1>5. disturbed' \in BOOLEAN /\ UNCHANGED <<mapped, runtime, phone, restarts, orphaned>>
    BY SameRest DEF Save
  <1> QED BY <1>2, <1>3, <1>4, <1>5, SameRest, HoldFrame

LEMMA InitializeHold == ASSUME HoldInv, NEW t \in Tasks, Initialize(t) PROVE HoldInv'
  <1>1. task[t] \in Task /\ Held(task[t]) /\ task[t].at = "initialize" /\ task[t].saw \in Row
    BY SameRest DEF Initialize, Task
  <1>2. Moves(t, "look", task[t].of, task[t].calls)
    BY InitializeMoves DEF HoldInv
  <1>3. Held(task'[t])
    BY <1>1, <1>2 DEF Moves, Held
  <1>4. row' \in Row /\ row'.status = "initializing"
    BY <1>1 DEF Initialize, Row, Status
  <1>5. disturbed' \in BOOLEAN /\ UNCHANGED <<mapped, runtime, phone, restarts, orphaned>>
    BY SameRest DEF Initialize
  <1> QED BY <1>2, <1>3, <1>4, <1>5, SameRest, HoldFrame

LEMMA TokenHold == ASSUME HoldInv, NEW t \in Tasks, Token(t) \/ NoToken(t) PROVE HoldInv'
  <1>1. CASE Token(t)
    <2>1. PICK r \in Runtimes :
            /\ mapped' = r /\ runtime' = [runtime EXCEPT ![r] = NewRuntime]
            /\ Moves(t, "start", r, task[t].calls)
      BY <1>1, TokenMoves DEF HoldInv
    <2>2. Held(task'[t])
      BY <1>1, <2>1, SameRest, WppAssumption DEF Token, Moves, Held, WppAssumption
    <2>3. runtime' \in [Runtimes -> Runtime]
      BY <2>1, SameRest, RuntimeTypes DEF Runtime, NewRuntime
    <2>4. disturbed' \in BOOLEAN /\ orphaned' \subseteq Runtimes /\ UNCHANGED <<row, phone, restarts>>
      BY <1>1, SameRest DEF Token
    <2> QED BY <2>1, <2>2, <2>3, <2>4, SameRest, HoldFrame
  <1>2. CASE NoToken(t)
    <2>1. Moves(t, "free", Nil, Nil)
      BY <1>2, EndsMoves DEF NoToken, HoldInv
    <2>2. Held(task'[t])
      BY <2>1 DEF Moves, Held
    <2>3. disturbed' \in BOOLEAN /\ UNCHANGED <<row, mapped, runtime, phone, restarts, orphaned>>
      BY <1>2 DEF NoToken
    <2> QED BY <2>1, <2>2, <2>3, SameRest, HoldFrame
  <1> QED BY <1>1, <1>2

LEMMA StartHold == ASSUME HoldInv, NEW t \in Tasks, Start(t) \/ StartFails(t) PROVE HoldInv'
  <1>1. task[t].at = "start" /\ Held(task[t]) /\ TypeOK
    BY SameRest DEF Start, StartFails, HoldInv
  <1>2. CASE Start(t)
    <2>1. Calls(t, "onQr", "poll") \/ Goes(t, "poll")
      BY <1>2 DEF Start
    <2>2. \/ Moves(t, "read", task[t].of, "onQr") /\ task'[t].then = "poll"
          \/ Moves(t, "poll", task[t].of, task[t].calls)
      BY <1>1, <2>1, CallsMoves, GoesMoves DEF Awaits, Callbacks
    <2>3. Held(task'[t])
      BY <1>1, <2>2, WppAssumption DEF Moves, Held, WppAssumption, Callbacks
    <2>4. phone' \in Phones /\ UNCHANGED <<row, mapped, runtime, restarts, orphaned, disturbed>>
      BY <1>2, SameRest DEF Start, Phones
    <2> QED BY <2>2, <2>3, <2>4, SameRest, HoldFrame
  <1>3. CASE StartFails(t)
    <2>1. Moves(t, "read", task[t].of, "onInitError") /\ task'[t].then = "end"
      BY <1>1, <1>3, CallsMoves DEF StartFails, Awaits, Callbacks
    <2>2. Held(task'[t])
      BY <1>1, <2>1, WppAssumption DEF Moves, Held, WppAssumption, Callbacks
    <2>3. mapped' = Nil /\ disturbed' \in BOOLEAN /\ UNCHANGED <<row, phone, restarts, orphaned>>
      BY <1>3, SameRest DEF StartFails
    <2>4. runtime' \in [Runtimes -> Runtime]
      BY <1>3, StopFacts DEF StartFails
    <2> QED BY <2>1, <2>2, <2>3, <2>4, SameRest, HoldFrame
  <1> QED BY <1>2, <1>3

LEMMA PollHold == ASSUME HoldInv, NEW t \in Tasks, Poll(t) PROVE HoldInv'
  <1>1. task[t].at = "poll" /\ Held(task[t]) /\ TypeOK
    BY SameRest DEF Poll, HoldInv
  <1>2. Moves(t, "check", task[t].of, task[t].calls)
    BY <1>1, GoesMoves DEF Poll, Awaits
  <1>3. Held(task'[t])
    BY <1>1, <1>2 DEF Moves, Held
  <1>4. runtime' \in [Runtimes -> Runtime] /\ task[t].of \in Runtimes
    BY PollFacts
  <1>5. orphaned' \subseteq Runtimes /\ UNCHANGED <<row, mapped, phone, restarts, disturbed>>
    BY <1>4, SameRest DEF Poll
  <1> QED BY <1>2, <1>3, <1>4, <1>5, SameRest, HoldFrame

LEMMA CheckedHold ==
  ASSUME HoldInv, NEW t \in Tasks, Authenticates(t) \/ Readies(t)
  PROVE  HoldInv'
  <1>1. /\ task[t].at \in {"checked", "authenticated"} /\ Held(task[t]) /\ TypeOK
        /\ UNCHANGED <<row, mapped, phone, restarts, orphaned, disturbed>>
    BY SameRest DEF Authenticates, Readies, HoldInv
  <1>2. \/ Moves(t, "read", task[t].of, "onAuthenticated") /\ task'[t].then = "authenticated"
        \/ Moves(t, "read", task[t].of, "onReady") /\ task'[t].then = "end"
    BY <1>1, CallsMoves DEF Authenticates, Readies, Awaits, Callbacks
  <1>3. Held(task'[t])
    BY <1>1, <1>2, WppAssumption DEF Moves, Held, WppAssumption, Callbacks
  <1>4. runtime' \in [Runtimes -> Runtime]
    BY AuthenticatesFacts, ReadiesFacts
  <1> QED BY <1>1, <1>2, <1>3, <1>4, SameRest, HoldFrame

LEMMA DroppingHold ==
  ASSUME HoldInv, NEW t \in Tasks, GiveUp(t) \/ Close(t)
  PROVE  HoldInv'
  <1>1. task[t].at \in {"give up", "close"} /\ Held(task[t]) /\ TypeOK
    BY SameRest DEF GiveUp, Close, HoldInv
  <1>2. AfterSync(t) \in {"qrcode", "end"}
    BY DEF AfterSync
  <1>3. \/ task[t].at = "give up" /\ \E at \in {"qrcode", "end"} : Goes(t, at)
        \/ task[t].at = "close" /\ Goes(t, "write")
    BY <1>2 DEF GiveUp, Close
  <1>4. \/ task[t].at = "give up" /\ \E at \in {"qrcode", "end"} : Moves(t, at, task[t].of, task[t].calls)
        \/ task[t].at = "close" /\ Moves(t, "write", task[t].of, task[t].calls)
    BY <1>1, <1>3, GoesMoves DEF Awaits
  <1>5. Held(task'[t])
    BY <1>1, <1>4 DEF Moves, Held
  <1>6. runtime' \in [Runtimes -> Runtime]
    BY StopFacts DEF GiveUp, Close
  <1>7. /\ mapped' = Nil /\ phone' \in Phones /\ disturbed' \in BOOLEAN
        /\ UNCHANGED <<row, restarts, orphaned>>
    BY SameRest DEF GiveUp, Close, Phones
  <1> QED BY <1>4, <1>5, <1>6, <1>7, SameRest, HoldFrame

LEMMA WriteHold == ASSUME HoldInv, NEW t \in Tasks, Write(t) PROVE HoldInv'
  <1>1. task[t].saw \in Row
    BY SameRest DEF Task
  <1>2. Moves(t, "free", Nil, Nil)
    BY EndsMoves DEF Write, HoldInv
  <1>3. Held(task'[t])
    BY <1>2 DEF Moves, Held
  <1>4. row' \in Row /\ row'.status = "disconnected" /\ ~row'.qr
    BY <1>1 DEF Write, Row, Status
  <1>5. disturbed' \in BOOLEAN /\ UNCHANGED <<mapped, runtime, phone, restarts, orphaned>>
    BY SameRest DEF Write
  <1> QED BY <1>2, <1>3, <1>4, <1>5, SameRest, HoldFrame

LEMMA RestartFacts ==
  ASSUME HoldInv, Restart
  PROVE  /\ HoldInv' /\ mapped' = Nil /\ row'.status = "disconnected" /\ ~row'.qr
         /\ \A r \in Runtimes : ~runtime'[r].ready /\ runtime'[r].timers = {}
         /\ \A t \in Tasks : /\ task'[t].at \in {"free", "enter"}
                             /\ task'[t].of = Nil /\ task'[t].calls = Nil
  <1>1. PICK t \in Tasks :
          task' = [u \in Tasks |-> IF u = t THEN [Free EXCEPT !.at = "enter"] ELSE Free]
    BY DEF Restart
  <1>2. /\ task' \in [Tasks -> Task]
        /\ \A u \in Tasks : /\ task'[u].at \in {"free", "enter"}
                            /\ task'[u].of = Nil /\ task'[u].calls = Nil
    BY <1>1, FreeFacts
  <1>3. TasksHold'
    BY <1>2 DEF TasksHold, Held
  <1>4. row' \in Row /\ row'.status = "disconnected" /\ ~row'.qr
    BY DEF Restart, Row, Status
  <1>5. /\ runtime' \in [Runtimes -> Runtime]
        /\ \A r \in Runtimes : ~runtime'[r].ready /\ runtime'[r].timers = {}
    BY DEF Restart, NewRuntime, Runtime
  <1>6. restarts' \in 0..MaxRestarts
    BY WppAssumption DEF Restart, HoldInv, TypeOK, WppAssumption
  <1>7. mapped' = Nil /\ orphaned' = {} /\ disturbed' = FALSE /\ phone' = phone
    BY DEF Restart
  <1>8. TypeOK'
    BY <1>2, <1>4, <1>5, <1>6, <1>7, SameRest DEF TypeOK
  <1> QED BY <1>2, <1>3, <1>4, <1>5, <1>7, <1>8 DEF HoldInv

LEMMA PhoneHold == ASSUME HoldInv, Pairs \/ Refuses \/ UNCHANGED vars PROVE HoldInv'
  <1>1. UNCHANGED <<row, mapped, runtime, task, restarts, orphaned, disturbed>>
    BY DEF Pairs, Refuses, vars
  <1>2. phone' \in Phones
    BY SameRest DEF Pairs, Refuses, vars, Phones
  <1>3. TypeOK'
    BY <1>1, <1>2 DEF HoldInv, TypeOK
  <1>4. TasksHold'
    BY <1>1 DEF HoldInv, TasksHold
  <1> QED BY <1>3, <1>4 DEF HoldInv

LEMMA NextHold == HoldInv /\ [Next]_vars => HoldInv'
  <1> SUFFICES ASSUME HoldInv, [Next]_vars PROVE HoldInv'
    OBVIOUS
  <1>1. ASSUME NEW t \in Tasks,
               \/ Connect(t) \/ Disconnect(t) \/ \E r \in Runtimes : Tick(t, r)
               \/ Steps(t) \/ NoToken(t) \/ StartFails(t)
        PROVE  HoldInv'
    BY <1>1, WalkingHold, SaveHold, InitializeHold, TokenHold, StartHold, PollHold, CheckedHold,
       DroppingHold, WriteHold DEF Steps
  <1> QED BY <1>1, RestartFacts, PhoneHold DEF Next

\* Every variable of the session keeps its type, and no call of its callbacks is made without
\* a runtime.
THEOREM SessionTypes == Spec => []TypeOK
  <1>1. HoldInv => TypeOK
    BY DEF HoldInv
  <1> QED BY <1>1, InitHold, NextHold, PTL DEF Spec

--------------------------------------------------------------------------------
(* The engine: who knows a runtime, and who says it is ready.                     *)

EngineInv == HoldInv /\ StartsAlone /\ ReadyWord /\ CodeAsked /\ PollingIsOwned

LEMMA InitEngine == Init => EngineInv
  <1> SUFFICES ASSUME Init PROVE EngineInv
    OBVIOUS
  <1>1. HoldInv
    BY InitHold
  <1>2. \A t \in Tasks : task[t].at = "free" /\ task[t].calls = Nil
    BY FreeFacts DEF Init
  <1>3. \A r \in Runtimes : ~runtime[r].ready /\ runtime[r].timers = {}
    BY DEF Init, NewRuntime
  <1>4. StartsAlone
    BY <1>2 DEF StartsAlone, Starts
  <1>5. ReadyWord
    BY <1>2, WppAssumption DEF ReadyWord, WppAssumption, Callbacks
  <1>6. CodeAsked /\ PollingIsOwned
    BY <1>3 DEF CodeAsked, PollingIsOwned
  <1> QED BY <1>1, <1>4, <1>5, <1>6 DEF EngineInv

LEMMA EngineFacts ==
  ASSUME EngineInv
  PROVE  /\ HoldInv /\ TypeOK /\ StartsAlone /\ ReadyWord /\ CodeAsked /\ PollingIsOwned
         /\ \A t \in Tasks : Held(task[t]) /\ (Starts(task[t]) => task[t].of # Nil)
  <1>1. HoldInv /\ TypeOK /\ StartsAlone /\ ReadyWord /\ CodeAsked /\ PollingIsOwned
    BY DEF EngineInv, HoldInv
  <1>2. \A t \in Tasks : Held(task[t])
    BY <1>1, SameRest
  <1>3. \A t \in Tasks : Starts(task[t]) => task[t].of # Nil
    BY <1>2 DEF Held, Starts
  <1> QED BY <1>1, <1>2, <1>3

\* A task that begins nothing new: it may leave its runtime, or take one that polls or one
\* to close.
Follows(t) ==
  /\ Starts(task'[t]) => Starts(task[t]) /\ task'[t].of = task[t].of
  /\ task'[t].calls = "onReady" => task[t].calls = "onReady" /\ task'[t].of = task[t].of
  /\ \/ task'[t].of = Nil
     \/ task'[t].at \in {"close", "write"}
     \/ task'[t].of = task[t].of /\ task[t].at \notin {"close", "write"}
     \/ task'[t].of \in Runtimes /\ runtime[task'[t].of].timers # {}

\* No runtime begins to poll or becomes ready.
Calms ==
  \A r \in Runtimes : /\ runtime'[r].ready = runtime[r].ready
                      /\ runtime'[r].timers \subseteq runtime[r].timers

LEMMA FollowingKeepsAlone ==
  ASSUME EngineInv, NEW t \in Tasks, NEW at, NEW of, NEW calls, Moves(t, at, of, calls), Follows(t),
         HoldInv', Calms
  PROVE  StartsAlone'
  <1> SUFFICES ASSUME NEW u \in Tasks, Starts(task'[u])
               PROVE  /\ runtime'[task'[u].of].timers = {} /\ ~runtime'[task'[u].of].ready
                      /\ \A w \in Tasks \ {u} :
                           task'[w].of = task'[u].of => task'[w].at \in {"close", "write"}
    BY DEF StartsAlone, Starts
  <1>1. Starts(task[u]) /\ task'[u].of = task[u].of
    BY DEF Moves, Follows
  <1>2. /\ runtime[task[u].of].timers = {} /\ ~runtime[task[u].of].ready
        /\ \A w \in Tasks \ {u} : task[w].of = task[u].of => task[w].at \in {"close", "write"}
    BY <1>1, EngineFacts DEF StartsAlone
  <1>3. task[u].of \in Runtimes
    BY <1>1, EngineFacts, SameRest
  <1>4. runtime'[task'[u].of].timers = {} /\ ~runtime'[task'[u].of].ready
    BY <1>1, <1>2, <1>3 DEF Calms
  <1>5. ASSUME NEW w \in Tasks \ {u}, task'[w].of = task'[u].of
        PROVE  task'[w].at \in {"close", "write"}
    <2>1. CASE w # t
      BY <1>1, <1>2, <1>5, <2>1 DEF Moves
    <2>2. CASE w = t
      <3>1. task'[t].of # Nil /\ task'[t].of = task[u].of
        BY <1>1, <1>3, <1>5, <2>2, WppAssumption DEF WppAssumption
      <3>2. runtime[task'[t].of].timers = {}
        BY <1>2, <3>1
      <3>3. task'[t].of = task[t].of => task[t].at \in {"close", "write"}
        BY <1>2, <1>5, <2>2, <3>1
      <3> QED BY <2>2, <3>1, <3>2, <3>3 DEF Follows
    <2> QED BY <2>1, <2>2
  <1> QED BY <1>4, <1>5

LEMMA FollowingKeepsEngine ==
  ASSUME EngineInv, NEW t \in Tasks, NEW at, NEW of, NEW calls, Moves(t, at, of, calls), Follows(t),
         HoldInv', Calms,
         \A r \in Runtimes : runtime'[r].timers # {} => (mapped' = r \/ r \in orphaned')
  PROVE  EngineInv'
  <1>1. StartsAlone'
    BY FollowingKeepsAlone
  <1>2. \A u \in Tasks :
          task'[u].calls = "onReady" => task[u].calls = "onReady" /\ task'[u].of = task[u].of
    BY DEF Follows, Moves
  <1>3. \A u \in Tasks : task[u].calls = "onReady" => task[u].of \in Runtimes
    BY EngineFacts, SameRest, WppAssumption DEF Held, WppAssumption, Callbacks
  <1>4. ReadyWord'
    <2>1. ReadyWord
      BY EngineFacts
    <2>2. \A u \in Tasks : task'[u].calls = "onReady" => runtime'[task'[u].of].ready
      BY <1>2, <1>3, <2>1 DEF ReadyWord, Calms
    <2>3. \A u, w \in Tasks :
            task'[u].calls = "onReady" /\ task'[w].calls = "onReady" /\ task'[u].of = task'[w].of => u = w
      BY <1>2, <2>1 DEF ReadyWord
    <2> QED BY <2>2, <2>3 DEF ReadyWord
  <1>5. CodeAsked'
    BY EngineFacts DEF CodeAsked, Calms
  <1>6. PollingIsOwned'
    BY DEF PollingIsOwned
  <1> QED BY <1>1, <1>4, <1>5, <1>6 DEF EngineInv

LEMMA WalkingFollows ==
  ASSUME EngineInv, NEW t \in Tasks,
         \/ Read(t) \/ Connect(t) \/ Disconnect(t) \/ Enter(t) \/ Look(t) \/ End(t)
         \/ Check(t) \/ Refused(t) \/ Unchanging(t) \/ QrCode(t) \/ Scanned(t) \/ LeaveSession(t)
         \/ Save(t) \/ Initialize(t) \/ NoToken(t) \/ Start(t) \/ Write(t)
         \/ \E r \in Runtimes : Tick(t, r)
  PROVE  Follows(t) /\ \E at, of, calls : Moves(t, at, of, calls)
  <1>1. TypeOK /\ Held(task[t])
    BY EngineFacts
  <1>2. CASE Read(t)
    <2>1. Moves(t, "save", task[t].of, task[t].calls) /\ task'[t].then = task[t].then /\ task[t].at = "read"
      BY <1>1, <1>2, ReadMoves DEF Read
    <2> QED BY <2>1 DEF Moves, Follows, Starts
  <1>3. CASE Connect(t) \/ Disconnect(t)
    <2>1. Moves(t, "enter", task[t].of, task[t].calls) \/ Moves(t, "leave", task[t].of, task[t].calls)
      BY <1>1, <1>3, GoesMoves DEF Connect, Disconnect, Awaits
    <2>2. task[t].at = "free"
      BY <1>3 DEF Connect, Disconnect
    <2> QED BY <2>1, <2>2 DEF Moves, Follows, Starts
  <1>4. CASE Enter(t)
    <2>1. /\ task[t].at = "enter"
          /\ Moves(t, "free", Nil, Nil) \/ Moves(t, "initialize", task[t].of, task[t].calls)
      BY <1>1, <1>4, EnterMoves DEF Enter
    <2> QED BY <2>1, WppAssumption DEF Moves, Follows, Starts, WppAssumption, Callbacks
  <1>5. CASE Look(t)
    <2>1. /\ task[t].at = "look"
          /\ Moves(t, "free", Nil, Nil) \/ Moves(t, "token", task[t].of, task[t].calls)
      BY <1>1, <1>5, EndsMoves, GoesMoves DEF Look, Awaits
    <2> QED BY <2>1, WppAssumption DEF Moves, Follows, Starts, WppAssumption, Callbacks
  <1>6. CASE End(t) \/ NoToken(t) \/ Write(t)
    <2>1. Moves(t, "free", Nil, Nil)
      BY <1>1, <1>6, EndsMoves DEF End, NoToken, Write
    <2> QED BY <2>1, WppAssumption DEF Moves, Follows, Starts, WppAssumption, Callbacks
  <1>7. CASE Check(t)
    <2>1. Moves(t, "checked", task[t].of, task[t].calls) /\ task[t].at = "check"
      BY <1>1, <1>7, CheckMoves DEF Check
    <2> QED BY <2>1 DEF Moves, Follows, Starts
  <1>8. CASE Refused(t) \/ Scanned(t)
    <2>1. /\ task[t].at \in {"checked", "scanned"} /\ task'[t].then \in {"give up", "end"}
          /\ Moves(t, "read", task[t].of, "onAuthFailure") \/ Moves(t, "read", task[t].of, "onQr")
      BY <1>1, <1>8, CallsMoves DEF Refused, Scanned, Awaits, Callbacks
    <2> QED BY <2>1 DEF Moves, Follows, Starts
  <1>9. CASE Unchanging(t)
    <2>1. AfterSync(t) \in {"qrcode", "end"}
      BY DEF AfterSync
    <2>2. task[t].at \in {"check", "checked", "authenticated"}
      BY <1>9 DEF Unchanging
    <2>3. Moves(t, AfterSync(t), task[t].of, task[t].calls)
      BY <1>1, <1>9, <2>1, GoesMoves DEF Unchanging, Awaits
    <2> QED BY <2>1, <2>2, <2>3 DEF Moves, Follows, Starts
  <1>10. CASE QrCode(t)
    <2>1. \/ Moves(t, "scanned", task[t].of, task[t].calls)
          \/ Moves(t, "end", task[t].of, task[t].calls)
      BY <1>1, <1>10, GoesMoves DEF QrCode, Awaits
    <2>2. task[t].at = "qrcode"
      BY <1>10 DEF QrCode
    <2> QED BY <2>1, <2>2 DEF Moves, Follows, Starts
  <1>11. CASE LeaveSession(t)
    <2>1. \E at \in {"write", "close"} : Moves(t, at, mapped, task[t].calls)
      BY <1>1, <1>11, LeaveSessionMoves
    <2>2. task[t].calls = Nil
      BY <1>1, <1>11 DEF LeaveSession, Held
    <2> QED BY <2>1, <2>2, WppAssumption DEF Moves, Follows, Starts, WppAssumption, Callbacks
  <1>12. CASE Save(t)
    <2>1. Moves(t, task[t].then, task[t].of, Nil)
      BY <1>1, <1>12, SaveMoves
    <2>2. task[t].at = "save" /\ task[t].then \in {"authenticated", "poll", "give up", "end"}
      BY <1>1, <1>12 DEF Save, Held
    <2> QED BY <2>1, <2>2, WppAssumption DEF Moves, Follows, Starts, WppAssumption, Callbacks
  <1>13. CASE Initialize(t)
    <2>1. Moves(t, "look", task[t].of, task[t].calls) /\ task[t].at = "initialize"
      BY <1>1, <1>13, InitializeMoves DEF Initialize
    <2> QED BY <2>1 DEF Moves, Follows, Starts
  <1>14. CASE Start(t)
    <2>1. Calls(t, "onQr", "poll") \/ Goes(t, "poll")
      BY <1>14 DEF Start
    <2>2. \/ Moves(t, "read", task[t].of, "onQr")
          \/ Moves(t, "poll", task[t].of, task[t].calls)
      BY <1>1, <2>1, CallsMoves, GoesMoves DEF Awaits, Callbacks
    <2>3. task[t].at = "start"
      BY <1>14 DEF Start
    <2> QED BY <2>2, <2>3 DEF Moves, Follows, Starts
  <1>15. ASSUME NEW r \in Runtimes, Tick(t, r)
         PROVE  Follows(t) /\ \E at, of, calls : Moves(t, at, of, calls)
    <2>1. /\ runtime[r].timers # {}
          /\ Moves(t, "check", r, task[t].calls) \/ Moves(t, "qrcode", r, task[t].calls)
      BY <1>1, <1>15, TickMoves
    <2>2. task[t].calls = Nil
      BY <1>1, <1>15 DEF Tick, Held
    <2> QED BY <2>1, <2>2, WppAssumption DEF Moves, Follows, Starts, WppAssumption, Callbacks
  <1> QED BY <1>2, <1>3, <1>4, <1>5, <1>6, <1>7, <1>8, <1>9, <1>10, <1>11, <1>12, <1>13, <1>14, <1>15

LEMMA WalkingEngine ==
  ASSUME EngineInv, NEW t \in Tasks,
         \/ Read(t) \/ Connect(t) \/ Disconnect(t) \/ Enter(t) \/ Look(t) \/ End(t)
         \/ Check(t) \/ Refused(t) \/ Unchanging(t) \/ QrCode(t) \/ Scanned(t) \/ LeaveSession(t)
         \/ Save(t) \/ Initialize(t) \/ NoToken(t) \/ Start(t) \/ Write(t)
         \/ \E r \in Runtimes : Tick(t, r)
  PROVE  EngineInv'
  <1>1. UNCHANGED <<mapped, runtime, orphaned>>
    BY DEF Read, Connect, Disconnect, Enter, Look, End, Check, Refused, Unchanging, QrCode, Scanned,
           LeaveSession, Tick, Save, Initialize, NoToken, Start, Write
  <1>2. HoldInv'
    BY EngineFacts, WalkingHold, SaveHold, InitializeHold, TokenHold, StartHold, WriteHold
  <1>3. Calms /\ \A r \in Runtimes : runtime'[r].timers # {} => (mapped' = r \/ r \in orphaned')
    BY <1>1, EngineFacts DEF Calms, PollingIsOwned
  <1> QED BY <1>2, <1>3, WalkingFollows, FollowingKeepsEngine

\* The steps that drop the runtime of the map stop it first.
LEMMA DroppingEngine ==
  ASSUME EngineInv, NEW t \in Tasks, StartFails(t) \/ GiveUp(t) \/ Close(t)
  PROVE  EngineInv'
  <1>1. TypeOK /\ Held(task[t]) /\ HoldInv
    BY EngineFacts
  <1>2. StopPolling /\ mapped' = Nil /\ orphaned' = orphaned
    BY DEF StartFails, GiveUp, Close
  <1>3. \A r \in Runtimes : /\ runtime'[r].ready = runtime[r].ready
                            /\ runtime'[r].timers = IF r = mapped THEN {} ELSE runtime[r].timers
    BY <1>1, <1>2, StopFacts
  <1>4. Calms
    BY <1>3 DEF Calms
  <1>5. \A r \in Runtimes : runtime'[r].timers # {} => (mapped' = r \/ r \in orphaned')
    BY <1>2, <1>3, EngineFacts DEF PollingIsOwned
  <1>6. HoldInv'
    BY <1>1, StartHold, DroppingHold
  <1>7. Follows(t) /\ \E at, of, calls : Moves(t, at, of, calls)
    <2>1. CASE StartFails(t)
      <3>1. Moves(t, "read", task[t].of, "onInitError") /\ task'[t].then = "end" /\ task[t].at = "start"
        BY <1>1, <2>1, CallsMoves DEF StartFails, Awaits, Callbacks
      <3> QED BY <3>1 DEF Moves, Follows, Starts
    <2>2. CASE GiveUp(t)
      <3>1. AfterSync(t) \in {"qrcode", "end"}
        BY DEF AfterSync
      <3>2. Moves(t, AfterSync(t), task[t].of, task[t].calls) /\ task[t].at = "give up"
        BY <1>1, <2>2, <3>1, GoesMoves DEF GiveUp, Awaits
      <3> QED BY <3>1, <3>2 DEF Moves, Follows, Starts
    <2>3. CASE Close(t)
      <3>1. Moves(t, "write", task[t].of, task[t].calls)
        BY <1>1, <2>3, GoesMoves DEF Close, Awaits
      <3> QED BY <3>1 DEF Moves, Follows, Starts
    <2> QED BY <2>1, <2>2, <2>3
  <1> QED BY <1>4, <1>5, <1>6, <1>7, FollowingKeepsEngine

LEMMA AuthenticatesEngine ==
  ASSUME EngineInv, NEW t \in Tasks, Authenticates(t)
  PROVE  EngineInv'
  <1>1. TypeOK /\ Held(task[t]) /\ HoldInv
    BY EngineFacts
  <1>2. mapped' = mapped /\ orphaned' = orphaned
    BY DEF Authenticates
  <1>3. \A r \in Runtimes : /\ runtime'[r].ready = runtime[r].ready
                            /\ runtime'[r].timers = runtime[r].timers
    BY <1>1, AuthenticatesFacts
  <1>4. Calms /\ \A r \in Runtimes : runtime'[r].timers # {} => (mapped' = r \/ r \in orphaned')
    BY <1>2, <1>3, EngineFacts DEF Calms, PollingIsOwned
  <1>5. Moves(t, "read", task[t].of, "onAuthenticated") /\ task'[t].then = "authenticated"
    BY <1>1, CallsMoves DEF Authenticates, Awaits, Callbacks
  <1>6. Follows(t)
    BY <1>5 DEF Authenticates, Moves, Follows, Starts
  <1>7. HoldInv'
    BY <1>1, CheckedHold
  <1> QED BY <1>4, <1>5, <1>6, <1>7, FollowingKeepsEngine

\* A new runtime is one that nobody knows.
LEMMA TokenEngine == ASSUME EngineInv, NEW t \in Tasks, Token(t) PROVE EngineInv'
  <1>1. TypeOK /\ Held(task[t]) /\ HoldInv
    BY EngineFacts
  <1>2. PICK r \in Runtimes :
          /\ ~Reachable(r) /\ mapped' = r /\ runtime' = [runtime EXCEPT ![r] = NewRuntime]
          /\ Moves(t, "start", r, task[t].calls)
    BY <1>1, TokenMoves
  <1>3. task[t].at = "token" /\ task[t].calls = Nil /\ Nil # "onReady"
    BY <1>1, WppAssumption DEF Token, Held, WppAssumption, Callbacks
  <1>4. /\ ~runtime'[r].ready /\ runtime'[r].timers = {}
        /\ \A s \in Runtimes \ {r} : runtime'[s] = runtime[s]
    BY <1>1, <1>2 DEF TypeOK, NewRuntime
  <1>5. \A u \in Tasks : task[u].of # r
    BY <1>2 DEF Reachable
  <1>6. \A u \in Tasks \ {t} : task'[u] = task[u] /\ task'[u].of # r
    BY <1>2, <1>5 DEF Moves
  <1>7. StartsAlone'
    <2> SUFFICES ASSUME NEW u \in Tasks, Starts(task'[u])
                 PROVE  /\ runtime'[task'[u].of].timers = {} /\ ~runtime'[task'[u].of].ready
                        /\ \A w \in Tasks \ {u} :
                             task'[w].of = task'[u].of => task'[w].at \in {"close", "write"}
      BY DEF StartsAlone, Starts
    <2>1. CASE u = t
      BY <1>2, <1>4, <1>6, <2>1 DEF Moves
    <2>2. CASE u # t
      <3>1. task'[u] = task[u] /\ Starts(task[u])
        BY <1>6, <2>2
      <3>2. task[u].of \in Runtimes \ {r}
        BY <1>5, <3>1, EngineFacts, SameRest
      <3>3. /\ runtime[task[u].of].timers = {} /\ ~runtime[task[u].of].ready
            /\ \A w \in Tasks \ {u} : task[w].of = task[u].of => task[w].at \in {"close", "write"}
        BY <3>1, EngineFacts DEF StartsAlone
      <3>4. task'[t].of = r
        BY <1>2 DEF Moves
      <3> QED BY <1>4, <1>6, <3>1, <3>2, <3>3, <3>4
    <2> QED BY <2>1, <2>2
  <1>8. ReadyWord'
    <2>1. \A u \in Tasks : task'[u].calls = "onReady" => u # t /\ task'[u] = task[u]
      BY <1>2, <1>3, <1>6 DEF Moves
    <2>2. \A u \in Tasks : task[u].calls = "onReady" => task[u].of \in Runtimes \ {r}
      BY <1>5, EngineFacts, SameRest, WppAssumption DEF Held, WppAssumption, Callbacks
    <2>3. ReadyWord
      BY EngineFacts
    <2> QED BY <1>4, <2>1, <2>2, <2>3 DEF ReadyWord
  <1>9. CodeAsked'
    BY <1>4, EngineFacts DEF CodeAsked
  <1>10. PollingIsOwned'
    <2>1. orphaned' = IF mapped = Nil THEN orphaned ELSE orphaned \cup {mapped}
      BY DEF Token
    <2>2. \A s \in Runtimes \ {r} : runtime[s].timers # {} => s = mapped \/ s \in orphaned
      BY EngineFacts DEF PollingIsOwned
    <2>3. \A s \in Runtimes : s # Nil
      BY WppAssumption DEF WppAssumption
    <2> QED BY <1>2, <1>4, <2>1, <2>2, <2>3 DEF PollingIsOwned
  <1>11. HoldInv'
    BY <1>1, TokenHold
  <1> QED BY <1>7, <1>8, <1>9, <1>10, <1>11 DEF EngineInv

LEMMA PollEngine == ASSUME EngineInv, NEW t \in Tasks, Poll(t) PROVE EngineInv'
  <1>1. TypeOK /\ Held(task[t]) /\ HoldInv /\ task[t].at = "poll" /\ Starts(task[t])
    BY EngineFacts DEF Poll, Starts
  <1> DEFINE r == task[t].of
  <1>2. /\ runtime' \in [Runtimes -> Runtime] /\ r \in Runtimes
        /\ \A s \in Runtimes : /\ runtime'[s].ready = runtime[s].ready
                               /\ runtime'[s].timers = IF s = r THEN Timers ELSE runtime[s].timers
    BY <1>1, PollFacts
  <1>3. Moves(t, "check", r, task[t].calls)
    BY <1>1, GoesMoves DEF Poll, Awaits
  <1>4. /\ ~runtime[r].ready
        /\ \A u \in Tasks \ {t} : task[u].of = r => task[u].at \in {"close", "write"}
    BY <1>1, EngineFacts DEF StartsAlone
  <1>5. task[t].calls = Nil /\ Nil # "onReady"
    BY <1>1, WppAssumption DEF Held, WppAssumption, Callbacks
  <1> HIDE DEF r
  <1>6. \A u \in Tasks : Starts(task'[u]) => u # t /\ task'[u] = task[u] /\ task[u].of # r
    BY <1>3, <1>4 DEF Moves, Starts
  <1>7. StartsAlone'
    <2> SUFFICES ASSUME NEW u \in Tasks, Starts(task'[u])
                 PROVE  /\ runtime'[task'[u].of].timers = {} /\ ~runtime'[task'[u].of].ready
                        /\ \A w \in Tasks \ {u} :
                             task'[w].of = task'[u].of => task'[w].at \in {"close", "write"}
      BY DEF StartsAlone, Starts
    <2>1. u # t /\ task'[u] = task[u] /\ task[u].of # r /\ Starts(task[u])
      BY <1>6
    <2>2. task[u].of \in Runtimes
      BY <2>1, EngineFacts, SameRest
    <2>3. /\ runtime[task[u].of].timers = {} /\ ~runtime[task[u].of].ready
          /\ \A w \in Tasks \ {u} : task[w].of = task[u].of => task[w].at \in {"close", "write"}
      BY <2>1, EngineFacts DEF StartsAlone
    <2>4. \A w \in Tasks \ {u} : task'[w].of = task[u].of => task'[w] = task[w]
      BY <1>3, <2>1 DEF Moves
    <2> QED BY <1>2, <2>1, <2>2, <2>3, <2>4
  <1>8. ReadyWord'
    <2>1. \A u \in Tasks : task'[u].calls = "onReady" => task'[u] = task[u]
      BY <1>3, <1>5 DEF Moves
    <2>2. \A u \in Tasks : task[u].calls = "onReady" => task[u].of \in Runtimes
      BY EngineFacts, SameRest, WppAssumption DEF Held, WppAssumption, Callbacks
    <2>3. ReadyWord
      BY EngineFacts
    <2> QED BY <1>2, <2>1, <2>2, <2>3 DEF ReadyWord
  <1>9. CodeAsked'
    BY <1>2, <1>4, EngineFacts DEF CodeAsked
  <1>10. PollingIsOwned'
    <2>1. mapped' = mapped /\ orphaned' = IF mapped = r THEN orphaned ELSE orphaned \cup {r}
      BY DEF Poll, r
    <2> QED BY <1>2, <2>1, EngineFacts DEF PollingIsOwned
  <1>11. HoldInv'
    BY <1>1, PollHold
  <1> QED BY <1>7, <1>8, <1>9, <1>10, <1>11 DEF EngineInv

\* The flag is set before the callback is awaited, so that nobody else has called it.
LEMMA ReadiesEngine == ASSUME EngineInv, NEW t \in Tasks, Readies(t) PROVE EngineInv'
  <1>1. TypeOK /\ Held(task[t]) /\ HoldInv /\ task[t].at \in {"checked", "authenticated"}
    BY EngineFacts DEF Readies
  <1> DEFINE r == task[t].of
  <1>2. /\ r \in Runtimes /\ ~runtime[r].ready
        /\ \A s \in Runtimes :
             /\ runtime'[s].ready <=> (runtime[s].ready \/ s = r)
             /\ runtime'[s].timers = IF s = r THEN runtime[s].timers \ {"qr"} ELSE runtime[s].timers
    BY <1>1, ReadiesFacts
  <1>3. Moves(t, "read", r, "onReady") /\ task'[t].then = "end"
    BY <1>1, CallsMoves DEF Readies, Awaits, Callbacks
  <1>4. ASSUME NEW u \in Tasks, Starts(task'[u])
        PROVE  u # t /\ task'[u] = task[u] /\ task[u].of # r /\ Starts(task[u])
    <2>1. u # t /\ task'[u] = task[u]
      BY <1>3, <1>4 DEF Moves, Starts
    <2>2. task[u].of # task[t].of
      BY <1>1, <1>4, <2>1, EngineFacts DEF StartsAlone
    <2> QED BY <1>4, <2>1, <2>2
  <1> HIDE DEF r
  <1>5. StartsAlone'
    <2> SUFFICES ASSUME NEW u \in Tasks, Starts(task'[u])
                 PROVE  /\ runtime'[task'[u].of].timers = {} /\ ~runtime'[task'[u].of].ready
                        /\ \A w \in Tasks \ {u} :
                             task'[w].of = task'[u].of => task'[w].at \in {"close", "write"}
      BY DEF StartsAlone, Starts
    <2>1. u # t /\ task'[u] = task[u] /\ task[u].of # r /\ Starts(task[u])
      BY <1>4
    <2>2. task[u].of \in Runtimes
      BY <2>1, EngineFacts, SameRest
    <2>3. /\ runtime[task[u].of].timers = {} /\ ~runtime[task[u].of].ready
          /\ \A w \in Tasks \ {u} : task[w].of = task[u].of => task[w].at \in {"close", "write"}
      BY <2>1, EngineFacts DEF StartsAlone
    <2>4. \A w \in Tasks \ {u} : task'[w].of = task[u].of => task'[w] = task[w]
      BY <1>3, <2>1 DEF Moves
    <2>5. runtime'[task[u].of].timers = {}
      BY <1>2, <2>1, <2>2, <2>3
    <2>6. ~runtime'[task[u].of].ready
      <3>1. runtime'[task[u].of].ready <=> (runtime[task[u].of].ready \/ task[u].of = r)
        BY <1>2, <2>2
      <3> QED BY <2>1, <2>3, <3>1
    <2> QED BY <2>1, <2>3, <2>4, <2>5, <2>6
  <1>6. ReadyWord'
    <2>1. \A u \in Tasks \ {t} : task'[u] = task[u]
      BY <1>3 DEF Moves
    <2>2. \A u \in Tasks : task[u].calls = "onReady" => task[u].of \in Runtimes /\ task[u].of # r
      BY <1>2, EngineFacts, SameRest, WppAssumption DEF Held, ReadyWord, WppAssumption, Callbacks
    <2>3. ReadyWord /\ task'[t].of = r
      BY <1>3, EngineFacts DEF Moves
    <2>4. \A u \in Tasks : task'[u].calls = "onReady" => runtime'[task'[u].of].ready
      BY <1>2, <2>1, <2>2, <2>3 DEF ReadyWord
    <2>5. \A u, w \in Tasks :
            task'[u].calls = "onReady" /\ task'[w].calls = "onReady" /\ task'[u].of = task'[w].of => u = w
      BY <2>1, <2>2, <2>3 DEF ReadyWord
    <2> QED BY <2>4, <2>5 DEF ReadyWord
  <1>7. CodeAsked'
    BY <1>2, EngineFacts DEF CodeAsked
  <1>8. PollingIsOwned'
    <2>1. mapped' = mapped /\ orphaned' = orphaned
      BY DEF Readies
    <2> QED BY <1>2, <2>1, EngineFacts DEF PollingIsOwned
  <1>9. HoldInv'
    BY <1>1, CheckedHold
  <1> QED BY <1>5, <1>6, <1>7, <1>8, <1>9 DEF EngineInv

LEMMA RestEngine ==
  ASSUME EngineInv, Restart \/ Pairs \/ Refuses \/ UNCHANGED vars
  PROVE  EngineInv'
  <1>1. CASE Restart
    <2>1. /\ HoldInv' /\ \A r \in Runtimes : ~runtime'[r].ready /\ runtime'[r].timers = {}
          /\ \A t \in Tasks : task'[t].at \in {"free", "enter"} /\ task'[t].calls = Nil
      BY <1>1, RestartFacts, EngineFacts
    <2>2. StartsAlone'
      BY <2>1 DEF StartsAlone, Starts
    <2>3. ReadyWord'
      BY <2>1, WppAssumption DEF ReadyWord, WppAssumption, Callbacks
    <2>4. CodeAsked' /\ PollingIsOwned'
      BY <2>1 DEF CodeAsked, PollingIsOwned
    <2> QED BY <2>1, <2>2, <2>3, <2>4 DEF EngineInv
  <1>2. CASE Pairs \/ Refuses \/ UNCHANGED vars
    <2>1. UNCHANGED <<mapped, runtime, task, orphaned>> /\ HoldInv'
      BY <1>2, PhoneHold, EngineFacts DEF Pairs, Refuses, vars
    <2>2. StartsAlone' /\ ReadyWord'
      BY <2>1, EngineFacts DEF StartsAlone, Starts, ReadyWord
    <2>3. CodeAsked' /\ PollingIsOwned'
      BY <2>1, EngineFacts DEF CodeAsked, PollingIsOwned
    <2> QED BY <2>1, <2>2, <2>3 DEF EngineInv
  <1> QED BY <1>1, <1>2

LEMMA NextEngine == EngineInv /\ [Next]_vars => EngineInv'
  <1> SUFFICES ASSUME EngineInv, [Next]_vars PROVE EngineInv'
    OBVIOUS
  <1>1. ASSUME NEW t \in Tasks,
               \/ Connect(t) \/ Disconnect(t) \/ \E r \in Runtimes : Tick(t, r)
               \/ Steps(t) \/ NoToken(t) \/ StartFails(t)
        PROVE  EngineInv'
    BY <1>1, WalkingEngine, DroppingEngine, AuthenticatesEngine, TokenEngine, PollEngine,
       ReadiesEngine DEF Steps
  <1> QED BY <1>1, RestEngine DEF Next

LEMMA EngineKept == EngineInv => RuntimeKept
  <1> SUFFICES ASSUME EngineInv PROVE RuntimeKept
    OBVIOUS
  <1>1. PollingIsOwned /\ CodeAsked /\ ReadyWord
    BY EngineFacts
  <1>2. ASSUME NEW r \in Runtimes
        PROVE  Cardinality({t \in Tasks : task[t].of = r /\ task[t].calls = "onReady"}) <= 1
    <2> DEFINE S == {t \in Tasks : task[t].of = r /\ task[t].calls = "onReady"}
    <2>1. \A t, u \in S : t = u
      BY <1>1 DEF ReadyWord
    <2>2. S = {} \/ \E t \in S : S = {t}
      BY <2>1
    <2>3. Cardinality({}) = 0 /\ \A t \in S : Cardinality({t}) = 1
      BY FS_EmptySet, FS_Singleton
    <2>4. Cardinality(S) = 0 \/ Cardinality(S) = 1
      BY <2>2, <2>3
    <2> QED BY <2>4
  <1>3. ReadyOnce
    BY <1>1, <1>2 DEF ReadyOnce, CodeAsked
  <1> QED BY <1>1, <1>3 DEF RuntimeKept

\* However checks of a runtime overlap, its session becomes ready once, and no interval
\* outlives its session unless connecting overlapped with a connect or a disconnect.
THEOREM RuntimesAreKept == Spec => []RuntimeKept
  BY InitEngine, NextEngine, EngineKept, PTL DEF Spec

--------------------------------------------------------------------------------
(* The row says what the engine has, or is about to.                              *)

RowInv == EngineInv /\ Corrected /\ NoOldCode

LEMMA InitRow == Init => RowInv
  <1> SUFFICES ASSUME Init PROVE RowInv
    OBVIOUS
  <1>1. row.status = "idle" /\ mapped = Nil
    BY DEF Init, Blank
  <1>2. \A t \in Tasks : task[t].at = "free"
    BY FreeFacts DEF Init
  <1>3. ConnectingRow
    BY <1>2 DEF ConnectingRow, Connecting
  <1>4. Rows
    BY <1>1, <1>3 DEF Rows, ActiveRow, ReadyRow, GoneRow
  <1>5. NoOldCode
    BY <1>1 DEF NoOldCode
  <1> QED BY <1>4, <1>5, InitEngine DEF RowInv, Corrected

LEMMA RowFacts ==
  ASSUME RowInv
  PROVE  /\ EngineInv /\ NoOldCode /\ (~disturbed => Rows)
         /\ \A t \in Tasks : Held(task[t])
  BY EngineFacts DEF RowInv, Corrected

\* A task that has nothing to tell the row yet: it neither writes nor drops the runtime.
Whispers(t) ==
  /\ task[t].at \notin {"write", "give up"}
  /\ task[t].calls = "onReady" => task'[t].calls = "onReady" /\ task'[t].of = task[t].of
  /\ task'[t].at \in {"look", "token"} => task[t].at \in {"look", "token"}

LEMMA WhispersKeepRows ==
  ASSUME NEW t \in Tasks, NEW at, NEW of, NEW calls, Moves(t, at, of, calls), Whispers(t), Rows,
         UNCHANGED <<row, mapped>>,
         mapped # Nil => (runtime'[mapped].ready <=> runtime[mapped].ready)
  PROVE  Rows'
  <1>1. \A u \in Tasks : task[u].at \in {"write", "give up"} => task'[u] = task[u]
    BY DEF Moves, Whispers
  <1>2. \A u \in Tasks :
          task[u].calls = "onReady" => task'[u].calls = "onReady" /\ task'[u].of = task[u].of
    BY DEF Moves, Whispers
  <1>3. ActiveRow'
    BY <1>1 DEF Rows, ActiveRow
  <1>4. ReadyRow'
    BY <1>1, <1>2 DEF Rows, ReadyRow, Saying
  <1>5. GoneRow'
    BY <1>1 DEF Rows, GoneRow
  <1>6. ConnectingRow'
    BY DEF Rows, ConnectingRow, Connecting, Moves, Whispers
  <1> QED BY <1>3, <1>4, <1>5, <1>6 DEF Rows

LEMMA WhispersKeepRowInv ==
  ASSUME RowInv, NEW t \in Tasks, NEW at, NEW of, NEW calls, Moves(t, at, of, calls), Whispers(t),
         EngineInv', UNCHANGED <<row, mapped, disturbed>>,
         mapped # Nil => (runtime'[mapped].ready <=> runtime[mapped].ready)
  PROVE  RowInv'
  <1>1. ~disturbed' => Rows'
    BY RowFacts, WhispersKeepRows
  <1>2. NoOldCode'
    BY RowFacts DEF NoOldCode
  <1> QED BY <1>1, <1>2 DEF RowInv, Corrected

LEMMA WalkingRow ==
  ASSUME RowInv, NEW t \in Tasks,
         \/ Read(t) \/ Connect(t) \/ Disconnect(t) \/ Enter(t) \/ Look(t) \/ End(t)
         \/ Check(t) \/ Refused(t) \/ Unchanging(t) \/ QrCode(t) \/ Scanned(t) \/ LeaveSession(t)
         \/ Start(t) \/ \E r \in Runtimes : Tick(t, r)
  PROVE  RowInv'
  <1>1. UNCHANGED <<row, mapped, runtime, disturbed>>
    BY DEF Read, Connect, Disconnect, Enter, Look, End, Check, Refused, Unchanging, QrCode, Scanned,
           LeaveSession, Tick, Start
  <1>2. EngineInv /\ TypeOK /\ Held(task[t]) /\ EngineInv'
    BY RowFacts, EngineFacts, WalkingEngine
  <1>3. \E at, of, calls : Moves(t, at, of, calls)
    BY <1>2, WalkingFollows
  <1>4. CASE Read(t)
    <2>1. Moves(t, "save", task[t].of, task[t].calls) /\ task[t].at = "read"
      BY <1>2, <1>4, ReadMoves DEF Read
    <2>2. Whispers(t)
      BY <2>1 DEF Moves, Whispers
    <2> QED BY <1>1, <1>2, <2>1, <2>2, WhispersKeepRowInv
  <1>5. CASE ~Read(t)
    <2>1. task[t].at \in {"free", "enter", "look", "end", "check", "checked", "authenticated",
                          "qrcode", "scanned", "leave", "start"}
      BY <1>5 DEF Connect, Disconnect, Enter, Look, End, Check, Refused, Unchanging, QrCode, Scanned,
                  LeaveSession, Tick, Start
    <2>2. task[t].calls # "onReady"
      BY <1>2, <2>1, WppAssumption DEF Held, WppAssumption, Callbacks
    <2>3. task'[t].at \in {"look", "token"} => task[t].at = "look"
      <3>1. CASE Connect(t) \/ Disconnect(t)
        <4>1. \/ Moves(t, "enter", task[t].of, task[t].calls)
              \/ Moves(t, "leave", task[t].of, task[t].calls)
          BY <1>2, <3>1, GoesMoves DEF Connect, Disconnect, Awaits
        <4> QED BY <4>1 DEF Moves
      <3>2. CASE Enter(t)
        BY <1>2, <3>2, EnterMoves DEF Moves
      <3>3. CASE Look(t)
        BY <3>3 DEF Look
      <3>4. CASE End(t)
        BY <1>2, <3>4, EndsMoves DEF End, Moves
      <3>5. CASE Check(t)
        BY <1>2, <3>5, CheckMoves DEF Moves
      <3>6. CASE Refused(t) \/ Scanned(t)
        <4>1. \/ Moves(t, "read", task[t].of, "onAuthFailure")
              \/ Moves(t, "read", task[t].of, "onQr")
          BY <1>2, <3>6, CallsMoves DEF Refused, Scanned, Awaits, Callbacks
        <4> QED BY <4>1 DEF Moves
      <3>7. CASE Unchanging(t)
        <4>1. AfterSync(t) \in {"qrcode", "end"}
          BY DEF AfterSync
        <4>2. Moves(t, AfterSync(t), task[t].of, task[t].calls)
          BY <1>2, <3>7, <4>1, GoesMoves DEF Unchanging, Awaits
        <4> QED BY <4>1, <4>2 DEF Moves
      <3>8. CASE QrCode(t)
        <4>1. \/ Moves(t, "scanned", task[t].of, task[t].calls)
              \/ Moves(t, "end", task[t].of, task[t].calls)
          BY <1>2, <3>8, GoesMoves DEF QrCode, Awaits
        <4> QED BY <4>1 DEF Moves
      <3>9. CASE LeaveSession(t)
        BY <1>2, <3>9, LeaveSessionMoves DEF Moves
      <3>10. CASE Start(t)
        <4>1. Calls(t, "onQr", "poll") \/ Goes(t, "poll")
          BY <3>10 DEF Start
        <4>2. \/ Moves(t, "read", task[t].of, "onQr")
              \/ Moves(t, "poll", task[t].of, task[t].calls)
          BY <1>2, <4>1, CallsMoves, GoesMoves DEF Awaits, Callbacks
        <4> QED BY <4>2 DEF Moves
      <3>11. CASE \E r \in Runtimes : Tick(t, r)
        BY <1>2, <3>11, TickMoves DEF Moves
      <3> QED BY <1>5, <3>1, <3>2, <3>3, <3>4, <3>5, <3>6, <3>7, <3>8, <3>9, <3>10, <3>11
    <2>4. Whispers(t)
      BY <2>1, <2>2, <2>3 DEF Whispers
    <2> QED BY <1>1, <1>2, <1>3, <2>4, WhispersKeepRowInv
  <1> QED BY <1>4, <1>5

LEMMA PollRow ==
  ASSUME RowInv, NEW t \in Tasks, Poll(t) \/ Authenticates(t)
  PROVE  RowInv'
  <1>1. /\ EngineInv /\ HoldInv /\ TypeOK /\ Held(task[t]) /\ EngineInv'
        /\ UNCHANGED <<row, mapped, disturbed>>
    BY RowFacts, EngineFacts, PollEngine, AuthenticatesEngine DEF Poll, Authenticates
  <1>2. \A r \in Runtimes : runtime'[r].ready = runtime[r].ready
    BY <1>1, PollFacts, AuthenticatesFacts
  <1>3. mapped # Nil => (runtime'[mapped].ready <=> runtime[mapped].ready)
    BY <1>1, <1>2 DEF TypeOK
  <1>4. \/ Moves(t, "check", task[t].of, task[t].calls)
        \/ Moves(t, "read", task[t].of, "onAuthenticated")
    BY <1>1, GoesMoves, CallsMoves DEF Poll, Authenticates, Awaits, Callbacks
  <1>5. task[t].at \in {"poll", "checked"}
    BY DEF Poll, Authenticates
  <1>6. Whispers(t)
    BY <1>1, <1>4, <1>5, WppAssumption DEF Moves, Whispers, Held, WppAssumption, Callbacks
  <1> QED BY <1>1, <1>3, <1>4, <1>6, WhispersKeepRowInv

LEMMA ReadiesRow == ASSUME RowInv, NEW t \in Tasks, Readies(t) PROVE RowInv'
  <1>1. /\ EngineInv /\ HoldInv /\ TypeOK /\ Held(task[t]) /\ EngineInv'
        /\ UNCHANGED <<row, mapped, disturbed>>
    BY RowFacts, EngineFacts, ReadiesEngine DEF Readies
  <1>2. /\ task[t].of \in Runtimes
        /\ \A r \in Runtimes : runtime'[r].ready <=> (runtime[r].ready \/ r = task[t].of)
    BY <1>1, ReadiesFacts
  <1>3. Moves(t, "read", task[t].of, "onReady") /\ task[t].at \in {"authenticated", "checked"}
    BY <1>1, CallsMoves DEF Readies, Awaits, Callbacks
  <1>4. Whispers(t)
    BY <1>1, <1>3, WppAssumption DEF Moves, Whispers, Held, WppAssumption, Callbacks
  <1>5. CASE mapped # task[t].of
    <2>1. mapped # Nil => (runtime'[mapped].ready <=> runtime[mapped].ready)
      BY <1>1, <1>2, <1>5 DEF TypeOK
    <2> QED BY <1>1, <1>3, <1>4, <2>1, WhispersKeepRowInv
  <1>6. CASE mapped = task[t].of
    <2>1. mapped' = task'[t].of /\ task'[t].calls = "onReady"
      BY <1>1, <1>3, <1>6 DEF Moves
    <2>2. mapped' # Nil /\ runtime'[mapped'].ready
      BY <1>1, <1>2, <1>6, WppAssumption DEF WppAssumption
    <2>3. ReadyRow'
      BY <2>1 DEF ReadyRow, Saying
    <2>4. ActiveRow'
      BY <2>2 DEF ActiveRow
    <2>5. \A u \in Tasks : task[u].at = "give up" => task'[u] = task[u]
      BY <1>3 DEF Moves
    <2>6. Rows => GoneRow'
      BY <1>1, <2>5 DEF Rows, GoneRow
    <2>7. Rows => ConnectingRow'
      BY <1>1, <1>3 DEF Rows, ConnectingRow, Connecting, Moves
    <2>8. ~disturbed' => Rows'
      BY <1>1, <2>3, <2>4, <2>6, <2>7, RowFacts DEF Rows
    <2>9. NoOldCode'
      BY <1>1, RowFacts DEF NoOldCode
    <2> QED BY <1>1, <2>8, <2>9 DEF RowInv, Corrected
  <1> QED BY <1>5, <1>6

\* A callback that is not disturbed came from the runtime in the map.
LEMMA SaveRow == ASSUME RowInv, NEW t \in Tasks, Save(t) PROVE RowInv'
  <1> DEFINE k == task[t]
  <1>1. /\ EngineInv /\ HoldInv /\ TypeOK /\ Held(k) /\ EngineInv' /\ k.at = "save"
        /\ UNCHANGED <<mapped, runtime>>
    BY RowFacts, EngineFacts, WalkingEngine DEF Save
  <1>2. /\ k.saw \in Row /\ k.calls \in Callbacks /\ k.of # Nil /\ row' = Updated(k.saw, k.calls)
        /\ k.calls = "onAuthFailure" => k.then = "give up"
        /\ k.then \notin {"look", "token"}
    BY <1>1, SameRest DEF Save, Held, Task
  <1>3. Moves(t, k.then, k.of, Nil)
    BY <1>1, SaveMoves
  <1>4. ~disturbed' =>
          /\ ~Connecting /\ mapped = IF k.calls = "onInitError" THEN Nil ELSE k.of
          /\ k.calls \in {"onQr", "onAuthenticated"} => ~runtime[k.of].ready
    BY DEF Save
  <1>5. k.calls = "onReady" => runtime[k.of].ready
    BY <1>1, EngineFacts DEF ReadyWord
  <1> HIDE DEF k
  <1>6. /\ row' \in Row
        /\ row'.status = CASE k.calls = "onQr" -> "qr_ready" [] k.calls = "onAuthenticated" -> "syncing"
                           [] k.calls = "onReady" -> "active" [] OTHER -> "error"
        /\ k.calls = "onReady" => ~row'.qr
    BY <1>2, UpdatedType
  <1>7. NoOldCode'
    BY <1>2, <1>6 DEF NoOldCode, Callbacks
  <1>8. ASSUME ~disturbed' PROVE Rows'
    <2>1. ConnectingRow'
      BY <1>2, <1>3, <1>4, <1>8 DEF ConnectingRow, Connecting, Moves
    <2>2. CASE k.calls \in {"onQr", "onAuthenticated"}
      <3>1. row'.status \in {"qr_ready", "syncing"} /\ mapped' = k.of /\ ~runtime'[mapped'].ready
        BY <1>1, <1>4, <1>6, <1>8, <2>2
      <3> QED BY <2>1, <3>1 DEF Rows, ActiveRow, ReadyRow, GoneRow
    <2>3. CASE k.calls = "onReady"
      <3>1. row'.status = "active" /\ mapped' # Nil /\ runtime'[mapped'].ready
        BY <1>1, <1>2, <1>4, <1>5, <1>6, <1>8, <2>3
      <3> QED BY <2>1, <3>1 DEF Rows, ActiveRow, ReadyRow, GoneRow
    <2>4. CASE k.calls = "onAuthFailure"
      <3>1. row'.status = "error" /\ task'[t].of = mapped' /\ task'[t].at = "give up"
        BY <1>1, <1>2, <1>3, <1>4, <1>6, <1>8, <2>4 DEF Moves
      <3> QED BY <2>1, <3>1 DEF Rows, ActiveRow, ReadyRow, GoneRow, Saying
    <2>5. CASE k.calls = "onInitError"
      <3>1. row'.status = "error" /\ mapped' = Nil
        BY <1>1, <1>4, <1>6, <1>8, <2>5
      <3> QED BY <2>1, <3>1 DEF Rows, ActiveRow, ReadyRow, GoneRow
    <2> QED BY <1>2, <2>2, <2>3, <2>4, <2>5 DEF Callbacks
  <1> QED BY <1>1, <1>7, <1>8 DEF RowInv, Corrected

LEMMA InitializeRow == ASSUME RowInv, NEW t \in Tasks, Initialize(t) PROVE RowInv'
  <1>1. EngineInv /\ HoldInv /\ TypeOK /\ EngineInv' /\ task[t].saw \in Row
    BY RowFacts, EngineFacts, WalkingEngine, SameRest DEF Task
  <1>2. row'.status = "initializing" /\ mapped' = mapped /\ (~disturbed' => mapped = Nil)
    BY <1>1 DEF Initialize, Row
  <1>3. ~disturbed' => Rows'
    BY <1>2 DEF Rows, ActiveRow, ReadyRow, GoneRow, ConnectingRow
  <1>4. NoOldCode'
    BY <1>2 DEF NoOldCode
  <1> QED BY <1>1, <1>3, <1>4 DEF RowInv, Corrected

LEMMA WriteRow == ASSUME RowInv, NEW t \in Tasks, Write(t) PROVE RowInv'
  <1>1. EngineInv /\ HoldInv /\ TypeOK /\ EngineInv' /\ task[t].saw \in Row
    BY RowFacts, EngineFacts, WalkingEngine, SameRest DEF Task
  <1>2. /\ row'.status = "disconnected" /\ ~row'.qr /\ mapped' = mapped
        /\ ~disturbed' => mapped = Nil /\ ~Connecting
    BY <1>1 DEF Write, Row
  <1>3. Moves(t, "free", Nil, Nil)
    BY <1>1, EndsMoves DEF Write
  <1>4. ~disturbed' => ConnectingRow'
    BY <1>2, <1>3 DEF ConnectingRow, Connecting, Moves
  <1>5. ~disturbed' => Rows'
    BY <1>2, <1>4 DEF Rows, ActiveRow, ReadyRow, GoneRow
  <1>6. NoOldCode'
    BY <1>2 DEF NoOldCode
  <1> QED BY <1>1, <1>5, <1>6 DEF RowInv, Corrected

LEMMA TokenRow == ASSUME RowInv, NEW t \in Tasks, Token(t) \/ NoToken(t) PROVE RowInv'
  <1>1. EngineInv /\ HoldInv /\ TypeOK /\ EngineInv' /\ task[t].at = "token" /\ row' = row
    BY RowFacts, EngineFacts, TokenEngine, WalkingEngine DEF Token, NoToken
  <1>2. ~disturbed' => Token(t) /\ ~disturbed
    BY DEF Token, NoToken
  <1>3. ASSUME ~disturbed' PROVE Rows'
    <2>1. PICK r \in Runtimes : mapped' = r /\ runtime' = [runtime EXCEPT ![r] = NewRuntime]
      BY <1>1, <1>2, <1>3, TokenMoves
    <2>2. ~runtime'[mapped'].ready
      BY <1>1, <2>1 DEF TypeOK, NewRuntime
    <2>3. row'.status = "initializing"
      BY <1>1, <1>2, <1>3, RowFacts DEF Rows, ConnectingRow, Connecting
    <2> QED BY <2>2, <2>3 DEF Rows, ActiveRow, ReadyRow, GoneRow, ConnectingRow
  <1>4. NoOldCode'
    BY <1>1, RowFacts DEF NoOldCode
  <1> QED BY <1>1, <1>3, <1>4 DEF RowInv, Corrected

\* A runtime is dropped: because it did not start, was refused or is closed.
LEMMA DroppingRow ==
  ASSUME RowInv, NEW t \in Tasks, StartFails(t) \/ GiveUp(t) \/ Close(t)
  PROVE  RowInv'
  <1>1. /\ EngineInv /\ HoldInv /\ TypeOK /\ Held(task[t]) /\ EngineInv'
        /\ row' = row /\ mapped' = Nil
    BY RowFacts, EngineFacts, DroppingEngine DEF StartFails, GiveUp, Close
  <1>2. AfterSync(t) \in {"qrcode", "end"}
    BY DEF AfterSync
  <1>3. \/ StartFails(t) /\ Moves(t, "read", task[t].of, "onInitError")
        \/ GiveUp(t) /\ Moves(t, AfterSync(t), task[t].of, task[t].calls)
        \/ Close(t) /\ Moves(t, "write", task[t].of, task[t].calls)
    BY <1>1, <1>2, CallsMoves, GoesMoves DEF StartFails, GiveUp, Close, Awaits, Callbacks
  <1>4. ASSUME ~disturbed' PROVE Rows'
    <2>1. Rows
      <3>1. ~disturbed
        BY <1>4 DEF StartFails, GiveUp, Close
      <3> QED BY <3>1, RowFacts
    <2>2. ConnectingRow'
      BY <1>1, <1>2, <1>3, <2>1 DEF Rows, ConnectingRow, Connecting, Moves
    <2>3. ActiveRow'
      <3>1. CASE StartFails(t)
        <4>1. task[t].at = "start" /\ mapped = task[t].of
          BY <1>4, <3>1 DEF StartFails
        <4>2. ~runtime[mapped].ready
          BY <1>1, <4>1, EngineFacts DEF StartsAlone, Starts
        <4>3. \A u \in Tasks : task[u].at = "write" => task'[u] = task[u]
          BY <1>3, <4>1 DEF Moves, StartFails, GiveUp, Close
        <4> QED BY <1>1, <2>1, <4>2, <4>3 DEF Rows, ActiveRow
      <3>2. CASE GiveUp(t)
        BY <1>1, <1>4, <3>2 DEF GiveUp, ActiveRow
      <3>3. CASE Close(t)
        <4>1. task'[t].at = "write"
          BY <1>3, <3>3 DEF Moves, StartFails, GiveUp, Close
        <4> QED BY <4>1 DEF ActiveRow
      <3> QED BY <1>3, <3>1, <3>2, <3>3
    <2> QED BY <1>1, <2>2, <2>3 DEF Rows, ReadyRow, GoneRow
  <1>5. NoOldCode'
    BY <1>1, RowFacts DEF NoOldCode
  <1> QED BY <1>1, <1>4, <1>5 DEF RowInv, Corrected

LEMMA RestRow ==
  ASSUME RowInv, Restart \/ Pairs \/ Refuses \/ UNCHANGED vars
  PROVE  RowInv'
  <1>1. EngineInv /\ EngineInv'
    BY RowFacts, RestEngine
  <1>2. CASE Restart
    <2>1. /\ mapped' = Nil /\ row'.status = "disconnected" /\ ~row'.qr
          /\ \A t \in Tasks : task'[t].at \in {"free", "enter"}
      BY <1>1, <1>2, RestartFacts, EngineFacts
    <2>2. Rows'
      BY <2>1 DEF Rows, ActiveRow, ReadyRow, GoneRow, ConnectingRow, Connecting
    <2>3. NoOldCode'
      BY <2>1 DEF NoOldCode
    <2> QED BY <1>1, <2>2, <2>3 DEF RowInv, Corrected
  <1>3. CASE Pairs \/ Refuses \/ UNCHANGED vars
    <2>1. UNCHANGED <<row, mapped, runtime, task, disturbed>>
      BY <1>3 DEF Pairs, Refuses, vars
    <2>2. Rows => Rows'
      BY <2>1 DEF Rows, ActiveRow, ReadyRow, Saying, GoneRow, ConnectingRow, Connecting
    <2>3. NoOldCode'
      BY <2>1, RowFacts DEF NoOldCode
    <2> QED BY <1>1, <2>1, <2>2, <2>3, RowFacts DEF RowInv, Corrected
  <1> QED BY <1>2, <1>3

LEMMA NextRow == RowInv /\ [Next]_vars => RowInv'
  <1> SUFFICES ASSUME RowInv, [Next]_vars PROVE RowInv'
    OBVIOUS
  <1>1. ASSUME NEW t \in Tasks,
               \/ Connect(t) \/ Disconnect(t) \/ \E r \in Runtimes : Tick(t, r)
               \/ Steps(t) \/ NoToken(t) \/ StartFails(t)
        PROVE  RowInv'
    BY <1>1, WalkingRow, PollRow, ReadiesRow, SaveRow, InitializeRow, WriteRow, TokenRow,
       DroppingRow DEF Steps
  <1> QED BY <1>1, RestRow DEF Next

LEMMA RowSettles == RowInv => SettledRow
  <1> SUFFICES ASSUME RowInv, Quiet, ~disturbed
               PROVE  /\ row.status = "active" <=> (mapped # Nil /\ runtime[mapped].ready)
                      /\ row.status \in {"disconnected", "error"} => mapped = Nil
                      /\ row.status \in {"active", "disconnected"} => ~row.qr
    BY DEF SettledRow
  <1>1. Rows /\ NoOldCode
    BY RowFacts
  <1>2. \A t \in Tasks : task[t].at = "free" /\ task[t].calls = Nil
    BY RowFacts DEF Quiet, Held
  <1>3. \A t \in Tasks : task[t].calls # "onReady"
    BY <1>2, WppAssumption DEF WppAssumption, Callbacks
  <1>4. row.status = "active" => mapped # Nil /\ runtime[mapped].ready
    BY <1>1, <1>2 DEF Rows, ActiveRow
  <1>5. mapped # Nil /\ runtime[mapped].ready => row.status = "active"
    BY <1>1, <1>2, <1>3 DEF Rows, ReadyRow, Saying
  <1>6. row.status \in {"disconnected", "error"} => mapped = Nil
    BY <1>1, <1>2 DEF Rows, GoneRow
  <1> QED BY <1>1, <1>4, <1>5, <1>6 DEF NoOldCode

\* When nothing is under way and no update was overtaken or late, the row says what the
\* engine has: 'active' is a ready runtime and nothing else.
THEOREM RowSettled == Spec => []SettledRow
  BY InitRow, NextRow, RowSettles, PTL DEF Spec
================================================================================
