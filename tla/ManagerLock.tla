------------------------------ MODULE ManagerLock ------------------------------
(***************************************************************************)
(* Manager.mu, the sync.RWMutex around the runtimes and lastGroupNameSync  *)
(* of internal/whatsapp/manager.go, and the goroutines that take it.       *)
(*                                                                         *)
(* What a call does under the lock is in Sessions; here a call is the      *)
(* sequence of critical sections it goes through.  The lock is Go's: a     *)
(* writer that has announced itself keeps new readers out until it has had *)
(* the lock, and lets in all that waited when it leaves.  A goroutine that *)
(* reads already is no exception, which matters to the one handler that    *)
(* takes the read lock twice.                                              *)
(***************************************************************************)
EXTENDS Naturals, Sequences

CONSTANTS
  Goroutines,
  Calls,        \* bound: the kinds of call that are made
  None

Sections == {"read", "write", "nested"}

\* The critical sections of each call, in the order of the code.
Program == [
  lookup  |-> <<"read">>,                              \* clientForSession: status, send, disconnect, ...
  connect |-> <<"write", "read", "read", "write", "write">>,  \* InitSession, its error return included
  dialed  |-> <<"write">>,                             \* the goroutine of InitSession
  delete  |-> <<"read", "write">>,                     \* DeleteSessionByID
  reset   |-> <<"write">>,                             \* resetClientByID
  chats   |-> <<"read", "read", "read", "write">>,     \* shouldRefreshGroupNames, SyncGroupNames;
                                                       \* handleConnected makes the same ones
  history |-> <<"nested", "read">> ]                   \* handleHistorySync, SyncContacts

ASSUME LockAssumption ==
  /\ Calls \subseteq DOMAIN Program
  /\ None \notin Goroutines

VARIABLES
  rest,     \* the sections a call has still to go through, the current one first
  phase,    \* where a goroutine stands in its current section
  writer    \* the goroutine that has announced that it will write, or None

vars == <<rest, phase, writer>>

\* "waitingAgain" and "twice" are about the second acquisition of a nested section.
Phases == {"out", "waiting", "announced", "inside", "waitingAgain", "twice"}

TypeOK ==
  /\ rest \in [Goroutines -> Seq(Sections)]
  /\ phase \in [Goroutines -> Phases]
  /\ writer \in Goroutines \cup {None}
  /\ \A g \in Goroutines : rest[g] = <<>> => phase[g] = "out"

Init ==
  /\ rest = [g \in Goroutines |-> <<>>]
  /\ phase = [g \in Goroutines |-> "out"]
  /\ writer = None

Idle(g) == rest[g] = <<>>
In(g, sections) == rest[g] # <<>> /\ Head(rest[g]) \in sections

\* Counted by the lock as a reader.
Reading(g) ==
  \/ phase[g] = "inside" /\ In(g, {"read", "nested"})
  \/ phase[g] \in {"waitingAgain", "twice"}

Moves(g, where) == phase' = [phase EXCEPT ![g] = where]

--------------------------------------------------------------------------------
Call(g) ==
  /\ Idle(g)
  /\ \E call \in Calls : rest' = [rest EXCEPT ![g] = Program[call]]
  /\ UNCHANGED <<phase, writer>>

\* Faulty variant: the fields are read without the lock.
ReadUnlocked(g) ==
  /\ phase[g] = "out" /\ In(g, {"read", "nested"})
  /\ Moves(g, "inside")
  /\ UNCHANGED <<rest, writer>>

RLock(g) ==
  /\ phase[g] = "out" /\ In(g, {"read", "nested"})
  /\ Moves(g, IF writer = None THEN "inside" ELSE "waiting")
  /\ UNCHANGED <<rest, writer>>

\* handleHistorySync holds the read lock while clientForSession takes it again.
RLockAgain(g) ==
  /\ phase[g] = "inside" /\ In(g, {"nested"})
  /\ Moves(g, IF writer = None THEN "twice" ELSE "waitingAgain")
  /\ UNCHANGED <<rest, writer>>

\* Lock: one writer at a time announces itself ...
Announce(g) ==
  /\ phase[g] = "out" /\ In(g, {"write"})
  /\ writer = None
  /\ writer' = g
  /\ Moves(g, "announced")
  /\ UNCHANGED rest

\* ... and waits for the readers that are in.
Lock(g) ==
  /\ phase[g] = "announced"
  /\ \A r \in Goroutines : ~Reading(r)
  /\ Moves(g, "inside")
  /\ UNCHANGED <<rest, writer>>

\* After a section the call goes on, or returns early.
GoesOn(g) == \E r \in {Tail(rest[g]), <<>>} : rest' = [rest EXCEPT ![g] = r]

\* Faulty variant: a return between RLock and RUnlock.
RUnlockForgotten(g) ==
  /\ phase[g] = "inside" /\ In(g, {"read"})
  /\ GoesOn(g)
  /\ UNCHANGED <<phase, writer>>

\* RUnlock, once or twice.
RUnlock(g) ==
  /\ \/ phase[g] = "inside" /\ In(g, {"read"})
     \/ phase[g] = "twice"
  /\ Moves(g, "out")
  /\ GoesOn(g)
  /\ UNCHANGED writer

\* Faulty variant: a return between Lock and Unlock.
UnlockForgotten(g) ==
  /\ phase[g] = "inside" /\ In(g, {"write"})
  /\ Moves(g, "out")
  /\ GoesOn(g)
  /\ UNCHANGED writer

\* Unlock lets in the readers that wait.
Unlock(g) ==
  /\ phase[g] = "inside" /\ In(g, {"write"})
  /\ writer' = None
  /\ phase' = [h \in Goroutines |->
       CASE h = g                     -> "out"
         [] phase[h] = "waiting"      -> "inside"
         [] phase[h] = "waitingAgain" -> "twice"
         [] OTHER                     -> phase[h]]
  /\ GoesOn(g)

Step(g) == RLock(g) \/ RLockAgain(g) \/ Lock(g) \/ RUnlock(g) \/ Unlock(g)

Next == \E g \in Goroutines : Call(g) \/ Announce(g) \/ Step(g)

\* A goroutine that can run does.  Writers queue on a sync.Mutex, which hands itself
\* to the one that has waited longest before it starves.
Fairness == \A g \in Goroutines : WF_vars(Step(g)) /\ SF_vars(Announce(g))

Spec == Init /\ [][Next]_vars /\ Fairness

--------------------------------------------------------------------------------
\* The map of runtimes and lastGroupNameSync are never read while they are written,
\* nor written by two (the Go runtime ends the process when a map is).
Writes(g)  == phase[g] = "inside" /\ In(g, {"write"})
Touches(g) == Writes(g) \/ phase[g] = "twice" \/ (phase[g] = "inside" /\ In(g, {"read"}))

NoDataRace == \A g, h \in Goroutines : Writes(g) /\ Touches(h) => g = h

\* Every call of the manager comes back, however many others use the lock: "Multiple
\* WhatsApp sessions with QR Code, status tracking, and message sending", all of
\* which look the client up under this lock.  The code breaks it: a writer announced
\* between the two acquisitions of handleHistorySync waits for the first, and the
\* second waits for the writer; every later call joins them.
EveryCallReturns == \A g \in Goroutines : ~Idle(g) ~> Idle(g)

\* Nothing else keeps a call from coming back: no other order of the sections, no
\* early return and no crowd of writers.
OnlyHistoryStalls ==
  \A g \in Goroutines :
    ~Idle(g) ~> Idle(g) \/ \E h \in Goroutines : phase[h] = "waitingAgain"

================================================================================
