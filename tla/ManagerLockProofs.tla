--------------------------- MODULE ManagerLockProofs ---------------------------
(***************************************************************************)
(* What the lock of the manager guards is never touched by a writer and    *)
(* another goroutine at once, for any set of goroutines and any calls.     *)
(***************************************************************************)
EXTENDS ManagerLock, TLAPS

\* A goroutine waits for, or is in, the section that it has come to.
InItsSection ==
  \A g \in Goroutines :
    /\ phase[g] # "out" => rest[g] # <<>>
    /\ phase[g] = "announced" => In(g, {"write"})
    /\ phase[g] = "waiting" => In(g, {"read", "nested"})
    /\ phase[g] \in {"waitingAgain", "twice"} => In(g, {"nested"})

\* A goroutine that writes, or is about to, is the announced one.
OneWriter == \A g \in Goroutines : phase[g] = "announced" \/ Writes(g) => writer = g

NoReaderMeetsWriter == \A g, h \in Goroutines : Writes(g) => ~Reading(h)

LockInv == TypeOK /\ InItsSection /\ OneWriter /\ NoReaderMeetsWriter

--------------------------------------------------------------------------------
LEMMA ProgramType == \A call \in DOMAIN Program : Program[call] \in Seq(Sections) /\ Program[call] # <<>>
  <1>1. /\ <<"read">> \in Seq(Sections) /\ <<"write">> \in Seq(Sections)
        /\ <<"read", "write">> \in Seq(Sections) /\ <<"nested", "read">> \in Seq(Sections)
    BY DEF Sections
  <1>2. /\ <<"write", "read", "read", "write", "write">> \in Seq(Sections)
        /\ <<"read", "read", "read", "write">> \in Seq(Sections)
    BY DEF Sections
  <1>3. /\ <<"read">> # <<>> /\ <<"write">> # <<>>
        /\ <<"read", "write">> # <<>> /\ <<"nested", "read">> # <<>>
        /\ <<"write", "read", "read", "write", "write">> # <<>>
        /\ <<"read", "read", "read", "write">> # <<>>
    OBVIOUS
  <1>4. DOMAIN Program = {"lookup", "connect", "dialed", "delete", "reset", "chats", "history"}
    BY DEF Program
  <1>5. /\ Program["lookup"] = <<"read">> /\ Program["dialed"] = <<"write">>
        /\ Program["delete"] = <<"read", "write">> /\ Program["history"] = <<"nested", "read">>
        /\ Program["connect"] = <<"write", "read", "read", "write", "write">>
        /\ Program["chats"] = <<"read", "read", "read", "write">>
        /\ Program["reset"] = <<"write">>
    BY DEF Program
  <1> QED BY <1>1, <1>2, <1>3, <1>4, <1>5

LEMMA InitInv == Init => LockInv
  BY DEF Init, LockInv, TypeOK, InItsSection, OneWriter, NoReaderMeetsWriter, Writes, Reading, In,
         Phases

LEMMA CallInv ==
  ASSUME LockInv, NEW g \in Goroutines, Call(g)
  PROVE  LockInv'
  <1>1. PICK call \in Calls : rest' = [rest EXCEPT ![g] = Program[call]]
    BY DEF Call
  <1>2. Program[call] \in Seq(Sections) /\ Program[call] # <<>>
    BY ProgramType, LockAssumption DEF LockAssumption
  <1>3. phase[g] = "out" /\ UNCHANGED <<phase, writer>>
    BY DEF Call, Idle, LockInv, TypeOK
  <1>4. TypeOK'
    BY <1>1, <1>2, <1>3 DEF LockInv, TypeOK
  <1>5. InItsSection'
    BY <1>1, <1>2, <1>3 DEF LockInv, TypeOK, InItsSection, In
  <1>6. OneWriter' /\ NoReaderMeetsWriter'
    BY <1>1, <1>2, <1>3 DEF LockInv, TypeOK, OneWriter, NoReaderMeetsWriter, Writes, Reading, In
  <1> QED BY <1>4, <1>5, <1>6 DEF LockInv

LEMMA RLockInv ==
  ASSUME LockInv, NEW g \in Goroutines, RLock(g)
  PROVE  LockInv'
  <1>1. TypeOK'
    BY DEF RLock, Moves, LockInv, TypeOK, Phases, In
  <1>2. InItsSection'
    BY DEF RLock, Moves, LockInv, TypeOK, InItsSection, In
  <1>3. OneWriter' /\ NoReaderMeetsWriter'
    BY LockAssumption DEF LockAssumption, RLock, Moves, LockInv, TypeOK, OneWriter,
       NoReaderMeetsWriter, Writes, Reading, In
  <1> QED BY <1>1, <1>2, <1>3 DEF LockInv

LEMMA RLockAgainInv ==
  ASSUME LockInv, NEW g \in Goroutines, RLockAgain(g)
  PROVE  LockInv'
  <1>1. TypeOK'
    BY DEF RLockAgain, Moves, LockInv, TypeOK, Phases, In
  <1>2. InItsSection'
    BY DEF RLockAgain, Moves, LockInv, TypeOK, InItsSection, In
  <1>3. OneWriter' /\ NoReaderMeetsWriter'
    BY DEF RLockAgain, Moves, LockInv, TypeOK, OneWriter, NoReaderMeetsWriter, Writes, Reading, In
  <1> QED BY <1>1, <1>2, <1>3 DEF LockInv

LEMMA AnnounceInv ==
  ASSUME LockInv, NEW g \in Goroutines, Announce(g)
  PROVE  LockInv'
  <1>1. TypeOK'
    BY DEF Announce, Moves, LockInv, TypeOK, Phases, In
  <1>2. InItsSection'
    BY DEF Announce, Moves, LockInv, TypeOK, InItsSection, In
  <1>3. OneWriter' /\ NoReaderMeetsWriter'
    BY LockAssumption DEF LockAssumption, Announce, Moves, LockInv, TypeOK, OneWriter,
       NoReaderMeetsWriter, Writes, Reading, In
  <1> QED BY <1>1, <1>2, <1>3 DEF LockInv

LEMMA LockStepInv ==
  ASSUME LockInv, NEW g \in Goroutines, Lock(g)
  PROVE  LockInv'
  <1>1. TypeOK'
    BY DEF Lock, Moves, LockInv, TypeOK, Phases, InItsSection
  <1>2. InItsSection'
    BY DEF Lock, Moves, LockInv, TypeOK, InItsSection, In
  <1>3. OneWriter' /\ NoReaderMeetsWriter'
    BY DEF Lock, Moves, LockInv, TypeOK, OneWriter, NoReaderMeetsWriter, InItsSection, Writes, Reading, In
  <1> QED BY <1>1, <1>2, <1>3 DEF LockInv

\* Whatever a call does after a section, its sections stay a sequence of sections,
\* and those of the others stay as they are.
LEMMA GoesOnType ==
  ASSUME TypeOK, NEW g \in Goroutines, rest[g] # <<>>, GoesOn(g)
  PROVE  /\ rest' \in [Goroutines -> Seq(Sections)]
         /\ \A h \in Goroutines \ {g} : rest'[h] = rest[h]
  <1>1. Tail(rest[g]) \in Seq(Sections) /\ <<>> \in Seq(Sections)
    BY DEF TypeOK
  <1>2. PICK r \in {Tail(rest[g]), <<>>} : rest' = [rest EXCEPT ![g] = r]
    BY DEF GoesOn
  <1> QED BY <1>1, <1>2 DEF TypeOK

LEMMA RUnlockInv ==
  ASSUME LockInv, NEW g \in Goroutines, RUnlock(g)
  PROVE  LockInv'
  <1>1. rest[g] # <<>>
    BY DEF RUnlock, LockInv, InItsSection, In, TypeOK
  <1>2. /\ rest' \in [Goroutines -> Seq(Sections)]
        /\ \A h \in Goroutines \ {g} : rest'[h] = rest[h]
    BY <1>1, GoesOnType DEF RUnlock, LockInv
  <1>3. phase' = [phase EXCEPT ![g] = "out"] /\ writer' = writer
    BY DEF RUnlock, Moves
  <1>4. TypeOK'
    BY <1>2, <1>3 DEF LockInv, TypeOK, Phases
  <1>5. InItsSection'
    BY <1>2, <1>3 DEF LockInv, TypeOK, InItsSection, In
  <1>6. OneWriter' /\ NoReaderMeetsWriter'
    BY <1>2, <1>3 DEF LockInv, TypeOK, OneWriter, NoReaderMeetsWriter, Writes, Reading, In
  <1> QED BY <1>4, <1>5, <1>6 DEF LockInv

\* When a writer leaves there is no other, so that the readers let in meet none.
LEMMA UnlockInv ==
  ASSUME LockInv, NEW g \in Goroutines, Unlock(g)
  PROVE  LockInv'
  <1>1. rest[g] # <<>> /\ Writes(g) /\ writer = g
    BY DEF Unlock, LockInv, OneWriter, Writes, In
  <1>2. /\ rest' \in [Goroutines -> Seq(Sections)]
        /\ \A h \in Goroutines \ {g} : rest'[h] = rest[h]
    BY <1>1, GoesOnType DEF Unlock, LockInv
  <1>3. /\ phase' \in [Goroutines -> Phases]
        /\ phase'[g] = "out" /\ writer' = None
        /\ \A h \in Goroutines \ {g} :
             /\ phase[h] = "waiting" => phase'[h] = "inside"
             /\ phase[h] = "waitingAgain" => phase'[h] = "twice"
             /\ phase[h] \notin {"waiting", "waitingAgain"} => phase'[h] = phase[h]
    BY DEF Unlock, LockInv, TypeOK, Phases
  <1>4. \A h \in Goroutines \ {g} : phase[h] # "announced" /\ ~Writes(h)
    BY <1>1 DEF LockInv, OneWriter
  <1>5. TypeOK'
    BY <1>2, <1>3 DEF LockInv, TypeOK, Phases
  <1>6. InItsSection'
    BY <1>2, <1>3 DEF LockInv, TypeOK, Phases, InItsSection, In
  <1>7. \A h \in Goroutines : phase'[h] # "announced" /\ ~Writes(h)'
    BY <1>2, <1>3, <1>4 DEF LockInv, TypeOK, Phases, InItsSection, Writes, In
  <1>8. OneWriter' /\ NoReaderMeetsWriter'
    BY <1>7 DEF OneWriter, NoReaderMeetsWriter
  <1> QED BY <1>5, <1>6, <1>8 DEF LockInv

--------------------------------------------------------------------------------
LEMMA NextInv == ASSUME LockInv, [Next]_vars PROVE LockInv'
  <1>1. CASE UNCHANGED vars
    BY <1>1 DEF vars, LockInv, TypeOK, InItsSection, OneWriter, NoReaderMeetsWriter, Writes, Reading, In
  <1>2. CASE Next
    <2>1. PICK g \in Goroutines : Call(g) \/ Announce(g) \/ Step(g)
      BY <1>2 DEF Next
    <2> QED
      BY <2>1, CallInv, AnnounceInv, RLockInv, RLockAgainInv, LockStepInv, RUnlockInv, UnlockInv DEF Step
  <1> QED BY <1>1, <1>2

\* The types of the variables, for any number of goroutines (TypeOK).
THEOREM LockTypeCorrect == Spec => []TypeOK
  <1>1. LockInv /\ [Next]_vars => LockInv'
    BY NextInv
  <1>2. LockInv => TypeOK
    BY DEF LockInv
  <1> QED BY InitInv, <1>1, <1>2, PTL DEF Spec

\* The fields under Manager.mu are never read or written by one goroutine while
\* another writes them, for any number of goroutines and any of the calls.
THEOREM NoRaceEver == Spec => []NoDataRace
  <1>1. LockInv /\ [Next]_vars => LockInv'
    BY NextInv
  <1>2. LockInv => NoDataRace
    BY DEF LockInv, OneWriter, NoReaderMeetsWriter, NoDataRace, Writes, Touches, Reading, In, InItsSection
  <1> QED BY InitInv, <1>1, <1>2, PTL DEF Spec

================================================================================
