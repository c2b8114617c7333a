------------------------------- MODULE MCLegacy -------------------------------
(***************************************************************************)
(* Instances of WppSessions, LegacyInbox and Baileys for model checking.   *)
(* These parts of the legacy server share no state but the session they    *)
(* belong to, so a behaviour is one of one part while the others stand     *)
(* still.                                                                  *)
(***************************************************************************)
EXTENDS WppSessions, TLC

CONSTANTS r1, r2, t1, t2, m1, m2, m3, Messages, MaxSends, Own, MaxEvents

ASSUME LegacyAssumption ==
  /\ IsFiniteSet(Messages) /\ IsFiniteSet(Own) /\ Nil \notin Messages
  /\ MaxSends \in Nat /\ MaxEvents \in Nat

VARIABLES
  part,
  arrived, seen, conv, stored, cache, call, sends, failed, since, raced, late, stale,
  socket, open, ended, reconnecting, job, told, replaced, muddled,
  thread, count, unread, reader, overlooked, retimed, events

inbox == <<arrived, seen, conv, stored, cache, call, sends, failed, since, raced, late, stale>>
sockets == <<socket, open, ended, reconnecting, job, told, replaced, muddled>>
threads == <<thread, count, unread, reader, overlooked, retimed, events>>

Inbox == INSTANCE LegacyInbox WITH task <- call

Engine == INSTANCE Baileys WITH
  Sockets <- Runtimes, Jobs <- Tasks, Incoming <- Messages, Times <- {1, 2}, Batch <- 1

MCInit == part \in {"session", "inbox", "sockets", "thread"} /\ Init /\ Inbox!Init /\ Engine!Init

MCNext ==
  /\ UNCHANGED part
  /\ \/ part = "session" /\ Next /\ UNCHANGED <<inbox, sockets, threads>>
     \/ part = "inbox" /\ Inbox!Next /\ UNCHANGED <<vars, sockets, threads>>
     \/ part = "sockets" /\ Engine!SocketNext /\ UNCHANGED <<vars, inbox, threads>>
     \/ part = "thread" /\ Engine!ThreadNext /\ UNCHANGED <<vars, inbox, sockets>>

MCSpec == MCInit /\ [][MCNext]_<<vars, inbox, sockets, threads, part>>

Alike == Permutations(Tasks) \cup Permutations(Runtimes) \cup Permutations(Messages)

\* What follows a disturbance is not followed up, SettledRow having nothing to say of it.
Calm == ~disturbed

TypesOK ==
  CASE part = "session" -> TypeOK
    [] part = "inbox" -> Inbox!TypeOK
    [] OTHER -> Engine!TypeOK

\* What either engine keeps of its sessions: runtimes and intervals, or sockets.
EnginesKept == IF part = "sockets" THEN Engine!SocketsKept ELSE RuntimeKept

SeenIsKept == part = "inbox" => Inbox!SeenIsKept

\* The unread count of the row, and that of the other engine's cache.
UnreadKept == IF part = "thread" THEN Engine!ThreadKept ELSE Inbox!UnreadKept

CacheExplained == part = "inbox" => Inbox!CacheExplained
================================================================================
