------------------------- MODULE SessionLocalStorage -------------------------
(***************************************************************************)
(* nd4j::graph::SessionLocalStorage: one clone of a graph's VariableSpace  *)
(* per session, and one current session per thread.                        *)
(*                                                                         *)
(* Session ids come from an atomic counter, both maps are guarded by one   *)
(* mutex, and localVariableSpace() and endSession() take that mutex twice. *)
(* A clone is named by the id of the session it was made for.              *)
(*                                                                         *)
(* The callers are threads that start a session inside another, end        *)
(* sessions with endSession() and their own ones by id, in any order, and  *)
(* ask for variable spaces at any time: by the id of a session of theirs   *)
(* that is not ended yet, or without one.                                  *)
(***************************************************************************)
EXTENDS Integers, FiniteSets

CONSTANTS
  Threads,
  NoThread,
  MaxSessions   \* bound on _sessionCounter

ASSUME SessionAssumption ==
  /\ NoThread \notin Threads
  /\ MaxSessions \in Nat

VARIABLES
  counter,        \* _sessionCounter
  threadSession,  \* _threadSession
  spaces,         \* keys of _threadVariableSpace
  mutex,          \* the thread that holds _mutex
  pc,             \* the critical section a thread wants or is in, or "idle"
  ntid,           \* the local variable of that name
  own,            \* caller: sessions the thread started and has not ended
  current,        \* caller: the session it started last, 0 once it has
                  \* called endSession()
  using           \* caller: the space it was given last, 0 for none

storage == <<counter, threadSession, spaces>>
caller == <<own, current, using>>
vars == <<storage, mutex, pc, ntid, caller>>

\* No entry for the thread; a session's id is never 0.
NoEntry == -1

Init ==
  /\ counter = 1
  /\ threadSession = [t \in Threads |-> NoEntry]
  /\ spaces = {}
  /\ mutex = NoThread
  /\ pc = [t \in Threads |-> "idle"]
  /\ ntid = [t \in Threads |-> 0]
  /\ own = [t \in Threads |-> {}]
  /\ current = [t \in Threads |-> 0]
  /\ using = [t \in Threads |-> 0]

InSession(t) == threadSession[t] # NoEntry
\* _threadSession[tid] makes an entry with session 0 when there is none.
SessionOf(t) == IF InSession(t) THEN threadSession[t] ELSE 0
At(t, section) == mutex = t /\ pc[t] = section

Goto(t, section) == pc' = [pc EXCEPT ![t] = section]
Unlock(t, section) == mutex' = NoThread /\ Goto(t, section)

Lock(t) ==
  /\ pc[t] \notin {"idle", "threw"}
  /\ mutex = NoThread
  /\ mutex' = t
  /\ UNCHANGED <<storage, pc, ntid, caller>>

-----------------------------------------------------------------------------
(* startSession *)

StartSession_size(t) ==
  /\ pc[t] = "idle" /\ counter <= MaxSessions
  /\ ntid' = [ntid EXCEPT ![t] = Cardinality({u \in Threads : InSession(u)}) + 1]
  /\ counter' = counter + 1
  /\ Goto(t, "start")
  /\ UNCHANGED <<threadSession, spaces, mutex, caller>>

StartSession(t) ==
  /\ pc[t] = "idle" /\ counter <= MaxSessions
  /\ ntid' = [ntid EXCEPT ![t] = counter]
  /\ counter' = counter + 1
  /\ Goto(t, "start")
  /\ UNCHANGED <<threadSession, spaces, mutex, caller>>

PutSession(t) ==
  /\ At(t, "start")
  /\ threadSession' = [threadSession EXCEPT ![t] = ntid[t]]
  /\ Goto(t, "clone")
  /\ UNCHANGED <<counter, spaces, mutex, ntid, caller>>

PutSpace(t) ==
  /\ At(t, "clone")
  /\ spaces' = spaces \cup {ntid[t]}
  /\ own' = [own EXCEPT ![t] = @ \cup {ntid[t]}]
  /\ current' = [current EXCEPT ![t] = ntid[t]]
  /\ Unlock(t, "idle")
  /\ UNCHANGED <<counter, threadSession, ntid, using>>

-----------------------------------------------------------------------------
(* localVariableSpace *)

LocalVariableSpace(t) ==
  /\ pc[t] = "idle"
  /\ Goto(t, "get")
  /\ UNCHANGED <<storage, mutex, ntid, caller>>

LocalVariableSpaceById(t, s) ==
  /\ pc[t] = "idle" /\ s \in own[t]
  /\ ntid' = [ntid EXCEPT ![t] = s]
  /\ Goto(t, "find")
  /\ UNCHANGED <<storage, mutex, caller>>

GetSessionId(t) ==
  /\ At(t, "get")
  /\ threadSession' = [threadSession EXCEPT ![t] = SessionOf(t)]
  /\ ntid' = [ntid EXCEPT ![t] = SessionOf(t)]
  /\ Unlock(t, "find")
  /\ UNCHANGED <<counter, spaces, caller>>

FindSpace_locked(t) ==
  /\ At(t, "find")
  /\ using' = [using EXCEPT ![t] = ntid[t]]
  /\ Goto(t, "idle")
  /\ UNCHANGED <<storage, mutex, ntid, own, current>>

\* at() throws between lock and unlock when there is no such session.
FindSpace(t) ==
  /\ At(t, "find")
  /\ IF ntid[t] \in spaces
     THEN using' = [using EXCEPT ![t] = ntid[t]] /\ Unlock(t, "idle")
     ELSE Goto(t, "threw") /\ UNCHANGED <<mutex, using>>
  /\ UNCHANGED <<storage, ntid, own, current>>

-----------------------------------------------------------------------------
(* endSession.  The caller lets go of the space it is about to end. *)

Drop(t, s) == using' = [using EXCEPT ![t] = IF @ = s THEN 0 ELSE @]

EndSession(t) ==
  /\ pc[t] = "idle"
  /\ Drop(t, threadSession[t])
  /\ current' = [current EXCEPT ![t] = 0]
  /\ Goto(t, "end")
  /\ UNCHANGED <<storage, mutex, ntid, own>>

\* The thread's entry stays, also when the session ended is its current one.
EndSessionById(t, s) ==
  /\ pc[t] = "idle" /\ s \in own[t]
  /\ Drop(t, s)
  /\ ntid' = [ntid EXCEPT ![t] = s]
  /\ Goto(t, "delete")
  /\ UNCHANGED <<storage, mutex, own, current>>

EraseSession_kept(t) ==
  /\ At(t, "end")
  /\ ntid' = [ntid EXCEPT ![t] = SessionOf(t)]
  /\ Unlock(t, "delete")
  /\ UNCHANGED <<storage, caller>>

EraseSession_latest(t) ==
  /\ At(t, "end")
  /\ ntid' = [ntid EXCEPT ![t] = counter - 1]
  /\ threadSession' = [threadSession EXCEPT ![t] = NoEntry]
  /\ Unlock(t, "delete")
  /\ UNCHANGED <<counter, spaces, caller>>

EraseSession(t) ==
  /\ At(t, "end")
  /\ ntid' = [ntid EXCEPT ![t] = SessionOf(t)]
  /\ threadSession' = [threadSession EXCEPT ![t] = NoEntry]
  /\ Unlock(t, "delete")
  /\ UNCHANGED <<counter, spaces, caller>>

\* An id without a space leaves both maps as they were.
DeleteSpace(t) ==
  /\ At(t, "delete")
  /\ spaces' = spaces \ {ntid[t]}
  /\ own' = [own EXCEPT ![t] = @ \ {ntid[t]}]
  /\ Unlock(t, "idle")
  /\ UNCHANGED <<counter, threadSession, ntid, current, using>>

-----------------------------------------------------------------------------

Step(t) ==
  \/ Lock(t)
  \/ StartSession(t) \/ PutSession(t) \/ PutSpace(t)
  \/ LocalVariableSpace(t) \/ GetSessionId(t) \/ FindSpace(t)
  \/ \E s \in own[t] : LocalVariableSpaceById(t, s) \/ EndSessionById(t, s)
  \/ EndSession(t) \/ EraseSession(t) \/ DeleteSpace(t)

Next == \E t \in Threads : Step(t)

Spec == Init /\ [][Next]_vars

-----------------------------------------------------------------------------
(* Properties *)

Sections == {"start", "clone", "get", "find", "end", "delete"}

\* Types; every id in circulation was given out by the counter.
TypeOK ==
  /\ counter \in Nat \ {0}
  /\ threadSession \in [Threads -> {NoEntry} \cup 0 .. counter - 1]
  /\ spaces \in SUBSET (1 .. counter - 1)
  /\ mutex \in Threads \cup {NoThread}
  /\ pc \in [Threads -> Sections \cup {"idle", "threw"}]
  /\ ntid \in [Threads -> 0 .. counter - 1]
  /\ own \in [Threads -> SUBSET (1 .. counter - 1)]
  /\ current \in [Threads -> 0 .. counter - 1]
  /\ using \in [Threads -> 0 .. counter - 1]

\* A thread works on a clone of its own: no two threads are given the same
\* space, in whatever order they take numbers and locks in startSession.
Isolated ==
  \A t, u \in Threads : t # u => using[t] = 0 \/ using[t] # using[u]

\* The space a thread was given by localVariableSpace lives until the thread
\* itself ends that session: no endSession of another thread deletes it.
SpaceKept == \A t \in Threads : using[t] # 0 => using[t] \in spaces

\* When every session has been ended no clone is left, as the test
\* BasicTests_1 expects of numberOfSessions; and no entry, but those of the
\* threads that ended the session they started last by its id.
AllEnded ==
  (\A t \in Threads : pc[t] = "idle" /\ own[t] = {}) =>
    /\ spaces = {}
    /\ \A t \in Threads : InSession(t) => current[t] # 0

\* A thread that waits for _mutex waits for one inside its critical section,
\* or for one that asked for its space, without an id, when the session it
\* started last was over: a call made inside it, or with the id of a session
\* of the caller's, returns with _mutex unlocked whatever other threads do.
MutexReleased ==
  mutex # NoThread =>
    \/ pc[mutex] \in Sections
    \/ current[mutex] \notin own[mutex] /\ ntid[mutex] \notin own[mutex]

\* Key 0 holds the original VariableSpace: a thread that asks for its space
\* outside any session, and so with session 0, is given that one.
KeyZeroHolds == \A t \in Threads : pc[t] = "threw" => ntid[t] # 0
=============================================================================
