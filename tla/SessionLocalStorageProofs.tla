--------------------- MODULE SessionLocalStorageProofs ----------------------
(***************************************************************************)
(* Sessions are isolated, their spaces live as long as they are used and   *)
(* none is lost, for every number of threads and sessions.                 *)
(*                                                                         *)
(* None of this is inductive.  It rests on what a thread carries from one  *)
(* critical section to the next: the number it took before the lock is     *)
(* nobody else's, and the session it looked up in the first section of     *)
(* localVariableSpace or endSession is in the second still its own, or over.*)
(***************************************************************************)
EXTENDS SessionLocalStorage, TLAPS

Starting(t) == pc[t] \in {"start", "clone"}

\* A number taken from the counter belongs to the thread that took it.
FreshInv ==
  \A t \in Threads : Starting(t) =>
     /\ ntid[t] # 0
     /\ ntid[t] \notin spaces
     /\ \A u \in Threads : u # t /\ Starting(u) => ntid[u] # ntid[t]

\* The live spaces are shared out between the threads.
OwnInv ==
  /\ \A t \in Threads : own[t] \subseteq spaces
  /\ \A s \in spaces : \E t \in Threads : s \in own[t]
  /\ \A t, u \in Threads : t # u => own[t] \cap own[u] = {}

\* A session that is over: it has no space, and never gets one.
Over(s) == s \notin spaces /\ \A t \in Threads : Starting(t) => ntid[t] # s

\* A thread's entry is a session of its own, or one that is over.
EntryInv ==
  \A t \in Threads :
     \/ ~InSession(t)
     \/ threadSession[t] \in own[t]
     \/ pc[t] = "clone"
     \/ Over(threadSession[t])

\* What the second critical section of a call works on.
SectionInv ==
  \A t \in Threads :
     /\ pc[t] \in {"find", "threw"} =>
          ntid[t] \in own[t] \/ (Over(ntid[t]) /\ current[t] \notin own[t])
     /\ pc[t] = "end" => /\ using[t] = 0 \/ using[t] # threadSession[t]
                         /\ current[t] = 0
     /\ pc[t] = "delete" => \/ ntid[t] \in own[t] /\ using[t] # ntid[t]
                            \/ Over(ntid[t])
     /\ pc[t] = "threw" => ntid[t] \notin spaces

UsingInv == \A t \in Threads : using[t] # 0 => using[t] \in own[t]

\* The entry of a thread inside the session it started last is that session;
\* once endSession() has ended one, the thread has no entry.
CurrentInv ==
  \A t \in Threads :
     /\ pc[t] = "clone" => threadSession[t] = ntid[t]
     /\ current[t] \in own[t] /\ pc[t] # "clone" => threadSession[t] = current[t]
     /\ current[t] = 0 /\ InSession(t) =>
          \/ pc[t] \in {"clone", "end"}
          \/ pc[t] \in {"find", "threw"} /\ ntid[t] = 0

LockInv == mutex # NoThread => pc[mutex] \in Sections \cup {"threw"}

Safe ==
  /\ FreshInv
  /\ OwnInv
  /\ EntryInv
  /\ SectionInv
  /\ UsingInv
  /\ CurrentInv
  /\ LockInv

IndInv == TypeOK /\ Safe

-----------------------------------------------------------------------------
(* The constructor *)

\* A new storage has no session, no clone and no caller.
LEMMA InitSafe == Init => IndInv
<1> SUFFICES ASSUME Init PROVE IndInv
  OBVIOUS
<1> USE DEF Init
<1>1. TypeOK
  BY DEF TypeOK, NoEntry
<1>2. FreshInv /\ OwnInv
  BY DEF FreshInv, OwnInv, Starting
<1>3. EntryInv /\ SectionInv /\ UsingInv
  BY DEF EntryInv, SectionInv, UsingInv, InSession
<1>4. CurrentInv /\ LockInv
  BY DEF CurrentInv, LockInv, InSession, NoEntry
<1> QED
  BY <1>1, <1>2, <1>3, <1>4 DEF IndInv, Safe

-----------------------------------------------------------------------------
(* Each operation *)

\* Taking _mutex changes nothing else.
LEMMA LockSafe ==
  ASSUME IndInv, NEW t \in Threads, Lock(t)
  PROVE  IndInv'
<1> USE SessionAssumption
    DEF IndInv, Safe, TypeOK, NoEntry, Sections, Lock, storage, caller
<1>1. TypeOK'
  OBVIOUS
<1>2. FreshInv'
  BY DEF FreshInv, Starting
<1>3. OwnInv'
  BY DEF OwnInv
<1>4. EntryInv'
  BY DEF EntryInv, Over, Starting, InSession
<1>5. SectionInv'
  BY DEF SectionInv, Over, Starting, InSession
<1>6. UsingInv'
  BY DEF UsingInv
<1>7. CurrentInv'
  BY DEF CurrentInv, InSession
<1>8. LockInv'
  BY DEF LockInv
<1> QED
  BY <1>1, <1>2, <1>3, <1>4, <1>5, <1>6, <1>7, <1>8

\* The counter gives every thread a number nobody has.
LEMMA StartSessionSafe ==
  ASSUME IndInv, NEW t \in Threads, StartSession(t)
  PROVE  IndInv'
<1> USE SessionAssumption
    DEF IndInv, Safe, TypeOK, NoEntry, Sections, StartSession, Goto, caller
<1>1. TypeOK'
  OBVIOUS
<1>2. FreshInv'
  BY DEF FreshInv, Starting
<1>3. OwnInv'
  BY DEF OwnInv
<1>4. EntryInv'
  BY DEF EntryInv, Over, Starting, InSession
<1>5. SectionInv'
  BY DEF SectionInv, Over, Starting, InSession
<1>6. UsingInv'
  BY DEF UsingInv
<1>7. CurrentInv'
  BY DEF CurrentInv, InSession
<1>8. LockInv'
  BY DEF LockInv
<1> QED
  BY <1>1, <1>2, <1>3, <1>4, <1>5, <1>6, <1>7, <1>8

\* The thread's entry becomes the session it is starting.
LEMMA PutSessionSafe ==
  ASSUME IndInv, NEW t \in Threads, PutSession(t)
  PROVE  IndInv'
<1> USE SessionAssumption
    DEF IndInv, Safe, TypeOK, NoEntry, Sections, PutSession, At, Goto, caller
<1>1. TypeOK'
  OBVIOUS
<1>2. FreshInv'
  BY DEF FreshInv, Starting
<1>3. OwnInv'
  BY DEF OwnInv
<1>4. EntryInv'
  BY DEF EntryInv, Over, Starting, InSession
<1>5. SectionInv'
  BY DEF SectionInv, Over, Starting, InSession
<1>6. UsingInv'
  BY DEF UsingInv
<1>7. CurrentInv'
  BY DEF CurrentInv, InSession
<1>8. LockInv'
  BY DEF LockInv
<1> QED
  BY <1>1, <1>2, <1>3, <1>4, <1>5, <1>6, <1>7, <1>8

\* The clone goes to the thread that started the session.
LEMMA PutSpaceSafe ==
  ASSUME IndInv, NEW t \in Threads, PutSpace(t)
  PROVE  IndInv'
<1> USE SessionAssumption
    DEF IndInv, Safe, TypeOK, NoEntry, Sections, PutSpace, At, Goto, Unlock
<1>1. TypeOK'
  <2>1. ntid[t] \in 1 .. counter - 1
    BY DEF FreshInv, Starting
  <2>2. spaces' \in SUBSET (1 .. counter - 1)
    BY <2>1
  <2>3. own' \in [Threads -> SUBSET (1 .. counter - 1)]
    BY <2>1
  <2> QED
    BY <2>2, <2>3
<1>2. FreshInv'
  BY DEF FreshInv, Starting
<1>3. OwnInv'
  BY DEF OwnInv, FreshInv, Starting
<1>4. EntryInv'
  BY DEF EntryInv, CurrentInv, Over, Starting, InSession
<1>5. SectionInv'
  BY DEF SectionInv, OwnInv, Over, Starting, InSession
<1>6. UsingInv'
  BY DEF UsingInv
<1>7. CurrentInv'
  BY DEF CurrentInv, FreshInv, Starting, InSession
<1>8. LockInv'
  BY DEF LockInv
<1> QED
  BY <1>1, <1>2, <1>3, <1>4, <1>5, <1>6, <1>7, <1>8

\* Asking for the current space changes no session.
LEMMA LocalVariableSpaceSafe ==
  ASSUME IndInv, NEW t \in Threads, LocalVariableSpace(t)
  PROVE  IndInv'
<1> USE SessionAssumption
    DEF IndInv, Safe, TypeOK, NoEntry, Sections, LocalVariableSpace, Goto, storage, caller
<1>1. TypeOK'
  OBVIOUS
<1>2. FreshInv'
  BY DEF FreshInv, Starting
<1>3. OwnInv'
  BY DEF OwnInv
<1>4. EntryInv'
  BY DEF EntryInv, Over, Starting, InSession
<1>5. SectionInv'
  BY DEF SectionInv, Over, Starting, InSession
<1>6. UsingInv'
  BY DEF UsingInv
<1>7. CurrentInv'
  BY DEF CurrentInv, InSession
<1>8. LockInv'
  BY DEF LockInv
<1> QED
  BY <1>1, <1>2, <1>3, <1>4, <1>5, <1>6, <1>7, <1>8

\* Asking for a space by id changes no session.
LEMMA LocalVariableSpaceByIdSafe ==
  ASSUME IndInv, NEW t \in Threads, NEW s \in own[t], LocalVariableSpaceById(t, s)
  PROVE  IndInv'
<1> USE SessionAssumption
    DEF IndInv, Safe, TypeOK, NoEntry, Sections, LocalVariableSpaceById, Goto, storage, caller
<1>1. TypeOK'
  OBVIOUS
<1>2. FreshInv'
  BY DEF FreshInv, Starting
<1>3. OwnInv'
  BY DEF OwnInv
<1>4. EntryInv'
  BY DEF EntryInv, Over, Starting, InSession
<1>5. SectionInv'
  BY DEF SectionInv, Over, Starting, InSession
<1>6. UsingInv'
  BY DEF UsingInv
<1>7. CurrentInv'
  BY DEF CurrentInv, InSession
<1>8. LockInv'
  BY DEF LockInv
<1> QED
  BY <1>1, <1>2, <1>3, <1>4, <1>5, <1>6, <1>7, <1>8

\* The session looked up is the thread's own, or 0.
LEMMA GetSessionIdSafe ==
  ASSUME IndInv, NEW t \in Threads, GetSessionId(t)
  PROVE  IndInv'
<1> USE SessionAssumption
    DEF IndInv, Safe, TypeOK, NoEntry, Sections, GetSessionId, SessionOf, At, Goto, Unlock, caller
<1>1. TypeOK'
  BY DEF InSession
<1>2. FreshInv'
  BY DEF FreshInv, Starting
<1>3. OwnInv'
  BY DEF OwnInv
<1>4. EntryInv'
  BY DEF EntryInv, FreshInv, Over, Starting, InSession
<1>5. SectionInv'
  BY DEF SectionInv, EntryInv, CurrentInv, OwnInv, FreshInv, Over, Starting, InSession
<1>6. UsingInv'
  BY DEF UsingInv
<1>7. CurrentInv'
  BY DEF CurrentInv, InSession
<1>8. LockInv'
  BY DEF LockInv
<1> QED
  BY <1>1, <1>2, <1>3, <1>4, <1>5, <1>6, <1>7, <1>8

\* The space handed out belongs to the thread, or at() throws.
LEMMA FindSpaceSafe ==
  ASSUME IndInv, NEW t \in Threads, FindSpace(t)
  PROVE  IndInv'
<1> USE SessionAssumption
    DEF IndInv, Safe, TypeOK, NoEntry, Sections, FindSpace, At, Goto, Unlock, storage
<1>1. TypeOK'
  OBVIOUS
<1>2. FreshInv'
  BY DEF FreshInv, Starting
<1>3. OwnInv'
  BY DEF OwnInv
<1>4. EntryInv'
  BY DEF EntryInv, Over, Starting, InSession
<1>5. SectionInv'
  BY DEF SectionInv, Over, Starting, InSession
<1>6. UsingInv'
  BY DEF UsingInv, SectionInv, Over
<1>7. CurrentInv'
  BY DEF CurrentInv, InSession
<1>8. LockInv'
  BY DEF LockInv
<1> QED
  BY <1>1, <1>2, <1>3, <1>4, <1>5, <1>6, <1>7, <1>8

\* The caller lets go of the current space before it ends the session.
LEMMA EndSessionSafe ==
  ASSUME IndInv, NEW t \in Threads, EndSession(t)
  PROVE  IndInv'
<1> USE SessionAssumption
    DEF IndInv, Safe, TypeOK, NoEntry, Sections, EndSession, Goto, Drop, storage
<1>1. TypeOK'
  OBVIOUS
<1>2. FreshInv'
  BY DEF FreshInv, Starting
<1>3. OwnInv'
  BY DEF OwnInv
<1>4. EntryInv'
  BY DEF EntryInv, Over, Starting, InSession
<1>5. SectionInv'
  BY DEF SectionInv, Over, Starting
<1>6. UsingInv'
  BY DEF UsingInv
<1>7. CurrentInv'
  BY DEF CurrentInv, InSession
<1>8. LockInv'
  BY DEF LockInv
<1> QED
  BY <1>1, <1>2, <1>3, <1>4, <1>5, <1>6, <1>7, <1>8

\* The caller lets go of the space before it ends the session.
LEMMA EndSessionByIdSafe ==
  ASSUME IndInv, NEW t \in Threads, NEW s \in own[t], EndSessionById(t, s)
  PROVE  IndInv'
<1> USE SessionAssumption
    DEF IndInv, Safe, TypeOK, NoEntry, Sections, EndSessionById, Goto, Drop, storage
<1>1. TypeOK'
  OBVIOUS
<1>2. FreshInv'
  BY DEF FreshInv, Starting
<1>3. OwnInv'
  BY DEF OwnInv
<1>4. EntryInv'
  BY DEF EntryInv, Over, Starting, InSession
<1>5. SectionInv'
  BY DEF SectionInv, Over, Starting, InSession
<1>6. UsingInv'
  BY DEF UsingInv
<1>7. CurrentInv'
  BY DEF CurrentInv, InSession
<1>8. LockInv'
  BY DEF LockInv
<1> QED
  BY <1>1, <1>2, <1>3, <1>4, <1>5, <1>6, <1>7, <1>8

\* The first half of endSession leaves the session to its second half.
LEMMA EraseSessionSafe ==
  ASSUME IndInv, NEW t \in Threads, EraseSession(t)
  PROVE  IndInv'
<1> USE SessionAssumption
    DEF IndInv, Safe, TypeOK, NoEntry, Sections, EraseSession, SessionOf, At, Goto, Unlock, caller
<1>1. TypeOK'
  BY DEF SectionInv, Over, Starting, InSession
<1>2. FreshInv'
  BY DEF FreshInv, Starting
<1>3. OwnInv'
  BY DEF OwnInv
<1>4. EntryInv'
  BY DEF EntryInv, Over, Starting, InSession
<1>5. SectionInv'
  BY DEF SectionInv, EntryInv, FreshInv, Over, Starting, InSession
<1>6. UsingInv'
  BY DEF UsingInv
<1>7. CurrentInv'
  BY DEF CurrentInv, SectionInv, InSession, OwnInv
<1>8. LockInv'
  BY DEF LockInv
<1> QED
  BY <1>1, <1>2, <1>3, <1>4, <1>5, <1>6, <1>7, <1>8

\* Only the space of the ended session goes.
LEMMA DeleteSpaceSafe ==
  ASSUME IndInv, NEW t \in Threads, DeleteSpace(t)
  PROVE  IndInv'
<1> USE SessionAssumption
    DEF IndInv, Safe, TypeOK, NoEntry, Sections, DeleteSpace, At, Goto, Unlock
<1>1. TypeOK'
  OBVIOUS
<1>2. FreshInv'
  BY DEF FreshInv, Starting
<1>3. OwnInv'
  BY DEF OwnInv, SectionInv, Over
<1>4. EntryInv'
  BY DEF EntryInv, InSession, SectionInv, OwnInv, FreshInv, Over, Starting
<1>5. SectionInv'
  BY DEF SectionInv, Over, Starting, InSession
<1>6. UsingInv'
  BY DEF UsingInv, SectionInv, OwnInv, Over
<1>7. CurrentInv'
  BY DEF CurrentInv, InSession
<1>8. LockInv'
  BY DEF LockInv
<1> QED
  BY <1>1, <1>2, <1>3, <1>4, <1>5, <1>6, <1>7, <1>8

-----------------------------------------------------------------------------
(* The theorems *)

\* The invariant holds in every reachable state.
LEMMA Invariant == Spec => []IndInv
<1>1. IndInv /\ [Next]_vars => IndInv'
  <2> SUFFICES ASSUME IndInv, [Next]_vars PROVE IndInv'
    OBVIOUS
  <2>1. CASE UNCHANGED vars
    BY <2>1 DEF vars, storage, caller, IndInv, Safe, TypeOK, FreshInv, OwnInv,
       EntryInv, SectionInv, UsingInv, CurrentInv, LockInv, Over, Starting, InSession
  <2>2. ASSUME NEW t \in Threads, Step(t) PROVE IndInv'
    BY <2>2, LockSafe, StartSessionSafe, PutSessionSafe, PutSpaceSafe,
       LocalVariableSpaceSafe, LocalVariableSpaceByIdSafe, GetSessionIdSafe,
       FindSpaceSafe, EndSessionSafe, EndSessionByIdSafe, EraseSessionSafe,
       DeleteSpaceSafe DEF Step
  <2> QED
    BY <2>1, <2>2 DEF Next
<1> QED
  BY <1>1, InitSafe, PTL DEF Spec

\* Every id in circulation comes from the counter, and the fields keep their
\* types.
THEOREM SessionTypeOK == Spec => []TypeOK
<1>1. IndInv => TypeOK
  BY DEF IndInv
<1> QED
  BY <1>1, Invariant, PTL

\* No two threads are ever given the same variable space.
THEOREM SessionIsolated == Spec => []Isolated
<1>1. IndInv => Isolated
  BY DEF IndInv, Safe, UsingInv, OwnInv, Isolated
<1> QED
  BY <1>1, Invariant, PTL

\* A space lives as long as the thread it was given to uses it.
THEOREM SessionSpaceKept == Spec => []SpaceKept
<1>1. IndInv => SpaceKept
  BY DEF IndInv, Safe, UsingInv, OwnInv, SpaceKept
<1> QED
  BY <1>1, Invariant, PTL

\* Threads that end all their sessions leave no clone, and no entry but of a
\* session ended by its id.
THEOREM SessionAllEnded == Spec => []AllEnded
<1>1. IndInv => AllEnded
  BY DEF IndInv, Safe, OwnInv, CurrentInv, AllEnded
<1> QED
  BY <1>1, Invariant, PTL

\* A call made inside the session the thread started last, or with the id of
\* a session of its own, never leaves _mutex locked: at() throws only for
\* threads whose session is over, whatever the other threads do.
THEOREM SessionMutexReleased == Spec => []MutexReleased
<1>1. IndInv => MutexReleased
  BY DEF IndInv, Safe, TypeOK, SectionInv, OwnInv, LockInv, MutexReleased
<1> QED
  BY <1>1, Invariant, PTL
=============================================================================
