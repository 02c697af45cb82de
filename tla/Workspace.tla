----------------------------- MODULE Workspace -----------------------------
(***************************************************************************)
(* nd4j::memory::Workspace of the CPU backend: an arena that op threads    *)
(* allocate from concurrently.  A request is served from the host buffer   *)
(* while it fits and from a private malloc (a "spill") when it does not.   *)
(* scopeOut rewinds the arena, scopeIn frees the spills and grows the      *)
(* buffer to what the last cycle asked for.                                *)
(*                                                                         *)
(* allocateBytes is split at every point where another thread can run.     *)
(* The owner's calls (scopeIn, scopeOut, expandTo, expandBy, destructor)   *)
(* take no lock; the callers make them between parallel sections, which is *)
(* the guard Quiet.  `regions' is a ghost: the memory clients hold.        *)
(***************************************************************************)
EXTENDS Integers, FiniteSets, FiniteSetsExt

CONSTANTS
  Threads,        \* op threads that call allocateBytes
  Requests,       \* request sizes, in bytes
  ExpandSizes,    \* arguments of expandTo / expandBy
  InitialSize,    \* constructor argument, or sizeHost() of the external buffer
  MaxCycleBytes,  \* bound: bytes requested between two scopeIn
  MaxMallocs,     \* bound: number of mallocs in a behaviour
  NoThread        \* a mutex nobody holds

ASSUME WorkspaceAssumption ==
  /\ NoThread \notin Threads
  /\ Requests \subseteq Nat
  /\ ExpandSizes \subseteq Nat
  /\ InitialSize \in Nat
  /\ MaxCycleBytes \in Nat
  /\ MaxMallocs \in Nat

VARIABLES
  ptrHost,           \* _ptrHost: id of the block the arena lives in, or Null
  allocatedHost,     \* _allocatedHost
  currentSize,       \* _currentSize
  offset,            \* _offset
  cycleAllocations,  \* _cycleAllocations
  spills,            \* _spills: ids of spill blocks
  spillsSize,        \* _spillsSize
  mutexAllocation,   \* holder of _mutexAllocation
  mutexSpills,       \* holder of _mutexSpills
  heap,              \* live blocks [id, size]: what malloc gave and free has not taken
  mallocs,           \* ids 1 .. mallocs have been used
  pc, req, base, mem, seen,  \* allocateBytes' locals, per thread
  regions,           \* ghost: memory handed out and not yet given back
  lastDemand,        \* ghost: bytes requested in the cycle the last scopeIn closed
  destroyed,
  externalized       \* _externalized: built over an ExternalWorkspace

owned  == <<ptrHost, allocatedHost, currentSize, offset, cycleAllocations,
            spills, spillsSize>>
locals == <<pc, req, base, mem, seen>>
vars   == <<owned, mutexAllocation, mutexSpills, heap, mallocs, locals,
            regions, lastDemand, destroyed, externalized>>

Null == 0
Block(i, n) == [id |-> i, size |-> n]
Region(t, b, from, n) == [who |-> t, blk |-> b, from |-> from, len |-> n]
Ids(h) == {b.id : b \in h}
SizeOf(i) == (CHOOSE b \in heap : b.id = i).size
Without(h, ids) == {b \in h : b.id \notin ids}

AllIdle == \A t \in Threads : pc[t] = "idle"
Quiet   == AllIdle /\ ~destroyed

\* Both constructors.  An external buffer is block 1, owned by the caller.
Init ==
  /\ externalized \in (IF InitialSize > 0 THEN BOOLEAN ELSE {FALSE})
  /\ ptrHost = IF InitialSize > 0 THEN 1 ELSE Null
  /\ heap = IF InitialSize > 0 THEN {Block(1, InitialSize)} ELSE {}
  /\ mallocs = IF InitialSize > 0 THEN 1 ELSE 0
  /\ allocatedHost = (InitialSize > 0 /\ ~externalized)
  /\ currentSize = InitialSize
  /\ offset = 0 /\ cycleAllocations = 0
  /\ spills = {} /\ spillsSize = 0
  /\ mutexAllocation = NoThread /\ mutexSpills = NoThread
  /\ pc = [t \in Threads |-> "idle"]
  /\ req = [t \in Threads |-> 0]
  /\ base = [t \in Threads |-> 0]
  /\ mem = [t \in Threads |-> Null]
  /\ seen = [t \in Threads |-> {}]
  /\ regions = {} /\ lastDemand = 0 /\ destroyed = FALSE

Goto(t, from, to) == pc[t] = from /\ pc' = [pc EXCEPT ![t] = to]

\* allocateBytes returns or throws: its locals are gone.
Leave(t, from) ==
  /\ Goto(t, from, "idle")
  /\ req' = [req EXCEPT ![t] = 0]
  /\ base' = [base EXCEPT ![t] = 0]
  /\ mem' = [mem EXCEPT ![t] = Null]
  /\ seen' = [seen EXCEPT ![t] = {}]

---------------------------------------------------------------------------
(* allocateBytes *)

\* A request below one byte is refused with an exception before any change.
AllocateBytes(t, n) ==
  /\ ~destroyed /\ n >= 1
  /\ cycleAllocations + n <= MaxCycleBytes
  /\ Goto(t, "idle", "lock")
  /\ cycleAllocations' = cycleAllocations + n
  /\ req' = [req EXCEPT ![t] = n]
  /\ UNCHANGED <<ptrHost, allocatedHost, currentSize, offset, spills, spillsSize,
                 mutexAllocation, mutexSpills, heap, mallocs, base, mem, seen,
                 regions, lastDemand, destroyed, externalized>>

\* Mutant: the allocation mutex is not taken.
LockAllocation_unlocked(t) ==
  /\ Goto(t, "lock", "check")
  /\ mutexAllocation' = t
  /\ UNCHANGED <<owned, mutexSpills, heap, mallocs, req, base, mem, seen,
                 regions, lastDemand, destroyed, externalized>>

LockAllocation(t) ==
  /\ mutexAllocation = NoThread
  /\ Goto(t, "lock", "check")
  /\ mutexAllocation' = t
  /\ UNCHANGED <<owned, mutexSpills, heap, mallocs, req, base, mem, seen,
                 regions, lastDemand, destroyed, externalized>>

\* Mutant: the size of the request is left out of the bounds check.
TakeOffset_unchecked(t) ==
  /\ offset <= currentSize
  /\ Goto(t, "check", "advance")
  /\ base' = [base EXCEPT ![t] = offset]
  /\ UNCHANGED <<owned, mutexAllocation, mutexSpills, heap, mallocs, req, mem,
                 seen, regions, lastDemand, destroyed, externalized>>

\* The request fits: result = _ptrHost + _offset.load()
TakeOffset(t) ==
  /\ offset + req[t] <= currentSize
  /\ Goto(t, "check", "advance")
  /\ base' = [base EXCEPT ![t] = offset]
  /\ UNCHANGED <<owned, mutexAllocation, mutexSpills, heap, mallocs, req, mem,
                 seen, regions, lastDemand, destroyed, externalized>>

\* _offset += numBytes, unlock, return result
Advance(t) ==
  /\ Leave(t, "advance")
  /\ offset' = offset + req[t]
  /\ mutexAllocation' = NoThread
  /\ regions' = regions \cup {Region(t, ptrHost, base[t], req[t])}
  /\ UNCHANGED <<ptrHost, allocatedHost, currentSize, cycleAllocations, spills,
                 spillsSize, mutexSpills, heap, mallocs, lastDemand, destroyed, externalized>>

\* The request does not fit: the lock is released before the spill's malloc.
Overflow(t) ==
  /\ offset + req[t] > currentSize
  /\ Goto(t, "check", "malloc")
  /\ mutexAllocation' = NoThread
  /\ UNCHANGED <<owned, mutexSpills, heap, mallocs, req, base, mem, seen,
                 regions, lastDemand, destroyed, externalized>>

SpillMalloc(t) ==
  /\ mallocs < MaxMallocs
  /\ Goto(t, "malloc", "lockSpills")
  /\ mallocs' = mallocs + 1
  /\ heap' = heap \cup {Block(mallocs + 1, req[t])}
  /\ mem' = [mem EXCEPT ![t] = mallocs + 1]
  /\ UNCHANGED <<owned, mutexAllocation, mutexSpills, req, base, seen, regions,
                 lastDemand, destroyed, externalized>>

\* Mutant: a failed malloc starts the request over.
SpillMallocFails_retry(t) ==
  /\ Goto(t, "malloc", "lock")
  /\ UNCHANGED <<owned, mutexAllocation, mutexSpills, heap, mallocs, req, base,
                 mem, seen, regions, lastDemand, destroyed, externalized>>

\* malloc returned nullptr: CHECK_ALLOC throws, the request stays counted.
SpillMallocFails(t) ==
  /\ Leave(t, "malloc")
  /\ UNCHANGED <<owned, mutexAllocation, mutexSpills, heap, mallocs, regions,
                 lastDemand, destroyed, externalized>>

\* Mutant: push_back without _mutexSpills.
LockSpills_unlocked(t) ==
  /\ Goto(t, "lockSpills", "push")
  /\ mutexSpills' = t
  /\ seen' = [seen EXCEPT ![t] = spills]
  /\ UNCHANGED <<owned, mutexAllocation, heap, mallocs, req, base, mem, regions,
                 lastDemand, destroyed, externalized>>

LockSpills(t) ==
  /\ mutexSpills = NoThread
  /\ Goto(t, "lockSpills", "push")
  /\ mutexSpills' = t
  /\ seen' = [seen EXCEPT ![t] = spills]
  /\ UNCHANGED <<owned, mutexAllocation, heap, mallocs, req, base, mem, regions,
                 lastDemand, destroyed, externalized>>

\* push_back writes back the vector it read, then the lock is released
PushSpill(t) ==
  /\ Goto(t, "push", "account")
  /\ spills' = seen[t] \cup {mem[t]}
  /\ mutexSpills' = NoThread
  /\ UNCHANGED <<ptrHost, allocatedHost, currentSize, offset, cycleAllocations,
                 spillsSize, mutexAllocation, heap, mallocs, req, base, mem, seen,
                 regions, lastDemand, destroyed, externalized>>

AccountSpill(t) ==
  /\ Leave(t, "account")
  /\ spillsSize' = spillsSize + req[t]
  /\ regions' = regions \cup {Region(t, mem[t], 0, req[t])}
  /\ UNCHANGED <<ptrHost, allocatedHost, currentSize, offset, cycleAllocations,
                 spills, mutexAllocation, mutexSpills, heap, mallocs, lastDemand,
                 destroyed, externalized>>

---------------------------------------------------------------------------
(* The owner's calls *)

Freeable(p) == IF allocatedHost /\ ~externalized THEN {p} ELSE {}

\* init(bytes) over heap h.  The old buffer is freed before the new malloc, so
\* a failing malloc (the last disjunct) leaves a null buffer of the old size.
Grow(bytes, h, ok) ==
  \/ /\ currentSize >= bytes /\ ok
     /\ heap' = h
     /\ UNCHANGED <<ptrHost, allocatedHost, currentSize, mallocs>>
  \/ /\ currentSize < bytes /\ mallocs < MaxMallocs /\ ok
     /\ heap' = Without(h, Freeable(ptrHost)) \cup {Block(mallocs + 1, bytes)}
     /\ ptrHost' = mallocs + 1
     /\ mallocs' = mallocs + 1
     /\ currentSize' = bytes
     /\ allocatedHost' = TRUE
  \/ /\ currentSize < bytes /\ ~ok
     /\ heap' = Without(h, Freeable(ptrHost))
     /\ ptrHost' = Null
     /\ UNCHANGED <<allocatedHost, currentSize, mallocs>>

\* freeSpills(): the vector and its counter are emptied; what the blocks did to
\* the heap is Without(heap, spills) in the callers.
FreeSpills == spillsSize' = 0 /\ spills' = {}

\* Mutant: _cycleAllocations is reset before init reads it.
ScopeIn_resetFirst(ok) ==
  /\ Quiet /\ regions = {}
  /\ FreeSpills
  /\ Grow(0, Without(heap, spills), ok)
  /\ cycleAllocations' = 0
  /\ lastDemand' = cycleAllocations
  /\ UNCHANGED <<offset, mutexAllocation, mutexSpills, locals, regions, destroyed, externalized>>

\* freeSpills(), init(_cycleAllocations), _cycleAllocations = 0.  The exception
\* of a failed init skips the reset.  Callers hold nothing of the closed cycle.
ScopeIn(ok) ==
  /\ Quiet /\ regions = {}
  /\ FreeSpills
  /\ Grow(cycleAllocations, Without(heap, spills), ok)
  /\ cycleAllocations' = IF ok THEN 0 ELSE cycleAllocations
  /\ lastDemand' = IF ok THEN cycleAllocations ELSE lastDemand
  /\ UNCHANGED <<offset, mutexAllocation, mutexSpills, locals, regions, destroyed, externalized>>

\* Mutant: the offset is rewound by the bytes of the cycle, spills included.
ScopeOut_subtract ==
  /\ Quiet
  /\ offset' = offset - cycleAllocations
  /\ regions' = {}
  /\ UNCHANGED <<ptrHost, allocatedHost, currentSize, cycleAllocations, spills,
                 spillsSize, mutexAllocation, mutexSpills, heap, mallocs, locals,
                 lastDemand, destroyed, externalized>>

ScopeOut ==
  /\ Quiet
  /\ offset' = 0
  /\ regions' = {}
  /\ UNCHANGED <<ptrHost, allocatedHost, currentSize, cycleAllocations, spills,
                 spillsSize, mutexAllocation, mutexSpills, heap, mallocs, locals,
                 lastDemand, destroyed, externalized>>

\* expandTo(n) or expandBy(n), as the Graph constructor calls them: before any
\* array exists.
Expand(n, ok) ==
  /\ Quiet /\ regions = {}
  /\ \/ Grow(n, heap, ok)
     \/ Grow(currentSize + n, heap, ok)
  /\ UNCHANGED <<offset, cycleAllocations, spills, spillsSize, mutexAllocation,
                 mutexSpills, locals, regions, lastDemand, destroyed, externalized>>

\* ~Workspace()
Destroy ==
  /\ Quiet /\ regions = {}
  /\ heap' = Without(heap, spills \cup Freeable(ptrHost))
  /\ FreeSpills
  /\ destroyed' = TRUE
  /\ UNCHANGED <<ptrHost, allocatedHost, currentSize, offset, cycleAllocations,
                 mutexAllocation, mutexSpills, mallocs, locals, regions, lastDemand,
                 externalized>>

Gone == destroyed /\ UNCHANGED vars

---------------------------------------------------------------------------
ThreadStep(t) ==
  \/ LockAllocation(t) \/ TakeOffset(t) \/ Advance(t)
  \/ Overflow(t) \/ SpillMalloc(t) \/ SpillMallocFails(t)
  \/ LockSpills(t) \/ PushSpill(t) \/ AccountSpill(t)

Next ==
  \/ \E t \in Threads : ThreadStep(t) \/ \E n \in Requests : AllocateBytes(t, n)
  \/ \E ok \in BOOLEAN : ScopeIn(ok) \/ \E n \in ExpandSizes : Expand(n, ok)
  \/ ScopeOut
  \/ Destroy
  \/ Gone

Spec == Init /\ [][Next]_vars

\* A thread inside allocateBytes keeps running; nothing forces new requests
\* or the owner's calls, and no fairness is assumed of the mutexes.
FairSpec == Spec /\ \A t \in Threads : WF_vars(ThreadStep(t))

---------------------------------------------------------------------------
(* Properties *)

PcValues == {"idle", "lock", "check", "advance", "malloc", "lockSpills", "push",
             "account"}

Blocks  == [id : Nat, size : Nat]
RegionSet == [who : Threads, blk : Nat, from : Nat, len : Nat]

\* The fields of Workspace and the locals of allocateBytes keep their types.
TypeOK ==
  /\ ptrHost \in Nat /\ allocatedHost \in BOOLEAN
  /\ currentSize \in Nat /\ offset \in Nat /\ cycleAllocations \in Nat
  /\ spills \subseteq Nat /\ spillsSize \in Nat
  /\ mutexAllocation \in Threads \cup {NoThread}
  /\ mutexSpills \in Threads \cup {NoThread}
  /\ heap \subseteq Blocks /\ mallocs \in Nat
  /\ pc \in [Threads -> PcValues]
  /\ req \in [Threads -> Nat] /\ base \in [Threads -> Nat]
  /\ mem \in [Threads -> Nat] /\ seen \in [Threads -> SUBSET Nat]
  /\ regions \subseteq RegionSet /\ lastDemand \in Nat /\ destroyed \in BOOLEAN
  /\ externalized \in BOOLEAN

Disjoint(r, s) == r.blk # s.blk \/ r.from + r.len <= s.from
                                \/ s.from + s.len <= r.from

\* Two pointers allocateBytes returned in one cycle, to whatever threads,
\* never overlap.
NoOverlap == \A r, s \in regions : r # s => Disjoint(r, s)

\* Memory a client still holds lies inside a block that has not been freed:
\* scopeIn, the growth of the buffer and spilling never pull it away.  (After
\* a growth whose malloc failed the arena hands out null-based pointers.)
RegionsBacked ==
  \A r \in regions : r.blk # Null =>
     \E b \in heap : b.id = r.blk /\ r.from + r.len <= b.size

InFlight == {mem[t] : t \in {u \in Threads : pc[u] \in {"lockSpills", "push"}}}

\* A workspace that owns its memory loses no block: everything malloc gave is
\* the buffer, a recorded spill, a spill being recorded, or freed; nothing is
\* left after the destructor.
NoLeak ==
  ~externalized =>
     Ids(heap) \subseteq IF destroyed THEN {} ELSE {ptrHost} \cup spills \cup InFlight

\* Between parallel sections getSpilledSize() is the size of the live spills,
\* so getAllocatedSize(), the footprint a graph run records, is exact.
SpillsAccounted ==
  AllIdle => spillsSize = MapThenSumSet(SizeOf, spills)

\* The arena learns: once scopeIn has seen a cycle, a cycle that asks for no
\* more in total is served from the buffer without a single spill.
CycleServed ==
  cycleAllocations <= lastDemand =>
     /\ spills = {}
     /\ \A t \in Threads : pc[t] \notin {"malloc", "lockSpills", "push", "account"}

\* Memory that came from an ExternalWorkspace is never freed by the workspace.
ExternalKept == externalized => 1 \in Ids(heap)

\* Memory handed out by allocateBytes is the client's own and stays allocated.
RegionsSound == NoOverlap /\ RegionsBacked

\* Every block is freed when it should be, and the caller's never is.
HeapSound == NoLeak /\ ExternalKept

\* The counters are exact, and so good enough for the next cycle to be served
\* without spills.
Accounted == SpillsAccounted /\ CycleServed

\* The arena the clients see.  After a growth whose malloc failed the arena
\* goes on handing out pointers at null: the block they lie in is the one the
\* workspace believes it has.
Believed == heap \cup IF ptrHost = Null THEN {Block(Null, currentSize)} ELSE {}
A == INSTANCE Arena WITH Clients <- Threads, Sizes <- Requests,
                         asked <- req, held <- regions, live <- Believed

\* allocateBytes, with its two mutexes, its unlocked malloc and its spills,
\* answers every request in what looks like a single step, with fresh memory.
ImplementsArena == A!FairSpec

\* The part of it that no fairness is needed for.
ArenaSafe == A!Spec

\* A parallel section of finitely many allocations always comes to its end:
\* no order of lock acquisitions leaves a thread inside allocateBytes.
SectionCompletes == []<>AllIdle

===========================================================================
