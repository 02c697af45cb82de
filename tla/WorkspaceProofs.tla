-------------------------- MODULE WorkspaceProofs --------------------------
(***************************************************************************)
(* The safety of the arena for every number of threads, request sizes and  *)
(* bounds.  Neither NoOverlap nor RegionsBacked nor NoLeak is inductive:   *)
(* each rests on who holds which mutex, on what a thread between two       *)
(* critical sections still has in its locals, and on malloc's ids being    *)
(* fresh.                                                                  *)
(***************************************************************************)
EXTENDS Workspace, FiniteSetTheorems, NaturalsInduction, WellFoundedInduction, TLAPS

Holds(t)   == pc[t] \in {"check", "advance"}
OnSpill(t) == pc[t] \in {"lockSpills", "push", "account"}

\* A mutex is held exactly by the thread inside its critical section.
MutexInv ==
  \A t \in Threads : /\ Holds(t) <=> mutexAllocation = t
                     /\ pc[t] = "push" <=> mutexSpills = t

\* What a critical section has read is still current.
ReadInv ==
  \A t \in Threads :
     /\ pc[t] = "advance" => base[t] = offset /\ offset + req[t] <= currentSize
     /\ pc[t] = "push" => seen[t] = spills

\* The buffer is live, and big enough for everything handed out of it.
BufferInv ==
  /\ offset <= currentSize
  /\ ptrHost <= mallocs
  /\ ptrHost # Null /\ ~destroyed => Block(ptrHost, currentSize) \in heap
  /\ ptrHost # Null /\ ~externalized => allocatedHost
  /\ \A i \in spills : i # ptrHost /\ i # Null /\ i <= mallocs
  /\ \A b \in heap : b.id <= mallocs /\ b.id # Null

\* A spill on its way to the client belongs to one thread only.
SpillInv ==
  \A t \in Threads : OnSpill(t) =>
     /\ mem[t] # Null /\ mem[t] # ptrHost /\ mem[t] <= mallocs
     /\ Block(mem[t], req[t]) \in heap
     /\ \A u \in Threads : OnSpill(u) /\ mem[u] = mem[t] => u = t
     /\ \A r \in regions : r.blk # mem[t]
     /\ pc[t] = "account" => mem[t] \in spills

\* A region is either a prefix part of the used buffer or a whole spill.
RegionInv ==
  \A r \in regions :
     /\ r.blk <= mallocs
     /\ r.blk = ptrHost => r.from + r.len <= offset
     /\ r.blk # ptrHost => r.from = 0 /\ Block(r.blk, r.len) \in heap
     /\ \A s \in regions : r.blk # ptrHost /\ s.blk = r.blk => s = r

\* After the destructor nobody holds anything.
DestroyedInv == destroyed => AllIdle /\ regions = {}

Safe ==
  /\ MutexInv
  /\ ReadInv
  /\ BufferInv
  /\ SpillInv
  /\ RegionInv
  /\ DestroyedInv
  /\ NoOverlap
  /\ NoLeak

IndInv == TypeOK /\ Safe

---------------------------------------------------------------------------
(* Type correctness *)

\* The constructors establish the types of the fields.
LEMMA InitTypeOK == Init => TypeOK
<1> SUFFICES ASSUME Init PROVE TypeOK
  OBVIOUS
<1>1. allocatedHost \in BOOLEAN
  BY DEF Init
<1>2. heap \subseteq Blocks
  BY WorkspaceAssumption DEF Init, Blocks, Block
<1> QED
  BY <1>1, <1>2, WorkspaceAssumption DEF Init, TypeOK, Null, PcValues

\* init(bytes) keeps the buffer's fields and the heap well typed.
LEMMA GrowType ==
  ASSUME TypeOK, NEW bytes \in Nat, NEW h, h \subseteq heap, NEW ok \in BOOLEAN,
         Grow(bytes, h, ok)
  PROVE  /\ ptrHost' \in Nat /\ allocatedHost' \in BOOLEAN
         /\ currentSize' \in Nat /\ mallocs' \in Nat /\ heap' \subseteq Blocks
<1>1. Without(h, Freeable(ptrHost)) \subseteq Blocks
  BY DEF TypeOK, Without
<1>2. allocatedHost' \in BOOLEAN
  BY DEF TypeOK, Grow
<1>3. heap' \subseteq Blocks
  BY <1>1 DEF TypeOK, Grow, Block, Blocks
<1> QED
  BY <1>2, <1>3 DEF TypeOK, Grow, Null

\* Every step of a thread and every call of the owner keeps the types.
LEMMA NextTypeOK == TypeOK /\ [Next]_vars => TypeOK'
<1> SUFFICES ASSUME TypeOK, [Next]_vars PROVE TypeOK'
  OBVIOUS
<1> USE DEF TypeOK, Goto, Leave, PcValues, owned, locals, Null
<1>1. CASE \E t \in Threads, n \in Requests : AllocateBytes(t, n)
  BY <1>1, WorkspaceAssumption DEF AllocateBytes
<1>2. CASE \E t \in Threads : LockAllocation(t)
  BY <1>2 DEF LockAllocation
<1>3. CASE \E t \in Threads : TakeOffset(t)
  BY <1>3 DEF TakeOffset
<1>4. CASE \E t \in Threads : Advance(t)
  BY <1>4 DEF Advance, RegionSet, Region
<1>5. CASE \E t \in Threads : Overflow(t)
  BY <1>5 DEF Overflow
<1>6. CASE \E t \in Threads : SpillMalloc(t)
  BY <1>6 DEF SpillMalloc, Blocks, Block
<1>7. CASE \E t \in Threads : SpillMallocFails(t)
  BY <1>7 DEF SpillMallocFails, Null
<1>8. CASE \E t \in Threads : LockSpills(t)
  BY <1>8 DEF LockSpills
<1>9. CASE \E t \in Threads : PushSpill(t)
  BY <1>9 DEF PushSpill
<1>10. CASE \E t \in Threads : AccountSpill(t)
  BY <1>10 DEF AccountSpill, RegionSet, Region
<1>11. CASE \E ok \in BOOLEAN : ScopeIn(ok)
  BY <1>11, GrowType DEF ScopeIn, FreeSpills, Without
<1>12. CASE \E ok \in BOOLEAN, n \in ExpandSizes : Expand(n, ok)
  BY <1>12, GrowType, WorkspaceAssumption DEF Expand
<1>13. CASE ScopeOut
  BY <1>13 DEF ScopeOut
<1>14. CASE Destroy
  BY <1>14 DEF Destroy, FreeSpills, Without
<1>15. CASE Gone
  BY <1>15 DEF Gone, vars
<1>20. CASE UNCHANGED vars
  BY <1>20 DEF vars
<1> QED
  BY <1>1, <1>2, <1>3, <1>4, <1>5, <1>6, <1>7, <1>8, <1>9, <1>10, <1>11, <1>12, <1>13, <1>14, <1>15, <1>20 DEF Next, ThreadStep

\* The fields of a workspace and the locals of its threads keep their types.
THEOREM WorkspaceTypeOK == Spec => []TypeOK
  BY InitTypeOK, NextTypeOK, PTL DEF Spec

---------------------------------------------------------------------------
(* One lemma per action: the action keeps Safe. *)

\* A new request reaches the mutex.
LEMMA AllocateBytesSafe ==
  ASSUME TypeOK, TypeOK', Safe, NEW t \in Threads, NEW n \in Requests, AllocateBytes(t, n)
  PROVE  Safe'
<1> USE DEF TypeOK, AllocateBytes, Goto
<1>1. MutexInv'
  BY WorkspaceAssumption DEF Safe, MutexInv, Holds
<1>2. ReadInv'
  BY DEF Safe, ReadInv, MutexInv
<1>3. BufferInv'
  BY DEF Safe, BufferInv, Block, Null
<1>4. SpillInv'
  BY DEF Safe, SpillInv, BufferInv, RegionInv, OnSpill, Block, Null
<1>5. RegionInv'
  BY DEF Safe, RegionInv, BufferInv, Block
<1>6. DestroyedInv'
  BY DEF Safe, DestroyedInv, AllIdle
<1>7. NoOverlap'
  BY DEF Safe, NoOverlap, Disjoint
<1>8. NoLeak'
  BY DEF Safe, NoLeak, Ids, InFlight
<1> QED
  BY <1>1, <1>2, <1>3, <1>4, <1>5, <1>6, <1>7, <1>8 DEF Safe

\* The allocation mutex is taken.
LEMMA LockAllocationSafe ==
  ASSUME TypeOK, TypeOK', Safe, NEW t \in Threads, LockAllocation(t)
  PROVE  Safe'
<1> USE DEF TypeOK, LockAllocation, Goto, owned
<1>1. MutexInv'
  BY WorkspaceAssumption DEF Safe, MutexInv, Holds
<1>2. ReadInv'
  BY DEF Safe, ReadInv, MutexInv
<1>3. BufferInv'
  BY DEF Safe, BufferInv, Block, Null
<1>4. SpillInv'
  BY DEF Safe, SpillInv, BufferInv, RegionInv, OnSpill, Block, Null
<1>5. RegionInv'
  BY DEF Safe, RegionInv, BufferInv, Block
<1>6. DestroyedInv'
  BY DEF Safe, DestroyedInv, AllIdle
<1>7. NoOverlap'
  BY DEF Safe, NoOverlap, Disjoint
<1>8. NoLeak'
  BY DEF Safe, NoLeak, Ids, InFlight
<1> QED
  BY <1>1, <1>2, <1>3, <1>4, <1>5, <1>6, <1>7, <1>8 DEF Safe

\* The offset is read under the mutex.
LEMMA TakeOffsetSafe ==
  ASSUME TypeOK, TypeOK', Safe, NEW t \in Threads, TakeOffset(t)
  PROVE  Safe'
<1> USE DEF TypeOK, TakeOffset, Goto, owned
<1>1. MutexInv'
  BY WorkspaceAssumption DEF Safe, MutexInv, Holds
<1>2. ReadInv'
  BY DEF Safe, ReadInv, MutexInv
<1>3. BufferInv'
  BY DEF Safe, BufferInv, Block, Null
<1>4. SpillInv'
  BY DEF Safe, SpillInv, BufferInv, RegionInv, OnSpill, Block, Null
<1>5. RegionInv'
  BY DEF Safe, RegionInv, BufferInv, Block
<1>6. DestroyedInv'
  BY DEF Safe, DestroyedInv, AllIdle
<1>7. NoOverlap'
  BY DEF Safe, NoOverlap, Disjoint
<1>8. NoLeak'
  BY DEF Safe, NoLeak, Ids, InFlight
<1> QED
  BY <1>1, <1>2, <1>3, <1>4, <1>5, <1>6, <1>7, <1>8 DEF Safe

\* The region [base, base + req) leaves the free part of the buffer.
LEMMA AdvanceSafe ==
  ASSUME TypeOK, TypeOK', Safe, NEW t \in Threads, Advance(t)
  PROVE  Safe'
<1> USE DEF TypeOK, Advance, Goto, Leave
<1>1. MutexInv'
  BY WorkspaceAssumption DEF Safe, MutexInv, Holds
<1>2. ReadInv'
  BY DEF Safe, ReadInv, MutexInv, Holds
<1>3. BufferInv'
  BY DEF Safe, BufferInv, ReadInv, Block, Null
<1>4. SpillInv'
  BY DEF Safe, SpillInv, BufferInv, RegionInv, OnSpill, Block, Null, Region
<1>5. RegionInv'
  <2> DEFINE new == Region(t, ptrHost, base[t], req[t])
  <2>1. new.blk = ptrHost /\ new.from + new.len = offset'
    BY DEF Safe, ReadInv, Region
  <2>2. offset <= offset'
    OBVIOUS
  <2>3. ASSUME NEW r \in regions PROVE r.blk \in Nat /\ r.from \in Nat /\ r.len \in Nat
    BY DEF RegionSet
  <2> HIDE DEF new
  <2>4. ASSUME NEW r \in regions', r.blk = ptrHost PROVE r.from + r.len <= offset'
    BY <2>1, <2>2, <2>3, <2>4 DEF Safe, RegionInv, new
  <2> QED
    BY <2>1, <2>4 DEF Safe, RegionInv, BufferInv, Block, new
<1>6. DestroyedInv'
  BY DEF Safe, DestroyedInv, AllIdle
<1>7. NoOverlap'
  BY DEF Safe, NoOverlap, ReadInv, RegionInv, Disjoint, Region
<1>8. NoLeak'
  BY DEF Safe, NoLeak, Ids, InFlight
<1> QED
  BY <1>1, <1>2, <1>3, <1>4, <1>5, <1>6, <1>7, <1>8 DEF Safe

\* A request that does not fit releases the mutex.
LEMMA OverflowSafe ==
  ASSUME TypeOK, TypeOK', Safe, NEW t \in Threads, Overflow(t)
  PROVE  Safe'
<1> USE DEF TypeOK, Overflow, Goto, owned
<1>1. MutexInv'
  BY WorkspaceAssumption DEF Safe, MutexInv, Holds
<1>2. ReadInv'
  BY DEF Safe, ReadInv, MutexInv
<1>3. BufferInv'
  BY DEF Safe, BufferInv, Block, Null
<1>4. SpillInv'
  BY DEF Safe, SpillInv, BufferInv, RegionInv, OnSpill, Block, Null
<1>5. RegionInv'
  BY DEF Safe, RegionInv, BufferInv, Block
<1>6. DestroyedInv'
  BY DEF Safe, DestroyedInv, AllIdle
<1>7. NoOverlap'
  BY DEF Safe, NoOverlap, Disjoint
<1>8. NoLeak'
  BY DEF Safe, NoLeak, Ids, InFlight
<1> QED
  BY <1>1, <1>2, <1>3, <1>4, <1>5, <1>6, <1>7, <1>8 DEF Safe

\* The spill block is new: its id is above every id in use.
LEMMA SpillMallocSafe ==
  ASSUME TypeOK, TypeOK', Safe, NEW t \in Threads, SpillMalloc(t)
  PROVE  Safe'
<1> USE DEF TypeOK, SpillMalloc, Goto, owned
<1>0. ASSUME NEW r \in regions PROVE r.blk \in Nat /\ r.blk <= mallocs
  BY DEF Safe, RegionInv, RegionSet
<1>1. MutexInv'
  BY WorkspaceAssumption DEF Safe, MutexInv, Holds
<1>2. ReadInv'
  BY DEF Safe, ReadInv, MutexInv
<1>3. BufferInv'
  BY DEF Safe, BufferInv, Block, Blocks, Null
<1>4. SpillInv'
  <2>1. ASSUME NEW u \in Threads \ {t}
        PROVE  pc'[u] = pc[u] /\ mem'[u] = mem[u] /\ req'[u] = req[u]
    OBVIOUS
  <2>2. ASSUME NEW u \in Threads, OnSpill(u) PROVE mem[u] <= mallocs /\ mem[u] \in Nat
    BY <2>2 DEF Safe, SpillInv
  <2>3. OnSpill(t)' /\ mem'[t] = mallocs + 1 /\ ~OnSpill(t) /\ req'[t] = req[t]
    BY DEF OnSpill
  <2>4. \A r \in regions : r.blk # mallocs + 1
    BY <1>0
  <2>5. mallocs + 1 # ptrHost /\ mallocs + 1 # Null
    BY DEF Safe, BufferInv, Null
  <2>6. Block(mallocs + 1, req[t]) \in heap' /\ heap \subseteq heap' /\ mallocs' = mallocs + 1
    OBVIOUS
  <2>7. ASSUME NEW u \in Threads, OnSpill(u)'
        PROVE  /\ mem'[u] # Null /\ mem'[u] # ptrHost' /\ mem'[u] <= mallocs'
               /\ Block(mem'[u], req'[u]) \in heap'
               /\ \A v \in Threads : OnSpill(v)' /\ mem'[v] = mem'[u] => v = u
               /\ \A r \in regions' : r.blk # mem'[u]
               /\ pc'[u] = "account" => mem'[u] \in spills'
    <3>1. CASE u = t
      BY <3>1, <2>1, <2>2, <2>3, <2>4, <2>5, <2>6 DEF OnSpill
    <3>2. CASE u # t
      BY <3>2, <2>7, <2>1, <2>2, <2>3, <2>6 DEF Safe, SpillInv, OnSpill
    <3> QED
      BY <3>1, <3>2
  <2> QED
    BY <2>7 DEF SpillInv
<1>5. RegionInv'
  BY <1>0 DEF Safe, RegionInv
<1>6. DestroyedInv'
  BY DEF Safe, DestroyedInv, AllIdle
<1>7. NoOverlap'
  BY DEF Safe, NoOverlap, Disjoint
<1>8. NoLeak'
  <2> SUFFICES ASSUME ~externalized, NEW b \in heap', ~destroyed
               PROVE  b.id \in {ptrHost'} \cup spills' \cup InFlight'
    BY DEF Safe, NoLeak, Ids, DestroyedInv, AllIdle
  <2>1. CASE b \in heap
    BY <2>1 DEF Safe, NoLeak, Ids, InFlight
  <2>2. CASE b = Block(mallocs + 1, req[t])
    BY <2>2 DEF Block, InFlight
  <2> QED
    BY <2>1, <2>2
<1> QED
  BY <1>1, <1>2, <1>3, <1>4, <1>5, <1>6, <1>7, <1>8 DEF Safe

\* A failed malloc leaves the arena as it was.
LEMMA SpillMallocFailsSafe ==
  ASSUME TypeOK, TypeOK', Safe, NEW t \in Threads, SpillMallocFails(t)
  PROVE  Safe'
<1> USE DEF TypeOK, SpillMallocFails, Goto, Leave, owned
<1>1. MutexInv'
  BY WorkspaceAssumption DEF Safe, MutexInv, Holds
<1>2. ReadInv'
  BY DEF Safe, ReadInv, MutexInv
<1>3. BufferInv'
  BY DEF Safe, BufferInv, Block, Null
<1>4. SpillInv'
  BY DEF Safe, SpillInv, BufferInv, RegionInv, OnSpill, Block, Null
<1>5. RegionInv'
  BY DEF Safe, RegionInv, BufferInv, Block
<1>6. DestroyedInv'
  BY DEF Safe, DestroyedInv, AllIdle
<1>7. NoOverlap'
  BY DEF Safe, NoOverlap, Disjoint
<1>8. NoLeak'
  BY DEF Safe, NoLeak, Ids, InFlight
<1> QED
  BY <1>1, <1>2, <1>3, <1>4, <1>5, <1>6, <1>7, <1>8 DEF Safe

\* The spill mutex is taken.
LEMMA LockSpillsSafe ==
  ASSUME TypeOK, TypeOK', Safe, NEW t \in Threads, LockSpills(t)
  PROVE  Safe'
<1> USE DEF TypeOK, LockSpills, Goto, owned
<1>1. MutexInv'
  BY WorkspaceAssumption DEF Safe, MutexInv, Holds
<1>2. ReadInv'
  BY DEF Safe, ReadInv, MutexInv
<1>3. BufferInv'
  BY DEF Safe, BufferInv, Block, Null
<1>4. SpillInv'
  BY DEF Safe, SpillInv, BufferInv, RegionInv, OnSpill, Block, Null
<1>5. RegionInv'
  BY DEF Safe, RegionInv, BufferInv, Block
<1>6. DestroyedInv'
  BY DEF Safe, DestroyedInv, AllIdle
<1>7. NoOverlap'
  BY DEF Safe, NoOverlap, Disjoint
<1>8. NoLeak'
  BY DEF Safe, NoLeak, Ids, InFlight
<1> QED
  BY <1>1, <1>2, <1>3, <1>4, <1>5, <1>6, <1>7, <1>8 DEF Safe

\* The spill is recorded; nobody else wrote the vector meanwhile.
LEMMA PushSpillSafe ==
  ASSUME TypeOK, TypeOK', Safe, NEW t \in Threads, PushSpill(t)
  PROVE  Safe'
<1> USE DEF TypeOK, PushSpill, Goto
<1>1. MutexInv'
  BY WorkspaceAssumption DEF Safe, MutexInv, Holds
<1>2. ReadInv'
  BY DEF Safe, ReadInv, MutexInv, Holds
<1>3. BufferInv'
  BY DEF Safe, BufferInv, ReadInv, SpillInv, Block, Null, OnSpill
<1>4. SpillInv'
  BY DEF Safe, SpillInv, BufferInv, RegionInv, ReadInv, OnSpill, Block, Null
<1>5. RegionInv'
  BY DEF Safe, RegionInv, BufferInv, Block
<1>6. DestroyedInv'
  BY DEF Safe, DestroyedInv, AllIdle
<1>7. NoOverlap'
  BY DEF Safe, NoOverlap, Disjoint
<1>8. NoLeak'
  <2> SUFFICES ASSUME ~externalized, NEW b \in heap', ~destroyed
               PROVE  b.id \in {ptrHost'} \cup spills' \cup InFlight'
    BY DEF Safe, NoLeak, Ids, DestroyedInv, AllIdle
  <2>1. spills' = spills \cup {mem[t]}
    BY DEF Safe, ReadInv
  <2> QED
    BY <2>1 DEF Safe, NoLeak, Ids, InFlight
<1> QED
  BY <1>1, <1>2, <1>3, <1>4, <1>5, <1>6, <1>7, <1>8 DEF Safe

\* The client gets the whole spill.
LEMMA AccountSpillSafe ==
  ASSUME TypeOK, TypeOK', Safe, NEW t \in Threads, AccountSpill(t)
  PROVE  Safe'
<1> USE DEF TypeOK, AccountSpill, Goto, Leave
<1>1. MutexInv'
  BY WorkspaceAssumption DEF Safe, MutexInv, Holds
<1>2. ReadInv'
  BY DEF Safe, ReadInv, MutexInv
<1>3. BufferInv'
  BY DEF Safe, BufferInv, Block, Null
<1>4. SpillInv'
  BY DEF Safe, SpillInv, BufferInv, RegionInv, OnSpill, Block, Null, Region
<1>5. RegionInv'
  <2> DEFINE new == Region(t, mem[t], 0, req[t])
  <2>1. /\ new.blk = mem[t] /\ new.from = 0 /\ new.len = req[t]
        /\ mem[t] # ptrHost /\ mem[t] <= mallocs /\ Block(mem[t], req[t]) \in heap
        /\ \A r \in regions : r.blk # mem[t]
    BY DEF Safe, SpillInv, OnSpill, Region
  <2> HIDE DEF new
  <2> QED
    BY <2>1 DEF Safe, RegionInv, BufferInv, new
<1>6. DestroyedInv'
  BY DEF Safe, DestroyedInv, AllIdle
<1>7. NoOverlap'
  BY DEF Safe, NoOverlap, SpillInv, Disjoint, Region, OnSpill, Null
<1>8. NoLeak'
  BY DEF Safe, NoLeak, Ids, InFlight
<1> QED
  BY <1>1, <1>2, <1>3, <1>4, <1>5, <1>6, <1>7, <1>8 DEF Safe

\* scopeOut gives every region back.
LEMMA ScopeOutSafe ==
  ASSUME TypeOK, TypeOK', Safe, ScopeOut
  PROVE  Safe'
<1> USE DEF TypeOK, ScopeOut, Quiet, AllIdle, locals
<1>1. MutexInv'
  BY DEF Safe, MutexInv, Holds
<1>2. ReadInv'
  BY DEF Safe, ReadInv, MutexInv
<1>3. BufferInv'
  BY DEF Safe, BufferInv, Block, Null
<1>4. SpillInv'
  BY DEF Safe, SpillInv, BufferInv, RegionInv, OnSpill, Block, Null
<1>5. RegionInv'
  BY DEF Safe, RegionInv, BufferInv, Block
<1>6. DestroyedInv'
  BY DEF Safe, DestroyedInv, AllIdle
<1>7. NoOverlap'
  BY DEF Safe, NoOverlap, Disjoint
<1>8. NoLeak'
  BY DEF Safe, NoLeak, Ids, InFlight
<1> QED
  BY <1>1, <1>2, <1>3, <1>4, <1>5, <1>6, <1>7, <1>8 DEF Safe

\* init(bytes), the spills of h already freed, leaves a live buffer of the size
\* the arena believes in, and no block behind.
LEMMA GrowSafe ==
  ASSUME TypeOK, TypeOK', Safe, Quiet, NEW bytes \in Nat, NEW ok \in BOOLEAN,
         NEW h, h \subseteq heap, Grow(bytes, h, ok),
         ptrHost # Null => Block(ptrHost, currentSize) \in h,
         ~externalized => Ids(h) \subseteq {ptrHost} \cup spills',
         spills' \subseteq spills, UNCHANGED <<offset, pc, mem, destroyed, externalized>>
  PROVE  BufferInv' /\ NoLeak'
<1> USE DEF TypeOK
<1>1. ASSUME NEW b \in heap PROVE b.id \in Nat /\ b.id <= mallocs /\ b.id # Null
  BY DEF Safe, BufferInv, Blocks
<1>2. ptrHost <= mallocs /\ offset <= currentSize
  BY DEF Safe, BufferInv
<1>3. ASSUME NEW i \in spills PROVE i # ptrHost /\ i # Null /\ i <= mallocs /\ i \in Nat
  BY DEF Safe, BufferInv
<1>4. ~destroyed /\ InFlight' = {}
  BY DEF Quiet, AllIdle, InFlight
<1>5. ~externalized => (ptrHost # Null => allocatedHost)
  BY DEF Safe, BufferInv
<1>6. CASE currentSize >= bytes /\ ok
  <2>1. UNCHANGED <<ptrHost, allocatedHost, currentSize, mallocs>> /\ heap' = h
    BY <1>6 DEF Grow
  <2> QED
    BY <2>1, <1>1, <1>2, <1>3, <1>4, <1>5 DEF BufferInv, NoLeak, Ids
<1>7. CASE currentSize < bytes /\ ok
  <2>1. /\ heap' = Without(h, Freeable(ptrHost)) \cup {Block(mallocs + 1, bytes)}
        /\ ptrHost' = mallocs + 1 /\ mallocs' = mallocs + 1
        /\ currentSize' = bytes /\ allocatedHost'
    BY <1>7 DEF Grow
  <2>2. BufferInv'
    BY <2>1, <1>1, <1>2, <1>3, <1>7 DEF BufferInv, Without, Block, Null
  <2>3. ASSUME ~externalized, NEW b \in Without(h, Freeable(ptrHost)) PROVE b.id \in spills'
    BY <2>3, <1>1, <1>5 DEF Without, Freeable, Ids
  <2>4. NoLeak'
    BY <2>1, <2>3, <1>4 DEF NoLeak, Ids, Block
  <2> QED
    BY <2>2, <2>4
<1>8. CASE currentSize < bytes /\ ~ok
  <2>1. /\ heap' = Without(h, Freeable(ptrHost)) /\ ptrHost' = Null
        /\ UNCHANGED <<allocatedHost, currentSize, mallocs>>
    BY <1>8 DEF Grow
  <2>2. BufferInv'
    BY <2>1, <1>1, <1>2, <1>3 DEF BufferInv, Without, Null
  <2>3. ASSUME ~externalized, NEW b \in Without(h, Freeable(ptrHost)) PROVE b.id \in spills'
    BY <2>3, <1>1, <1>5 DEF Without, Freeable, Ids
  <2>4. NoLeak'
    BY <2>1, <2>3, <1>4 DEF NoLeak, Ids
  <2> QED
    BY <2>2, <2>4
<1> QED
  BY <1>6, <1>7, <1>8 DEF Grow

\* With no thread inside allocateBytes and no region out, only the buffer and
\* the heap matter.
LEMMA QuietSafe ==
  ASSUME TypeOK, Safe, Quiet, regions' = {}, UNCHANGED <<locals, mutexAllocation,
         mutexSpills>>
  PROVE  MutexInv' /\ ReadInv' /\ SpillInv' /\ RegionInv' /\ DestroyedInv' /\ NoOverlap'
<1> USE DEF TypeOK, Quiet, AllIdle, locals
<1>1. MutexInv'
  BY DEF Safe, MutexInv, Holds
<1>2. ReadInv' /\ SpillInv'
  BY DEF ReadInv, SpillInv, OnSpill
<1>3. RegionInv' /\ NoOverlap' /\ DestroyedInv'
  BY DEF RegionInv, NoOverlap, DestroyedInv
<1> QED
  BY <1>1, <1>2, <1>3

\* scopeIn frees the recorded spills, and those only.
LEMMA ScopeInSafe ==
  ASSUME TypeOK, TypeOK', Safe, NEW ok \in BOOLEAN, ScopeIn(ok)
  PROVE  Safe'
<1> DEFINE h == Without(heap, spills)
<1>1. ptrHost # Null => Block(ptrHost, currentSize) \in h
  BY DEF ScopeIn, Quiet, Safe, BufferInv, Without, Block
<1>2. ~externalized => Ids(h) \subseteq {ptrHost} \cup spills'
  BY DEF ScopeIn, FreeSpills, Quiet, AllIdle, Safe, NoLeak, Without, Ids, InFlight
<1>3. h \subseteq heap
  BY DEF Without
<1>4. BufferInv' /\ NoLeak'
  <2> HIDE DEF h
  <2> QED
    BY <1>1, <1>2, <1>3, GrowSafe DEF ScopeIn, FreeSpills, locals, TypeOK, h
<1> QED
  BY <1>4, QuietSafe DEF ScopeIn, Safe

\* expandTo and expandBy move the buffer only while nobody points into it.
LEMMA ExpandSafe ==
  ASSUME TypeOK, TypeOK', Safe, NEW n \in ExpandSizes, NEW ok \in BOOLEAN, Expand(n, ok)
  PROVE  Safe'
<1>1. ptrHost # Null => Block(ptrHost, currentSize) \in heap
  BY DEF Expand, Quiet, Safe, BufferInv
<1>2. ~externalized => Ids(heap) \subseteq {ptrHost} \cup spills'
  BY DEF Expand, Quiet, AllIdle, Safe, NoLeak, InFlight
<1>3. n \in Nat /\ currentSize + n \in Nat
  BY WorkspaceAssumption DEF TypeOK
<1>4. BufferInv' /\ NoLeak'
  BY <1>1, <1>2, <1>3, GrowSafe DEF Expand, locals
<1> QED
  BY <1>4, QuietSafe DEF Expand, Safe

\* The destructor frees the buffer and every spill.
LEMMA DestroySafe ==
  ASSUME TypeOK, Safe, Destroy
  PROVE  Safe'
<1> USE DEF TypeOK, Destroy, FreeSpills, Quiet
<1>1. BufferInv'
  BY DEF Safe, BufferInv, Without
<1>2. ASSUME ~externalized, NEW b \in heap PROVE b.id \in spills \cup Freeable(ptrHost)
  <2>1. InFlight = {}
    BY DEF InFlight, AllIdle
  <2> QED
    BY <2>1, <1>2 DEF Safe, NoLeak, BufferInv, Ids, Freeable
<1>3. NoLeak'
  BY <1>2 DEF NoLeak, Ids, Without
<1>4. MutexInv' /\ ReadInv' /\ SpillInv' /\ RegionInv' /\ NoOverlap'
  BY QuietSafe
<1> QED
  BY <1>1, <1>3, <1>4 DEF Safe, DestroyedInv, AllIdle, locals

---------------------------------------------------------------------------
(* The theorems *)

\* A new workspace satisfies the invariant.
LEMMA InitSafe == Init => Safe
<1> SUFFICES ASSUME Init PROVE Safe
  OBVIOUS
<1>1. MutexInv
  BY WorkspaceAssumption DEF Init, MutexInv, Holds
<1>2. ReadInv /\ SpillInv /\ RegionInv /\ DestroyedInv /\ NoOverlap
  BY DEF Init, ReadInv, SpillInv, OnSpill, RegionInv, DestroyedInv, NoOverlap
<1>3. BufferInv
  <2>1. ptrHost # Null /\ ~externalized => allocatedHost
    BY WorkspaceAssumption DEF Init, Null
  <2> QED
    BY <2>1, WorkspaceAssumption DEF Init, BufferInv, Block, Null
<1>4. NoLeak
  BY DEF Init, NoLeak, Ids, Block
<1> QED
  BY <1>1, <1>2, <1>3, <1>4 DEF Safe

\* Stuttering changes nothing the invariant reads.
LEMMA StutterSafe == Safe /\ UNCHANGED vars => Safe'
  BY DEF vars, owned, locals, Safe, MutexInv, Holds, ReadInv, BufferInv, SpillInv,
         OnSpill, RegionInv, DestroyedInv, AllIdle, NoOverlap, NoLeak, InFlight

\* IndInv is inductive.
LEMMA NextSafe == IndInv /\ [Next]_vars => IndInv'
<1> SUFFICES ASSUME TypeOK, Safe, [Next]_vars PROVE TypeOK' /\ Safe'
  BY DEF IndInv
<1>1. TypeOK'
  BY NextTypeOK
<1>2. ASSUME NEW t \in Threads, ThreadStep(t) PROVE Safe'
  BY <1>1, <1>2, LockAllocationSafe, TakeOffsetSafe, AdvanceSafe, OverflowSafe,
     SpillMallocSafe, SpillMallocFailsSafe, LockSpillsSafe, PushSpillSafe,
     AccountSpillSafe DEF ThreadStep
<1>3. ASSUME NEW t \in Threads, NEW n \in Requests, AllocateBytes(t, n) PROVE Safe'
  BY <1>1, <1>3, AllocateBytesSafe
<1>4. ASSUME NEW ok \in BOOLEAN, ScopeIn(ok) PROVE Safe'
  BY <1>1, <1>4, ScopeInSafe
<1>5. ASSUME NEW ok \in BOOLEAN, NEW n \in ExpandSizes, Expand(n, ok) PROVE Safe'
  BY <1>1, <1>5, ExpandSafe
<1>6. CASE ScopeOut \/ Destroy
  BY <1>1, <1>6, ScopeOutSafe, DestroySafe
<1>7. CASE Gone
  BY <1>1, <1>7, StutterSafe DEF Gone
<1>8. CASE UNCHANGED vars
  BY <1>1, <1>8, StutterSafe
<1> QED
  BY <1>1, <1>2, <1>3, <1>4, <1>5, <1>6, <1>7, <1>8 DEF Next

\* The invariant holds in every reachable state.
LEMMA Invariant == Spec => []IndInv
<1>1. Init => IndInv
  BY InitTypeOK, InitSafe DEF IndInv
<1> QED
  BY <1>1, NextSafe, PTL DEF Spec

\* Whatever the threads, sizes and interleavings, two live results of
\* allocateBytes never overlap.
THEOREM WorkspaceNoOverlap == Spec => []NoOverlap
<1>1. IndInv => NoOverlap
  BY DEF IndInv, Safe
<1> QED
  BY <1>1, Invariant, PTL

\* Memory a client holds lies inside a block that is still allocated.
THEOREM WorkspaceRegionsBacked == Spec => []RegionsBacked
<1>1. ASSUME IndInv PROVE RegionsBacked
  <2> SUFFICES ASSUME NEW r \in regions, r.blk # Null
               PROVE  \E b \in heap : b.id = r.blk /\ r.from + r.len <= b.size
    BY DEF RegionsBacked
  <2> USE <1>1 DEF IndInv, Safe, TypeOK
  <2>1. r.from \in Nat /\ r.len \in Nat
    BY DEF RegionSet
  <2>2. CASE r.blk = ptrHost
    <3>1. Block(ptrHost, currentSize) \in heap
      BY <2>2 DEF BufferInv, DestroyedInv
    <3>2. r.from + r.len <= currentSize
      BY <2>1, <2>2 DEF BufferInv, RegionInv
    <3> QED
      BY <3>1, <3>2, <2>2 DEF Block
  <2>3. CASE r.blk # ptrHost
    <3>1. r.from = 0 /\ Block(r.blk, r.len) \in heap
      BY <2>3 DEF RegionInv
    <3> QED
      BY <3>1, <2>1 DEF Block
  <2> QED
    BY <2>2, <2>3
<1> QED
  BY <1>1, Invariant, PTL

\* A workspace that owns its memory never loses track of a block.
THEOREM WorkspaceNoLeak == Spec => []NoLeak
<1>1. IndInv => NoLeak
  BY DEF IndInv, Safe
<1> QED
  BY <1>1, Invariant, PTL


\* What allocateBytes returned is the caller's alone and stays allocated until
\* the cycle is closed, for every number of threads and every size.
THEOREM WorkspaceRegionsSound == Spec => []RegionsSound
  BY WorkspaceNoOverlap, WorkspaceRegionsBacked, PTL DEF RegionsSound

---------------------------------------------------------------------------
(* Sums over finite sets *)

Pick(s) == CHOOSE x \in s : TRUE

\* it is the running sum of F over the subsets of S, as MapThenSumSet takes it.
IsSum(it, F, S) ==
  /\ it \in [SUBSET S -> Nat]
  /\ it[{}] = 0
  /\ \A s \in SUBSET S : s # {} => it[s] = F[Pick(s)] + it[s \ {Pick(s)}]

Sum(F, S) == (CHOOSE it : IsSum(it, F, S))[S]

\* A set of numbers that is not empty has a smallest one.
LEMMA SmallestOf ==
  ASSUME NEW T \in SUBSET Nat, T # {}
  PROVE  \E a \in T : \A b \in T : a <= b
<1> DEFINE R == {p \in Nat \X Nat : p[1] < p[2]}
<1>1. IsWellFoundedOn(R, Nat)
  BY NatLessThanWellFounded DEF OpToRel
<1>2. \A a, b \in Nat : a < b => <<a, b>> \in R
  OBVIOUS
<1> HIDE DEF R
<1>3. PICK a \in T : \A b \in T : ~(<<b, a>> \in R)
  BY <1>1, WFMin, Zenon
<1>4. ASSUME NEW b \in T PROVE a <= b
  <2>1. a \in Nat /\ b \in Nat
    OBVIOUS
  <2>2. ~(b < a)
    BY <1>2, <1>3, <2>1
  <2> QED
    BY <2>1, <2>2
<1> QED
  BY <1>4

\* A family of finite sets that is not empty has a member no other of which is
\* smaller: the induction on the size of a set.
LEMMA SmallestSet ==
  ASSUME NEW S, IsFiniteSet(S), NEW C \in SUBSET (SUBSET S), C # {}
  PROVE  \E s \in C : \A u \in SUBSET S : u \subseteq s /\ u # s => u \notin C
<1>1. \A s \in SUBSET S : IsFiniteSet(s) /\ Cardinality(s) \in Nat
  BY FS_Subset, FS_CardinalityType
<1> DEFINE K == {Cardinality(s) : s \in C}
<1>2. K \in SUBSET Nat /\ K # {}
  BY <1>1
<1>3. PICK k \in K : \A m \in K : k <= m
  BY <1>2, SmallestOf
<1>4. PICK s \in C : k = Cardinality(s)
  OBVIOUS
<1>5. ASSUME NEW u \in SUBSET S, u \subseteq s, u # s, u \in C PROVE FALSE
  <2>1. Cardinality(u) < Cardinality(s)
    BY <1>1, <1>5, FS_Subset
  <2>2. Cardinality(s) <= Cardinality(u)
    BY <1>3, <1>4, <1>5
  <2>3. Cardinality(s) \in Nat /\ Cardinality(u) \in Nat
    BY <1>1
  <2> QED
    BY <2>1, <2>2, <2>3
<1> QED
  BY <1>5

LEMMA PickIn == ASSUME NEW s, s # {} PROVE Pick(s) \in s
BY DEF Pick

\* Two running sums agree where what they add up does.
LEMMA SumsAgree ==
  ASSUME NEW S, NEW T, IsFiniteSet(S), NEW F, NEW G, NEW i, NEW j,
         IsSum(i, F, S), IsSum(j, G, T),
         NEW Z \in SUBSET S, Z \in SUBSET T, \A x \in Z : F[x] = G[x]
  PROVE  i[Z] = j[Z]
<1> DEFINE C == {s \in SUBSET Z : i[s] # j[s]}
<1> SUFFICES ASSUME C # {} PROVE FALSE
  OBVIOUS
<1>1. IsFiniteSet(Z)
  BY FS_Subset
<1>a. C \in SUBSET (SUBSET Z)
  OBVIOUS
<1> HIDE DEF C
<1>2. PICK s \in C : \A u \in SUBSET Z : u \subseteq s /\ u # s => u \notin C
  BY <1>1, <1>a, SmallestSet
<1> USE DEF C
<1>3. s # {}
  BY <1>2 DEF IsSum
<1> DEFINE p == Pick(s)
<1>4. p \in s
  BY <1>3, PickIn
<1> HIDE DEF p
<1>5. i[s] = F[p] + i[s \ {p}] /\ j[s] = G[p] + j[s \ {p}]
  BY <1>3 DEF IsSum, p
<1>6. i[s \ {p}] = j[s \ {p}]
  BY <1>2, <1>4
<1> QED
  BY <1>2, <1>4, <1>5, <1>6

\* The order of the elements does not matter.
LEMMA SumRemove ==
  ASSUME NEW S, IsFiniteSet(S), NEW F, \A x \in S : F[x] \in Nat, NEW i, IsSum(i, F, S)
  PROVE  \A s \in SUBSET S : \A x \in s : i[s] = F[x] + i[s \ {x}]
<1> DEFINE C == {s \in SUBSET S : \E x \in s : i[s] # F[x] + i[s \ {x}]}
<1> SUFFICES ASSUME C # {} PROVE FALSE
  OBVIOUS
<1>a. C \in SUBSET (SUBSET S)
  OBVIOUS
<1> HIDE DEF C
<1>1. PICK s \in C : \A u \in SUBSET S : u \subseteq s /\ u # s => u \notin C
  BY <1>a, SmallestSet
<1> USE DEF C
<1>2. PICK x \in s : i[s] # F[x] + i[s \ {x}]
  BY <1>1
<1> DEFINE p == Pick(s)
<1>3. p \in s
  BY <1>2, PickIn
<1> HIDE DEF p
<1>4. i[s] = F[p] + i[s \ {p}]
  BY <1>2 DEF IsSum, p
<1>5. x # p
  BY <1>2, <1>4
<1>6. s \ {p} \notin C /\ s \ {x} \notin C
  BY <1>1, <1>2, <1>3
<1> DEFINE u == (s \ {p}) \ {x}
<1>7. u = (s \ {x}) \ {p} /\ u \in SUBSET S
  OBVIOUS
<1>8. i[s \ {p}] = F[x] + i[(s \ {p}) \ {x}]
  BY <1>2, <1>3, <1>5, <1>6
<1>9. i[s \ {x}] = F[p] + i[(s \ {x}) \ {p}]
  BY <1>2, <1>3, <1>5, <1>6
<1>10. i[u] \in Nat /\ F[p] \in Nat /\ F[x] \in Nat
  BY <1>2, <1>3, <1>7 DEF IsSum
<1>11. i[s \ {p}] = F[x] + i[u] /\ i[s \ {x}] = F[p] + i[u]
  BY <1>7, <1>8, <1>9
<1> HIDE DEF u
<1> QED
  BY <1>2, <1>4, <1>10, <1>11

\* The running sum exists: it is built up over sets of growing size.
LEMMA SumExists ==
  ASSUME NEW S, IsFiniteSet(S), NEW F, \A x \in S : F[x] \in Nat
  PROVE  \E it : IsSum(it, F, S)
<1> DEFINE UpTo(it, k) == /\ it \in [SUBSET S -> Nat]
                          /\ it[{}] = 0
                          /\ \A s \in SUBSET S : s # {} /\ Cardinality(s) <= k =>
                               it[s] = F[Pick(s)] + it[s \ {Pick(s)}]
<1> DEFINE T == {k \in Nat : ~\E it : UpTo(it, k)}
<1>1. \A s \in SUBSET S : IsFiniteSet(s) /\ Cardinality(s) \in Nat
  BY FS_Subset, FS_CardinalityType
<1>2. ASSUME NEW s \in SUBSET S, s # {} 
      PROVE  /\ s \ {Pick(s)} \in SUBSET S /\ F[Pick(s)] \in Nat
             /\ Cardinality(s \ {Pick(s)}) = Cardinality(s) - 1
             /\ Cardinality(s) # 0
  <2>1. Pick(s) \in s
    BY <1>2, PickIn
  <2> QED
    BY <1>1, <1>2, <2>1, FS_RemoveElement, FS_EmptySet
<1>3. 0 \notin T
  <2> DEFINE it == [s \in SUBSET S |-> 0]
  <2>1. UpTo(it, 0)
    BY <1>1, <1>2
  <2> QED
    BY <2>1
<1>4. ASSUME NEW k \in Nat, NEW i, UpTo(i, k) PROVE \E j : UpTo(j, k + 1)
  <2> DEFINE j == [s \in SUBSET S |-> IF s = {} THEN 0 ELSE F[Pick(s)] + i[s \ {Pick(s)}]]
  <2>1. \A s \in SUBSET S : i[s] \in Nat
    BY <1>4
  <2>2. j \in [SUBSET S -> Nat] /\ j[{}] = 0
    BY <1>2, <2>1
  <2>3. ASSUME NEW s \in SUBSET S, Cardinality(s) <= k PROVE j[s] = i[s]
    BY <1>4, <2>3
  <2>4. ASSUME NEW s \in SUBSET S, s # {}, Cardinality(s) <= k + 1
        PROVE  j[s] = F[Pick(s)] + j[s \ {Pick(s)}]
    <3> DEFINE u == s \ {Pick(s)}
    <3>1. u \in SUBSET S /\ Cardinality(u) = Cardinality(s) - 1
      BY <1>2, <2>4
    <3>2. Cardinality(s) \in Nat
      BY <1>1
    <3> HIDE DEF u
    <3>3. Cardinality(u) <= k
      BY <2>4, <3>1, <3>2
    <3>4. j[u] = i[u]
      BY <2>3, <3>1, <3>3
    <3>5. j[s] = F[Pick(s)] + i[u]
      BY <2>4 DEF u
    <3> QED
      BY <3>4, <3>5 DEF u
  <2> HIDE DEF j
  <2> QED
    BY <2>2, <2>4
<1>5. T = {}
  <2> SUFFICES ASSUME T # {} PROVE FALSE
    OBVIOUS
  <2>1. PICK k \in T : \A m \in T : k <= m
    BY SmallestOf
  <2>2. k \in Nat /\ k # 0
    BY <1>3
  <2>3. k - 1 \in Nat /\ k - 1 \notin T
    <3>1. k - 1 \in Nat /\ ~(k <= k - 1)
      BY <2>2
    <3> HIDE DEF T
    <3> QED
      BY <2>1, <3>1
  <2>4. PICK i : UpTo(i, k - 1)
    BY <2>3
  <2> HIDE DEF UpTo
  <2>5. \E j : UpTo(j, (k - 1) + 1)
    BY <1>4, <2>3, <2>4
  <2>6. (k - 1) + 1 = k
    BY <2>2
  <2> QED
    BY <2>1, <2>5, <2>6
<1>6. PICK it : UpTo(it, Cardinality(S))
  BY <1>1, <1>5
<1>7. \A s \in SUBSET S : Cardinality(s) <= Cardinality(S)
  BY FS_Subset
<1> QED
  BY <1>6, <1>7 DEF IsSum

\* What the rest of the proofs uses of a sum over a finite set.
LEMMA SumIs ==
  ASSUME NEW S, IsFiniteSet(S), NEW F, \A x \in S : F[x] \in Nat
  PROVE  \E it : IsSum(it, F, S) /\ Sum(F, S) = it[S]
<1>1. PICK it : IsSum(it, F, S)
  BY SumExists
<1>2. IsSum(CHOOSE i : IsSum(i, F, S), F, S)
  BY <1>1
<1> QED
  BY <1>2 DEF Sum

LEMMA SumType ==
  ASSUME NEW S, IsFiniteSet(S), NEW F, \A x \in S : F[x] \in Nat
  PROVE  Sum(F, S) \in Nat
<1>1. PICK it : IsSum(it, F, S) /\ Sum(F, S) = it[S]
  BY SumIs
<1> QED
  BY <1>1 DEF IsSum

LEMMA SumEmpty == ASSUME NEW F PROVE Sum(F, {}) = 0
<1>1. \A x \in {} : F[x] \in Nat
  OBVIOUS
<1>2. PICK it : IsSum(it, F, {}) /\ Sum(F, {}) = it[{}]
  BY <1>1, SumIs, FS_EmptySet
<1> QED
  BY <1>2 DEF IsSum

LEMMA SumAdd ==
  ASSUME NEW S, IsFiniteSet(S), NEW F, NEW x, x \notin S, \A y \in S \cup {x} : F[y] \in Nat
  PROVE  Sum(F, S \cup {x}) = Sum(F, S) + F[x]
<1> DEFINE T == S \cup {x}
<1>1. IsFiniteSet(T) /\ T \ {x} = S /\ x \in T /\ S \in SUBSET T
  BY FS_AddElement
<1>2. \A y \in T : F[y] \in Nat
  OBVIOUS
<1> HIDE DEF T
<1>3. PICK i : IsSum(i, F, S) /\ Sum(F, S) = i[S]
  BY <1>1, <1>2, SumIs
<1>4. PICK j : IsSum(j, F, T) /\ Sum(F, T) = j[T]
  BY <1>1, <1>2, SumIs
<1>5. j[T] = F[x] + j[S]
  BY <1>1, <1>2, <1>4, SumRemove
<1>6. i[S] = j[S]
  BY <1>1, <1>3, <1>4, SumsAgree
<1>7. i[S] \in Nat /\ F[x] \in Nat
  BY <1>1, <1>2, <1>3 DEF IsSum
<1> QED
  BY <1>3, <1>4, <1>5, <1>6, <1>7 DEF T

LEMMA SumSame ==
  ASSUME NEW S, IsFiniteSet(S), NEW F, NEW G, \A x \in S : F[x] \in Nat /\ F[x] = G[x]
  PROVE  Sum(F, S) = Sum(G, S)
<1>1. PICK i : IsSum(i, F, S) /\ Sum(F, S) = i[S]
  BY SumIs
<1>2. PICK j : IsSum(j, G, S) /\ Sum(G, S) = j[S]
  BY SumIs
<1> QED
  BY <1>1, <1>2, SumsAgree

SizeIn(h, i) == (CHOOSE b \in h : b.id = i).size
Sizes(h, S) == [i \in S |-> SizeIn(h, i)]
TotalIn(h, S) == LET Size(i) == SizeIn(h, i) IN MapThenSumSet(Size, S)

\* MapThenSumSet is that sum.
LEMMA TotalIsSum ==
  ASSUME NEW h, NEW S, IsFiniteSet(S), \A i \in S : SizeIn(h, i) \in Nat
  PROVE  TotalIn(h, S) = Sum(Sizes(h, S), S)
<1> DEFINE F == Sizes(h, S)
           Body(it) == [s \in SUBSET S |-> IF s = {} THEN 0
                                          ELSE SizeIn(h, Pick(s)) + it[s \ {Pick(s)}]]
           iter == CHOOSE it : it = Body(it)
<1>1. \A x \in S : F[x] = SizeIn(h, x) /\ F[x] \in Nat
  BY DEF Sizes
<1> HIDE DEF F
<1>2. PICK i : IsSum(i, F, S) /\ Sum(F, S) = i[S]
  BY <1>1, SumIs
<1>3. i = Body(i)
  <2>1. i \in [SUBSET S -> Nat]
    BY <1>2 DEF IsSum
  <2>2. ASSUME NEW s \in SUBSET S PROVE i[s] = Body(i)[s]
    <3>1. CASE s = {}
      BY <1>2, <3>1 DEF IsSum
    <3>2. CASE s # {}
      <4>1. Pick(s) \in S
        BY <3>2, PickIn
      <4> QED
        BY <1>1, <1>2, <3>2, <4>1 DEF IsSum
    <3> QED
      BY <3>1, <3>2
  <2> QED
    BY <2>1, <2>2
<1>4. iter = Body(iter)
  <2> HIDE DEF Body
  <2> QED
    BY <1>3
<1> HIDE DEF iter
<1>5. IsSum(iter, F, S)
  <2>0. iter = [s \in SUBSET S |-> iter[s]]
    BY <1>4
  <2>1. ASSUME NEW s \in SUBSET S PROVE iter[s] = i[s]
    <3> DEFINE C == {u \in SUBSET S : iter[u] # i[u]}
    <3> SUFFICES ASSUME C # {} PROVE FALSE
      OBVIOUS
    <3>1. C \in SUBSET (SUBSET S)
      OBVIOUS
    <3> HIDE DEF C
    <3>2. PICK u \in C : \A w \in SUBSET S : w \subseteq u /\ w # u => w \notin C
      BY <3>1, SmallestSet
    <3> USE DEF C
    <3>3. u # {}
      BY <1>2, <1>4, <3>2 DEF IsSum
    <3>4. Pick(u) \in u
      BY <3>3, PickIn
    <3>5. iter[u \ {Pick(u)}] = i[u \ {Pick(u)}]
      BY <3>2, <3>4
    <3>6. iter[u] = Body(iter)[u]
      BY <1>4
    <3>7. iter[u] = F[Pick(u)] + iter[u \ {Pick(u)}]
      BY <1>1, <3>3, <3>4, <3>6
    <3>8. i[u] = F[Pick(u)] + i[u \ {Pick(u)}]
      BY <1>2, <3>3 DEF IsSum
    <3> QED
      BY <3>2, <3>5, <3>7, <3>8
  <2>2. i = [s \in SUBSET S |-> i[s]]
    BY <1>2 DEF IsSum
  <2>3. iter = i
    BY <2>0, <2>1, <2>2
  <2> QED
    BY <1>2, <2>3
<1>6. iter[S] = i[S]
  BY <1>2, <1>5, SumsAgree
<1>7. TotalIn(h, S) = iter[S]
  BY Zenon DEF TotalIn, MapThenSumSet, MapThenFoldSet, iter, Pick
<1> QED
  BY <1>2, <1>6, <1>7 DEF F

\* The sum the property speaks of, in either state of a step.
LEMMA TotalOf ==
  ASSUME NEW S
  PROVE  MapThenSumSet(SizeOf, S) = TotalIn(heap, S)
BY DEF TotalIn, SizeOf, SizeIn, MapThenSumSet, MapThenFoldSet

---------------------------------------------------------------------------
(* The counters *)

\* Spills whose sizes have been added to _spillsSize.
Settled == spills \ {mem[t] : t \in {u \in Threads : pc[u] = "account"}}

\* malloc's ids are not used twice.
UniqueIds(h) == \A b, c \in h : b.id = c.id => b = c

Total(h, S) == Sum(Sizes(h, S), S)

\* The spills are live blocks, a block is recorded once, and _spillsSize is the sum
\* of what has been recorded and counted.
SpillsInv ==
  /\ IsFiniteSet(spills)
  /\ UniqueIds(heap)
  /\ \A i \in spills : \E b \in heap : b.id = i
  /\ \A t \in Threads : pc[t] \in {"lockSpills", "push"} => mem[t] \notin spills
  /\ spillsSize = Total(heap, Settled)

LEMMA SizeOfBlock ==
  ASSUME NEW h, h \subseteq Blocks, UniqueIds(h), NEW b \in h
  PROVE  SizeIn(h, b.id) = b.size /\ b.size \in Nat
<1>1. (CHOOSE c \in h : c.id = b.id) \in h /\ (CHOOSE c \in h : c.id = b.id).id = b.id
  OBVIOUS
<1>2. (CHOOSE c \in h : c.id = b.id) = b
  BY <1>1 DEF UniqueIds
<1>3. b \in Blocks
  OBVIOUS
<1> QED
  BY <1>2, <1>3 DEF SizeIn, Blocks

\* A total depends on the blocks it is about only.
LEMMA TotalKept ==
  ASSUME NEW h, NEW g, h \subseteq Blocks, g \subseteq Blocks, UniqueIds(h), UniqueIds(g),
         NEW S, IsFiniteSet(S), \A i \in S : \E b \in h : b \in g /\ b.id = i
  PROVE  Total(h, S) = Total(g, S)
<1>1. ASSUME NEW i \in S
      PROVE  Sizes(h, S)[i] \in Nat /\ Sizes(h, S)[i] = Sizes(g, S)[i]
  <2>1. PICK b \in h : b \in g /\ b.id = i
    OBVIOUS
  <2>2. SizeIn(h, i) = b.size /\ SizeIn(g, i) = b.size /\ b.size \in Nat
    BY <2>1, SizeOfBlock
  <2> QED
    BY <2>2 DEF Sizes
<1> QED
  BY <1>1, SumSame DEF Total

LEMMA TotalAdd ==
  ASSUME NEW h, h \subseteq Blocks, UniqueIds(h), NEW S, IsFiniteSet(S),
         \A i \in S : \E b \in h : b.id = i, NEW b \in h, b.id \notin S
  PROVE  Total(h, S \cup {b.id}) = Total(h, S) + b.size
<1> DEFINE x == b.id
           T == S \cup {x}
           F == Sizes(h, T)
           G == Sizes(h, S)
<1>1. \A i \in T : F[i] = SizeIn(h, i) /\ SizeIn(h, i) \in Nat
  <2>1. ASSUME NEW i \in T PROVE SizeIn(h, i) \in Nat
    <3>1. PICK c \in h : c.id = i
      OBVIOUS
    <3> QED
      BY <3>1, SizeOfBlock
  <2> QED
    BY <2>1 DEF Sizes
<1>2. \A i \in S : G[i] = F[i]
  BY DEF Sizes
<1>3. F[x] = b.size
  BY <1>1, SizeOfBlock
<1> HIDE DEF F, G
<1>4. Sum(F, S \cup {x}) = Sum(F, S) + F[x]
  <2>1. \A y \in S \cup {x} : F[y] \in Nat
    BY <1>1
  <2>2. x \notin S
    OBVIOUS
  <2> HIDE DEF x, T
  <2> QED
    BY <2>1, <2>2, SumAdd
<1>5. Sum(F, S) = Sum(G, S)
  <2>1. \A i \in S : F[i] \in Nat /\ F[i] = G[i]
    BY <1>1, <1>2
  <2> QED
    BY <2>1, SumSame
<1> QED
  BY <1>3, <1>4, <1>5 DEF Total, F, G

LEMMA TotalEmpty == ASSUME NEW h PROVE Total(h, {}) = 0
BY SumEmpty DEF Total

\* Between parallel sections everything is counted.
LEMMA SpillsCounted ==
  ASSUME IndInv, SpillsInv
  PROVE  SpillsAccounted
<1> SUFFICES ASSUME AllIdle PROVE spillsSize = MapThenSumSet(SizeOf, spills)
  BY DEF SpillsAccounted
<1>1. Settled = spills
  BY DEF Settled, AllIdle
<1>2. heap \subseteq Blocks /\ UniqueIds(heap)
  BY DEF IndInv, TypeOK, SpillsInv
<1>3. ASSUME NEW i \in spills PROVE SizeIn(heap, i) \in Nat
  <2>1. PICK b \in heap : b.id = i
    BY DEF SpillsInv
  <2> QED
    BY <1>2, <2>1, SizeOfBlock
<1>4. IsFiniteSet(spills)
  BY DEF SpillsInv
<1>5. TotalIn(heap, spills) = Total(heap, spills)
  BY <1>3, <1>4, TotalIsSum DEF Total
<1>6. MapThenSumSet(SizeOf, spills) = TotalIn(heap, spills)
  BY TotalOf
<1> QED
  BY <1>1, <1>5, <1>6 DEF SpillsInv

\* A step that leaves the spills and the heap alone.
LEMMA SpillsKept ==
  ASSUME IndInv, IndInv', SpillsInv, UNCHANGED <<spills, spillsSize, heap>>,
         \A t \in Threads : /\ pc'[t] \in {"lockSpills", "push"} =>
                                 pc[t] \in {"lockSpills", "push"} /\ mem'[t] = mem[t]
                            /\ (pc'[t] = "account") = (pc[t] = "account")
                            /\ pc[t] = "account" => mem'[t] = mem[t]
  PROVE  SpillsInv'
<1>1. Settled' = Settled
  BY DEF Settled
<1> QED
  BY <1>1 DEF SpillsInv, UniqueIds

LEMMA SpillMallocSpills ==
  ASSUME IndInv, IndInv', SpillsInv, NEW t \in Threads, SpillMalloc(t)
  PROVE  SpillsInv'
<1> DEFINE new == Block(mallocs + 1, req[t])
<1>1. /\ heap' = heap \cup {new} /\ UNCHANGED <<spills, spillsSize>>
      /\ pc[t] = "malloc" /\ pc' = [pc EXCEPT ![t] = "lockSpills"]
      /\ mem' = [mem EXCEPT ![t] = mallocs + 1]
  BY DEF SpillMalloc, Goto, owned
<1>2. heap \subseteq Blocks /\ heap' \subseteq Blocks /\ mallocs \in Nat /\ spills \subseteq Nat
  BY DEF IndInv, TypeOK
<1>3. pc \in [Threads -> PcValues] /\ mem \in [Threads -> Nat]
  BY DEF IndInv, TypeOK
<1>4. \A b \in heap : b.id \in Nat /\ b.id <= mallocs
  BY <1>2 DEF IndInv, Safe, BufferInv, Blocks
<1>5. \A i \in spills : i <= mallocs
  BY DEF IndInv, Safe, BufferInv
<1>6. new.id = mallocs + 1
  BY DEF Block
<1> HIDE DEF new
<1>7. UniqueIds(heap')
  BY <1>1, <1>2, <1>4, <1>6 DEF SpillsInv, UniqueIds
<1>8. Settled' = Settled
  BY <1>1, <1>3 DEF Settled
<1>9. IsFiniteSet(Settled)
  BY FS_Subset DEF SpillsInv, Settled
<1>10. Total(heap, Settled) = Total(heap', Settled)
  <2>1. \A i \in Settled : \E b \in heap : b \in heap' /\ b.id = i
    BY <1>1 DEF SpillsInv, Settled
  <2> QED
    BY <1>2, <1>7, <1>9, <2>1, TotalKept DEF SpillsInv
<1>11. \A u \in Threads : pc'[u] \in {"lockSpills", "push"} => mem'[u] \notin spills'
  BY <1>1, <1>2, <1>3, <1>5 DEF SpillsInv
<1> QED
  BY <1>1, <1>7, <1>8, <1>10, <1>11 DEF SpillsInv

LEMMA PushSpillSpills ==
  ASSUME IndInv, IndInv', SpillsInv, NEW t \in Threads, PushSpill(t)
  PROVE  SpillsInv'
<1>1. /\ pc[t] = "push" /\ pc' = [pc EXCEPT ![t] = "account"]
      /\ spills' = seen[t] \cup {mem[t]} /\ UNCHANGED <<spillsSize, heap, mem>>
  BY DEF PushSpill, Goto
<1>2. pc \in [Threads -> PcValues] /\ mem \in [Threads -> Nat]
  BY DEF IndInv, TypeOK
<1>3. spills' = spills \cup {mem[t]}
  BY <1>1 DEF IndInv, Safe, ReadInv
<1>4. mem[t] \notin spills
  BY <1>1 DEF SpillsInv
<1>5. Block(mem[t], req[t]) \in heap /\ Block(mem[t], req[t]).id = mem[t]
  BY <1>1 DEF IndInv, Safe, SpillInv, OnSpill, Block
<1>6. \A u \in Threads : OnSpill(u) /\ mem[u] = mem[t] => u = t
  BY <1>1 DEF IndInv, Safe, SpillInv, OnSpill
<1>7. Settled' = Settled
  <2>1. \A i : i \in Settled' <=> i \in spills' /\ \A u \in Threads : pc'[u] = "account" => mem'[u] # i
    BY DEF Settled
  <2>2. \A i : i \in Settled <=> i \in spills /\ \A u \in Threads : pc[u] = "account" => mem[u] # i
    BY DEF Settled
  <2> QED
    BY <1>1, <1>2, <1>3, <1>4, <2>1, <2>2
<1>8. \A u \in Threads : pc'[u] \in {"lockSpills", "push"} => mem'[u] \notin spills'
  BY <1>1, <1>2, <1>3, <1>6 DEF SpillsInv, OnSpill
<1>9. IsFiniteSet(spills')
  BY <1>3, FS_AddElement DEF SpillsInv
<1>10. \A i \in spills' : \E b \in heap' : b.id = i
  BY <1>1, <1>3, <1>5 DEF SpillsInv
<1> QED
  BY <1>1, <1>7, <1>8, <1>9, <1>10 DEF SpillsInv

LEMMA AccountSpillSpills ==
  ASSUME IndInv, IndInv', SpillsInv, NEW t \in Threads, AccountSpill(t)
  PROVE  SpillsInv'
<1>1. /\ pc[t] = "account" /\ pc' = [pc EXCEPT ![t] = "idle"]
      /\ mem' = [mem EXCEPT ![t] = Null]
      /\ spillsSize' = spillsSize + req[t] /\ UNCHANGED <<spills, heap>>
  BY DEF AccountSpill, Leave, Goto
<1>2. pc \in [Threads -> PcValues] /\ mem \in [Threads -> Nat]
  BY DEF IndInv, TypeOK
<1> DEFINE b == Block(mem[t], req[t])
<1>3. b \in heap /\ b.id = mem[t] /\ b.size = req[t]
  BY <1>1 DEF IndInv, Safe, SpillInv, OnSpill, Block
<1> HIDE DEF b
<1>4. mem[t] \in spills /\ \A u \in Threads : pc[u] = "account" /\ mem[u] = mem[t] => u = t
  BY <1>1 DEF IndInv, Safe, SpillInv, OnSpill
<1>5. mem[t] \notin Settled
  BY <1>1 DEF Settled
<1>6. Settled' = Settled \cup {mem[t]}
  <2>1. \A i : i \in Settled' <=> i \in spills' /\ \A u \in Threads : pc'[u] = "account" => mem'[u] # i
    BY DEF Settled
  <2>2. \A i : i \in Settled <=> i \in spills /\ \A u \in Threads : pc[u] = "account" => mem[u] # i
    BY DEF Settled
  <2> QED
    BY <1>1, <1>2, <1>4, <2>1, <2>2
<1>7. IsFiniteSet(Settled) /\ \A i \in Settled : \E c \in heap : c.id = i
  BY FS_Subset DEF SpillsInv, Settled
<1>8. heap \subseteq Blocks /\ UniqueIds(heap)
  BY DEF IndInv, TypeOK, SpillsInv
<1>9. Total(heap, Settled \cup {b.id}) = Total(heap, Settled) + b.size
  BY <1>3, <1>5, <1>7, <1>8, TotalAdd
<1>10. \A u \in Threads : pc'[u] \in {"lockSpills", "push"} => mem'[u] \notin spills'
  BY <1>1, <1>2 DEF SpillsInv
<1>11. spillsSize' = Total(heap', Settled')
  BY <1>1, <1>3, <1>6, <1>9 DEF SpillsInv
<1> QED
  BY <1>1, <1>10, <1>11 DEF SpillsInv

\* init(bytes) gives the new buffer a fresh id and takes the old buffer only.
LEMMA GrowHeap ==
  ASSUME IndInv, NEW bytes \in Nat, NEW ok \in BOOLEAN, NEW h, h \subseteq heap,
         Grow(bytes, h, ok), UniqueIds(heap)
  PROVE  UniqueIds(heap') /\ \A b \in h : b.id # ptrHost => b \in heap'
<1>1. \A b \in h : b.id \in Nat /\ b.id <= mallocs
  BY DEF IndInv, TypeOK, Safe, BufferInv, Blocks
<1>2. mallocs \in Nat /\ UniqueIds(h)
  BY DEF IndInv, TypeOK, UniqueIds
<1> DEFINE kept == Without(h, Freeable(ptrHost))
           new == Block(mallocs + 1, bytes)
<1>3. kept \subseteq h /\ \A b \in h : b.id # ptrHost => b \in kept
  BY DEF Without, Freeable
<1>4. new.id = mallocs + 1
  BY DEF Block
<1>5. heap' = h \/ heap' = kept \cup {new} \/ heap' = kept
  BY DEF Grow
<1> HIDE DEF kept, new
<1>6. UniqueIds(heap')
  BY <1>1, <1>2, <1>3, <1>4, <1>5 DEF UniqueIds
<1> QED
  BY <1>3, <1>5, <1>6

LEMMA OwnerSpills ==
  ASSUME IndInv, IndInv', SpillsInv, Quiet, UNCHANGED locals,
         \/ \E ok \in BOOLEAN : ScopeIn(ok) \/ \E n \in ExpandSizes : Expand(n, ok)
         \/ Destroy
  PROVE  SpillsInv'
<1>1. AllIdle /\ AllIdle'
  BY DEF Quiet, AllIdle, locals
<1>2. Settled = spills /\ Settled' = spills'
  BY <1>1 DEF Settled, AllIdle
<1>3. \A u \in Threads : pc'[u] \in {"lockSpills", "push"} => mem'[u] \notin spills'
  BY <1>1 DEF AllIdle
<1>4. UniqueIds(heap)
  BY DEF SpillsInv
<1>5. currentSize \in Nat /\ cycleAllocations \in Nat /\ ExpandSizes \subseteq Nat
  BY WorkspaceAssumption DEF IndInv, TypeOK
<1>6. CASE spills' = {} /\ spillsSize' = 0 /\ UniqueIds(heap')
  BY <1>2, <1>3, <1>6, TotalEmpty, FS_EmptySet DEF SpillsInv
<1>7. ASSUME NEW ok \in BOOLEAN, ScopeIn(ok) PROVE SpillsInv'
  <2>1. Grow(cycleAllocations, Without(heap, spills), ok) /\ Without(heap, spills) \subseteq heap
    BY <1>7 DEF ScopeIn, Without
  <2>2. UniqueIds(heap')
    BY <1>4, <1>5, <2>1, GrowHeap
  <2> QED
    BY <1>6, <1>7, <2>2 DEF ScopeIn, FreeSpills
<1>8. CASE Destroy
  <2>1. UniqueIds(heap')
    BY <1>4, <1>8 DEF Destroy, Without, UniqueIds
  <2> QED
    BY <1>6, <1>8, <2>1 DEF Destroy, FreeSpills
<1>9. ASSUME NEW ok \in BOOLEAN, NEW n \in ExpandSizes, Expand(n, ok) PROVE SpillsInv'
  <2>1. UniqueIds(heap') /\ \A b \in heap : b.id # ptrHost => b \in heap'
    <3>1. n \in Nat /\ currentSize + n \in Nat
      BY <1>5
    <3>2. Grow(n, heap, ok) \/ Grow(currentSize + n, heap, ok)
      BY <1>9 DEF Expand
    <3> QED
      BY <1>4, <3>1, <3>2, GrowHeap
  <2>2. UNCHANGED <<spills, spillsSize>>
    BY <1>9 DEF Expand
  <2>3. \A i \in spills : i # ptrHost /\ \E b \in heap : b.id = i
    BY DEF IndInv, Safe, BufferInv, SpillsInv
  <2>4. \A i \in spills : \E b \in heap : b \in heap' /\ b.id = i
    BY <2>1, <2>3
  <2>5. heap \subseteq Blocks /\ heap' \subseteq Blocks
    BY DEF IndInv, TypeOK
  <2>6. Total(heap, spills) = Total(heap', spills)
    BY <1>4, <2>1, <2>4, <2>5, TotalKept DEF SpillsInv
  <2> QED
    BY <1>2, <1>3, <2>1, <2>2, <2>4, <2>6 DEF SpillsInv
<1> QED
  BY <1>7, <1>8, <1>9

LEMMA SpillsStep == IndInv /\ IndInv' /\ SpillsInv /\ [Next]_vars => SpillsInv'
<1> SUFFICES ASSUME IndInv, IndInv', SpillsInv, Next \/ UNCHANGED vars PROVE SpillsInv'
  OBVIOUS
<1>1. pc \in [Threads -> PcValues] /\ mem \in [Threads -> Nat]
  BY DEF IndInv, TypeOK
<1>2. ASSUME NEW t \in Threads, LockAllocation(t) \/ TakeOffset(t) \/ Overflow(t) PROVE SpillsInv'
  <2>1. UNCHANGED <<spills, spillsSize, heap, mem>>
    BY <1>2 DEF LockAllocation, TakeOffset, Overflow, owned
  <2>2. PICK to \in {"check", "advance", "malloc"} : 
          pc[t] \in {"lock", "check"} /\ pc' = [pc EXCEPT ![t] = to]
    BY <1>2 DEF LockAllocation, TakeOffset, Overflow, Goto
  <2> QED
    BY <1>1, <2>1, <2>2, SpillsKept
<1>3. ASSUME NEW t \in Threads, Advance(t) \/ SpillMallocFails(t) PROVE SpillsInv'
  <2>1. UNCHANGED <<spills, spillsSize, heap>>
    BY <1>3 DEF Advance, SpillMallocFails, owned
  <2>2. /\ pc[t] \in {"advance", "malloc"} /\ pc' = [pc EXCEPT ![t] = "idle"]
        /\ mem' = [mem EXCEPT ![t] = Null]
    BY <1>3 DEF Advance, SpillMallocFails, Leave, Goto
  <2> QED
    BY <1>1, <2>1, <2>2, SpillsKept
<1>4. ASSUME NEW t \in Threads, LockSpills(t) PROVE SpillsInv'
  <2>1. UNCHANGED <<spills, spillsSize, heap, mem>>
    BY <1>4 DEF LockSpills, owned
  <2>2. pc[t] = "lockSpills" /\ pc' = [pc EXCEPT ![t] = "push"]
    BY <1>4 DEF LockSpills, Goto
  <2> QED
    BY <1>1, <2>1, <2>2, SpillsKept
<1>5. ASSUME NEW t \in Threads, NEW n \in Requests, AllocateBytes(t, n) PROVE SpillsInv'
  <2>1. UNCHANGED <<spills, spillsSize, heap, mem>>
    BY <1>5 DEF AllocateBytes
  <2>2. pc[t] = "idle" /\ pc' = [pc EXCEPT ![t] = "lock"]
    BY <1>5 DEF AllocateBytes, Goto
  <2> QED
    BY <1>1, <2>1, <2>2, SpillsKept
<1>6. CASE ScopeOut \/ Gone \/ UNCHANGED vars
  <2>1. UNCHANGED <<spills, spillsSize, heap, pc, mem>>
    BY <1>6 DEF ScopeOut, Gone, vars, owned, locals
  <2> QED
    BY <2>1, SpillsKept
<1>7. ASSUME NEW t \in Threads, SpillMalloc(t) \/ PushSpill(t) \/ AccountSpill(t) PROVE SpillsInv'
  BY <1>7, SpillMallocSpills, PushSpillSpills, AccountSpillSpills
<1>8. ASSUME \/ \E ok \in BOOLEAN : ScopeIn(ok) \/ \E n \in ExpandSizes : Expand(n, ok)
             \/ Destroy
      PROVE  SpillsInv'
  <2>1. Quiet /\ UNCHANGED locals
    BY <1>8 DEF ScopeIn, Expand, Destroy
  <2> QED
    BY <1>8, <2>1, OwnerSpills
<1> QED
  BY <1>2, <1>3, <1>4, <1>5, <1>6, <1>7, <1>8 DEF Next, ThreadStep

\* Threads whose request may still be served from the buffer.
Waiting == {t \in Threads : pc[t] \in {"lock", "check", "advance"}}

\* What the buffer has given in this cycle, and may still be asked for, is counted
\* in _cycleAllocations; the buffer is no smaller than the cycle scopeIn closed.
DemandInv ==
  /\ regions = {} => offset = 0
  /\ lastDemand <= currentSize
  /\ IsFiniteSet(Waiting)
  /\ offset + Sum(req, Waiting) <= cycleAllocations
  /\ CycleServed

LEMMA DemandType ==
  ASSUME TypeOK, IsFiniteSet(Waiting)
  PROVE  /\ offset \in Nat /\ cycleAllocations \in Nat /\ currentSize \in Nat
         /\ lastDemand \in Nat /\ Sum(req, Waiting) \in Nat
         /\ pc \in [Threads -> PcValues] /\ req \in [Threads -> Nat]
<1>1. \A t \in Waiting : req[t] \in Nat
  BY DEF TypeOK, Waiting
<1>2. Sum(req, Waiting) \in Nat
  BY <1>1, SumType
<1> QED
  BY <1>2 DEF TypeOK

\* A thread that no longer waits takes its request out of the sum.
LEMMA WaitingLess ==
  ASSUME TypeOK, IsFiniteSet(Waiting), NEW t \in Waiting, Waiting' = Waiting \ {t},
         \A u \in Waiting' : req'[u] = req[u]
  PROVE  /\ IsFiniteSet(Waiting') /\ Sum(req', Waiting') \in Nat
         /\ Sum(req, Waiting) = Sum(req', Waiting') + req[t]
<1> DEFINE W == Waiting \ {t}
<1>1. IsFiniteSet(W) /\ t \notin W /\ Waiting = W \cup {t} /\ W = Waiting'
  BY FS_RemoveElement
<1>2. \A u \in W \cup {t} : req[u] \in Nat
  BY <1>1 DEF TypeOK, Waiting
<1> HIDE DEF W
<1>3. Sum(req, W \cup {t}) = Sum(req, W) + req[t]
  <2>1. IsFiniteSet(W) /\ t \notin W
    BY <1>1
  <2> QED
    BY ONLY <1>2, <2>1, SumAdd
<1>4. Sum(req, W) = Sum(req', W) /\ Sum(req, W) \in Nat
  BY <1>1, <1>2, SumSame, SumType
<1> QED
  BY <1>1, <1>3, <1>4

LEMMA AllocateBytesDemand ==
  ASSUME IndInv, IndInv', DemandInv, NEW t \in Threads, NEW n \in Requests, AllocateBytes(t, n)
  PROVE  DemandInv'
<1>1. /\ pc[t] = "idle" /\ pc' = [pc EXCEPT ![t] = "lock"] /\ req' = [req EXCEPT ![t] = n]
      /\ UNCHANGED <<regions, offset, lastDemand, currentSize, spills>>
  BY DEF AllocateBytes, Goto
<1>2. cycleAllocations' = cycleAllocations + n
  BY DEF AllocateBytes
<1>3. TypeOK /\ IsFiniteSet(Waiting) /\ n \in Nat
  BY WorkspaceAssumption DEF IndInv, DemandInv
<1>4. t \notin Waiting /\ Waiting' = Waiting \cup {t}
  BY <1>1, <1>3, DemandType DEF Waiting
<1>5. \A u \in Waiting : req'[u] = req[u]
  BY <1>1, <1>3, <1>4, DemandType DEF Waiting
<1>6. req'[t] = n
  BY <1>1, <1>3, DemandType
<1>7. \A u \in Waiting \cup {t} : req'[u] \in Nat
  BY DEF IndInv, TypeOK, Waiting
<1>8. Sum(req', Waiting') = Sum(req', Waiting) + n
  BY <1>3, <1>4, <1>6, <1>7, SumAdd
<1>9. Sum(req', Waiting) = Sum(req, Waiting)
  BY <1>3, <1>5, <1>7, SumSame
<1>10. offset + Sum(req, Waiting) <= cycleAllocations
  BY DEF DemandInv
<1>11. offset' + Sum(req', Waiting') <= cycleAllocations'
  <2>1. offset \in Nat /\ cycleAllocations \in Nat /\ Sum(req, Waiting) \in Nat
    BY <1>3, DemandType
  <2>2. offset' = offset
    BY <1>1
  <2>3. n \in Nat
    BY <1>3
  <2> QED
    BY <1>2, <1>8, <1>9, <1>10, <2>1, <2>2, <2>3
<1>12. CycleServed'
  <2>1. cycleAllocations' <= lastDemand' => cycleAllocations <= lastDemand
    <3>1. cycleAllocations \in Nat /\ lastDemand \in Nat
      BY <1>3, DemandType
    <3>2. lastDemand' = lastDemand
      BY <1>1
    <3>3. n \in Nat
      BY <1>3
    <3> QED
      BY <1>2, <3>1, <3>2, <3>3
  <2>2. CycleServed /\ pc \in [Threads -> PcValues]
    BY <1>3, DemandType DEF DemandInv
  <2> QED
    BY <1>1, <2>1, <2>2 DEF CycleServed
<1>13. IsFiniteSet(Waiting')
  BY <1>3, <1>4, FS_AddElement
<1> QED
  BY <1>1, <1>11, <1>12, <1>13 DEF DemandInv

LEMMA AdvanceDemand ==
  ASSUME IndInv, IndInv', DemandInv, NEW t \in Threads, Advance(t)
  PROVE  DemandInv'
<1>1. /\ pc[t] = "advance" /\ pc' = [pc EXCEPT ![t] = "idle"] /\ req' = [req EXCEPT ![t] = 0]
      /\ UNCHANGED <<lastDemand, currentSize, spills, cycleAllocations>> /\ regions' # {}
  BY DEF Advance, Leave, Goto
<1>2. offset' = offset + req[t]
  BY DEF Advance
<1>3. TypeOK /\ IsFiniteSet(Waiting)
  BY DEF IndInv, DemandInv
<1>4. t \in Waiting /\ Waiting' = Waiting \ {t} /\ \A u \in Waiting' : req'[u] = req[u]
  BY <1>1, <1>3, DemandType DEF Waiting
<1>5. /\ IsFiniteSet(Waiting') /\ Sum(req', Waiting') \in Nat
      /\ Sum(req, Waiting) = Sum(req', Waiting') + req[t]
  BY <1>3, <1>4, WaitingLess
<1>6. offset' + Sum(req', Waiting') <= cycleAllocations'
  <2>1. offset + Sum(req, Waiting) <= cycleAllocations
    BY DEF DemandInv
  <2>2. offset \in Nat /\ cycleAllocations \in Nat /\ req[t] \in Nat
    BY <1>3, DemandType
  <2>3. cycleAllocations' = cycleAllocations
    BY <1>1
  <2> QED
    BY <1>2, <1>5, <2>1, <2>2, <2>3
<1>7. CycleServed'
  BY <1>1, <1>3, DemandType DEF DemandInv, CycleServed
<1> QED
  BY <1>1, <1>5, <1>6, <1>7 DEF DemandInv

\* A request that does not fit is proof that the cycle asks for more than the last.
LEMMA OverflowDemand ==
  ASSUME IndInv, IndInv', DemandInv, NEW t \in Threads, Overflow(t)
  PROVE  DemandInv'
<1>1. /\ pc[t] = "check" /\ pc' = [pc EXCEPT ![t] = "malloc"]
      /\ UNCHANGED <<lastDemand, currentSize, spills, cycleAllocations, regions, offset, req>>
  BY DEF Overflow, Goto, owned
<1>2. offset + req[t] > currentSize
  BY DEF Overflow
<1>3. TypeOK /\ IsFiniteSet(Waiting)
  BY DEF IndInv, DemandInv
<1>4. t \in Waiting /\ Waiting' = Waiting \ {t} /\ \A u \in Waiting' : req'[u] = req[u]
  BY <1>1, <1>3, DemandType DEF Waiting
<1>5. /\ IsFiniteSet(Waiting') /\ Sum(req', Waiting') \in Nat
      /\ Sum(req, Waiting) = Sum(req', Waiting') + req[t]
  BY <1>3, <1>4, WaitingLess
<1>6. offset + Sum(req, Waiting) <= cycleAllocations /\ lastDemand <= currentSize
  BY DEF DemandInv
<1>7. /\ offset \in Nat /\ cycleAllocations \in Nat /\ req[t] \in Nat /\ lastDemand \in Nat
      /\ currentSize \in Nat
  BY <1>3, DemandType
<1>8. offset + Sum(req', Waiting') <= cycleAllocations /\ ~(cycleAllocations <= lastDemand)
  BY <1>2, <1>5, <1>6, <1>7
<1>9. CycleServed'
  BY <1>1, <1>8 DEF CycleServed
<1> QED
  BY <1>1, <1>5, <1>8, <1>9 DEF DemandInv

\* A step of a thread that is past the buffer, or changes nothing that counts.
LEMMA OtherDemand ==
  ASSUME IndInv, IndInv', DemandInv,
         UNCHANGED <<lastDemand, currentSize, cycleAllocations, offset>>,
         regions \subseteq regions', Waiting' = Waiting, 
         \A t \in Waiting : req'[t] = req[t], CycleServed'
  PROVE  DemandInv'
<1>1. \A t \in Waiting : req[t] \in Nat
  BY DEF IndInv, TypeOK, Waiting
<1>2. Sum(req', Waiting') = Sum(req, Waiting)
  BY <1>1, SumSame DEF DemandInv
<1> QED
  BY <1>2 DEF DemandInv

LEMMA ThreadDemand ==
  ASSUME IndInv, IndInv', DemandInv, NEW t \in Threads,
         \/ LockAllocation(t) \/ TakeOffset(t) \/ SpillMalloc(t) \/ SpillMallocFails(t)
         \/ LockSpills(t) \/ PushSpill(t) \/ AccountSpill(t)
  PROVE  DemandInv'
<1> DEFINE Past == {"malloc", "lockSpills", "push", "account"}
<1>1. UNCHANGED <<lastDemand, currentSize, cycleAllocations, offset>> /\ regions \subseteq regions'
  BY DEF LockAllocation, TakeOffset, SpillMalloc, SpillMallocFails, LockSpills, PushSpill,
         AccountSpill, owned
<1>2. pc \in [Threads -> PcValues] /\ req \in [Threads -> Nat]
  BY DEF IndInv, TypeOK
<1>3. CASE LockAllocation(t) \/ TakeOffset(t)
  <2>1. /\ UNCHANGED <<req, spills>> /\ pc[t] \in {"lock", "check"}
        /\ \E to \in {"check", "advance"} : pc' = [pc EXCEPT ![t] = to]
    BY <1>3 DEF LockAllocation, TakeOffset, Goto, owned
  <2>2. Waiting' = Waiting /\ CycleServed'
    BY <1>1, <1>2, <2>1 DEF Waiting, CycleServed, DemandInv
  <2> QED
    BY <1>1, <2>1, <2>2, OtherDemand
<1>4. CASE \/ SpillMalloc(t) \/ SpillMallocFails(t) \/ LockSpills(t) \/ PushSpill(t)
           \/ AccountSpill(t)
  <2>1. /\ pc[t] \in Past /\ \E to \in Past \cup {"idle"} : pc' = [pc EXCEPT ![t] = to]
        /\ \/ req' = req
           \/ req' = [req EXCEPT ![t] = 0]
    BY <1>4 DEF SpillMalloc, SpillMallocFails, LockSpills, PushSpill, AccountSpill, Leave, Goto
  <2>2. ~(cycleAllocations <= lastDemand)
    BY <2>1 DEF DemandInv, CycleServed
  <2>3. Waiting' = Waiting /\ t \notin Waiting
    BY <1>2, <2>1 DEF Waiting
  <2>4. CycleServed'
    BY <1>1, <2>2 DEF CycleServed
  <2>5. \A u \in Waiting : req'[u] = req[u]
    BY <1>2, <2>1, <2>3 DEF Waiting
  <2> QED
    BY <1>1, <2>3, <2>4, <2>5, OtherDemand
<1> QED
  BY <1>3, <1>4

\* Between parallel sections nobody waits.
LEMMA QuietDemand ==
  ASSUME IndInv, IndInv', DemandInv, AllIdle, AllIdle'
  PROVE  /\ Waiting = {} /\ Waiting' = {} /\ IsFiniteSet(Waiting')
         /\ Sum(req, Waiting) = 0 /\ Sum(req', Waiting') = 0
BY SumEmpty, FS_EmptySet DEF Waiting, AllIdle

LEMMA OwnerDemand ==
  ASSUME IndInv, IndInv', DemandInv, AllIdle, AllIdle',
         \/ \E ok \in BOOLEAN : ScopeIn(ok) \/ \E n \in ExpandSizes : Expand(n, ok)
         \/ ScopeOut \/ Destroy
  PROVE  DemandInv'
<1>1. /\ IsFiniteSet(Waiting') /\ Sum(req, Waiting) = 0 /\ Sum(req', Waiting') = 0
  BY QuietDemand
<1>2. \A t \in Threads : pc'[t] = "idle"
  BY DEF AllIdle
<1>3. offset + Sum(req, Waiting) <= cycleAllocations /\ lastDemand <= currentSize
  BY DEF DemandInv
<1>4. /\ offset \in Nat /\ cycleAllocations \in Nat /\ lastDemand \in Nat /\ currentSize \in Nat
      /\ cycleAllocations' \in Nat /\ currentSize' \in Nat
  BY DEF IndInv, TypeOK
<1>5. ASSUME NEW ok \in BOOLEAN, ScopeIn(ok) PROVE DemandInv'
  <2>1. regions = {} /\ regions' = {} /\ offset' = offset /\ offset = 0 /\ spills' = {}
    BY <1>5 DEF ScopeIn, FreeSpills, DemandInv
  <2>2. lastDemand' <= currentSize'
    <3>1. CASE ok
      <4>1. lastDemand' = cycleAllocations
        BY <1>5, <3>1 DEF ScopeIn
      <4>2. cycleAllocations <= currentSize'
        BY <1>4, <1>5, <3>1 DEF ScopeIn, Grow
      <4> QED
        BY <4>1, <4>2
    <3>2. CASE ~ok
      BY <1>3, <1>5, <3>2 DEF ScopeIn, Grow
    <3> QED
      BY <3>1, <3>2
  <2>3. offset' + Sum(req', Waiting') <= cycleAllocations'
    BY <1>1, <1>4, <2>1
  <2>4. CycleServed'
    BY <1>2, <2>1 DEF CycleServed
  <2> QED
    BY <1>1, <2>1, <2>2, <2>3, <2>4 DEF DemandInv
<1>6. ASSUME NEW ok \in BOOLEAN, NEW n \in ExpandSizes, Expand(n, ok) PROVE DemandInv'
  <2>1. UNCHANGED <<offset, cycleAllocations, spills, regions, lastDemand>>
    BY <1>6 DEF Expand
  <2>2. currentSize <= currentSize'
    <3>1. n \in Nat
      BY WorkspaceAssumption
    <3>2. PICK m \in Nat : Grow(m, heap, ok)
      BY <1>4, <1>6, <3>1 DEF Expand
    <3> QED
      BY <1>4, <3>2 DEF Grow
  <2>3. lastDemand' <= currentSize'
    <3>1. lastDemand' = lastDemand
      BY <2>1
    <3> QED
      BY <1>3, <1>4, <2>2, <3>1
  <2>4. CycleServed'
    BY <1>2, <2>1 DEF CycleServed, DemandInv
  <2> QED
    BY <1>1, <1>3, <2>1, <2>3, <2>4 DEF DemandInv
<1>7. CASE ScopeOut
  <2>1. offset' = 0 /\ UNCHANGED <<cycleAllocations, spills, currentSize, lastDemand>>
    BY <1>7 DEF ScopeOut
  <2>2. CycleServed'
    BY <1>2, <2>1 DEF CycleServed, DemandInv
  <2>3. offset' + Sum(req', Waiting') <= cycleAllocations'
    BY <1>1, <1>4, <2>1
  <2> QED
    BY <1>1, <1>3, <2>1, <2>2, <2>3 DEF DemandInv
<1>8. CASE Destroy
  <2>1. UNCHANGED <<offset, cycleAllocations, regions, currentSize, lastDemand>> /\ spills' = {}
    BY <1>8 DEF Destroy, FreeSpills
  <2>2. CycleServed'
    BY <1>2, <2>1 DEF CycleServed
  <2> QED
    BY <1>1, <1>3, <2>1, <2>2 DEF DemandInv
<1> QED
  BY <1>5, <1>6, <1>7, <1>8

LEMMA DemandStep == IndInv /\ IndInv' /\ DemandInv /\ [Next]_vars => DemandInv'
<1> SUFFICES ASSUME IndInv, IndInv', DemandInv, Next \/ UNCHANGED vars PROVE DemandInv'
  OBVIOUS
<1>1. ASSUME NEW t \in Threads, ThreadStep(t) PROVE DemandInv'
  BY <1>1, AdvanceDemand, OverflowDemand, ThreadDemand DEF ThreadStep
<1>2. ASSUME NEW t \in Threads, NEW n \in Requests, AllocateBytes(t, n) PROVE DemandInv'
  BY <1>2, AllocateBytesDemand
<1>3. ASSUME \/ \E ok \in BOOLEAN : ScopeIn(ok) \/ \E n \in ExpandSizes : Expand(n, ok)
             \/ ScopeOut \/ Destroy
      PROVE  DemandInv'
  <2>1. AllIdle /\ UNCHANGED pc
    BY <1>3 DEF ScopeIn, Expand, ScopeOut, Destroy, Quiet, locals
  <2>2. AllIdle'
    BY <2>1 DEF AllIdle
  <2> QED
    BY <1>3, <2>1, <2>2, OwnerDemand
<1>4. CASE Gone \/ UNCHANGED vars
  <2>1. UNCHANGED <<lastDemand, currentSize, cycleAllocations, offset, regions, pc, req, spills>>
    BY <1>4 DEF Gone, vars, owned, locals
  <2>2. Waiting' = Waiting /\ CycleServed'
    BY <2>1 DEF Waiting, CycleServed, DemandInv
  <2> QED
    BY <2>1, <2>2, OtherDemand
<1> QED
  BY <1>1, <1>2, <1>3, <1>4 DEF Next

\* The counters of the arena are exact whatever the threads do: getSpilledSize() is
\* the size of the live spills, and a cycle that asks for no more than the one scopeIn
\* closed is served without a spill.
THEOREM WorkspaceAccounted == Spec => []Accounted
<1>1. Init => SpillsInv /\ DemandInv
  <2> SUFFICES ASSUME Init PROVE SpillsInv /\ DemandInv
    OBVIOUS
  <2>1. /\ spills = {} /\ spillsSize = 0 /\ regions = {} /\ offset = 0 /\ lastDemand = 0
        /\ cycleAllocations = 0 /\ currentSize \in Nat /\ \A t \in Threads : pc[t] = "idle"
    BY WorkspaceAssumption DEF Init
  <2>2. UniqueIds(heap)
    BY DEF Init, UniqueIds
  <2>3. Settled = {} /\ Waiting = {}
    BY <2>1 DEF Settled, Waiting
  <2>4. SpillsInv
    BY <2>1, <2>2, <2>3, TotalEmpty, FS_EmptySet DEF SpillsInv
  <2>5. CycleServed
    BY <2>1 DEF CycleServed
  <2>6. Sum(req, Waiting) = 0 /\ IsFiniteSet(Waiting)
    BY <2>3, SumEmpty, FS_EmptySet
  <2>7. lastDemand <= currentSize /\ offset + Sum(req, Waiting) <= cycleAllocations
    BY <2>1, <2>6
  <2> QED
    BY <2>1, <2>4, <2>5, <2>6, <2>7 DEF DemandInv
<1>2. IndInv /\ SpillsInv /\ DemandInv => Accounted
  BY SpillsCounted DEF Accounted, DemandInv
<1> QED
  BY <1>1, <1>2, Invariant, SpillsStep, DemandStep, PTL DEF Spec

---------------------------------------------------------------------------
(* The refinement: a request is granted in the step in which allocateBytes *)
(* returns; the steps before it are invisible, but for the malloc of a     *)
(* spill, which adds a block.  Besides IndInv the mapping needs to know    *)
(* that a request is pending exactly while a thread is in allocateBytes.   *)

Pending == \A t \in Threads : IF pc[t] = "idle" THEN req[t] = 0 ELSE req[t] > 0

\* allocateBytes has a request as long as it runs, and no longer.
LEMMA PendingInvariant == Spec => []Pending
<1>1. Init => Pending
  BY DEF Init, Pending
<1>2. ASSUME TypeOK, Pending, [Next]_vars PROVE Pending'
  <2> USE <1>2 DEF Pending, TypeOK, Goto, Leave, owned, locals
  <2>1. ASSUME NEW t \in Threads, NEW n \in Requests, AllocateBytes(t, n) PROVE Pending'
    BY <2>1, WorkspaceAssumption DEF AllocateBytes
  <2>2. ASSUME NEW t \in Threads, ThreadStep(t) PROVE Pending'
    BY <2>2 DEF ThreadStep, LockAllocation, TakeOffset, Advance, Overflow, SpillMalloc,
                SpillMallocFails, LockSpills, PushSpill, AccountSpill
  <2>3. ASSUME UNCHANGED locals PROVE Pending'
    BY <2>3
  <2>4. ASSUME NEW ok \in BOOLEAN, ScopeIn(ok) \/ \E n \in ExpandSizes : Expand(n, ok)
        PROVE  UNCHANGED locals
    BY <2>4 DEF ScopeIn, Expand
  <2>5. ScopeOut \/ Destroy \/ Gone \/ UNCHANGED vars => UNCHANGED locals
    BY DEF ScopeOut, Destroy, Gone, vars
  <2> QED
    BY <2>1, <2>2, <2>3, <2>4, <2>5 DEF Next
<1> QED
  BY <1>1, <1>2, WorkspaceTypeOK, PTL DEF Spec

---------------------------------------------------------------------------
(* Single steps *)

\* What clients hold lies in the memory the workspace believes it has.
LEMMA HeldBacked ==
  ASSUME IndInv
  PROVE  \A r \in regions : \E b \in Believed : A!Within(r, b)
<1> SUFFICES ASSUME NEW r \in regions PROVE \E b \in Believed : A!Within(r, b)
  OBVIOUS
<1> USE DEF IndInv, Safe, TypeOK
<1>1. r.from \in Nat /\ r.len \in Nat
  BY DEF RegionSet
<1>2. CASE r.blk = ptrHost
  <2>1. Block(ptrHost, currentSize) \in Believed
    BY DEF BufferInv, DestroyedInv, Believed
  <2>2. r.from + r.len <= currentSize
    BY <1>1, <1>2 DEF BufferInv, RegionInv
  <2> QED
    BY <2>1, <2>2, <1>2 DEF Block, A!Within
<1>3. CASE r.blk # ptrHost
  <2>1. r.from = 0 /\ Block(r.blk, r.len) \in heap
    BY <1>3 DEF RegionInv
  <2> QED
    BY <2>1, <1>1 DEF Block, A!Within, Believed
<1> QED
  BY <1>2, <1>3

\* Memory of the requested length, in a live block and apart from all that is
\* held, is a grant.
LEMMA GrantStep ==
  ASSUME NEW t \in Threads, req[t] > 0, NEW b \in Believed, NEW from \in 0..b.size,
         from + req[t] <= b.size, UNCHANGED Believed,
         regions' = regions \cup {Region(t, b.id, from, req[t])},
         \A s \in regions : Disjoint(Region(t, b.id, from, req[t]), s),
         req' = [req EXCEPT ![t] = 0]
  PROVE  A!Grant(t)
  BY DEF A!Grant, A!Within, A!Apart, Disjoint, Region

\* The end of a request served from the buffer is a grant.
LEMMA AdvanceGrants ==
  ASSUME IndInv, Pending, NEW t \in Threads, Advance(t)
  PROVE  A!Grant(t)
<1> USE DEF IndInv, Safe, TypeOK
<1> DEFINE b == Block(ptrHost, currentSize)
<1>1. pc[t] = "advance" /\ req' = [req EXCEPT ![t] = 0]
  BY DEF Advance, Leave, Goto
<1>2. b \in Believed
  BY <1>1 DEF BufferInv, DestroyedInv, AllIdle, Believed
<1>3. req[t] > 0 /\ base[t] = offset /\ offset + req[t] <= currentSize
  BY <1>1 DEF Pending, ReadInv
<1>4. UNCHANGED Believed
  BY DEF Advance, Believed
<1>5. \A s \in regions : Disjoint(Region(t, ptrHost, base[t], req[t]), s)
  BY <1>3 DEF RegionInv, Disjoint, Region, RegionSet
<1>6. regions' = regions \cup {Region(t, ptrHost, base[t], req[t])}
  BY DEF Advance
<1>7. b.id = ptrHost /\ b.size = currentSize
  BY DEF Block
<1>8. base[t] \in 0..b.size /\ base[t] + req[t] <= b.size
  BY <1>3, <1>7
<1> HIDE DEF b
<1> QED
  BY <1>1, <1>2, <1>3, <1>4, <1>5, <1>6, <1>7, <1>8, GrantStep

\* The end of a request that spilled is a grant.
LEMMA AccountGrants ==
  ASSUME IndInv, Pending, NEW t \in Threads, AccountSpill(t)
  PROVE  A!Grant(t)
<1> USE DEF IndInv, Safe, TypeOK
<1> DEFINE b == Block(mem[t], req[t])
<1>1. pc[t] = "account" /\ req' = [req EXCEPT ![t] = 0]
  BY DEF AccountSpill, Leave, Goto
<1>2. req[t] > 0
  BY <1>1 DEF Pending
<1>3. b \in Believed /\ \A r \in regions : r.blk # mem[t]
  BY <1>1 DEF SpillInv, OnSpill, Believed
<1>4. UNCHANGED Believed
  BY DEF AccountSpill, Believed
<1>5. \A s \in regions : Disjoint(Region(t, mem[t], 0, req[t]), s)
  BY <1>3 DEF Disjoint, Region
<1>6. regions' = regions \cup {Region(t, mem[t], 0, req[t])}
  BY DEF AccountSpill
<1>7. b.id = mem[t] /\ b.size = req[t]
  BY DEF Block
<1>8. 0 \in 0..b.size /\ 0 + req[t] <= b.size
  BY <1>7
<1> HIDE DEF b
<1> QED
  BY <1>1, <1>2, <1>3, <1>4, <1>5, <1>6, <1>7, <1>8, GrantStep

\* The malloc of a spill adds a block and disturbs nobody.
LEMMA MallocRelocates ==
  ASSUME IndInv, NEW t \in Threads, SpillMalloc(t)
  PROVE  A!Relocate
<1>1. Believed \subseteq Believed' /\ UNCHANGED <<req, regions>>
  BY DEF SpillMalloc, Believed, owned
<1> QED
  BY <1>1, HeldBacked DEF A!Relocate, A!Backed, A!Within

\* The owner's calls happen while nothing is held.
LEMMA OwnerRelocates ==
  ASSUME regions = {}, UNCHANGED <<req, regions>>
  PROVE  A!Relocate
  BY DEF A!Relocate, A!Backed

---------------------------------------------------------------------------
(* The refinement *)

\* Every step of a workspace is a step of the arena, or none.
LEMMA StepRefines ==
  ASSUME IndInv, Pending, [Next]_vars
  PROVE  [A!Next]_(A!arenaVars)
<1> USE DEF A!arenaVars
<1>1. ASSUME NEW t \in Threads, NEW n \in Requests, AllocateBytes(t, n) PROVE A!Next
  <2>1. req[t] = 0 /\ n > 0
    BY <1>1, WorkspaceAssumption DEF AllocateBytes, Goto, Pending
  <2>2. UNCHANGED <<regions, Believed>>
    BY <1>1 DEF AllocateBytes, Believed
  <2> QED
    BY <2>1, <2>2, <1>1 DEF A!Next, A!Ask, AllocateBytes
<1>2. ASSUME NEW t \in Threads, Advance(t) \/ AccountSpill(t) PROVE A!Next
  BY <1>2, AdvanceGrants, AccountGrants DEF A!Next
<1>3. ASSUME NEW t \in Threads, SpillMalloc(t) PROVE A!Next
  BY <1>3, MallocRelocates DEF A!Next
<1>4. ASSUME NEW t \in Threads, SpillMallocFails(t) PROVE A!Next
  <2>1. req[t] > 0 /\ req' = [req EXCEPT ![t] = 0]
    BY <1>4 DEF SpillMallocFails, Leave, Goto, Pending
  <2>2. UNCHANGED <<regions, Believed>>
    BY <1>4 DEF SpillMallocFails, owned, Believed
  <2> QED
    BY <2>1, <2>2 DEF A!Next, A!Refuse
<1>5. ASSUME NEW t \in Threads,
             \/ LockAllocation(t) \/ TakeOffset(t) \/ Overflow(t) \/ LockSpills(t)
             \/ PushSpill(t)
      PROVE  UNCHANGED <<req, regions, Believed>>
  BY <1>5 DEF LockAllocation, TakeOffset, Overflow, LockSpills, PushSpill, owned, Believed
<1>6. ASSUME NEW ok \in BOOLEAN, ScopeIn(ok) \/ \E n \in ExpandSizes : Expand(n, ok)
      PROVE  A!Next
  BY <1>6, OwnerRelocates DEF ScopeIn, Expand, locals, A!Next
<1>7. ASSUME ScopeOut PROVE A!Next
  <2>1. \A t \in Threads : req[t] = 0
    BY <1>7 DEF ScopeOut, Quiet, AllIdle, Pending
  <2> QED
    BY <1>7, <2>1 DEF ScopeOut, locals, Believed, A!Next, A!GiveBack
<1>8. ASSUME Destroy PROVE A!Next
  BY <1>8, OwnerRelocates DEF Destroy, locals, A!Next
<1>9. ASSUME Gone \/ UNCHANGED vars PROVE UNCHANGED <<req, regions, Believed>>
  BY <1>9 DEF Gone, vars, owned, locals, Believed
<1> QED
  BY <1>1, <1>2, <1>3, <1>4, <1>5, <1>6, <1>7, <1>8, <1>9 DEF Next, ThreadStep

\* For every number of threads and every size: what the threads see of a
\* workspace is an arena that answers each request in one step, with memory
\* nobody else holds.
THEOREM WorkspaceImplementsArena == Spec => ArenaSafe
<1>1. Init => A!Init
  BY DEF Init, A!Init
<1>2. IndInv /\ Pending /\ [Next]_vars => [A!Next]_(A!arenaVars)
  BY StepRefines
<1> QED
  BY <1>1, <1>2, Invariant, PendingInvariant, PTL DEF Spec, ArenaSafe, A!Spec

---------------------------------------------------------------------------
(* A buffer the workspace does not own *)

\* The external buffer is block 1: it is live and no spill is mistaken for it.
ExternalInv ==
  externalized =>
     /\ mallocs >= 1 /\ 1 \in Ids(heap) /\ 1 \notin spills
     /\ \A t \in Threads : OnSpill(t) => mem[t] # 1

\* No step frees the external buffer.
LEMMA NextExternal ==
  ASSUME IndInv, ExternalInv, [Next]_vars
  PROVE  ExternalInv'
<1> USE DEF IndInv, TypeOK, ExternalInv, OnSpill
<1>1. ASSUME NEW t \in Threads, ThreadStep(t) PROVE ExternalInv'
  <2> USE DEF Goto, Leave, owned
  <2>1. CASE SpillMalloc(t)
    BY <2>1 DEF SpillMalloc, Ids
  <2>2. CASE PushSpill(t)
    BY <2>2 DEF PushSpill, Safe, ReadInv
  <2>3. CASE AccountSpill(t) \/ Advance(t) \/ SpillMallocFails(t)
    BY <2>3 DEF AccountSpill, Advance, SpillMallocFails
  <2>4. CASE LockAllocation(t) \/ TakeOffset(t) \/ Overflow(t) \/ LockSpills(t)
    BY <2>4 DEF LockAllocation, TakeOffset, Overflow, LockSpills
  <2> QED
    BY <1>1, <2>1, <2>2, <2>3, <2>4 DEF ThreadStep
<1>2. ASSUME NEW t \in Threads, NEW n \in Requests, AllocateBytes(t, n) PROVE ExternalInv'
  BY <1>2 DEF AllocateBytes, Goto
<1>3. ASSUME NEW n, NEW h, NEW ok \in BOOLEAN, Grow(n, h, ok), 1 \in Ids(h), externalized,
             mallocs >= 1
      PROVE  1 \in Ids(heap') /\ mallocs' >= 1
  BY <1>3 DEF Grow, Ids, Without, Freeable
<1>4. ASSUME NEW ok \in BOOLEAN, ScopeIn(ok) PROVE ExternalInv'
  <2>1. externalized => 1 \in Ids(Without(heap, spills))
    BY DEF Ids, Without
  <2> QED
    BY <1>3, <1>4, <2>1 DEF ScopeIn, FreeSpills, locals
<1>5. ASSUME NEW ok \in BOOLEAN, NEW n \in ExpandSizes, Expand(n, ok) PROVE ExternalInv'
  BY <1>3, <1>5 DEF Expand, locals
<1>6. CASE ScopeOut
  BY <1>6 DEF ScopeOut, locals
<1>7. CASE Destroy
  BY <1>7 DEF Destroy, FreeSpills, locals, Ids, Without, Freeable
<1>8. CASE Gone \/ UNCHANGED vars
  BY <1>8 DEF Gone, vars, owned, locals
<1> QED
  BY <1>1, <1>2, <1>4, <1>5, <1>6, <1>7, <1>8 DEF Next

\* A buffer that came from an ExternalWorkspace is never freed, whatever is
\* allocated, expanded or destroyed.
THEOREM WorkspaceExternalKept == Spec => []ExternalKept
<1>1. Init => ExternalInv
  <2> SUFFICES ASSUME Init, externalized PROVE ExternalInv
    BY DEF ExternalInv
  <2>1. InitialSize > 0
    BY DEF Init
  <2>2. mallocs = 1 /\ heap = {Block(1, InitialSize)} /\ spills = {}
    BY <2>1 DEF Init
  <2>3. \A t \in Threads : ~OnSpill(t)
    BY DEF Init, OnSpill
  <2> QED
    BY <2>2, <2>3 DEF ExternalInv, Ids, Block
<1>2. IndInv /\ ExternalInv /\ [Next]_vars => ExternalInv'
  BY NextExternal
<1>3. ExternalInv => ExternalKept
  BY DEF ExternalInv, ExternalKept
<1> QED
  BY <1>1, <1>2, <1>3, Invariant, PTL DEF Spec

\* init, freeSpills and the destructor free what the workspace owns and nothing
\* of its caller's.
THEOREM WorkspaceHeapSound == Spec => []HeapSound
  BY WorkspaceNoLeak, WorkspaceExternalKept, PTL DEF HeapSound
===========================================================================
