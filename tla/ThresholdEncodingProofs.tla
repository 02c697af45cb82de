---------------------- MODULE ThresholdEncodingProofs ----------------------
(***************************************************************************)
(* Proofs about the compression: for every length, threshold, team of      *)
(* threads, grid and limit, a message is full and nothing is lost; and the *)
(* scan that the grid rests on is exact for any number of blocks.          *)
(*                                                                         *)
(* A slot is held while what it carries has left the sender and has not    *)
(* reached the receiver.  The invariant balances x, y and the held slots   *)
(* against everything that was due.  On the CPU it says that the elements  *)
(* the threads still have before them are untouched, and it counts: as     *)
(* long as no thread has found the message full, every large element       *)
(* behind them has a slot.  On a grid it says that the blocks that have    *)
(* run have put their elements where their ranks among all large elements  *)
(* say, which needs exact offsets.                                         *)
(*                                                                         *)
(* The offsets come from a recursion over trees of sums.  Induction and    *)
(* the existence of recursive functions are derived here for sets of       *)
(* numbers and for functions, the scan is shown to compute prefix sums     *)
(* level by level and block by block, and the digits that P3 adds up are   *)
(* shown to give the offsets of the warps.                                 *)
(***************************************************************************)
EXTENDS ThresholdEncoding, TLAPS, FiniteSetTheorems, NaturalsInduction, WellFoundedInduction

\* The CPU backend launches no grid.
CpuCall == StartEncode \/ StartDecode \/ StartBitmap \/ \E g \in Inputs : Deposit(g)
CpuNext == CpuEncode \/ Decode \/ Bitmap \/ CpuCall
CpuSpec == Init /\ [][CpuNext]_vars

TypeInv ==
  /\ {x, y, due, z} \subseteq [Elems -> Int]
  /\ phase \in {"idle", "encode", "sent", "decode", "bitmap", "words", "P1", "P3", "scanned"}
  /\ limit \in 0..N /\ pool \subseteq Elems
  /\ cnt \in Nat /\ flag \in BOOLEAN /\ next \in 0..N
  /\ th \in [Threads -> [pc : {"fetch", "load", "capture", "store"}, e : Nat, last : Nat, idx : Nat]]
  /\ DOMAIN words = Words

Busy(t) == th[t].pc # "fetch"
Storing(t) == th[t].pc = "store"

\* The elements a thread has not dealt with; in "store" it has its slot.
Open(t) == {e \in Elems : /\ Busy(t) /\ e <= th[t].last
                          /\ e >= th[t].e /\ (e = th[t].e => ~Storing(t))}
Pending == {e \in Elems : e >= next \/ \E t \in Threads : e \in Open(t)}

Teams ==
  /\ phase # "encode" => cnt = 0 /\ ~flag /\ next = 0 /\ \A t \in Threads : ~Busy(t)
  /\ \A t \in Threads : Busy(t) => th[t].e <= th[t].last /\ th[t].last < next
  /\ \A t, u \in Threads :
       (t # u /\ Busy(t) /\ Busy(u)) => th[t].last < th[u].e \/ th[u].last < th[t].e
  /\ \A t \in Threads : Storing(t) => th[t].idx < cnt /\ th[t].e \in pool
  /\ \A t, u \in Threads : (t # u /\ Storing(t) /\ Storing(u)) => th[t].idx # th[u].idx

Taken == {k \in 0..(limit - 1) : k < cnt /\ \A t \in Threads : Storing(t) => th[t].idx # k}

\* The blocks of a grid that have run, and where P3 is to put an element.
Home(e) == e \div BlockDim
Finished == {e \in pool : Home(e) \notin todo}
Rank(e) == Cardinality({f \in pool : f < e})
Written == {k \in 0..(limit - 1) : \E e \in Finished : Rank(e) = k}

Held ==
  IF phase = "encode" THEN Taken
  ELSE IF phase = "P3" THEN Written
  ELSE IF phase = "sent" THEN 0..(limit - 1)
  ELSE IF phase = "decode" THEN todo \cup {r[1] : r \in reading}
  ELSE {}

Was(k) == x[Target(k)] + Amount(z[k])

Slots ==
  /\ Held \subseteq 0..(limit - 1)
  /\ \A k \in Held : Target(k) \in pool /\ Abs(Was(k)) >= Threshold /\ (Was(k) > 0 <=> z[k] > 0)
  /\ \A k, m \in Held : k # m => Target(k) # Target(m)

\* Elements that a thread may still encode.
Fresh(e) == e \in Pending \/ \E t \in Threads : Storing(t) /\ th[t].e = e

Untouched ==
  phase = "encode" =>
    \A e \in Elems : Fresh(e) =>
      (\A k \in Held : Target(k) # e) /\ (Large(x, e) <=> e \in pool)

Balance ==
  phase \notin {"bitmap", "words"} =>
    /\ \A k \in Held : Was(k) + y[Target(k)] = due[Target(k)]
    /\ \A e \in Elems : (\A k \in Held : Target(k) # e) => x[e] + y[e] = due[e]

Counted ==
  phase = "encode" =>
    /\ limit \in 1..Cardinality(pool)
    /\ flag => cnt > limit
    /\ ~flag => cnt = Cardinality(pool \ Pending)

Reading ==
  /\ phase # "decode" => reading = {}
  /\ phase = "decode" => \A r \in reading : r = <<r[1], y[Target(r[1])]>> /\ r[1] \notin todo

Word(e) == Part(words[e \div WordBits], e)

Bitmaps ==
  /\ phase = "bitmap" => todo \subseteq Words
  /\ phase = "bitmap" => \A e \in Elems :
       x[e] + y[e] + (IF e \div WordBits \in todo THEN 0 ELSE Word(e)) = due[e]
  /\ phase = "words" => \A e \in Elems :
       x[e] + y[e] + (IF e \div WordBits \in todo THEN Word(e) ELSE 0) = due[e]

IndInv == TypeInv /\ Teams /\ Slots /\ Untouched /\ Balance /\ Counted /\ Reading /\ Bitmaps

---------------------------------------------------------------------------
(* Arithmetic *)

LEMMA Constants ==
  /\ N \in Nat \ {0} /\ Threshold \in Nat \ {0} /\ WordBits \in Nat \ {0}
  /\ Threshold \div 2 \in Int /\ Elems = 0..(N - 1)
BY SizeAssumption, ThresholdAssumption DEF Elems

LEMMA Finite ==
  ASSUME NEW S \in SUBSET Elems
  PROVE  IsFiniteSet(S) /\ Cardinality(S) \in 0..N
<1>1. IsFiniteSet(Elems) /\ Cardinality(Elems) = N
  BY Constants, FS_Interval
<1>2. IsFiniteSet(S) /\ Cardinality(S) <= Cardinality(Elems)
  BY <1>1, FS_Subset
<1>3. Cardinality(S) \in Nat
  BY <1>2, FS_CardinalityType
<1> QED
  BY <1>1, <1>2, <1>3

\* Every element has a word in the caller's buffer.
LEMMA WordOfElement ==
  ASSUME NEW e \in Elems
  PROVE  e \div WordBits \in Words
<1> DEFINE w == e \div WordBits  v == N \div WordBits
<1>1. e \in Nat /\ N \in Nat /\ e < N /\ WordBits \in Nat \ {0}
  BY Constants
<1>2. w \in Nat /\ WordBits * w <= e /\ v \in Nat /\ N < WordBits * (v + 1)
  BY <1>1
<1> HIDE DEF w, v
<1>3. ~(w >= v + 1)
  <2> SUFFICES ASSUME w >= v + 1 PROVE FALSE
    OBVIOUS
  <2>1. PICK d \in Nat : w = v + 1 + d
    BY <1>2
  <2>2. WordBits * w = WordBits * (v + 1) + WordBits * d /\ WordBits * d \in Nat
    BY <1>1, <1>2, <2>1
  <2>3. PICK a, b, c \in Int : a = WordBits * w /\ b = WordBits * (v + 1) /\ c = WordBits * d
    BY <1>1, <1>2
  <2> QED
    BY <1>1, <1>2, <2>2, <2>3
<1> QED
  BY <1>2, <1>3 DEF Words, w, v

LEMMA AmountType == \A el : Amount(el) \in Int
BY Constants DEF Amount

LEMMA PartType == \A word, e : Part(word, e) \in Int
<1>1. -Threshold \in Int /\ Threshold \in Int /\ -(Threshold \div 2) \in Int
  BY Constants
<1> SUFFICES ASSUME NEW word, NEW e PROVE Part(word, e) \in Int
  OBVIOUS
<1> DEFINE bit == e % WordBits
<1>2. CASE bit \in word.bits /\ bit \in word.signs
  BY <1>1, <1>2 DEF Part
<1>3. CASE bit \in word.bits /\ bit \notin word.signs
  BY <1>1, <1>3 DEF Part
<1>4. CASE bit \notin word.bits /\ bit \in word.signs
  BY <1>1, <1>4 DEF Part
<1>5. CASE bit \notin word.bits /\ bit \notin word.signs
  BY <1>1, <1>5 DEF Part
<1> QED
  BY <1>2, <1>3, <1>4, <1>5

---------------------------------------------------------------------------
(* Threads *)

Records == [pc : {"fetch", "load", "capture", "store"}, e : Nat, last : Nat, idx : Nat]

\* A thread that is given the iterations from a to b.
Loading(a, b) == [Idle EXCEPT !.pc = "load", !.e = a, !.last = b]

LEMMA LoadingFacts ==
  ASSUME NEW a \in Nat, NEW b \in Nat
  PROVE  /\ Loading(a, b) \in Records /\ Loading(a, b).pc = "load"
         /\ Loading(a, b).e = a /\ Loading(a, b).last = b
<1> DEFINE p == [Idle EXCEPT !.pc = "load"]
           q == [p EXCEPT !.e = a]
           r == [q EXCEPT !.last = b]
<1>1. p \in Records /\ p.pc = "load"
  BY DEF Idle, Records
<1>2. Loading(a, b) = r
  BY DEF Loading
<1> HIDE DEF p
<1>3. q \in Records /\ q.pc = "load" /\ q.e = a
  BY <1>1 DEF Records
<1> HIDE DEF q
<1>4. r \in Records /\ r.pc = "load" /\ r.e = a /\ r.last = b
  BY <1>3 DEF Records
<1> QED
  BY <1>2, <1>4

LEMMA AdvancedFacts ==
  ASSUME TypeInv, NEW t \in Threads
  PROVE  /\ Advanced(t) \in [Threads -> Records]
         /\ \A u \in Threads : u # t => Advanced(t)[u] = th[u]
         /\ th[t].e < th[t].last =>
              /\ Advanced(t)[t].pc = "load" /\ Advanced(t)[t].e = th[t].e + 1
              /\ Advanced(t)[t].last = th[t].last
         /\ ~(th[t].e < th[t].last) => Advanced(t)[t].pc = "fetch"
<1> DEFINE r == Loading(th[t].e + 1, th[t].last)
<1>1. th \in [Threads -> Records]
  BY DEF TypeInv, Records
<1>2. th[t].e + 1 \in Nat /\ th[t].last \in Nat
  BY <1>1 DEF Records
<1>4. r \in Records /\ r.pc = "load" /\ r.e = th[t].e + 1 /\ r.last = th[t].last
  BY <1>2, LoadingFacts
<1>5. Idle \in Records /\ Idle.pc = "fetch"
  BY DEF Records, Idle
<1>6. Advanced(t) = [th EXCEPT ![t] = IF th[t].e < th[t].last THEN r ELSE Idle]
  BY DEF Advanced, Loading
<1> HIDE DEF r
<1> QED
  BY <1>1, <1>4, <1>5, <1>6

LEMMA FetchedFacts ==
  ASSUME TypeInv, NEW t \in Threads, NEW k \in 1..(N - next)
  PROVE  /\ Fetched(t, k) \in [Threads -> Records]
         /\ \A u \in Threads : u # t => Fetched(t, k)[u] = th[u]
         /\ Fetched(t, k)[t].pc = "load" /\ Fetched(t, k)[t].e = next
         /\ Fetched(t, k)[t].last = next + k - 1
<1> DEFINE r == Loading(next, next + k - 1)
<1>1. th \in [Threads -> Records] /\ next \in Nat /\ next + k - 1 \in Nat
  BY Constants DEF TypeInv, Records
<1>3. r \in Records /\ r.pc = "load" /\ r.e = next /\ r.last = next + k - 1
  BY <1>1, LoadingFacts
<1>4. Fetched(t, k) = [th EXCEPT ![t] = r]
  BY DEF Fetched, Loading
<1> HIDE DEF r
<1> QED
  BY <1>1, <1>3, <1>4

\* A thread that goes on to its next iteration leaves one element behind.
LEMMA AdvancedTeams ==
  ASSUME IndInv, phase = "encode", NEW t \in Threads, Busy(t), th' = Advanced(t),
         UNCHANGED <<phase, cnt, next, pool>>
  PROVE  Teams' /\ Pending' = Pending \ {th[t].e} /\ ~Storing(t)'
<1>1. th \in [Threads -> Records] /\ next \in 0..N /\ TypeInv
  BY DEF IndInv, TypeInv, Records
<1>2. th[t].e \in Nat /\ th[t].last \in Nat /\ th[t].e <= th[t].last /\ th[t].last < next
  BY <1>1 DEF IndInv, Teams, Records
<1>3. \A u \in Threads : u # t => th'[u] = th[u]
  BY <1>1, AdvancedFacts
<1>4. \/ th'[t].pc = "load" /\ th'[t].e = th[t].e + 1 /\ th'[t].last = th[t].last /\ th[t].e < th[t].last
      \/ th'[t].pc = "fetch" /\ th[t].e = th[t].last
  BY <1>1, <1>2, AdvancedFacts
<1>5. ~Storing(t)'
  BY <1>4 DEF Storing
<1>6. \A u \in Threads : th[u].e \in Nat /\ th[u].last \in Nat
  BY <1>1 DEF Records
<1>7. Teams'
  <2>1. \A u \in Threads : Busy(u)' => th'[u].e <= th'[u].last /\ th'[u].last < next
    BY <1>2, <1>3, <1>4 DEF IndInv, Teams, Busy
  <2>2. \A u, v \in Threads : (u # v /\ Busy(u)' /\ Busy(v)') =>
           th'[u].last < th'[v].e \/ th'[v].last < th'[u].e
    <3> SUFFICES ASSUME NEW u \in Threads, NEW v \in Threads, u # v, Busy(u)', Busy(v)'
                 PROVE  th'[u].last < th'[v].e \/ th'[v].last < th'[u].e
      OBVIOUS
    <3>1. Busy(u) /\ Busy(v)
      BY <1>3 DEF Busy
    <3>2. th[u].last < th[v].e \/ th[v].last < th[u].e
      BY <3>1 DEF IndInv, Teams
    <3>3. \A w \in Threads : Busy(w)' => th'[w].e >= th[w].e /\ th'[w].last = th[w].last /\ th'[w].e \in Nat
      BY <1>3, <1>4, <1>6 DEF Busy
    <3> QED
      BY <3>2, <3>3, <1>6
  <2>3. \A u \in Threads : Storing(u)' => th'[u].idx < cnt /\ th'[u].e \in pool
    BY <1>3, <1>5 DEF IndInv, Teams, Storing
  <2>4. \A u, v \in Threads : (u # v /\ Storing(u)' /\ Storing(v)') => th'[u].idx # th'[v].idx
    BY <1>3, <1>5 DEF IndInv, Teams, Storing
  <2> QED
    BY <2>1, <2>2, <2>3, <2>4 DEF Teams
<1>8. \A u \in Threads : u # t => Open(u)' = Open(u) /\ th[t].e \notin Open(u)
  <2> SUFFICES ASSUME NEW u \in Threads, u # t
               PROVE  Open(u)' = Open(u) /\ th[t].e \notin Open(u)
    OBVIOUS
  <2>1. Open(u)' = Open(u)
    BY <1>3 DEF Open, Busy, Storing
  <2>2. Busy(u) => th[t].last < th[u].e \/ th[u].last < th[t].e
    BY DEF IndInv, Teams
  <2> QED
    BY <1>2, <1>6, <2>1, <2>2 DEF Open
<1>9. Open(t)' = Open(t) \ {th[t].e}
  <2> SUFFICES ASSUME NEW e \in Elems PROVE e \in Open(t)' <=> e \in Open(t) /\ e # th[t].e
    BY DEF Open
  <2>1. e \in Nat
    BY Constants
  <2> QED
    BY <1>2, <1>4, <1>5, <2>1 DEF Open, Busy, Storing
<1>10. Pending' = Pending \ {th[t].e}
  <2> SUFFICES ASSUME NEW e \in Elems PROVE e \in Pending' <=> e \in Pending /\ e # th[t].e
    BY DEF Pending
  <2>1. CASE e = th[t].e
    BY <1>1, <1>2, <1>8, <1>9, <2>1 DEF Pending
  <2>2. CASE e # th[t].e
    BY <1>8, <1>9, <2>2 DEF Pending
  <2> QED
    BY <2>1, <2>2
<1> QED
  BY <1>5, <1>7, <1>10

\* A step of a thread that neither takes nor fills a slot.
LEMMA ThreadMove ==
  ASSUME IndInv, phase = "encode",
         UNCHANGED <<x, y, z, due, calls, phase, limit, pool, cnt, flag, todo, reading, words>>,
         th' \in [Threads -> Records], next' \in 0..N, Teams',
         \A t \in Threads : (Storing(t) \/ Storing(t)') => th'[t] = th[t],
         Pending' \subseteq Pending, flag \/ pool \ Pending' = pool \ Pending
  PROVE  IndInv'
<1>1. TypeInv'
  BY DEF IndInv, TypeInv, Records
<1>2. \A t \in Threads : Storing(t)' <=> Storing(t)
  BY DEF Storing
<1>3. Held' = Held
  <2>1. Taken' = Taken
    BY <1>2 DEF Taken
  <2> QED
    BY <2>1 DEF Held
<1>4. \A k : Was(k)' = Was(k) /\ Target(k)' = Target(k)
  BY DEF Was, Target
<1>5. \A e : Fresh(e)' => Fresh(e)
  BY <1>2 DEF Fresh
<1>6. Slots'
  BY <1>3, <1>4 DEF IndInv, Slots
<1>7. Untouched'
  BY <1>3, <1>4, <1>5 DEF IndInv, Untouched, Large
<1>8. Balance'
  BY <1>3, <1>4 DEF IndInv, Balance
<1>9. Counted'
  BY DEF IndInv, Counted
<1>10. Reading' /\ Bitmaps'
  BY DEF IndInv, Reading, Bitmaps
<1> QED
  BY <1>1, <1>6, <1>7, <1>8, <1>9, <1>10 DEF IndInv

---------------------------------------------------------------------------
(* convertToThreshold *)

LEMMA BusyEncodes ==
  ASSUME IndInv, NEW t \in Threads, Busy(t)
  PROVE  /\ phase = "encode" /\ th \in [Threads -> Records] /\ next \in 0..N /\ TypeInv
         /\ th[t].e \in Elems /\ th[t].e \in Nat /\ th[t].last \in Nat /\ th[t].idx \in Nat
         /\ th[t].e <= th[t].last /\ th[t].last < next
         /\ Fresh(th[t].e)
<1>1. phase = "encode"
  BY DEF IndInv, Teams
<1>2. th \in [Threads -> Records] /\ next \in 0..N /\ TypeInv
  BY DEF IndInv, TypeInv, Records
<1>3. /\ th[t].e \in Nat /\ th[t].last \in Nat /\ th[t].idx \in Nat
      /\ th[t].e <= th[t].last /\ th[t].last < next
  BY <1>2 DEF IndInv, Teams, Records
<1>4. th[t].e \in Elems
  BY <1>2, <1>3, Constants
<1>5. Fresh(th[t].e)
  <2>1. CASE Storing(t)
    BY <2>1 DEF Fresh
  <2>2. CASE ~Storing(t)
    <3>1. th[t].e \in Open(t)
      BY <1>3, <1>4, <2>2 DEF Open
    <3> QED
      BY <1>4, <3>1 DEF Fresh, Pending
  <2> QED
    BY <2>1, <2>2
<1> QED
  BY <1>1, <1>2, <1>3, <1>4, <1>5

LEMMA FetchInv ==
  ASSUME IndInv, NEW t \in Threads, Fetch(t)
  PROVE  IndInv'
<1>1. PICK k \in 1..(N - next) : th' = Fetched(t, k) /\ next' = next + k
  BY DEF Fetch
<1>2. /\ TypeInv /\ th \in [Threads -> Records] /\ next \in 0..N /\ N \in Nat /\ k \in Nat
      /\ next < N /\ k <= N - next /\ k >= 1
  <2>1. TypeInv /\ next < N
    BY DEF IndInv, Fetch
  <2>2. th \in [Threads -> Records] /\ next \in 0..N
    BY <2>1 DEF TypeInv, Records
  <2> QED
    BY <2>1, <2>2, Constants
<1>3. /\ th' \in [Threads -> Records]
      /\ \A u \in Threads : u # t => th'[u] = th[u]
      /\ th'[t].pc = "load" /\ th'[t].e = next /\ th'[t].last = next + k - 1
  BY <1>1, <1>2, FetchedFacts
<1>4. next' \in 0..N
  BY <1>1, <1>2
<1>5. ~Storing(t) /\ ~Storing(t)' /\ ~Busy(t) /\ phase = "encode"
  BY <1>3 DEF Storing, Busy, Fetch
<1>6. \A u \in Threads : th[u].e \in Nat /\ th[u].last \in Nat
  BY <1>2 DEF Records
<1>7. Teams'
  <2>1. \A u \in Threads : Busy(u) => th[u].e <= th[u].last /\ th[u].last < next
    BY DEF IndInv, Teams
  <2>2. \A u \in Threads : Busy(u)' => th'[u].e <= th'[u].last /\ th'[u].last < next'
    BY <1>1, <1>2, <1>3, <1>6, <2>1 DEF Busy
  <2>3. \A u, v \in Threads : (u # v /\ Busy(u)' /\ Busy(v)') =>
           th'[u].last < th'[v].e \/ th'[v].last < th'[u].e
    <3> SUFFICES ASSUME NEW u \in Threads, NEW v \in Threads, u # v, Busy(u)', Busy(v)'
                 PROVE  th'[u].last < th'[v].e \/ th'[v].last < th'[u].e
      OBVIOUS
    <3>1. CASE u = t
      BY <1>2, <1>3, <1>6, <2>1, <3>1 DEF Busy
    <3>2. CASE v = t
      BY <1>2, <1>3, <1>6, <2>1, <3>2 DEF Busy
    <3>3. CASE u # t /\ v # t
      BY <1>3, <3>3 DEF IndInv, Teams, Busy
    <3> QED
      BY <3>1, <3>2, <3>3
  <2>4. cnt' = cnt /\ pool' = pool /\ phase' = phase
    BY DEF Fetch, messageVars
  <2>5. \A u \in Threads : Storing(u)' => th'[u].idx < cnt /\ th'[u].e \in pool
    BY <1>3, <1>5 DEF IndInv, Teams, Storing
  <2>6. \A u, v \in Threads : (u # v /\ Storing(u)' /\ Storing(v)') => th'[u].idx # th'[v].idx
    BY <1>3, <1>5 DEF IndInv, Teams, Storing
  <2> QED
    BY <1>5, <2>2, <2>3, <2>4, <2>5, <2>6 DEF Teams
<1>8. Pending' = Pending
  <2> SUFFICES ASSUME NEW e \in Elems PROVE e \in Pending' <=> e \in Pending
    BY DEF Pending
  <2>1. e \in Nat
    BY Constants
  <2>2. \A u \in Threads : u # t => Open(u)' = Open(u)
    BY <1>3 DEF Open, Busy, Storing
  <2>3. e \notin Open(t)
    BY <1>5 DEF Open
  <2>4. e \in Open(t)' <=> e >= next /\ e < next + k
    BY <1>2, <1>3, <1>5, <2>1 DEF Open, Busy
  <2>5. e >= next <=> e >= next' \/ e \in Open(t)'
    BY <1>1, <1>2, <2>1, <2>4
  <2>6. (\E u \in Threads : e \in Open(u)') <=> e \in Open(t)' \/ \E u \in Threads : e \in Open(u)
    BY <2>2, <2>3
  <2> QED
    BY <2>5, <2>6 DEF Pending
<1> QED
  <2>1. \A u \in Threads : (Storing(u) \/ Storing(u)') => th'[u] = th[u]
    BY <1>3, <1>5
  <2>2. UNCHANGED <<x, y, z, due, calls, phase, limit, pool, cnt, flag, todo, reading, words>>
    BY DEF Fetch, messageVars, callVars, workVars
  <2> QED
    BY <1>3, <1>4, <1>5, <1>7, <1>8, <2>1, <2>2, ThreadMove

LEMMA AdvanceMove ==
  ASSUME IndInv, NEW t \in Threads, Busy(t), ~Storing(t), th' = Advanced(t),
         UNCHANGED <<x, y, callVars, phase, messageVars, workVars, cnt, flag, next, words>>,
         flag \/ th[t].e \notin pool
  PROVE  IndInv'
<1>1. UNCHANGED <<x, y, z, due, calls, phase, limit, pool, cnt, flag, next, todo, reading, words>>
  BY DEF messageVars, callVars, workVars
<1>2. phase = "encode" /\ TypeInv /\ next \in 0..N
  BY BusyEncodes
<1>3. Teams' /\ Pending' = Pending \ {th[t].e} /\ ~Storing(t)'
  BY <1>1, <1>2, AdvancedTeams
<1>4. th' \in [Threads -> Records] /\ \A u \in Threads : u # t => th'[u] = th[u]
  BY <1>2, AdvancedFacts
<1>5. \A u \in Threads : (Storing(u) \/ Storing(u)') => th'[u] = th[u]
  BY <1>3, <1>4
<1>6. flag \/ pool \ Pending' = pool \ Pending
  BY <1>3
<1>7. Pending' \subseteq Pending
  BY <1>3
<1> QED
  BY <1>1, <1>2, <1>3, <1>4, <1>5, <1>6, <1>7, ThreadMove

LEMMA LoadFlagInv ==
  ASSUME IndInv, NEW t \in Threads, LoadFlag(t)
  PROVE  IndInv'
<1>1. Busy(t) /\ ~Storing(t) /\ th[t].pc = "load"
  BY DEF LoadFlag, Busy, Storing
<1>2. CASE flag
  <2>1. th' = Advanced(t)
    BY <1>2 DEF LoadFlag
  <2> QED
    BY <1>1, <1>2, <2>1, AdvanceMove DEF LoadFlag
<1>3. CASE ~flag
  <2>1. th' = [th EXCEPT ![t].pc = "capture"]
    BY <1>3 DEF LoadFlag
  <2>2. UNCHANGED <<x, y, z, due, calls, phase, limit, pool, cnt, flag, next, todo, reading, words>>
    BY DEF LoadFlag, messageVars, callVars, workVars
  <2>3. phase = "encode" /\ th \in [Threads -> Records] /\ next \in 0..N
    BY <1>1, BusyEncodes
  <2>4. /\ th' \in [Threads -> Records] /\ \A u \in Threads : u # t => th'[u] = th[u]
        /\ th'[t].pc = "capture" /\ th'[t].e = th[t].e /\ th'[t].last = th[t].last
    BY <2>1, <2>3 DEF Records
  <2>5. \A u \in Threads :
          /\ Busy(u)' <=> Busy(u)
          /\ Storing(u)' <=> Storing(u)
          /\ Storing(u) => th'[u] = th[u]
          /\ th'[u].e = th[u].e /\ th'[u].last = th[u].last
    BY <1>1, <2>4 DEF Busy, Storing
  <2>6. Teams'
    BY <2>2, <2>5 DEF IndInv, Teams
  <2>7. \A u \in Threads : Open(u)' = Open(u)
    BY <2>5 DEF Open
  <2>8. Pending' = Pending
    BY <2>2, <2>7 DEF Pending
  <2> QED
    BY <2>2, <2>3, <2>4, <2>5, <2>6, <2>8, ThreadMove
<1> QED
  BY <1>2, <1>3

LEMMA EntryFacts ==
  ASSUME NEW a \in [Elems -> Int], NEW e \in Elems, Large(a, e)
  PROVE  /\ Entry(a, e) \in Int /\ Abs(Entry(a, e)) - 1 = e
         /\ Entry(a, e) > 0 <=> a[e] > 0
<1>1. e \in Nat /\ a[e] \in Int /\ Threshold \in Nat \ {0}
  BY Constants
<1> QED
  BY <1>1 DEF Entry, Abs

\* No other thread has the element of a busy thread before it.
LEMMA StoringFacts ==
  ASSUME IndInv, NEW t \in Threads, Busy(t)
  PROVE  /\ \A u \in Threads : u # t /\ Busy(u) => th[u].e # th[t].e
         /\ \A u \in Threads : u # t => th[t].e \notin Open(u)
         /\ Storing(t) => th[t].e \notin Pending
<1>1. /\ th \in [Threads -> Records] /\ next \in 0..N /\ th[t].e \in Nat /\ th[t].last \in Nat
      /\ th[t].e <= th[t].last /\ th[t].last < next
  BY BusyEncodes
<1>2. ASSUME NEW u \in Threads, u # t, Busy(u)
      PROVE  th[u].e # th[t].e /\ th[t].e \notin Open(u)
  <2>1. th[t].last < th[u].e \/ th[u].last < th[t].e
    BY <1>2 DEF IndInv, Teams
  <2>2. th[u].e \in Nat /\ th[u].last \in Nat /\ th[u].e <= th[u].last
    BY <1>1, <1>2 DEF Records, IndInv, Teams
  <2> QED
    BY <1>1, <2>1, <2>2 DEF Open
<1>3. \A u \in Threads : u # t => th[t].e \notin Open(u)
  BY <1>2 DEF Open
<1>4. Storing(t) => th[t].e \notin Open(t)
  BY DEF Open
<1>5. ~(th[t].e >= next)
  BY <1>1
<1>6. Storing(t) => th[t].e \notin Pending
  BY <1>3, <1>4, <1>5 DEF Pending
<1> QED
  BY <1>2, <1>3, <1>6

LEMMA CaptureInv ==
  ASSUME IndInv, NEW t \in Threads, Capture(t)
  PROVE  IndInv'
<1> DEFINE c == th[t].e
<1>1. Busy(t) /\ ~Storing(t) /\ th[t].pc = "capture"
  BY DEF Capture, Busy, Storing
<1>2. /\ phase = "encode" /\ th \in [Threads -> Records] /\ next \in 0..N /\ TypeInv
      /\ c \in Elems /\ Fresh(c) /\ th[t].e <= th[t].last /\ th[t].last < next
      /\ th[t].e \in Nat /\ th[t].last \in Nat
  BY <1>1, BusyEncodes
<1>3. Large(x, c) <=> c \in pool
  BY <1>2 DEF IndInv, Untouched
<1>4. CASE ~Large(x, c)
  <2>1. th' = Advanced(t) /\ cnt' = cnt
    BY <1>4 DEF Capture
  <2> QED
    BY <1>1, <1>3, <1>4, <2>1, AdvanceMove DEF Capture
<1>5. CASE Large(x, c)
  <2>1. th' = [th EXCEPT ![t].pc = "store", ![t].idx = cnt] /\ cnt' = cnt + 1
    BY <1>5 DEF Capture, Captured
  <2>2. UNCHANGED <<x, y, z, due, calls, phase, limit, pool, flag, next, todo, reading, words>>
    BY DEF Capture, messageVars, callVars, workVars
  <2>3. cnt \in Nat /\ flag \in BOOLEAN
    BY <1>2 DEF TypeInv
  <2>4. /\ th' \in [Threads -> Records] /\ (\A u \in Threads : u # t => th'[u] = th[u])
        /\ th'[t].pc = "store" /\ th'[t].e = th[t].e /\ th'[t].last = th[t].last
        /\ th'[t].idx = cnt
    <3> DEFINE f == [th EXCEPT ![t].pc = "store"]
    <3>1. /\ f \in [Threads -> Records] /\ (\A u \in Threads : u # t => f[u] = th[u])
          /\ f[t].pc = "store" /\ f[t].e = th[t].e /\ f[t].last = th[t].last
      BY <1>2 DEF Records
    <3>2. th' = [f EXCEPT ![t].idx = cnt]
      BY <2>1
    <3> HIDE DEF f
    <3> QED
      BY <3>1, <3>2, <2>3 DEF Records
  <2>5. TypeInv'
    BY <1>2, <2>1, <2>2, <2>3, <2>4 DEF TypeInv, Records
  <2>6. \A u \in Threads :
          /\ th'[u].e = th[u].e /\ th'[u].last = th[u].last
          /\ Busy(u)' <=> Busy(u)
          /\ Storing(u)' <=> u = t \/ Storing(u)
    BY <1>1, <2>4 DEF Busy, Storing
  <2>7. Teams'
    <3>1. c \in pool
      BY <1>3, <1>5
    <3>2. \A u \in Threads : Storing(u) => th[u].idx \in Nat /\ th[u].idx < cnt /\ th[u].e \in pool
      BY <1>2 DEF IndInv, Teams, Records
    <3>3. \A u \in Threads : Storing(u)' => th'[u].idx < cnt' /\ th'[u].e \in pool
      BY <2>1, <2>3, <2>4, <2>6, <3>1, <3>2
    <3>4. \A u, v \in Threads : (u # v /\ Storing(u)' /\ Storing(v)') => th'[u].idx # th'[v].idx
      BY <2>3, <2>4, <2>6, <3>2 DEF IndInv, Teams
    <3> QED
      BY <1>2, <2>2, <2>6, <3>3, <3>4 DEF IndInv, Teams
  <2>8. Held' = Held
    <3>1. Taken' = Taken
      <4> SUFFICES ASSUME NEW k \in 0..(limit - 1) PROVE k \in Taken' <=> k \in Taken
        BY <2>2 DEF Taken
      <4>0. k \in Nat
        BY <1>2 DEF TypeInv
      <4>1. CASE k < cnt
        BY <4>0, <4>1, <1>1, <2>1, <2>2, <2>3, <2>4, <2>6 DEF Taken
      <4>2. CASE k = cnt
        BY <4>2, <2>3, <2>4, <2>6 DEF Taken
      <4>3. CASE k > cnt
        BY <4>0, <4>3, <2>1, <2>3 DEF Taken
      <4> QED
        BY <4>0, <4>1, <4>2, <4>3, <2>3
    <3> QED
      BY <3>1, <1>2, <2>2 DEF Held
  <2>9. Pending' = Pending \ {c}
    <3> SUFFICES ASSUME NEW e \in Elems PROVE e \in Pending' <=> e \in Pending /\ e # c
      BY DEF Pending
    <3>1. \A u \in Threads : u # t => Open(u)' = Open(u) /\ c \notin Open(u)
      BY <1>1, <2>4, StoringFacts DEF Open, Busy, Storing
    <3>2. e \in Open(t)' <=> e \in Open(t) /\ e # c
      BY <1>1, <2>6 DEF Open
    <3>3. ~(c >= next)
      BY <1>2
    <3> QED
      BY <2>2, <3>1, <3>2, <3>3 DEF Pending
  <2>10. c \in Pending
    <3>1. c \in Open(t)
      BY <1>1, <1>2 DEF Open
    <3> QED
      BY <1>2, <3>1 DEF Pending
  <2>11. \A e : Fresh(e)' <=> Fresh(e)
    BY <1>1, <2>6, <2>9, <2>10 DEF Fresh
  <2>12. \A k : Was(k)' = Was(k) /\ Target(k)' = Target(k)
    BY <2>2 DEF Was, Target
  <2>13. Slots' /\ Untouched' /\ Balance'
    BY <2>2, <2>8, <2>11, <2>12 DEF IndInv, Slots, Untouched, Balance, Large
  <2>14. Counted'
    <3>1. IsFiniteSet(pool \ Pending) /\ c \notin pool \ Pending
      BY <1>2, <2>10, Finite DEF TypeInv
    <3>2. pool \ Pending' = (pool \ Pending) \cup {c}
      BY <1>3, <1>5, <2>9
    <3>3. Cardinality(pool \ Pending') = Cardinality(pool \ Pending) + 1
      BY <3>1, <3>2, FS_AddElement
    <3>4. limit \in Nat /\ (flag => cnt > limit) /\ (~flag => cnt = Cardinality(pool \ Pending))
          /\ limit \in 1..Cardinality(pool)
      BY <1>2 DEF IndInv, Counted
    <3>5. flag => cnt' > limit
      BY <2>1, <2>3, <3>4
    <3>6. ~flag => cnt' = Cardinality(pool \ Pending')
      BY <2>1, <3>3, <3>4
    <3> QED
      BY <2>2, <3>4, <3>5, <3>6 DEF Counted
  <2>15. Reading' /\ Bitmaps'
    BY <1>2, <2>2 DEF IndInv, Reading, Bitmaps
  <2> QED
    BY <2>5, <2>7, <2>13, <2>14, <2>15 DEF IndInv
<1> QED
  BY <1>4, <1>5

\* What both outcomes of a store have in common.
LEMMA StoreFacts ==
  ASSUME IndInv, NEW t \in Threads, Store(t)
  PROVE  /\ Storing(t) /\ phase = "encode" /\ TypeInv /\ th[t].e \in Elems
         /\ th[t].idx \in Nat /\ th[t].idx < cnt /\ th[t].e \in pool
         /\ Large(x, th[t].e) /\ \A k \in Held : Target(k) # th[t].e
         /\ UNCHANGED <<y, due, calls, phase, limit, pool, cnt, next, todo, reading, words>>
         /\ th' \in [Threads -> Records] /\ Teams' /\ Pending' = Pending
         /\ ~Storing(t)' /\ \A u \in Threads : u # t => th'[u] = th[u]
         /\ \A u \in Threads \ {t} : Storing(u) => th[u].idx # th[t].idx
         /\ \A f : Fresh(f)' => Fresh(f) /\ f # th[t].e
<1>1. Storing(t) /\ Busy(t) /\ th' = Advanced(t)
  BY DEF Store, Storing, Busy
<1>2. /\ phase = "encode" /\ TypeInv /\ th[t].e \in Elems /\ th[t].idx \in Nat /\ Fresh(th[t].e)
  BY <1>1, BusyEncodes
<1>3. UNCHANGED <<y, due, calls, phase, limit, pool, cnt, next, todo, reading, words>>
  BY DEF Store, callVars, workVars
<1>4. th[t].idx < cnt /\ th[t].e \in pool
  BY <1>1 DEF IndInv, Teams
<1>5. Large(x, th[t].e) /\ \A k \in Held : Target(k) # th[t].e
  BY <1>2, <1>4 DEF IndInv, Untouched
<1>6. Teams' /\ Pending' = Pending \ {th[t].e} /\ ~Storing(t)'
  BY <1>1, <1>2, <1>3, AdvancedTeams
<1>7. /\ th[t].e \notin Pending
      /\ \A u \in Threads : u # t /\ Busy(u) => th[u].e # th[t].e
  BY <1>1, StoringFacts
<1>8. th' \in [Threads -> Records] /\ \A u \in Threads : u # t => th'[u] = th[u]
  BY <1>1, <1>2, AdvancedFacts
<1>9. ASSUME NEW f, Fresh(f)' PROVE Fresh(f) /\ f # th[t].e
  <2>1. CASE f \in Pending'
    BY <1>6, <2>1 DEF Fresh
  <2>2. CASE \E u \in Threads : Storing(u)' /\ th'[u].e = f
    <3>1. PICK u \in Threads : Storing(u)' /\ th'[u].e = f
      BY <2>2
    <3>2. u # t /\ th'[u] = th[u]
      BY <1>6, <1>8, <3>1
    <3>3. Storing(u) /\ Busy(u) /\ th[u].e = f
      BY <3>1, <3>2 DEF Storing, Busy
    <3> QED
      BY <1>7, <3>2, <3>3 DEF Fresh
  <2> QED
    BY <1>9, <2>1, <2>2 DEF Fresh
<1>10. \A u \in Threads \ {t} : Storing(u) => th[u].idx # th[t].idx
  BY <1>1 DEF IndInv, Teams
<1>11. Pending' = Pending
  BY <1>6, <1>7
<1> QED
  BY <1>1, <1>2, <1>3, <1>4, <1>5, <1>6, <1>8, <1>9, <1>10, <1>11

LEMMA StoreFull ==
  ASSUME IndInv, NEW t \in Threads, Store(t), ~Fits(th[t].idx)
  PROVE  IndInv'
<1>1. UNCHANGED <<x, z>> /\ flag' = TRUE
  BY DEF Store
<1>2. UNCHANGED <<y, due, calls, phase, limit, pool, cnt, next, todo, reading, words>>
  BY StoreFacts
<1>3. phase = "encode" /\ TypeInv /\ limit \in Nat /\ cnt \in Nat
      /\ th[t].idx \in Nat /\ th[t].idx < cnt
  <2>1. phase = "encode" /\ TypeInv /\ th[t].idx \in Nat /\ th[t].idx < cnt
    BY StoreFacts
  <2>2. limit \in 0..N /\ cnt \in Nat
    BY <2>1 DEF TypeInv
  <2>3. limit \in Nat
    BY ONLY <2>2, Constants
  <2> QED
    BY ONLY <2>1, <2>2, <2>3
<1>4. th[t].idx >= limit
  BY <1>3 DEF Fits
<1>5. TypeInv'
  BY <1>1, <1>2, <1>3, StoreFacts DEF TypeInv, Records
<1>6. Held' = Held
  <2>1. Taken' = Taken
    <3> SUFFICES ASSUME NEW k \in 0..(limit - 1) PROVE k \in Taken' <=> k \in Taken
      BY <1>2 DEF Taken
    <3>1. k # th[t].idx
      BY <1>3, <1>4
    <3>2. \A u \in Threads : (Storing(u)' => th'[u].idx # k) <=> (Storing(u) => th[u].idx # k)
      BY <3>1, StoreFacts DEF Storing
    <3> QED
      BY <1>2, <3>2 DEF Taken
  <2> QED
    BY <2>1, <1>2, <1>3 DEF Held
<1>7. \A k : Was(k)' = Was(k) /\ Target(k)' = Target(k)
  BY <1>1 DEF Was, Target
<1>8. \A f : Fresh(f)' => Fresh(f)
  BY StoreFacts
<1>9. Slots'
  BY <1>1, <1>2, <1>6, <1>7 DEF IndInv, Slots
<1>10. Untouched'
  BY <1>1, <1>2, <1>6, <1>7, <1>8 DEF IndInv, Untouched, Large
<1>11. Balance'
  BY <1>1, <1>2, <1>6, <1>7 DEF IndInv, Balance
<1>12. Counted'
  <2>1. cnt > limit
    BY <1>3, <1>4
  <2> QED
    BY <1>1, <1>2, <1>3, <2>1 DEF IndInv, Counted
<1>13. Reading' /\ Bitmaps'
  BY <1>2, <1>3 DEF IndInv, Reading, Bitmaps
<1> QED
  BY <1>5, <1>9, <1>10, <1>11, <1>12, <1>13, StoreFacts DEF IndInv

LEMMA StoreFits ==
  ASSUME IndInv, NEW t \in Threads, Store(t), Fits(th[t].idx)
  PROVE  IndInv'
<1>1. PICK c \in Elems, i \in Nat : c = th[t].e /\ i = th[t].idx
  BY StoreFacts
<1>2. /\ z' = [z EXCEPT ![i] = Entry(x, c)]
      /\ x' = [x EXCEPT ![c] = x[c] - Amount(Entry(x, c))]
      /\ flag' = flag
  BY <1>1 DEF Store
<1>3. UNCHANGED <<y, due, calls, phase, limit, pool, cnt, next, todo, reading, words>>
  BY StoreFacts
<1>4. /\ phase = "encode" /\ TypeInv /\ limit \in 0..N /\ cnt \in Nat /\ x \in [Elems -> Int]
      /\ y \in [Elems -> Int] /\ due \in [Elems -> Int] /\ z \in [Elems -> Int] /\ flag \in BOOLEAN
      /\ i < cnt /\ c \in pool /\ Large(x, c) /\ \A k \in Held : Target(k) # c
  BY <1>1, StoreFacts DEF TypeInv
<1>5. i < limit /\ i \in Elems /\ i \in 0..(limit - 1)
  BY <1>1, <1>4, Constants DEF Fits
<1>6. PICK en \in Int : en = Entry(x, c) /\ Abs(en) - 1 = c /\ (en > 0 <=> x[c] > 0)
  BY <1>4, EntryFacts
<1>7. PICK am \in Int : am = Amount(en)
  BY AmountType
<1>8. /\ z' \in [Elems -> Int] /\ z'[i] = en /\ \A k \in Elems : k # i => z'[k] = z[k]
  BY <1>2, <1>4, <1>5, <1>6
<1>9. /\ x' \in [Elems -> Int] /\ x'[c] = x[c] - am /\ \A e \in Elems : e # c => x'[e] = x[e]
  BY <1>2, <1>4, <1>6, <1>7
<1>10. TypeInv'
  BY <1>2, <1>3, <1>4, <1>8, <1>9, StoreFacts DEF TypeInv, Records
<1>11. Held' = Held \cup {i} /\ i \notin Held
  <2>1. Taken' = Taken \cup {i} /\ i \notin Taken
    <3>1. i \notin Taken
      BY <1>1, StoreFacts DEF Taken
    <3>2. i \in Taken'
      BY <1>1, <1>3, <1>4, <1>5, StoreFacts DEF Taken, Storing
    <3>3. ASSUME NEW k \in 0..(limit - 1), k # i PROVE k \in Taken' <=> k \in Taken
      <4>1. \A u \in Threads : (Storing(u)' => th'[u].idx # k) <=> (Storing(u) => th[u].idx # k)
        BY <1>1, <3>3, StoreFacts DEF Storing
      <4> QED
        BY <1>3, <4>1 DEF Taken
    <3> QED
      BY <1>3, <1>5, <3>1, <3>2, <3>3 DEF Taken
  <2> QED
    BY <1>3, <1>4, <2>1 DEF Held
<1>12. Held \subseteq 0..(limit - 1) /\ Held \subseteq Elems
  BY <1>4, Constants DEF IndInv, Slots
<1>13. \A k \in Held : /\ k # i /\ z'[k] = z[k] /\ Target(k)' = Target(k) /\ Was(k)' = Was(k)
                       /\ Target(k) \in pool /\ Target(k) \in Elems /\ Target(k) # c
  <2> SUFFICES ASSUME NEW k \in Held
               PROVE  /\ k # i /\ z'[k] = z[k] /\ Target(k)' = Target(k) /\ Was(k)' = Was(k)
                      /\ Target(k) \in pool /\ Target(k) \in Elems /\ Target(k) # c
    OBVIOUS
  <2>1. k # i /\ z'[k] = z[k]
    BY <1>8, <1>11, <1>12
  <2>2. Target(k)' = Target(k)
    BY <2>1 DEF Target
  <2>3. Target(k) \in pool /\ Target(k) \in Elems /\ Target(k) # c
    BY <1>4 DEF IndInv, Slots, TypeInv
  <2>4. x'[Target(k)] = x[Target(k)]
    BY <1>9, <2>3
  <2> QED
    BY <2>1, <2>2, <2>3, <2>4 DEF Was
<1>14. Target(i)' = c /\ Was(i)' = x[c]
  <2>1. Target(i)' = c
    BY <1>6, <1>8 DEF Target
  <2>2. x[c] - am + am = x[c]
    BY <1>4
  <2> QED
    BY <1>7, <1>8, <1>9, <2>1, <2>2 DEF Was
<1>15. Slots'
  <2>1. Held' \subseteq 0..(limit - 1)
    BY <1>5, <1>11, <1>12
  <2>2. Abs(x[c]) >= Threshold /\ (x[c] > 0 <=> z'[i] > 0)
    BY <1>4, <1>6, <1>8 DEF Large
  <2>3. \A k \in Held' : Target(k)' \in pool /\ Abs(Was(k)') >= Threshold /\ (Was(k)' > 0 <=> z'[k] > 0)
    BY <1>4, <1>11, <1>13, <1>14, <2>2 DEF IndInv, Slots
  <2>4. \A k, m \in Held' : k # m => Target(k)' # Target(m)'
    BY <1>11, <1>13, <1>14 DEF IndInv, Slots
  <2> QED
    BY <1>3, <2>1, <2>3, <2>4 DEF Slots
<1>16. Untouched'
  <2> SUFFICES ASSUME NEW e \in Elems, Fresh(e)'
               PROVE  (\A k \in Held' : Target(k)' # e) /\ (Large(x, e)' <=> e \in pool)
    BY <1>3 DEF Untouched
  <2>1. Fresh(e) /\ e # c
    BY <1>1, StoreFacts
  <2>2. (\A k \in Held : Target(k) # e) /\ (Large(x, e) <=> e \in pool)
    BY <1>4, <2>1 DEF IndInv, Untouched
  <2>3. Large(x, e)' <=> Large(x, e)
    BY <1>9, <2>1 DEF Large
  <2> QED
    BY <1>11, <1>13, <1>14, <2>1, <2>2, <2>3
<1>17. Balance'
  <2>1. x[c] + y[c] = due[c]
    BY <1>4 DEF IndInv, Balance
  <2>2. \A k \in Held' : Was(k)' + y[Target(k)'] = due[Target(k)']
    BY <1>4, <1>11, <1>13, <1>14, <2>1 DEF IndInv, Balance
  <2>3. ASSUME NEW e \in Elems, \A k \in Held' : Target(k)' # e PROVE x'[e] + y[e] = due[e]
    <3>1. e # c /\ \A k \in Held : Target(k) # e
      BY <1>11, <1>13, <1>14, <2>3
    <3>2. x[e] + y[e] = due[e]
      BY <1>4, <3>1 DEF IndInv, Balance
    <3> QED
      BY <1>9, <3>1, <3>2
  <2> QED
    BY <1>3, <2>2, <2>3 DEF Balance
<1>18. Counted'
  BY <1>2, <1>3, <1>4, StoreFacts DEF IndInv, Counted
<1>19. Reading' /\ Bitmaps'
  BY <1>3, <1>4 DEF IndInv, Reading, Bitmaps
<1> QED
  BY <1>10, <1>15, <1>16, <1>17, <1>18, <1>19, StoreFacts DEF IndInv

LEMMA EndEncodeInv ==
  ASSUME IndInv, EndEncode
  PROVE  IndInv'
<1>1. /\ phase = "encode" /\ next = N /\ phase' = "sent" /\ cnt' = 0 /\ flag' = FALSE /\ next' = 0
      /\ UNCHANGED <<x, y, z, due, calls, limit, pool, todo, reading, th, words>>
  BY DEF EndEncode, messageVars, callVars, workVars
<1>2. \A t \in Threads : ~Busy(t) /\ ~Storing(t)
  BY DEF EndEncode, Busy, Storing
<1>3. TypeInv /\ limit \in 0..N /\ cnt \in Nat /\ pool \subseteq Elems /\ flag \in BOOLEAN
  BY DEF IndInv, TypeInv
<1>4. TypeInv'
  <2>1. 0 \in 0..N /\ next' \in 0..N
    BY <1>1, Constants
  <2>2. cnt' \in Nat /\ flag' \in BOOLEAN
    BY <1>1
  <2> QED
    BY <1>1, <1>3, <2>1, <2>2 DEF TypeInv
<1>5. Teams'
  <2>1. \A t \in Threads : ~Busy(t)' /\ ~Storing(t)'
    BY <1>1, <1>2 DEF Busy, Storing
  <2> QED
    BY <1>1, <2>1 DEF Teams
<1>6. Pending = {}
  BY <1>1, <1>2, Constants DEF Pending, Open
<1>7. cnt >= limit
  <2>1. limit \in 1..Cardinality(pool) /\ (flag => cnt > limit)
        /\ (~flag => cnt = Cardinality(pool \ Pending))
    BY <1>1 DEF IndInv, Counted
  <2>2. pool \ Pending = pool
    BY <1>6
  <2>3. Cardinality(pool) \in Nat
    BY <1>3, Finite
  <2> QED
    BY <1>3, <2>1, <2>2, <2>3
<1>8. Held' = Held
  <2>1. Taken = 0..(limit - 1)
    BY <1>2, <1>3, <1>7 DEF Taken
  <2> QED
    BY <1>1, <2>1 DEF Held
<1>9. \A k : Was(k)' = Was(k) /\ Target(k)' = Target(k)
  BY <1>1 DEF Was, Target
<1>10. Slots' /\ Balance'
  BY <1>1, <1>8, <1>9 DEF IndInv, Slots, Balance
<1>11. Untouched' /\ Counted' /\ Reading' /\ Bitmaps'
  BY <1>1 DEF IndInv, Untouched, Counted, Reading, Bitmaps
<1> QED
  BY <1>4, <1>5, <1>10, <1>11 DEF IndInv

---------------------------------------------------------------------------
(* Calls *)

\* Nothing is held and no thread runs between two messages.
LEMMA AtRest ==
  ASSUME IndInv, phase \notin {"encode", "P3", "sent", "decode"}
  PROVE  /\ Held = {} /\ reading = {}
         /\ cnt = 0 /\ ~flag /\ next = 0 /\ \A t \in Threads : ~Busy(t) /\ ~Storing(t)
<1>1. cnt = 0 /\ ~flag /\ next = 0 /\ \A t \in Threads : ~Busy(t)
  BY DEF IndInv, Teams
<1>2. \A t \in Threads : ~Storing(t)
  BY <1>1 DEF Busy, Storing
<1> QED
  BY <1>1, <1>2 DEF Held, IndInv, Reading

\* A step that encodes nothing leaves the threads at rest.
LEMMA TeamsKept ==
  ASSUME IndInv, phase # "encode", phase' # "encode", UNCHANGED encodeVars
  PROVE  Teams' /\ Untouched' /\ Counted'
<1>1. UNCHANGED <<cnt, flag, next, th>>
  BY DEF encodeVars
<1>2. \A t \in Threads : ~Busy(t)' /\ ~Storing(t)'
  BY <1>1 DEF IndInv, Teams, Busy, Storing
<1>3. Teams'
  BY <1>1, <1>2 DEF IndInv, Teams
<1> QED
  BY <1>3 DEF Untouched, Counted

LEMMA InitInv ==
  ASSUME Init
  PROVE  IndInv
<1>1. [e \in Elems |-> 0] \in [Elems -> Int]
  OBVIOUS
<1>2. Idle \in Records /\ Idle.pc = "fetch"
  BY DEF Idle, Records
<1>3. th \in [Threads -> Records] /\ \A t \in Threads : th[t].pc = "fetch"
  BY <1>2 DEF Init
<1>4. x \in [Elems -> Int] /\ y = x /\ due = x /\ z = x /\ phase = "idle" /\ limit = 0 /\ pool = {}
      /\ cnt = 0 /\ flag = FALSE /\ next = 0 /\ reading = {} /\ DOMAIN words = Words
  BY <1>1 DEF Init
<1>5. TypeInv
  <2>1. limit \in 0..N /\ next \in 0..N
    BY <1>4, Constants
  <2>2. flag \in BOOLEAN
    BY <1>4
  <2> QED
    BY <1>3, <1>4, <2>1, <2>2 DEF TypeInv, Records
<1>6. Teams
  BY <1>3, <1>4 DEF Teams, Busy, Storing
<1>7. Held = {}
  BY <1>4 DEF Held
<1>8. \A e \in Elems : x[e] + y[e] = due[e]
  BY DEF Init
<1>9. Slots /\ Untouched /\ Balance /\ Counted /\ Reading /\ Bitmaps
  BY <1>4, <1>7, <1>8 DEF Slots, Untouched, Balance, Counted, Reading, Bitmaps
<1> QED
  BY <1>5, <1>6, <1>9 DEF IndInv

LEMMA DepositInv ==
  ASSUME IndInv, NEW g \in Inputs, Deposit(g)
  PROVE  IndInv'
<1>1. /\ phase = "idle" /\ UNCHANGED <<y, phase, z, limit, pool, todo, reading, words>>
      /\ UNCHANGED encodeVars
      /\ x' = [e \in Elems |-> x[e] + g[e]] /\ due' = [e \in Elems |-> due[e] + g[e]]
  BY DEF Deposit, messageVars, workVars
<1>2. TypeInv /\ x \in [Elems -> Int] /\ y \in [Elems -> Int] /\ due \in [Elems -> Int] /\ g \in [Elems -> Int]
  BY InputsAssumption DEF IndInv, TypeInv
<1>3. x' \in [Elems -> Int] /\ due' \in [Elems -> Int]
  BY <1>1, <1>2
<1>4. TypeInv'
  BY <1>1, <1>2, <1>3 DEF TypeInv, encodeVars
<1>5. Teams' /\ Untouched' /\ Counted'
  BY <1>1, TeamsKept
<1>6. Held = {} /\ Held' = {}
  BY <1>1, AtRest DEF Held
<1>7. ASSUME NEW e \in Elems PROVE x'[e] + y[e] = due'[e]
  <2>1. x[e] + y[e] = due[e]
    BY <1>1, <1>6 DEF IndInv, Balance
  <2> QED
    BY <1>1, <1>2, <2>1
<1>8. Slots' /\ Balance' /\ Reading' /\ Bitmaps'
  BY <1>1, <1>6, <1>7 DEF IndInv, Slots, Balance, Reading, Bitmaps
<1> QED
  BY <1>4, <1>5, <1>8 DEF IndInv

LEMMA StartEncodeInv ==
  ASSUME IndInv, StartEncode
  PROVE  IndInv'
<1>1. /\ phase = "idle" /\ phase' = "encode" /\ pool' = LargeIn(x, Elems)
      /\ limit' \in 1..Cardinality(pool')
      /\ UNCHANGED <<x, y, due, z, todo, reading, words, cnt, flag, next, th>>
  BY DEF StartEncode, workVars, encodeVars
<1>2. /\ Held = {} /\ reading = {} /\ cnt = 0 /\ ~flag /\ next = 0
      /\ \A t \in Threads : ~Busy(t) /\ ~Storing(t)
  BY <1>1, AtRest
<1>3. pool' \subseteq Elems /\ \A e \in Elems : e \in pool' <=> Large(x, e)
  BY <1>1 DEF LargeIn
<1>4. limit' \in 0..N
  BY <1>1, <1>3, Finite, Constants
<1>5. TypeInv'
  BY <1>1, <1>3, <1>4 DEF IndInv, TypeInv
<1>6. \A t \in Threads : ~Busy(t)' /\ ~Storing(t)'
  BY <1>1, <1>2 DEF Busy, Storing
<1>7. Teams'
  BY <1>1, <1>6 DEF Teams
<1>8. Held' = {}
  BY <1>1, <1>2, <1>4 DEF Held, Taken
<1>9. Pending' = Elems
  BY <1>1, <1>2, Constants DEF Pending
<1>10. Counted'
  <2>1. pool' \ Pending' = {}
    BY <1>3, <1>9
  <2> QED
    BY <1>1, <1>2, <2>1, FS_EmptySet DEF Counted
<1>11. Slots' /\ Reading' /\ Bitmaps'
  BY <1>1, <1>2, <1>8 DEF Slots, Reading, Bitmaps
<1>12. Untouched'
  BY <1>1, <1>3, <1>8 DEF Untouched, Large
<1>13. Balance'
  BY <1>1, <1>2, <1>8 DEF IndInv, Balance
<1> QED
  BY <1>5, <1>7, <1>10, <1>11, <1>12, <1>13 DEF IndInv

---------------------------------------------------------------------------
(* convertFromThreshold *)

LEMMA StartDecodeInv ==
  ASSUME IndInv, StartDecode
  PROVE  IndInv'
<1>1. /\ phase = "sent" /\ phase' = "decode" /\ todo' = 0..(limit - 1) /\ UNCHANGED encodeVars
      /\ UNCHANGED <<x, y, due, z, limit, pool, reading, words>>
  BY DEF StartDecode, messageVars, callVars
<1>2. reading = {}
  BY <1>1 DEF IndInv, Reading
<1>3. Held' = Held
  BY <1>1, <1>2 DEF Held
<1>4. \A k : Was(k)' = Was(k) /\ Target(k)' = Target(k)
  BY <1>1 DEF Was, Target
<1>5. TypeInv'
  BY <1>1 DEF IndInv, TypeInv, encodeVars
<1>6. Teams' /\ Untouched' /\ Counted'
  BY <1>1, TeamsKept
<1>7. Slots' /\ Balance'
  BY <1>1, <1>3, <1>4 DEF IndInv, Slots, Balance
<1>8. Reading' /\ Bitmaps'
  BY <1>1, <1>2 DEF Reading, Bitmaps
<1> QED
  BY <1>5, <1>6, <1>7, <1>8 DEF IndInv

LEMMA DecodeReadInv ==
  ASSUME IndInv, NEW k \in Elems, DecodeRead(k)
  PROVE  IndInv'
<1>1. /\ phase = "decode" /\ k \in todo /\ todo' = todo \ {k} /\ UNCHANGED encodeVars
      /\ UNCHANGED <<x, y, due, z, limit, pool, words>>
  BY DEF DecodeRead, messageVars, callVars
<1>2. Held = todo \cup {r[1] : r \in reading}
  BY <1>1 DEF Held
<1>3. Target(k) \in pool /\ pool \subseteq Elems
  BY <1>1, <1>2 DEF IndInv, Slots, TypeInv
<1>4. reading' = reading \cup {<<k, y[Target(k)]>>} /\ phase' = phase
  BY <1>3 DEF DecodeRead
<1>5. Held' = Held
  <2>1. Held' = todo' \cup {r[1] : r \in reading'}
    BY <1>1, <1>4 DEF Held
  <2>2. {r[1] : r \in reading'} = {r[1] : r \in reading} \cup {k}
    <3>1. PICK p : p = <<k, y[Target(k)]>>
      OBVIOUS
    <3>2. p[1] = k
      BY <3>1
    <3>3. reading' = reading \cup {p}
      BY <1>4, <3>1
    <3> QED
      BY <3>2, <3>3
  <2> QED
    BY <1>1, <1>2, <2>1, <2>2
<1>6. \A m : Was(m)' = Was(m) /\ Target(m)' = Target(m)
  BY <1>1 DEF Was, Target
<1>7. TypeInv'
  BY <1>1, <1>4 DEF IndInv, TypeInv, encodeVars
<1>8. Teams' /\ Untouched' /\ Counted'
  BY <1>1, <1>4, TeamsKept
<1>9. Slots' /\ Balance' /\ Bitmaps'
  BY <1>1, <1>4, <1>5, <1>6 DEF IndInv, Slots, Balance, Bitmaps
<1>10. Reading'
  BY <1>1, <1>4, <1>6 DEF IndInv, Reading
<1> QED
  BY <1>7, <1>8, <1>9, <1>10 DEF IndInv

LEMMA DecodeWriteInv ==
  ASSUME IndInv, NEW r \in reading, DecodeWrite(r)
  PROVE  IndInv'
<1>1. PICK i : i = r[1]
  OBVIOUS
<1>2. /\ phase = "decode" /\ phase' = phase /\ reading' = reading \ {r} /\ UNCHANGED encodeVars
      /\ UNCHANGED <<x, due, z, limit, pool, todo, words>>
      /\ y' = [y EXCEPT ![Target(i)] = r[2] + Amount(z[i])]
  BY <1>1 DEF DecodeWrite, messageVars, callVars
<1>3. Held = todo \cup {q[1] : q \in reading}
  BY <1>2 DEF Held
<1>4. \A q \in reading : q = <<q[1], y[Target(q[1])]>> /\ q[1] \notin todo
  BY <1>2 DEF IndInv, Reading
<1>5. i \in Held /\ i \notin todo /\ r[2] = y[Target(i)]
  BY <1>1, <1>3, <1>4
<1>6. Held' = Held \ {i}
  <2>1. Held' = todo \cup {q[1] : q \in reading \ {r}}
    BY <1>2 DEF Held
  <2>2. \A q \in reading : q # r => q[1] # i
    BY <1>1, <1>4
  <2> QED
    BY <1>1, <1>3, <1>5, <2>1, <2>2
<1>7. x \in [Elems -> Int] /\ y \in [Elems -> Int] /\ due \in [Elems -> Int] /\ pool \subseteq Elems
  BY DEF IndInv, TypeInv
<1>8. PICK c \in Elems : c = Target(i)
  BY <1>5, <1>7 DEF IndInv, Slots
<1>9. PICK am \in Int : am = Amount(z[i])
  BY AmountType
<1>10. y' \in [Elems -> Int] /\ y'[c] = y[c] + am /\ \A e \in Elems : e # c => y'[e] = y[e]
  BY <1>2, <1>5, <1>7, <1>8, <1>9
<1>11. \A m : Was(m)' = Was(m) /\ Target(m)' = Target(m)
  BY <1>2 DEF Was, Target
<1>12. \A k \in Held' : Target(k) # c /\ Target(k) \in Elems /\ k \in Held
  BY <1>5, <1>6, <1>7, <1>8 DEF IndInv, Slots
<1>13. TypeInv'
  BY <1>2, <1>10 DEF IndInv, TypeInv, encodeVars
<1>14. Teams' /\ Untouched' /\ Counted'
  BY <1>2, TeamsKept
<1>15. Slots' /\ Bitmaps'
  BY <1>2, <1>6, <1>11 DEF IndInv, Slots, Bitmaps
<1>16. Balance'
  <2>1. x[c] + am + y[c] = due[c]
    BY <1>2, <1>5, <1>8, <1>9 DEF IndInv, Balance, Was
  <2>2. x[c] + y'[c] = due[c]
    BY <1>7, <1>10, <2>1
  <2>3. \A k \in Held' : Was(k) + y'[Target(k)] = due[Target(k)]
    BY <1>2, <1>10, <1>12 DEF IndInv, Balance
  <2>4. ASSUME NEW e \in Elems, \A k \in Held' : Target(k) # e PROVE x[e] + y'[e] = due[e]
    <3>1. CASE e = c
      BY <2>2, <3>1
    <3>2. CASE e # c
      <4>1. \A k \in Held : Target(k) # e
        BY <1>6, <1>8, <2>4, <3>2
      <4> QED
        BY <1>2, <1>10, <3>2, <4>1 DEF IndInv, Balance
    <3> QED
      BY <3>1, <3>2
  <2> QED
    BY <1>2, <1>11, <2>3, <2>4 DEF Balance
<1>17. Reading'
  <2>1. ASSUME NEW q \in reading' PROVE q = <<q[1], y'[Target(q[1])]>> /\ q[1] \notin todo
    <3>1. q \in reading /\ q[1] \in Held'
      BY <1>2 DEF Held
    <3>2. y'[Target(q[1])] = y[Target(q[1])]
      BY <1>10, <1>12, <3>1
    <3> QED
      BY <1>4, <3>1, <3>2
  <2> QED
    BY <1>2, <1>11, <2>1 DEF Reading
<1> QED
  BY <1>13, <1>14, <1>15, <1>16, <1>17 DEF IndInv

LEMMA EndDecodeInv ==
  ASSUME IndInv, EndDecode
  PROVE  IndInv'
<1>1. /\ phase = "decode" /\ todo = {} /\ reading = {} /\ phase' = "idle" /\ pool' = {}
      /\ UNCHANGED encodeVars /\ UNCHANGED <<x, y, due, z, limit, todo, reading, words>>
  BY DEF EndDecode, callVars, workVars
<1>2. Held = {} /\ Held' = {}
  BY <1>1 DEF Held
<1>3. TypeInv'
  BY <1>1 DEF IndInv, TypeInv, encodeVars
<1>4. Teams' /\ Untouched' /\ Counted'
  BY <1>1, TeamsKept
<1>5. Slots' /\ Balance' /\ Reading' /\ Bitmaps'
  BY <1>1, <1>2 DEF IndInv, Slots, Balance, Reading, Bitmaps
<1> QED
  BY <1>3, <1>4, <1>5 DEF IndInv

---------------------------------------------------------------------------
(* encodeBitmap and decodeBitmap *)

\* What the steps of a bitmap have in common.
LEMMA BitmapFrame ==
  ASSUME IndInv, phase \in {"idle", "bitmap", "words"}, phase' \in {"idle", "bitmap", "words"},
         UNCHANGED encodeVars, UNCHANGED <<due, z, limit, pool, reading>>,
         x' \in [Elems -> Int], y' \in [Elems -> Int], DOMAIN words' = Words,
         phase' = "idle" => \A e \in Elems : x'[e] + y'[e] = due[e], Bitmaps'
  PROVE  IndInv'
<1>1. Held' = {} /\ reading' = {}
  BY AtRest DEF Held
<1>2. TypeInv'
  BY DEF IndInv, TypeInv, encodeVars
<1>3. Teams' /\ Untouched' /\ Counted'
  BY TeamsKept
<1>4. Slots' /\ Balance' /\ Reading'
  BY <1>1 DEF Slots, Balance, Reading
<1> QED
  BY <1>2, <1>3, <1>4 DEF IndInv

LEMMA BitmapTypes ==
  ASSUME IndInv
  PROVE  /\ x \in [Elems -> Int] /\ y \in [Elems -> Int] /\ due \in [Elems -> Int]
         /\ DOMAIN words = Words
BY DEF IndInv, TypeInv

LEMMA StartBitmapInv ==
  ASSUME IndInv, StartBitmap
  PROVE  IndInv'
<1>1. /\ phase = "idle" /\ phase' = "bitmap" /\ todo' = {e \div WordBits : e \in Elems}
      /\ UNCHANGED encodeVars /\ UNCHANGED <<x, y, due, z, limit, pool, reading, words>>
  BY DEF StartBitmap, messageVars
<1>2. Held = {}
  BY <1>1, AtRest
<1>3. \A e \in Elems : x[e] + y[e] = due[e] /\ x[e] + y[e] \in Int
  BY <1>1, <1>2, BitmapTypes DEF IndInv, Balance
<1>4. todo' \subseteq Words
  BY <1>1, WordOfElement
<1>5. Bitmaps'
  BY <1>1, <1>3, <1>4 DEF Bitmaps
<1> QED
  BY <1>1, <1>5, BitmapFrame, BitmapTypes

LEMMA EncodeBitmapInv ==
  ASSUME IndInv, NEW w \in Words, encodeBitmap(w)
  PROVE  IndInv'
<1>1. /\ phase = "bitmap" /\ phase' = phase /\ w \in todo /\ todo' = todo \ {w}
      /\ words' = [words EXCEPT ![w] = WordOf(w)]
      /\ x' = [e \in Elems |-> IF e \in OfWord(w) THEN x[e] - Part(WordOf(w), e) ELSE x[e]]
      /\ UNCHANGED encodeVars /\ UNCHANGED <<y, due, z, limit, pool, reading>>
  BY DEF encodeBitmap, messageVars, callVars
<1>2. /\ x \in [Elems -> Int] /\ y \in [Elems -> Int] /\ due \in [Elems -> Int]
      /\ DOMAIN words = Words
  BY BitmapTypes
<1>3. todo' \subseteq Words
  BY <1>1 DEF IndInv, Bitmaps
<1>4. x' \in [Elems -> Int] /\ DOMAIN words' = Words
  BY <1>1, <1>2, PartType
<1>5. ASSUME NEW e \in Elems
      PROVE  x'[e] + y[e] + (IF e \div WordBits \in todo' THEN 0 ELSE Word(e)') = due[e]
  <2>1. x[e] + y[e] + (IF e \div WordBits \in todo THEN 0 ELSE Word(e)) = due[e]
    BY <1>1 DEF IndInv, Bitmaps
  <2>2. CASE e \div WordBits = w
    <3>1. PICK p \in Int : p = Part(WordOf(w), e)
      BY PartType
    <3>2. x'[e] = x[e] - p
      BY <1>1, <2>2, <3>1 DEF OfWord
    <3>3. Word(e)' = p
      BY <1>1, <1>2, <2>2, <3>1 DEF Word
    <3>4. e \div WordBits \in todo /\ e \div WordBits \notin todo'
      BY <1>1, <2>2
    <3> QED
      BY <1>2, <2>1, <3>2, <3>3, <3>4
  <2>3. CASE e \div WordBits # w
    <3>1. x'[e] = x[e]
      BY <1>1, <2>3 DEF OfWord
    <3>2. Word(e)' = Word(e)
      BY <1>1, <1>2, <2>3, WordOfElement DEF Word
    <3>3. e \div WordBits \in todo' <=> e \div WordBits \in todo
      BY <1>1, <2>3
    <3> QED
      BY <2>1, <3>1, <3>2, <3>3
  <2> QED
    BY <2>2, <2>3
<1>6. Bitmaps'
  BY <1>1, <1>3, <1>5 DEF Bitmaps
<1> QED
  BY <1>1, <1>2, <1>4, <1>6, BitmapFrame

LEMMA EndBitmapInv ==
  ASSUME IndInv, EndBitmap
  PROVE  IndInv'
<1>1. /\ phase = "bitmap" /\ todo = {} /\ phase' = "words" /\ todo' = Words
      /\ UNCHANGED encodeVars /\ UNCHANGED <<x, y, due, z, limit, pool, reading, words>>
  BY DEF EndBitmap, messageVars, callVars
<1>2. ASSUME NEW e \in Elems PROVE x[e] + y[e] + Word(e) = due[e]
  BY <1>1 DEF IndInv, Bitmaps
<1>3. Bitmaps'
  <2>1. \A e \in Elems : e \div WordBits \in todo' /\ Word(e)' = Word(e)
    BY <1>1, WordOfElement DEF Word
  <2> QED
    BY <1>1, <1>2, <2>1 DEF Bitmaps
<1> QED
  BY <1>1, <1>3, BitmapFrame, BitmapTypes

LEMMA DecodeBitmapInv ==
  ASSUME IndInv, NEW w \in Words, decodeBitmap(w)
  PROVE  IndInv'
<1>1. /\ phase = "words" /\ w \in todo /\ todo' = todo \ {w}
      /\ phase' = (IF todo' = {} THEN "idle" ELSE phase)
      /\ y' = [e \in Elems |-> IF e \in OfWord(w) THEN y[e] + Part(words[w], e) ELSE y[e]]
      /\ UNCHANGED encodeVars /\ UNCHANGED <<x, due, z, limit, pool, reading, words>>
  BY DEF decodeBitmap, messageVars, callVars
<1>2. /\ x \in [Elems -> Int] /\ y \in [Elems -> Int] /\ due \in [Elems -> Int]
      /\ DOMAIN words = Words
  BY BitmapTypes
<1>3. y' \in [Elems -> Int]
  BY <1>1, <1>2, PartType
<1>4. ASSUME NEW e \in Elems
      PROVE  x[e] + y'[e] + (IF e \div WordBits \in todo' THEN Word(e) ELSE 0) = due[e]
  <2>1. x[e] + y[e] + (IF e \div WordBits \in todo THEN Word(e) ELSE 0) = due[e]
    BY <1>1 DEF IndInv, Bitmaps
  <2>2. CASE e \div WordBits = w
    <3>1. PICK p \in Int : p = Part(words[w], e)
      BY PartType
    <3>2. y'[e] = y[e] + p
      BY <1>1, <2>2, <3>1 DEF OfWord
    <3>3. Word(e) = p
      BY <2>2, <3>1 DEF Word
    <3>4. e \div WordBits \in todo /\ e \div WordBits \notin todo'
      BY <1>1, <2>2
    <3> QED
      BY <1>2, <2>1, <3>2, <3>3, <3>4
  <2>3. CASE e \div WordBits # w
    <3>1. y'[e] = y[e]
      BY <1>1, <2>3 DEF OfWord
    <3>2. e \div WordBits \in todo' <=> e \div WordBits \in todo
      BY <1>1, <2>3
    <3> QED
      BY <2>1, <3>1, <3>2
  <2> QED
    BY <2>2, <2>3
<1>5. Bitmaps'
  <2>1. \A e : Word(e)' = Word(e)
    BY <1>1 DEF Word
  <2>2. phase' # "bitmap"
    BY <1>1
  <2> QED
    BY <1>1, <1>4, <2>1, <2>2 DEF Bitmaps
<1>6. ASSUME phase' = "idle", NEW e \in Elems PROVE x'[e] + y'[e] = due[e]
  <2>1. todo' = {}
    BY <1>1, <1>6
  <2> QED
    BY <1>1, <1>2, <1>3, <1>4, <2>1
<1> QED
  BY <1>1, <1>2, <1>3, <1>5, <1>6, BitmapFrame

---------------------------------------------------------------------------

LEMMA NextInv ==
  ASSUME IndInv, [CpuNext]_vars
  PROVE  IndInv'
<1>1. CASE CpuEncode
  <2>1. ASSUME NEW t \in Threads, Store(t) PROVE IndInv'
    BY <2>1, StoreFits, StoreFull
  <2> QED
    BY <1>1, <2>1, EndEncodeInv, FetchInv, LoadFlagInv, CaptureInv DEF CpuEncode
<1>2. CASE Decode
  BY <1>2, EndDecodeInv, DecodeReadInv, DecodeWriteInv DEF Decode
<1>3. CASE Bitmap
  BY <1>3, EndBitmapInv, EncodeBitmapInv, DecodeBitmapInv DEF Bitmap
<1>4. CASE CpuCall
  BY <1>4, StartEncodeInv, StartDecodeInv, StartBitmapInv, DepositInv DEF CpuCall
<1>5. CASE UNCHANGED vars
  <2>1. UNCHANGED <<x, y, due, calls, phase, z, limit, pool, cnt, flag, next, th, todo, reading, words>>
    BY <1>5 DEF vars, callVars, messageVars, workVars, encodeVars
  <2>2. TypeInv' /\ Teams' /\ Reading' /\ Bitmaps'
    BY <2>1 DEF IndInv, TypeInv, Teams, Busy, Storing, Reading, Target, Bitmaps, Word
  <2>3. Held' = Held /\ Pending' = Pending
    BY <2>1 DEF Held, Taken, Written, Finished, Rank, Home, Storing, Pending, Open, Busy
  <2>4. /\ \A k : Was(k)' = Was(k) /\ Target(k)' = Target(k)
        /\ \A e : Fresh(e)' <=> Fresh(e)
    BY <2>1, <2>3 DEF Was, Target, Fresh, Storing
  <2>5. Slots' /\ Untouched' /\ Balance' /\ Counted'
    BY <2>1, <2>3, <2>4 DEF IndInv, Slots, Untouched, Balance, Counted, Large
  <2> QED
    BY <2>2, <2>5 DEF IndInv
<1> QED
  BY <1>1, <1>2, <1>3, <1>4, <1>5 DEF CpuNext

\* The steps of the CPU backend are steps of the whole model.
LEMMA CpuIsSpec == CpuSpec => Spec
<1>1. [CpuNext]_vars => [Next]_vars
  BY DEF CpuNext, CpuCall, Next, Call
<1> QED
  BY <1>1, PTL DEF CpuSpec, Spec

---------------------------------------------------------------------------
(* Induction and recursion, over sets and functions *)

LEMMA Smallest ==
  ASSUME NEW T \in SUBSET Nat, T # {}
  PROVE  \E a \in T : \A b \in T : a <= b
<1> DEFINE R == {p \in Nat \X Nat : p[1] < p[2]}
<1>1. IsWellFoundedOn(R, Nat)
  BY NatLessThanWellFounded DEF OpToRel
<1>2. \A a, b \in Nat : a < b => <<a, b>> \in R
  OBVIOUS
<1> HIDE DEF R
<1>3. PICK a \in T : \A b \in T : ~(<<b, a>> \in R)
  BY <1>1, WFMin, Zenon
<1>4. ASSUME NEW b \in T PROVE a <= b
  <2>1. a \in Nat /\ b \in Nat
    OBVIOUS
  <2>2. ~(b < a)
    BY <1>2, <1>3, <2>1
  <2> QED
    BY <2>1, <2>2
<1> QED
  BY <1>4

\* What holds of n when it holds of all smaller numbers holds of every number.
LEMMA CourseOfValues ==
  ASSUME NEW S, \A n \in Nat : (\A m \in Nat : m < n => m \in S) => n \in S
  PROVE  Nat \subseteq S
<1> DEFINE T == Nat \ S
<1> SUFFICES ASSUME T # {} PROVE FALSE
  OBVIOUS
<1>1. PICK a \in T : \A b \in T : a <= b
  BY Smallest
<1>2. \A m \in Nat : m < a => m \in S
  BY <1>1
<1> QED
  BY <1>2

\* What holds of 0 and passes from n to n + 1 holds of every number.
LEMMA Induction ==
  ASSUME NEW S, 0 \in S, \A n \in Nat : n \in S => n + 1 \in S
  PROVE  Nat \subseteq S
<1>1. \A n \in Nat : (\A m \in Nat : m < n => m \in S) => n \in S
  <2> SUFFICES ASSUME NEW n \in Nat, \A m \in Nat : m < n => m \in S PROVE n \in S
    OBVIOUS
  <2>1. CASE n = 0
    BY <2>1
  <2>2. CASE n # 0
    <3>1. n - 1 \in Nat /\ n - 1 < n /\ (n - 1) + 1 = n
      BY <2>2
    <3> QED
      BY <3>1
  <2> QED
    BY <2>1, <2>2
<1> QED
  BY <1>1, CourseOfValues

\* f is defined by recursion on D: from leads to an argument of lower rank.
Recursive(f, D, from, base, start, step) ==
  \A d \in D : f[d] = IF d \in base THEN start[d] ELSE step[<<d, f[from[d]]>>]

\* A function defined by recursion exists when the recursion goes down a rank.
LEMMA Recursion ==
  ASSUME NEW D, NEW V, NEW rank \in [D -> Nat], NEW from \in [D -> D], NEW base \in SUBSET D,
         NEW start \in [D -> V], NEW step \in [D \X V -> V],
         \A d \in D \ base : rank[from[d]] < rank[d]
  PROVE  \E f \in [D -> V] : Recursive(f, D, from, base, start, step)
<1> DEFINE Low(n) == {d \in D : rank[d] <= n}
           Good(n, f) == f \in [Low(n) -> V] /\ Recursive(f, Low(n), from, base, start, step)
<1>1. ASSUME NEW n \in Nat, NEW m \in Nat, NEW f, NEW g, Good(n, f), Good(m, g)
      PROVE  \A d \in D : rank[d] <= n /\ rank[d] <= m => f[d] = g[d]
  <2> DEFINE S == {k \in Nat : \A d \in D : (rank[d] = k /\ k <= n /\ k <= m) => f[d] = g[d]}
  <2>1. \A k \in Nat : (\A l \in Nat : l < k => l \in S) => k \in S
    <3> SUFFICES ASSUME NEW k \in Nat, \A l \in Nat : l < k => l \in S,
                        NEW d \in D, rank[d] = k, k <= n, k <= m
                 PROVE  f[d] = g[d]
      OBVIOUS
    <3>1. d \in Low(n) /\ d \in Low(m)
      OBVIOUS
    <3>2. /\ f[d] = IF d \in base THEN start[d] ELSE step[<<d, f[from[d]]>>]
          /\ g[d] = IF d \in base THEN start[d] ELSE step[<<d, g[from[d]]>>]
      BY <1>1, <3>1 DEF Recursive
    <3>3. d \notin base => f[from[d]] = g[from[d]]
      <4> SUFFICES ASSUME d \notin base PROVE f[from[d]] = g[from[d]]
        OBVIOUS
      <4>1. from[d] \in D /\ rank[from[d]] \in Nat /\ rank[from[d]] < k
        OBVIOUS
      <4>2. rank[from[d]] \in S
        BY <4>1
      <4> QED
        BY <4>1, <4>2
    <3> QED
      BY <3>2, <3>3
  <2>2. Nat \subseteq S
    <3> HIDE DEF S
    <3> QED
      BY <2>1, CourseOfValues
  <2> QED
    BY <2>2
<1>2. \A n \in Nat : \E f : Good(n, f)
  <2> DEFINE S == {n \in Nat : \E f : Good(n, f)}
  <2>1. \A n \in Nat : (\A m \in Nat : m < n => m \in S) => n \in S
    <3> SUFFICES ASSUME NEW n \in Nat, \A m \in Nat : m < n => m \in S PROVE \E f : Good(n, f)
      OBVIOUS
    <3> DEFINE g(d) == CHOOSE f : Good(rank[from[d]], f)
               f == [d \in Low(n) |-> IF d \in base THEN start[d] ELSE step[<<d, g(d)[from[d]]>>]]
    <3>1. ASSUME NEW d \in Low(n), d \notin base
          PROVE  /\ Good(rank[from[d]], g(d)) /\ rank[from[d]] \in Nat /\ rank[from[d]] < n
                 /\ from[d] \in D /\ from[d] \in Low(n) /\ g(d)[from[d]] \in V
      <4>1. from[d] \in D /\ rank[from[d]] \in Nat /\ rank[from[d]] < n
        BY <3>1
      <4>2. \E h : Good(rank[from[d]], h)
        BY <4>1
      <4>3. Good(rank[from[d]], g(d))
        <5> HIDE DEF Good
        <5> QED
          BY <4>2
      <4>4. from[d] \in Low(n) /\ from[d] \in Low(rank[from[d]])
        BY <4>1
      <4> HIDE DEF g
      <4>5. g(d)[from[d]] \in V
        BY <4>3, <4>4
      <4> QED
        BY <4>1, <4>3, <4>4, <4>5
    <3> HIDE DEF g
    <3>2. f \in [Low(n) -> V]
      BY <3>1
    <3>3. \A d \in Low(n) : d \notin base => f[from[d]] = g(d)[from[d]]
      <4> SUFFICES ASSUME NEW d \in Low(n), d \notin base PROVE f[from[d]] = g(d)[from[d]]
        OBVIOUS
      <4> DEFINE e == from[d]
      <4>1. Good(rank[e], g(d)) /\ rank[e] \in Nat /\ rank[e] < n /\ e \in D /\ e \in Low(n)
        BY <3>1
      <4> HIDE DEF e
      <4>2. g(d)[e] = IF e \in base THEN start[e] ELSE step[<<e, g(d)[from[e]]>>]
        BY <4>1 DEF Recursive
      <4>3. f[e] = IF e \in base THEN start[e] ELSE step[<<e, g(e)[from[e]]>>]
        BY <4>1
      <4>4. e \notin base => g(e)[from[e]] = g(d)[from[e]]
        <5> SUFFICES ASSUME e \notin base PROVE g(e)[from[e]] = g(d)[from[e]]
          OBVIOUS
        <5>1. Good(rank[from[e]], g(e)) /\ rank[from[e]] \in Nat /\ from[e] \in D
          BY <3>1, <4>1
        <5>2. rank[from[e]] < rank[e]
          BY <4>1
        <5>3. rank[from[e]] <= rank[from[e]] /\ rank[from[e]] <= rank[e]
          BY <4>1, <5>1, <5>2
        <5> HIDE DEF Good
        <5> QED
          BY <1>1, <4>1, <5>1, <5>3
      <4> HIDE DEF f
      <4>5. f[e] = g(d)[e]
        BY <4>2, <4>3, <4>4
      <4> QED
        BY <4>5 DEF e
    <3>4. \A d \in Low(n) : f[d] = IF d \in base THEN start[d] ELSE step[<<d, g(d)[from[d]]>>]
      OBVIOUS
    <3> HIDE DEF f
    <3>5. Recursive(f, Low(n), from, base, start, step)
      BY <3>3, <3>4 DEF Recursive
    <3> QED
      BY <3>2, <3>5
  <2>2. Nat \subseteq S
    <3> HIDE DEF S
    <3> QED
      BY <2>1, CourseOfValues
  <2> QED
    BY <2>2
<1> DEFINE h(n) == CHOOSE f : Good(n, f)
           F == [d \in D |-> h(rank[d])[d]]
<1>3. \A n \in Nat : Good(n, h(n))
  <2> HIDE DEF Good
  <2> QED
    BY <1>2
<1> HIDE DEF h
<1>4. ASSUME NEW d \in D
      PROVE  /\ h(rank[d])[d] \in V
             /\ h(rank[d])[d] = IF d \in base THEN start[d] ELSE step[<<d, F[from[d]]>>]
  <2>0. rank[d] \in Nat /\ d \in Low(rank[d])
    OBVIOUS
  <2>1. rank[d] \in Nat /\ Good(rank[d], h(rank[d])) /\ d \in Low(rank[d])
    <3> HIDE DEF Good
    <3> QED
      BY <1>3, <2>0
  <2>2. h(rank[d])[d] \in V
    BY <2>1
  <2>3. h(rank[d])[d] = IF d \in base THEN start[d] ELSE step[<<d, h(rank[d])[from[d]]>>]
    BY <2>1 DEF Recursive
  <2>4. d \notin base => h(rank[d])[from[d]] = F[from[d]]
    <3> SUFFICES ASSUME d \notin base PROVE h(rank[d])[from[d]] = F[from[d]]
      OBVIOUS
    <3>1. from[d] \in D /\ rank[from[d]] \in Nat /\ rank[from[d]] < rank[d]
      OBVIOUS
    <3>2. F[from[d]] = h(rank[from[d]])[from[d]] /\ Good(rank[from[d]], h(rank[from[d]]))
      BY <1>3, <3>1
    <3>3. rank[from[d]] <= rank[d] /\ rank[from[d]] <= rank[from[d]]
      BY <2>1, <3>1
    <3> HIDE DEF Good, F
    <3> QED
      BY <1>1, <2>1, <3>1, <3>2, <3>3
  <2> HIDE DEF F
  <2> QED
    BY <2>2, <2>3, <2>4
<1>5. F \in [D -> V] /\ \A d \in D : F[d] = h(rank[d])[d]
  BY <1>4
<1> HIDE DEF F
<1>6. Recursive(F, D, from, base, start, step)
  BY <1>4, <1>5 DEF Recursive
<1> QED
  BY <1>5, <1>6

Iterates(f, s, step) == f[0] = s /\ \A k \in Nat : f[k + 1] = step[<<k + 1, f[k]>>]

\* A function defined by a start and a step exists.
LEMMA Iteration ==
  ASSUME NEW V, NEW s \in V, NEW step \in [Nat \X V -> V]
  PROVE  \E f \in [Nat -> V] : Iterates(f, s, step)
<1> DEFINE rank == [k \in Nat |-> k]
           from == [k \in Nat |-> IF k = 0 THEN 0 ELSE k - 1]
           start == [k \in Nat |-> s]
<1>1. /\ rank \in [Nat -> Nat] /\ from \in [Nat -> Nat] /\ start \in [Nat -> V]
      /\ \A d \in Nat \ {0} : rank[from[d]] < rank[d]
  OBVIOUS
<1>2. \A k \in Nat : start[k] = s /\ (k # 0 => from[k] = k - 1)
  OBVIOUS
<1>3. {0} \in SUBSET Nat
  OBVIOUS
<1> HIDE DEF rank, from, start
<1>4. PICK f \in [Nat -> V] : Recursive(f, Nat, from, {0}, start, step)
  BY <1>1, <1>3, Recursion
<1>5. \A k \in Nat : f[k] = IF k = 0 THEN s ELSE step[<<k, f[k - 1]>>]
  BY <1>2, <1>4 DEF Recursive
<1>6. f[0] = s
  BY <1>5
<1>7. ASSUME NEW k \in Nat PROVE f[k + 1] = step[<<k + 1, f[k]>>]
  <2>1. k + 1 \in Nat /\ k + 1 # 0 /\ (k + 1) - 1 = k
    OBVIOUS
  <2> QED
    BY <1>5, <2>1
<1> QED
  BY <1>6, <1>7 DEF Iterates

LEMMA Powers ==
  /\ pow2i \in [Nat -> Nat \ {0}] /\ pow2i[0] = 1
  /\ \A k \in Nat : pow2i[k + 1] = 2 * pow2i[k]
<1> DEFINE V == Nat \ {0}
           step == [p \in Nat \X V |-> 2 * p[2]]
<1>1. 1 \in V /\ step \in [Nat \X V -> V]
  OBVIOUS
<1>2. \A k \in Nat, v \in V : step[<<k, v>>] = 2 * v
  OBVIOUS
<1> HIDE DEF step
<1>3. PICK f \in [Nat -> V] : Iterates(f, 1, step)
  <2> HIDE DEF V
  <2> QED
    BY <1>1, Iteration
<1>4. f[0] = 1 /\ \A k \in Nat : f[k + 1] = 2 * f[k]
  <2>1. f[0] = 1 /\ \A k \in Nat : f[k] \in V /\ k + 1 \in Nat
    BY <1>3 DEF Iterates
  <2> QED
    BY <1>2, <1>3, <2>1 DEF Iterates
<1>5. f = [k \in Nat |-> IF k = 0 THEN 1 ELSE 2 * f[k - 1]]
  BY <1>4
<1> DEFINE P(g) == g = [k \in Nat |-> IF k = 0 THEN 1 ELSE 2 * g[k - 1]]
<1>6. pow2i = CHOOSE g : P(g)
  BY DEF pow2i
<1>7. P(pow2i)
  BY <1>5, <1>6
<1>8. /\ pow2i[0] = 1 /\ \A k \in Nat : pow2i[k + 1] = 2 * pow2i[k]
  BY <1>7
<1>9. DOMAIN pow2i = Nat /\ pow2i = [k \in Nat |-> pow2i[k]]
  BY <1>7
<1> DEFINE S == {k \in Nat : pow2i[k] \in V}
<1>10. Nat \subseteq S
  <2>1. 0 \in S /\ \A k \in Nat : k \in S => k + 1 \in S
    BY <1>8
  <2> HIDE DEF S
  <2> QED
    BY <2>1, Induction
<1>11. pow2i \in [Nat -> V]
  BY <1>9, <1>10
<1> QED
  BY <1>8, <1>11

---------------------------------------------------------------------------
(* Division and powers of two *)

LEMMA Quotient ==
  ASSUME NEW i \in Nat, NEW p \in Nat \ {0}
  PROVE  \E q, r \in Nat : q = i \div p /\ r = i % p /\ r < p /\ i = p * q + r
<1>1. i \in Int /\ p \in Int /\ p > 0 /\ i >= 0
  OBVIOUS
<1> DEFINE q == i \div p  r == i % p
<1>2. r \in 0..(p - 1)
  BY <1>1
<1>3. r = i - p * q
  BY <1>1
<1>4. q \in Nat
  BY <1>1
<1>5. q = i \div p /\ r = i % p
  OBVIOUS
<1> HIDE DEF q, r
<1>6. i = p * q + r /\ r \in Nat /\ r < p
  BY <1>1, <1>2, <1>3, <1>4
<1> QED
  BY <1>4, <1>5, <1>6

LEMMA TimesMonotone ==
  ASSUME NEW p \in Nat, NEW q \in Nat, NEW r \in Nat, q < r
  PROVE  p * q \in Nat /\ p * r \in Nat /\ p * q + p <= p * r
<1>1. PICK d \in Nat : r = q + 1 + d
  <2>1. r - q - 1 \in Nat /\ r = q + 1 + (r - q - 1)
    OBVIOUS
  <2> QED
    BY <2>1
<1>2. p * r = p * q + p + p * d
  BY <1>1
<1>3. p * d \in Nat /\ p * q \in Nat /\ p * r \in Nat
  BY <1>1
<1> DEFINE a == p * r  b == p * q  c == p * d
<1>4. a \in Nat /\ b \in Nat /\ c \in Nat /\ a = b + p + c
  BY <1>2, <1>3
<1>5. b + p <= a
  <2> HIDE DEF a, b, c
  <2> QED
    BY <1>4
<1> QED
  BY <1>3, <1>5

LEMMA QuotientIs ==
  ASSUME NEW p \in Nat \ {0}, NEW q \in Nat, NEW r \in Nat, r < p
  PROVE  (p * q + r) \div p = q /\ (p * q + r) % p = r
<1> DEFINE i == p * q + r
           a == i \div p
           m == i % p
<1>1. i \in Nat
  OBVIOUS
<1>2. i = p * q + r
  OBVIOUS
<1> HIDE DEF i
<1>3. a \in Nat /\ m \in Nat /\ m < p /\ i = p * a + m
  <2>1. PICK b, c \in Nat : b = i \div p /\ c = i % p /\ c < p /\ i = p * b + c
    BY <1>1, Quotient
  <2>2. a = b /\ m = c
    BY <2>1
  <2> HIDE DEF a, m
  <2> QED
    BY <2>1, <2>2
<1> HIDE DEF a, m
<1>4. ~(a < q)
  <2> SUFFICES ASSUME a < q PROVE FALSE
    OBVIOUS
  <2>1. p * a \in Nat /\ p * q \in Nat /\ p * a + p <= p * q
    BY <1>3, TimesMonotone
  <2> DEFINE u == p * a  v == p * q
  <2>2. u \in Nat /\ v \in Nat /\ u + p <= v /\ i = u + m /\ i = v + r
    BY <1>2, <1>3, <2>1
  <2> HIDE DEF u, v
  <2> QED
    BY <1>3, <2>2
<1>5. ~(q < a)
  <2> SUFFICES ASSUME q < a PROVE FALSE
    OBVIOUS
  <2>1. p * a \in Nat /\ p * q \in Nat /\ p * q + p <= p * a
    BY <1>3, TimesMonotone
  <2> DEFINE u == p * a  v == p * q
  <2>2. u \in Nat /\ v \in Nat /\ v + p <= u /\ i = u + m /\ i = v + r
    BY <1>2, <1>3, <2>1
  <2> HIDE DEF u, v
  <2> QED
    BY <1>3, <2>2
<1>6. a = q
  BY <1>3, <1>4, <1>5
<1>7. m = r
  <2> DEFINE u == p * q
  <2>1. u \in Nat /\ i = u + m /\ i = u + r
    BY <1>2, <1>3, <1>6
  <2> HIDE DEF u
  <2> QED
    BY <1>3, <2>1
<1> QED
  BY <1>6, <1>7 DEF a, m, i

\* p divides i.
Divides(p, i) == \E q \in Nat : i = p * q

LEMMA DividesMod ==
  ASSUME NEW i \in Nat, NEW p \in Nat \ {0}
  PROVE  i % p = 0 <=> Divides(p, i)
<1>1. i % p = 0 => Divides(p, i)
  <2> SUFFICES ASSUME i % p = 0 PROVE Divides(p, i)
    OBVIOUS
  <2>1. PICK q, r \in Nat : r = i % p /\ i = p * q + r
    BY Quotient
  <2>2. r = 0
    BY <2>1
  <2>3. i = p * q
    BY <2>1, <2>2
  <2> QED
    BY <2>3 DEF Divides
<1>2. ASSUME Divides(p, i) PROVE i % p = 0
  <2>1. PICK q \in Nat : i = p * q
    BY <1>2 DEF Divides
  <2>2. i = p * q + 0 /\ 0 < p
    BY <2>1
  <2> QED
    BY <2>2, QuotientIs
<1> QED
  BY <1>1, <1>2

\* A multiple of p is a multiple of 2 * p or half way between two.
LEMMA Halves ==
  ASSUME NEW p \in Nat \ {0}, NEW i \in Nat
  PROVE  /\ 2 * p \in Nat \ {0}
         /\ Divides(2 * p, i) => Divides(p, i)
         /\ Divides(2 * p, i) /\ i # 0 =>
              /\ i - p \in Nat \ {0} /\ i - 2 * p \in Nat
              /\ Divides(p, i - p) /\ ~Divides(2 * p, i - p)
         /\ (Divides(p, i) /\ ~Divides(2 * p, i)) =>
              /\ i % (2 * p) = p /\ Divides(2 * p, i + p) /\ i - p \in Nat
         /\ i % (2 * p) = p => Divides(p, i) /\ ~Divides(2 * p, i)
<1>1. 2 * p \in Nat \ {0} /\ p < 2 * p /\ p \in Nat
  OBVIOUS
<1>2. ASSUME NEW q \in Nat, i = (2 * p) * q
      PROVE  i = p * (2 * q) /\ 2 * q \in Nat
  BY <1>2
<1>3. Divides(2 * p, i) => Divides(p, i)
  BY <1>2 DEF Divides
<1>4. ASSUME NEW q \in Nat, q # 0, i = (2 * p) * q
      PROVE  /\ i - p \in Nat \ {0} /\ i - 2 * p \in Nat
             /\ i - p = p * (2 * q - 1) /\ 2 * q - 1 \in Nat
             /\ i - p = (2 * p) * (q - 1) + p /\ q - 1 \in Nat
  <2>1. q - 1 \in Nat /\ 2 * q - 1 \in Nat
    BY <1>4
  <2>2. (2 * p) * (q - 1) \in Nat /\ (2 * p) * (q - 1) = (2 * p) * q - 2 * p
    BY <2>1
  <2>3. p * (2 * q - 1) = (2 * p) * q - p
    BY <2>1
  <2> DEFINE u == (2 * p) * (q - 1)  v == (2 * p) * q
  <2>4. u \in Nat /\ u = v - 2 * p /\ i = v /\ v \in Nat
    BY <1>4, <2>2
  <2>5. i - p \in Nat \ {0} /\ i - 2 * p \in Nat /\ i - p = u + p
    <3> HIDE DEF u, v
    <3> QED
      BY <2>4
  <2> QED
    BY <1>4, <2>1, <2>3, <2>5
<1>5. ASSUME NEW j \in Nat, j % (2 * p) = p PROVE ~Divides(2 * p, j)
  BY <1>1, <1>5, DividesMod
<1>6. ASSUME Divides(2 * p, i), i # 0
      PROVE  /\ i - p \in Nat \ {0} /\ i - 2 * p \in Nat
             /\ Divides(p, i - p) /\ ~Divides(2 * p, i - p)
  <2>1. PICK q \in Nat : i = (2 * p) * q
    BY <1>6 DEF Divides
  <2>2. q # 0
    BY <1>6, <2>1
  <2>3. (i - p) % (2 * p) = p
    <3>1. i - p = (2 * p) * (q - 1) + p /\ q - 1 \in Nat
      BY <1>4, <2>1, <2>2
    <3>2. ((2 * p) * (q - 1) + p) % (2 * p) = p
      BY <1>1, <3>1, QuotientIs
    <3> QED
      BY <3>1, <3>2
  <2>4. i - p \in Nat \ {0} /\ i - 2 * p \in Nat /\ i - p = p * (2 * q - 1) /\ 2 * q - 1 \in Nat
    BY <1>4, <2>1, <2>2
  <2>5. ~Divides(2 * p, i - p)
    BY <1>5, <2>3, <2>4
  <2> QED
    BY <2>4, <2>5 DEF Divides
<1>7. ASSUME Divides(p, i), ~Divides(2 * p, i)
      PROVE  i % (2 * p) = p /\ Divides(2 * p, i + p) /\ i - p \in Nat
  <2>1. PICK q \in Nat : i = p * q
    BY <1>7 DEF Divides
  <2>2. PICK h \in Nat : q = 2 * h \/ q = 2 * h + 1
    <3>1. q \div 2 \in Nat /\ (q = 2 * (q \div 2) \/ q = 2 * (q \div 2) + 1)
      OBVIOUS
    <3> QED
      BY <3>1
  <2>3. q # 2 * h
    <3> SUFFICES ASSUME q = 2 * h PROVE FALSE
      OBVIOUS
    <3>1. i = (2 * p) * h
      BY <2>1
    <3> QED
      BY <1>7, <3>1 DEF Divides
  <2>4. i = (2 * p) * h + p /\ i + p = (2 * p) * (h + 1) /\ h + 1 \in Nat
    BY <2>1, <2>2, <2>3
  <2>5. i % (2 * p) = p
    BY <1>1, <2>4, QuotientIs
  <2>6. i - p \in Nat
    <3>1. (2 * p) * h \in Nat
      OBVIOUS
    <3> QED
      BY <2>4, <3>1
  <2> QED
    BY <2>4, <2>5, <2>6 DEF Divides
<1>8. ASSUME i % (2 * p) = p PROVE Divides(p, i) /\ ~Divides(2 * p, i)
  <2>1. PICK q \in Nat : i = (2 * p) * q + p
    BY <1>1, <1>8, Quotient
  <2>2. i = p * (2 * q + 1) /\ 2 * q + 1 \in Nat
    BY <2>1
  <2> QED
    BY <1>5, <1>8, <2>2 DEF Divides
<1> QED
  BY <1>1, <1>3, <1>6, <1>7, <1>8

LEMMA PowerType ==
  ASSUME NEW k \in Nat
  PROVE  /\ pow2i[k] \in Nat \ {0} /\ k + 1 \in Nat /\ pow2i[k + 1] = 2 * pow2i[k]
         /\ k # 0 => k - 1 \in Nat /\ pow2i[k] = 2 * pow2i[k - 1]
<1>1. k # 0 => k - 1 \in Nat /\ (k - 1) + 1 = k
  OBVIOUS
<1> QED
  BY <1>1, Powers

\* A power of two divides the larger ones.
LEMMA PowersDivide ==
  ASSUME NEW t \in Nat, NEW s \in Nat, t <= s
  PROVE  Divides(pow2i[t], pow2i[s])
<1> DEFINE S == {k \in Nat : Divides(pow2i[t], pow2i[t + k])}
<1>1. 0 \in S
  <2>1. pow2i[t] = pow2i[t] * 1 /\ t + 0 = t
    BY PowerType
  <2> QED
    BY <2>1 DEF Divides
<1>2. ASSUME NEW k \in Nat, k \in S PROVE k + 1 \in S
  <2>1. PICK q \in Nat : pow2i[t + k] = pow2i[t] * q
    BY <1>2 DEF Divides
  <2>2. t + k \in Nat /\ t + (k + 1) = (t + k) + 1
    OBVIOUS
  <2>3. pow2i[t + (k + 1)] = 2 * pow2i[t + k]
    BY <2>2, PowerType
  <2>4. pow2i[t + (k + 1)] = pow2i[t] * (2 * q) /\ 2 * q \in Nat
    BY <2>1, <2>3, PowerType
  <2> QED
    BY <2>4 DEF Divides
<1>3. Nat \subseteq S
  <2> HIDE DEF S
  <2> QED
    BY <1>1, <1>2, Induction
<1>4. s - t \in Nat /\ t + (s - t) = s
  OBVIOUS
<1> QED
  BY <1>3, <1>4

LEMMA DividesTrans ==
  ASSUME NEW p \in Nat, NEW q \in Nat, NEW i \in Nat, Divides(p, q), Divides(q, i)
  PROVE  Divides(p, i)
<1>1. PICK a \in Nat : q = p * a
  BY DEF Divides
<1>2. PICK b \in Nat : i = q * b
  BY DEF Divides
<1>3. i = p * (a * b) /\ a * b \in Nat
  BY <1>1, <1>2
<1> QED
  BY <1>3 DEF Divides

LEMMA DividesBound ==
  ASSUME NEW p \in Nat \ {0}, NEW i \in Nat \ {0}, Divides(p, i)
  PROVE  p <= i /\ i - p \in Nat /\ Divides(p, i - p)
<1>1. PICK q \in Nat : i = p * q
  BY DEF Divides
<1>2. q # 0
  BY <1>1
<1>3. q - 1 \in Nat /\ p * (q - 1) \in Nat /\ i = p * (q - 1) + p
  BY <1>1, <1>2
<1>4. p <= i /\ i - p \in Nat /\ i - p = p * (q - 1)
  <2> DEFINE u == p * (q - 1)
  <2>1. u \in Nat /\ i = u + p
    BY <1>3
  <2>2. p <= i /\ i - p \in Nat /\ i - p = u
    <3> HIDE DEF u
    <3> QED
      BY <2>1
  <2> QED
    BY <2>2
<1> QED
  BY <1>3, <1>4 DEF Divides

LEMMA PowerGrows ==
  ASSUME NEW k \in Nat
  PROVE  /\ k < pow2i[k]
         /\ \A m \in Nat : k <= m => pow2i[k] <= pow2i[m]
<1> DEFINE S == {n \in Nat : n < pow2i[n]}
<1>1. 0 \in S
  BY Powers
<1>2. ASSUME NEW n \in Nat, n \in S PROVE n + 1 \in S
  BY <1>2, PowerType
<1>3. Nat \subseteq S
  <2> HIDE DEF S
  <2> QED
    BY <1>1, <1>2, Induction
<1>4. ASSUME NEW m \in Nat, k <= m PROVE pow2i[k] <= pow2i[m]
  BY <1>4, PowersDivide, DividesBound, PowerType
<1> QED
  BY <1>3, <1>4

\* Every positive number has a power of two between its half and itself.
LEMMA FloorPower ==
  ASSUME NEW n \in Nat \ {0}
  PROVE  \E k \in Nat : pow2i[k] <= n /\ n < 2 * pow2i[k]
<1> DEFINE S == {m \in Nat : \E k \in Nat : pow2i[k] <= m + 1 /\ m + 1 < 2 * pow2i[k]}
<1>1. 0 \in S
  BY Powers
<1>2. ASSUME NEW m \in Nat, m \in S PROVE m + 1 \in S
  <2>1. PICK k \in Nat : pow2i[k] <= m + 1 /\ m + 1 < 2 * pow2i[k]
    BY <1>2
  <2>2. pow2i[k] \in Nat \ {0} /\ k + 1 \in Nat /\ pow2i[k + 1] = 2 * pow2i[k]
    BY PowerType
  <2>3. CASE m + 2 < 2 * pow2i[k]
    BY <2>1, <2>2, <2>3
  <2>4. CASE m + 2 >= 2 * pow2i[k]
    <3>1. pow2i[k + 1] <= (m + 1) + 1 /\ (m + 1) + 1 < 2 * pow2i[k + 1]
      BY <2>1, <2>2, <2>4
    <3> QED
      BY <2>2, <3>1
  <2> QED
    BY <2>2, <2>3, <2>4
<1>3. Nat \subseteq S
  <2> HIDE DEF S
  <2> QED
    BY <1>1, <1>2, Induction
<1>4. n - 1 \in Nat /\ (n - 1) + 1 = n
  OBVIOUS
<1> QED
  BY <1>3, <1>4

LEMMA IsPower ==
  ASSUME NEW n \in Nat
  PROVE  isPowerOfTwo(n) <=> \E k \in Nat : pow2i[k] = n
<1>1. ASSUME NEW k \in Nat, pow2i[k] = n PROVE k \in 0..n
  BY <1>1, PowerGrows
<1> QED
  BY <1>1 DEF isPowerOfTwo

LEMMA FloorIs ==
  ASSUME NEW n \in Nat \ {0}
  PROVE  /\ floorPow2(n) \in 1..n /\ n < 2 * floorPow2(n)
         /\ \E k \in Nat : floorPow2(n) = pow2i[k]
<1>1. PICK k \in Nat : pow2i[k] <= n /\ n < 2 * pow2i[k]
  BY FloorPower
<1>2. pow2i[k] \in 1..n /\ isPowerOfTwo(pow2i[k])
  BY <1>1, PowerType, IsPower
<1>3. \E p \in 1..n : isPowerOfTwo(p) /\ n < 2 * p
  BY <1>1, <1>2
<1>4. floorPow2(n) \in 1..n /\ isPowerOfTwo(floorPow2(n)) /\ n < 2 * floorPow2(n)
  BY <1>3 DEF floorPow2
<1> QED
  BY <1>4, IsPower

LEMMA ExponentIs ==
  ASSUME NEW k \in Nat
  PROVE  Exponent(pow2i[k]) \in Nat /\ pow2i[Exponent(pow2i[k])] = pow2i[k]
<1>1. k \in 0..pow2i[k]
  BY PowerGrows, PowerType
<1> QED
  BY <1>1 DEF Exponent

LEMMA PowerSum ==
  ASSUME NEW s \in Nat, NEW t \in Nat
  PROVE  s + t \in Nat /\ pow2i[s + t] = pow2i[s] * pow2i[t]
<1> DEFINE S == {k \in Nat : pow2i[s + k] = pow2i[s] * pow2i[k]}
<1>1. 0 \in S
  <2>1. s + 0 = s /\ pow2i[0] = 1 /\ pow2i[s] \in Nat
    BY Powers
  <2> QED
    BY <2>1
<1>2. ASSUME NEW k \in Nat, k \in S PROVE k + 1 \in S
  <2>1. s + k \in Nat /\ s + (k + 1) = (s + k) + 1
    OBVIOUS
  <2>2. pow2i[s + (k + 1)] = 2 * pow2i[s + k] /\ pow2i[k + 1] = 2 * pow2i[k]
    BY <2>1, Powers
  <2>3. pow2i[s] \in Nat /\ pow2i[k] \in Nat
    BY Powers
  <2>4. 2 * (pow2i[s] * pow2i[k]) = pow2i[s] * (2 * pow2i[k])
    BY <2>3
  <2> QED
    BY <1>2, <2>2, <2>4
<1>3. Nat \subseteq S
  <2> HIDE DEF S
  <2> QED
    BY <1>1, <1>2, Induction
<1> QED
  BY <1>3

LEMMA PowerQuotient ==
  ASSUME NEW s \in Nat, NEW t \in Nat, t <= s
  PROVE  s - t \in Nat /\ pow2i[s] \div pow2i[t] = pow2i[s - t]
<1>1. s - t \in Nat /\ t + (s - t) = s
  OBVIOUS
<1>2. pow2i[s] = pow2i[t] * pow2i[s - t]
  BY <1>1, PowerSum
<1>3. pow2i[t] \in Nat \ {0} /\ pow2i[s - t] \in Nat
  BY <1>1, PowerType
<1>4. pow2i[s] = pow2i[t] * pow2i[s - t] + 0 /\ 0 < pow2i[t]
  BY <1>2, <1>3
<1> QED
  BY <1>1, <1>3, <1>4, QuotientIs

---------------------------------------------------------------------------
(* Floats *)

LEMMA UlpType ==
  ASSUME NEW v \in Int
  PROVE  Ulp(v) \in Nat \ {0}
<1>1. Mantissa \in Nat \ {0}
  BY ScanAssumption
<1> DEFINE p == pow2i[Mantissa - 1]
<1>2. p \in Nat \ {0} /\ pow2i[Mantissa] = 2 * p
  BY <1>1, PowerType
<1>3. CASE v < pow2i[Mantissa]
  BY <1>3 DEF Ulp
<1>4. CASE ~(v < pow2i[Mantissa])
  <2> DEFINE f == floorPow2(v)
  <2> HIDE DEF p
  <2>1. v \in Nat \ {0}
    BY <1>2, <1>4
  <2>2. f \in Nat /\ v < 2 * f
    BY <2>1, FloorIs
  <2>3. f \in Nat /\ p <= f
    <3> HIDE DEF f
    <3> QED
      BY <1>2, <1>4, <2>2
  <2>4. f \div p \in Nat \ {0}
    <3> HIDE DEF f
    <3>1. PICK q, r \in Nat : q = f \div p /\ r < p /\ f = p * q + r
      BY <1>2, <2>3, Quotient
    <3>2. q # 0
      <4> SUFFICES ASSUME q = 0 PROVE FALSE
        OBVIOUS
      <4>1. p * q = 0
        BY <1>2
      <4> QED
        BY <1>2, <2>3, <3>1, <4>1
    <3> QED
      BY <3>1, <3>2
  <2>5. Ulp(v) = f \div p
    BY <1>4 DEF Ulp, p
  <2> QED
    BY <2>4, <2>5
<1> QED
  BY <1>3, <1>4

LEMMA RoundedType ==
  ASSUME NEW v \in Int
  PROVE  Rounded(v) \in Int
<1> DEFINE u == Ulp(v)
           q == v \div u
<1>1. u \in Nat \ {0}
  BY UlpType
<1>2. q \in Int
  <2> HIDE DEF u
  <2> QED
    BY <1>1
<1>3. Rounded(v) = u * q \/ Rounded(v) = u * (q + 1)
  BY DEF Rounded
<1>4. u * q \in Int /\ u * (q + 1) \in Int
  <2> HIDE DEF u, q
  <2> QED
    BY <1>1, <1>2
<1> QED
  BY <1>3, <1>4

\* A float holds every number up to 2^Mantissa.
LEMMA RoundedExact ==
  ASSUME NEW v \in Nat, v <= pow2i[Mantissa]
  PROVE  Rounded(v) = v
<1>1. Mantissa \in Nat \ {0}
  BY ScanAssumption
<1> DEFINE p == pow2i[Mantissa - 1]
<1>2. p \in Nat \ {0} /\ pow2i[Mantissa] = 2 * p /\ pow2i[Mantissa] \in Nat
  BY <1>1, PowerType
<1>3. CASE v < pow2i[Mantissa]
  <2>1. Ulp(v) = 1
    BY <1>3 DEF Ulp
  <2>2. v \div 1 = v /\ v % 1 = 0
    OBVIOUS
  <2> QED
    BY <2>1, <2>2 DEF Rounded
<1>4. CASE ~(v < pow2i[Mantissa])
  <2>1. v = pow2i[Mantissa] /\ v \in Nat \ {0}
    BY <1>2, <1>4
  <2>2. floorPow2(v) \in 1..v /\ v < 2 * floorPow2(v)
    BY <2>1, FloorIs
  <2>3. PICK k \in Nat : floorPow2(v) = pow2i[k]
    BY <2>1, FloorIs
  <2>4. k = Mantissa
    <3>1. k \in Nat /\ Mantissa \in Nat
      BY <1>1
    <3>2. ~(Mantissa < k)
      <4> SUFFICES ASSUME Mantissa < k PROVE FALSE
        OBVIOUS
      <4>1. Mantissa + 1 \in Nat /\ Mantissa + 1 <= k
        BY <3>1
      <4>2. pow2i[Mantissa + 1] = 2 * pow2i[Mantissa] /\ pow2i[Mantissa + 1] <= pow2i[k]
        BY <1>1, <4>1, PowerType, PowerGrows
      <4> QED
        BY <1>2, <2>1, <2>2, <2>3, <4>2
    <3>3. ~(k < Mantissa)
      <4> SUFFICES ASSUME k < Mantissa PROVE FALSE
        OBVIOUS
      <4>1. k + 1 \in Nat /\ k + 1 <= Mantissa
        BY <3>1
      <4>2. pow2i[k + 1] = 2 * pow2i[k] /\ pow2i[k + 1] <= pow2i[Mantissa] /\ pow2i[k] \in Nat
        BY <1>1, <4>1, PowerType, PowerGrows
      <4> QED
        BY <1>2, <2>1, <2>2, <2>3, <4>2
    <3> QED
      BY <3>1, <3>2, <3>3
  <2>5. Ulp(v) = pow2i[Mantissa] \div p
    BY <1>4, <2>3, <2>4 DEF Ulp
  <2>6. Ulp(v) = 2
    <3> HIDE DEF p
    <3>1. pow2i[Mantissa] = p * 2 + 0 /\ 0 < p
      BY <1>2
    <3>2. (p * 2 + 0) \div p = 2
      BY <1>2, <3>1, QuotientIs
    <3> QED
      BY <2>5, <3>1, <3>2
  <2>7. v \div 2 = p /\ v % 2 = 0
    <3> HIDE DEF p
    <3> QED
      BY <1>2, <2>1
  <2>8. Rounded(v) = 2 * p
    <3> HIDE DEF p
    <3> QED
      BY <2>6, <2>7 DEF Rounded
  <2> QED
    BY <1>2, <2>1, <2>8
<1> QED
  BY <1>3, <1>4

LEMMA FloatAddType ==
  ASSUME NEW v \in Int, NEW w \in Int
  PROVE  FloatAdd(v, w) \in Int
<1>1. Rounded(v) + Rounded(w) \in Int
  BY RoundedType
<1> QED
  BY <1>1, RoundedType DEF FloatAdd

\* A float holds a number of at most Mantissa bits, and so a sum that fits is exact.
LEMMA FloatAddExact ==
  ASSUME NEW v \in Nat, NEW w \in Nat, v + w <= pow2i[Mantissa]
  PROVE  FloatAdd(v, w) = v + w
<1>1. pow2i[Mantissa] \in Nat
  BY ScanAssumption, PowerType
<1>2. Rounded(v) = v /\ Rounded(w) = w
  BY <1>1, RoundedExact
<1>3. v + w \in Nat /\ Rounded(v + w) = v + w
  BY RoundedExact
<1> QED
  BY <1>2, <1>3 DEF FloatAdd

---------------------------------------------------------------------------
(* Prefix sums *)

\* P[i] is the sum of the first i elements of d, which has m.
Sums(P, d, m) ==
  /\ P \in [0..m -> Nat] /\ P[0] = 0
  /\ \A i \in 1..m : P[i] = P[i - 1] + d[i]

\* Prefix sums of numbers that are not negative do not decrease.
LEMMA SumsGrow ==
  ASSUME NEW m \in Nat, NEW d \in [1..m -> Nat], NEW P, Sums(P, d, m)
  PROVE  \A i, j \in 0..m : i <= j => P[i] <= P[j]
<1> DEFINE S == {k \in Nat : \A i \in 0..m : i + k <= m => P[i] <= P[i + k]}
<1>1. 0 \in S
  BY DEF Sums
<1>2. ASSUME NEW k \in Nat, k \in S PROVE k + 1 \in S
  <2> SUFFICES ASSUME NEW i \in 0..m, i + (k + 1) <= m PROVE P[i] <= P[i + (k + 1)]
    OBVIOUS
  <2> DEFINE j == i + (k + 1)
  <2>1. j \in 1..m /\ i + k \in 0..m /\ j - 1 = i + k /\ i + k <= m
    OBVIOUS
  <2>2. P[i] <= P[i + k]
    BY <1>2, <2>1
  <2>3. P[j] = P[j - 1] + d[j] /\ d[j] \in Nat /\ P[i + k] \in Nat /\ P[i] \in Nat
    BY <2>1 DEF Sums
  <2> HIDE DEF j
  <2>4. P[i] <= P[j]
    BY <2>1, <2>2, <2>3
  <2> QED
    BY <2>4 DEF j
<1>3. Nat \subseteq S
  <2> HIDE DEF S
  <2> QED
    BY <1>1, <1>2, Induction
<1>4. ASSUME NEW i \in 0..m, NEW j \in 0..m, i <= j PROVE P[i] <= P[j]
  <2> DEFINE k == j - i
  <2>1. k \in Nat /\ i + k = j /\ i + k <= m
    BY <1>4
  <2> HIDE DEF k
  <2> QED
    BY <1>3, <2>1
<1> QED
  BY <1>4

LEMMA PrefixSums ==
  ASSUME NEW c \in Seq(Nat)
  PROVE  Sums(Prefix(c), c, Len(c))
<1> DEFINE m == Len(c)
           D == 0..m
           rank == [n \in D |-> n]
           from == [n \in D |-> IF n = 0 THEN 0 ELSE n - 1]
           start == [n \in D |-> 0]
           step == [p \in D \X Nat |-> IF p[1] = 0 THEN p[2] ELSE p[2] + c[p[1]]]
<1>1. m \in Nat /\ c \in [1..m -> Nat]
  OBVIOUS
<1>2. /\ rank \in [D -> Nat] /\ from \in [D -> D] /\ start \in [D -> Nat]
      /\ \A n \in D \ {0} : rank[from[n]] < rank[n]
      /\ {0} \in SUBSET D
  BY <1>1
<1>3. step \in [D \X Nat -> Nat]
  <2>1. \A n \in D : n # 0 => n \in 1..m
    BY <1>1
  <2> QED
    BY <1>1, <2>1
<1>4. \A n \in D : /\ start[n] = 0
                   /\ n # 0 => from[n] = n - 1
                   /\ \A v \in Nat : n # 0 => step[<<n, v>>] = v + c[n]
  BY <1>1
<1> HIDE DEF D, rank, from, start, step
<1>5. PICK f \in [D -> Nat] : Recursive(f, D, from, {0}, start, step)
  BY <1>2, <1>3, Recursion
<1>6. \A n \in D : f[n] = IF n = 0 THEN 0 ELSE f[n - 1] + c[n]
  <2> SUFFICES ASSUME NEW n \in D PROVE f[n] = IF n = 0 THEN 0 ELSE f[n - 1] + c[n]
    OBVIOUS
  <2>1. f[n] = IF n \in {0} THEN start[n] ELSE step[<<n, f[from[n]]>>]
    BY <1>5 DEF Recursive
  <2>2. n # 0 => n - 1 \in D
    BY <1>1 DEF D
  <2>3. n # 0 => f[n - 1] \in Nat
    BY <1>5, <2>2
  <2> QED
    BY <1>4, <2>1, <2>3
<1> DEFINE Q(g) == g = [n \in 0..Len(c) |-> IF n = 0 THEN 0 ELSE g[n - 1] + c[n]]
<1>7. Q(f)
  BY <1>5, <1>6 DEF D
<1>8. Prefix(c) = CHOOSE g : Q(g)
  BY DEF Prefix
<1>9. Q(Prefix(c))
  BY <1>7, <1>8
<1> DEFINE P == Prefix(c)
<1>10. P[0] = 0 /\ DOMAIN P = 0..m /\ P = [n \in 0..m |-> P[n]]
  BY <1>1, <1>9
<1>11. \A i \in 1..m : P[i] = P[i - 1] + c[i]
  BY <1>1, <1>9
<1> HIDE DEF P, Q
<1> DEFINE S == {n \in Nat : n <= m => P[n] \in Nat}
<1>12. 0 \in S
  BY <1>10
<1>13. ASSUME NEW n \in Nat, n \in S PROVE n + 1 \in S
  <2> SUFFICES ASSUME n + 1 <= m PROVE P[n + 1] \in Nat
    OBVIOUS
  <2>1. n + 1 \in 1..m /\ (n + 1) - 1 = n /\ n <= m
    BY <1>1
  <2>2. c[n + 1] \in Nat
    BY <1>1, <2>1
  <2> QED
    BY <1>11, <1>13, <2>1, <2>2
<1>14. Nat \subseteq S
  <2> HIDE DEF S
  <2> QED
    BY <1>12, <1>13, Induction
<1>15. P \in [0..m -> Nat]
  BY <1>1, <1>10, <1>14
<1>16. Sums(P, c, m)
  BY <1>10, <1>11, <1>15 DEF Sums
<1> QED
  BY <1>16 DEF P

---------------------------------------------------------------------------
(* The tree *)

Level_up(prev, s) ==
  [i \in DOMAIN prev |-> IF i % pow2i[s] = 0 THEN prev[i] + prev[i - pow2i[s - 1]] ELSE prev[i]]

\* What s levels of buildSum have made of an array with the prefix sums P.
Up(P, m, s, a) ==
  /\ a \in [1..m -> Int]
  /\ \A i \in 1..m : \A t \in 0..s :
       /\ Divides(pow2i[t], i)
       /\ t = s \/ ~Divides(pow2i[t + 1], i)
       => a[i] = P[i] - P[i - pow2i[t]]

LEMMA LevelUpType ==
  ASSUME NEW m \in Nat, NEW a \in [1..m -> Int], NEW s \in Nat \ {0}
  PROVE  Level_up(a, s) \in [1..m -> Int]
<1> DEFINE p == pow2i[s - 1]
<1>1. p \in Nat \ {0} /\ pow2i[s] = 2 * p
  BY PowerType
<1> HIDE DEF p
<1>2. ASSUME NEW i \in 1..m, i % pow2i[s] = 0 PROVE i - p \in 1..m
  <2>0. i \in Nat /\ i # 0 /\ 2 * p \in Nat \ {0} /\ i % (2 * p) = 0
    BY <1>1, <1>2
  <2>1. i \in Nat /\ i # 0 /\ Divides(2 * p, i)
    BY <2>0, DividesMod
  <2>2. i - p \in Nat \ {0}
    BY <1>1, <2>1, Halves
  <2> QED
    BY <1>1, <2>2
<1>3. \A i \in 1..m : (IF i % pow2i[s] = 0 THEN a[i] + a[i - p] ELSE a[i]) \in Int
  BY <1>2
<1> QED
  BY <1>3 DEF Level_up, p

\* One level of buildSum doubles the blocks whose sums it has.
LEMMA UpStep ==
  ASSUME NEW m \in Nat, NEW P \in [0..m -> Nat], NEW s \in Nat, NEW a, Up(P, m, s, a)
  PROVE  Up(P, m, s + 1, Level_up(a, s + 1))
<1> DEFINE p == pow2i[s]
           b == Level_up(a, s + 1)
<1>1. p \in Nat \ {0} /\ pow2i[s + 1] = 2 * p /\ s + 1 \in Nat \ {0} /\ (s + 1) - 1 = s
  BY PowerType
<1>2. a \in [1..m -> Int]
  BY DEF Up
<1>3. b \in [1..m -> Int]
  BY <1>1, <1>2, LevelUpType
<1>4. \A i \in 1..m : b[i] = IF i % (2 * p) = 0 THEN a[i] + a[i - p] ELSE a[i]
  BY <1>1, <1>2 DEF Level_up
<1>p. p = pow2i[s]
  OBVIOUS
<1> HIDE DEF p, b
<1>5. \A i \in 1..m : i % (2 * p) = 0 <=> Divides(2 * p, i)
  BY <1>1, DividesMod
<1>6. ASSUME NEW i \in 1..m, Divides(p, i) PROVE a[i] = P[i] - P[i - p]
  BY <1>6, <1>p DEF Up
<1>7. ASSUME NEW i \in 1..m, NEW t \in 0..(s + 1), Divides(pow2i[t], i),
             t = s + 1 \/ ~Divides(pow2i[t + 1], i)
      PROVE  b[i] = P[i] - P[i - pow2i[t]]
  <2>0. i \in Nat /\ i # 0
    OBVIOUS
  <2>1. CASE t = s + 1
    <3>1. Divides(2 * p, i)
      BY <1>1, <1>7, <2>1
    <3>2. /\ Divides(p, i) /\ i - p \in Nat \ {0} /\ i - 2 * p \in Nat
          /\ Divides(p, i - p)
      BY <1>1, <2>0, <3>1, Halves
    <3>3. /\ i - p \in 1..m /\ (i - p) - p = i - 2 * p
          /\ i - 2 * p \in 0..m /\ i \in 0..m /\ i - p \in 0..m
      BY <1>1, <3>2
    <3>4. a[i] = P[i] - P[i - p] /\ a[i - p] = P[i - p] - P[i - 2 * p]
      BY <1>6, <3>2, <3>3
    <3>5. b[i] = a[i] + a[i - p]
      BY <1>4, <1>5, <3>1
    <3>6. P[i] \in Int /\ P[i - p] \in Int /\ P[i - 2 * p] \in Int
      BY <3>3
    <3>7. b[i] = P[i] - P[i - 2 * p]
      BY <3>4, <3>5, <3>6
    <3> QED
      BY <1>1, <2>1, <3>7
  <2>2. CASE t # s + 1
    <3>1. t \in 0..s /\ t + 1 \in Nat /\ t + 1 <= s + 1 /\ t \in Nat
      BY <2>2
    <3>2. ~Divides(pow2i[t + 1], i)
      BY <1>7, <2>2
    <3>3. ~Divides(2 * p, i)
      <4>1. Divides(pow2i[t + 1], pow2i[s + 1])
        BY <1>1, <3>1, PowersDivide
      <4>2. pow2i[t + 1] \in Nat /\ pow2i[s + 1] \in Nat
        BY <1>1, <3>1, PowerType
      <4> QED
        BY <1>1, <2>0, <3>2, <4>1, <4>2, DividesTrans
    <3>4. b[i] = a[i]
      BY <1>4, <1>5, <3>3
    <3>5. a[i] = P[i] - P[i - pow2i[t]]
      BY <1>7, <3>1, <3>2 DEF Up
    <3> QED
      BY <3>4, <3>5
  <2> QED
    BY <2>1, <2>2
<1> QED
  BY <1>3, <1>7 DEF Up, b

LEMMA UpStart ==
  ASSUME NEW m \in Nat, NEW d \in [1..m -> Nat], NEW P, Sums(P, d, m)
  PROVE  Up(P, m, 0, d)
<1>1. ASSUME NEW i \in 1..m PROVE d[i] = P[i] - P[i - pow2i[0]]
  <2>1. pow2i[0] = 1
    BY Powers
  <2>2. P[i] = P[i - 1] + d[i] /\ d[i] \in Nat /\ i - 1 \in 0..m /\ P[i - 1] \in Nat
    BY DEF Sums
  <2> QED
    BY <2>1, <2>2
<1> QED
  BY <1>1 DEF Up

\* f[s] is what s levels of the tree make of d.
Levels(f, d, n, step) == f[0] = d /\ \A s \in 1..n : f[s] = step[<<s, f[s - 1]>>]

LEMMA LevelsExist ==
  ASSUME NEW V, NEW d \in V, NEW n \in Nat, NEW step \in [(1..n) \X V -> V]
  PROVE  \E f \in [0..n -> V] : Levels(f, d, n, step)
<1> DEFINE g == [p \in Nat \X V |-> IF p[1] \in 1..n THEN step[p] ELSE p[2]]
<1>1. g \in [Nat \X V -> V]
  OBVIOUS
<1>2. \A s \in 1..n : \A v \in V : g[<<s, v>>] = step[<<s, v>>]
  OBVIOUS
<1> HIDE DEF g
<1>3. PICK F \in [Nat -> V] : Iterates(F, d, g)
  BY <1>1, Iteration
<1> DEFINE f == [s \in 0..n |-> F[s]]
<1>4. f \in [0..n -> V] /\ f[0] = d
  BY <1>3 DEF Iterates
<1>5. ASSUME NEW s \in 1..n PROVE f[s] = step[<<s, f[s - 1]>>]
  <2>1. s - 1 \in Nat /\ (s - 1) + 1 = s /\ s - 1 \in 0..n /\ s \in 0..n
    OBVIOUS
  <2>2. F[(s - 1) + 1] = g[<<(s - 1) + 1, F[s - 1]>>]
    BY <1>3, <2>1 DEF Iterates
  <2>3. F[s - 1] \in V
    BY <2>1
  <2>4. f[s] = F[s] /\ f[s - 1] = F[s - 1]
    BY <2>1
  <2> QED
    BY <1>2, <2>1, <2>2, <2>3, <2>4
<1>6. Levels(f, d, n, step)
  BY <1>4, <1>5 DEF Levels
<1> HIDE DEF f
<1> QED
  BY <1>4, <1>6

\* The function that buildSum defines.
UpLevels(f, d, n) ==
  f = [s \in 0..n |->
         IF s = 0 THEN d
         ELSE LET prev == f[s - 1]
              IN  [i \in DOMAIN d |->
                     IF i % pow2i[s] = 0 THEN prev[i] + prev[i - pow2i[s - 1]] ELSE prev[i]]]

LEMMA UpLevelsExist ==
  ASSUME NEW m \in Nat, NEW d \in [1..m -> Int], NEW n \in Nat
  PROVE  LET f == CHOOSE g : UpLevels(g, d, n)
         IN  f[0] = d /\ \A s \in 1..n : f[s - 1] \in [1..m -> Int] => f[s] = Level_up(f[s - 1], s)
<1> DEFINE V == [1..m -> Int]
           step == [p \in (1..n) \X V |-> Level_up(p[2], p[1])]
<1>1. step \in [(1..n) \X V -> V]
  <2>1. \A s \in 1..n, a \in V : Level_up(a, s) \in V
    <3>1. \A s \in 1..n : s \in Nat \ {0}
      OBVIOUS
    <3> QED
      BY <3>1, LevelUpType
  <2> QED
    BY <2>1
<1>2. \A s \in 1..n, a \in V : step[<<s, a>>] = Level_up(a, s)
  OBVIOUS
<1>d. d \in V
  OBVIOUS
<1>v. \A a \in V : DOMAIN a = DOMAIN d
  OBVIOUS
<1> HIDE DEF step, V
<1>p. PICK f \in [0..n -> V] : Levels(f, d, n, step)
  BY <1>1, <1>d, LevelsExist
<1>3. f[0] = d /\ \A s \in 1..n : f[s] = step[<<s, f[s - 1]>>]
  BY <1>p DEF Levels
<1>4. ASSUME NEW s \in 1..n PROVE f[s - 1] \in V /\ f[s] = Level_up(f[s - 1], s)
  <2>1. s - 1 \in 0..n
    OBVIOUS
  <2> QED
    BY <1>2, <1>3, <2>1
<1>5. ASSUME NEW s \in 1..n
      PROVE  f[s] = LET prev == f[s - 1]
                    IN  [i \in DOMAIN d |->
                         IF i % pow2i[s] = 0 THEN prev[i] + prev[i - pow2i[s - 1]] ELSE prev[i]]
  BY <1>4, <1>v DEF Level_up
<1>6. UpLevels(f, d, n)
  <2>1. \A s \in 0..n : s # 0 => s \in 1..n
    OBVIOUS
  <2>2. f = [s \in 0..n |-> f[s]]
    BY <1>3
  <2> QED
    BY <1>3, <1>5, <2>1, <2>2 DEF UpLevels
<1> DEFINE F == CHOOSE g : UpLevels(g, d, n)
<1>7. UpLevels(F, d, n)
  BY <1>6
<1> HIDE DEF F
<1>8. F[0] = d
  BY <1>7 DEF UpLevels
<1>9. ASSUME NEW s \in 1..n, F[s - 1] \in V PROVE F[s] = Level_up(F[s - 1], s)
  <2>1. s \in 0..n /\ s # 0
    OBVIOUS
  <2>2. DOMAIN F[s - 1] = DOMAIN d
    BY <1>9, <1>v
  <2>3. F[s] = LET prev == F[s - 1]
               IN  [i \in DOMAIN d |->
                     IF i % pow2i[s] = 0 THEN prev[i] + prev[i - pow2i[s - 1]] ELSE prev[i]]
    BY <1>7, <2>1 DEF UpLevels
  <2> QED
    BY <2>2, <2>3 DEF Level_up
<1> QED
  BY <1>8, <1>9 DEF F, V

\* What the tree's length has to be.
LEMMA TreeLength ==
  ASSUME NEW m \in Nat, isPowerOfTwo(m)
  PROVE  Exponent(m) \in Nat /\ pow2i[Exponent(m)] = m
<1>1. PICK k \in Nat : pow2i[k] = m
  BY IsPower
<1> QED
  BY <1>1, ExponentIs

LEMMA BuildSumType ==
  ASSUME NEW m \in Nat, isPowerOfTwo(m), NEW d \in [1..m -> Int]
  PROVE  buildSum(d) \in [1..m -> Int]
<1> DEFINE n == Exponent(m)
           f == CHOOSE g : UpLevels(g, d, n)
<1>1. n \in Nat
  BY TreeLength
<1>2. Len(d) = m
  OBVIOUS
<1>3. buildSum(d) = f[n]
  BY <1>2 DEF buildSum, UpLevels
<1>4. f[0] = d /\ \A s \in 1..n : f[s - 1] \in [1..m -> Int] => f[s] = Level_up(f[s - 1], s)
  <2> HIDE DEF n
  <2> QED
    BY <1>1, UpLevelsExist
<1> HIDE DEF n, f
<1> DEFINE S == {s \in Nat : s <= n => f[s] \in [1..m -> Int]}
<1>5. 0 \in S
  BY <1>4
<1>6. ASSUME NEW s \in Nat, s \in S PROVE s + 1 \in S
  <2> SUFFICES ASSUME s + 1 <= n PROVE f[s + 1] \in [1..m -> Int]
    OBVIOUS
  <2>1. s + 1 \in 1..n /\ (s + 1) - 1 = s /\ s + 1 \in Nat \ {0} /\ s <= n
    BY <1>1
  <2>2. f[s] \in [1..m -> Int]
    BY <1>6, <2>1
  <2>3. f[s + 1] = Level_up(f[s], s + 1)
    BY <1>4, <2>1, <2>2
  <2>4. Level_up(f[s], s + 1) \in [1..m -> Int]
    BY <2>1, <2>2, LevelUpType
  <2> QED
    BY <2>3, <2>4
<1>7. Nat \subseteq S
  <2> HIDE DEF S
  <2> QED
    BY <1>5, <1>6, Induction
<1> QED
  BY <1>1, <1>3, <1>7

\* buildSum leaves the sum of every subtree in its last element.
LEMMA BuildSumIs ==
  ASSUME NEW m \in Nat, isPowerOfTwo(m), NEW d \in [1..m -> Nat], NEW P, Sums(P, d, m)
  PROVE  Up(P, m, Exponent(m), buildSum(d))
<1> DEFINE n == Exponent(m)
           f == CHOOSE g : UpLevels(g, d, n)
<1>1. n \in Nat
  BY TreeLength
<1>2. Len(d) = m /\ d \in [1..m -> Int] /\ P \in [0..m -> Nat]
  BY DEF Sums
<1>3. buildSum(d) = f[n]
  BY <1>2 DEF buildSum, UpLevels
<1>4. f[0] = d /\ \A s \in 1..n : f[s - 1] \in [1..m -> Int] => f[s] = Level_up(f[s - 1], s)
  <2> HIDE DEF n
  <2> QED
    BY <1>1, <1>2, UpLevelsExist
<1> HIDE DEF n, f
<1> DEFINE S == {s \in Nat : s <= n => Up(P, m, s, f[s])}
<1>5. 0 \in S
  BY <1>4, UpStart
<1>6. ASSUME NEW s \in Nat, s \in S PROVE s + 1 \in S
  <2> SUFFICES ASSUME s + 1 <= n PROVE Up(P, m, s + 1, f[s + 1])
    OBVIOUS
  <2>1. s + 1 \in 1..n /\ (s + 1) - 1 = s /\ s <= n
    BY <1>1
  <2>2. Up(P, m, s, f[s])
    BY <1>6, <2>1
  <2>3. f[s] \in [1..m -> Int]
    BY <2>2 DEF Up
  <2>4. f[s + 1] = Level_up(f[s], s + 1)
    BY <1>4, <2>1, <2>3
  <2> QED
    BY <1>2, <2>2, <2>4, UpStep
<1>7. Nat \subseteq S
  <2> HIDE DEF S
  <2> QED
    BY <1>5, <1>6, Induction
<1> QED
  BY <1>1, <1>3, <1>7 DEF n

\* One level of scanRootToLeaves, with the stride p.
Level_down(prev, p) ==
  [i \in DOMAIN prev |->
     CASE i % (2 * p) = 0 -> FloatAdd(prev[i], prev[i - p])
       [] i % (2 * p) = p -> prev[i + p]
       [] OTHER           -> prev[i]]

\* What scanRootToLeaves has made of it when it is down to the stride 2^e.
Down(P, m, e, a) ==
  /\ a \in [1..m -> Int]
  /\ \A i \in 1..m : Divides(pow2i[e], i) => a[i] = P[i - pow2i[e]]
  /\ \A i \in 1..m : \A t \in 0..(e - 1) :
       Divides(pow2i[t], i) /\ ~Divides(pow2i[t + 1], i) => a[i] = P[i] - P[i - pow2i[t]]

LEMMA HalfFits ==
  ASSUME NEW p \in Nat \ {0}, NEW m \in Nat, Divides(2 * p, m), NEW i \in 1..m, i % (2 * p) = p
  PROVE  i + p \in 1..m
<1> DEFINE w == 2 * p
<1>1. w \in Nat \ {0} /\ i \in Nat /\ w = 2 * p
  OBVIOUS
<1> HIDE DEF w
<1>2. PICK k \in Nat : m = w * k
  BY <1>1 DEF Divides
<1>3. PICK h, r \in Nat : r = i % w /\ i = w * h + r
  BY <1>1, Quotient
<1>4. r = p
  BY <1>1, <1>3
<1> DEFINE u == w * h  v == w * k
<1>5. u \in Nat /\ v \in Nat /\ i = u + p /\ m = v
  BY <1>1, <1>2, <1>3, <1>4
<1>6. h < k
  <2> SUFFICES ASSUME ~(h < k) PROVE FALSE
    OBVIOUS
  <2>1. v <= u
    <3>1. CASE h = k
      BY <1>5, <3>1
    <3>2. CASE h # k
      <4>1. k < h
        BY <3>2
      <4>2. w * k + w <= w * h
        BY <1>1, <4>1, TimesMonotone
      <4>3. v + w <= u
        BY <4>2
      <4> HIDE DEF u, v
      <4> QED
        BY <1>1, <1>5, <4>3
    <3> QED
      BY <3>1, <3>2
  <2> HIDE DEF u, v
  <2> QED
    BY <1>5, <2>1
<1>7. u + w <= v
  BY <1>1, <1>6, TimesMonotone
<1> HIDE DEF u, v
<1> QED
  BY <1>1, <1>5, <1>7

LEMMA HalfBack ==
  ASSUME NEW p \in Nat \ {0}, NEW m \in Nat, NEW i \in 1..m, i % (2 * p) = 0
  PROVE  i - p \in 1..m /\ i - 2 * p \in 0..m /\ Divides(p, i - p) /\ ~Divides(2 * p, i - p)
<1>1. i \in Nat /\ i # 0 /\ 2 * p \in Nat \ {0}
  OBVIOUS
<1>2. Divides(2 * p, i)
  BY <1>1, DividesMod
<1>3. /\ i - p \in Nat \ {0} /\ i - 2 * p \in Nat
      /\ Divides(p, i - p) /\ ~Divides(2 * p, i - p)
  BY <1>1, <1>2, Halves
<1>4. i - p \in 1..m /\ i - 2 * p \in 0..m
  BY <1>3
<1> QED
  BY <1>3, <1>4

LEMMA LevelDownAt ==
  ASSUME NEW p \in Nat \ {0}, NEW m \in Nat, NEW a \in [1..m -> Int], NEW i \in 1..m
  PROVE  /\ DOMAIN Level_down(a, p) = 1..m
         /\ i % (2 * p) = 0 => Level_down(a, p)[i] = FloatAdd(a[i], a[i - p])
         /\ i % (2 * p) = p => Level_down(a, p)[i] = a[i + p]
         /\ (i % (2 * p) # 0 /\ i % (2 * p) # p) => Level_down(a, p)[i] = a[i]
<1>1. p # 0
  OBVIOUS
<1> DEFINE r == i % (2 * p)
<1>2. DOMAIN Level_down(a, p) = 1..m
  BY DEF Level_down
<1>3. Level_down(a, p)[i] = CASE r = 0 -> FloatAdd(a[i], a[i - p])
                              [] r = p -> a[i + p]
                              [] OTHER -> a[i]
  BY DEF Level_down
<1> HIDE DEF r
<1>4. /\ r = 0 => Level_down(a, p)[i] = FloatAdd(a[i], a[i - p])
      /\ r = p => Level_down(a, p)[i] = a[i + p]
      /\ (r # 0 /\ r # p) => Level_down(a, p)[i] = a[i]
  BY <1>1, <1>3
<1> QED
  BY <1>2, <1>4 DEF r

LEMMA LevelDownType ==
  ASSUME NEW p \in Nat \ {0}, NEW m \in Nat, Divides(2 * p, m), NEW a \in [1..m -> Int]
  PROVE  Level_down(a, p) \in [1..m -> Int]
<1> DEFINE b == Level_down(a, p)
<1>1. b = [i \in 1..m |-> b[i]]
  BY DEF Level_down
<1>2. ASSUME NEW i \in 1..m PROVE b[i] \in Int
  <2>1. CASE i % (2 * p) = 0
    <3>1. b[i] = FloatAdd(a[i], a[i - p])
      BY <2>1, LevelDownAt
    <3>2. i - p \in 1..m
      BY <2>1, HalfBack
    <3>3. a[i] \in Int /\ a[i - p] \in Int
      BY <3>2
    <3> QED
      BY <3>1, <3>3, FloatAddType
  <2>2. CASE i % (2 * p) = p
    <3>1. b[i] = a[i + p]
      BY <2>2, LevelDownAt
    <3>2. i + p \in 1..m
      BY <2>2, HalfFits
    <3> QED
      BY <3>1, <3>2
  <2>3. CASE i % (2 * p) # 0 /\ i % (2 * p) # p
    BY <2>3, LevelDownAt
  <2> QED
    BY <2>1, <2>2, <2>3
<1> HIDE DEF b
<1>3. b \in [1..m -> Int]
  BY <1>1, <1>2
<1> QED
  BY <1>3 DEF b

\* One level of scanRootToLeaves halves the blocks whose offsets it has.
LEMMA DownStep ==
  ASSUME NEW m \in Nat, NEW d \in [1..m -> Nat], NEW P, Sums(P, d, m), P[m] <= pow2i[Mantissa],
         NEW e \in Nat, Divides(pow2i[e + 1], m), NEW a, Down(P, m, e + 1, a)
  PROVE  Down(P, m, e, Level_down(a, pow2i[e]))
<1> DEFINE p == pow2i[e]
           b == Level_down(a, p)
<1>1. p \in Nat \ {0} /\ pow2i[e + 1] = 2 * p /\ p = pow2i[e] /\ 2 * p \in Nat \ {0}
  BY PowerType
<1> HIDE DEF p
<1>a. a \in [1..m -> Int]
  BY DEF Down
<1>P. P \in [0..m -> Nat]
  BY DEF Sums
<1>p. p \in Nat \ {0}
  BY <1>1
<1>2. P[m] \in Nat /\ pow2i[Mantissa] \in Nat
  <2>1. m \in 0..m /\ Mantissa \in Nat
    BY ScanAssumption
  <2> QED
    BY <1>P, <2>1, PowerType
<1>m. Divides(2 * p, m)
  BY <1>1
<1>3. b \in [1..m -> Int]
  BY <1>a, <1>p, <1>m, LevelDownType
<1>4. \A i \in 1..m : Divides(2 * p, i) => a[i] = P[i - 2 * p]
  BY <1>1 DEF Down
<1>5. \A i \in 1..m : Divides(p, i) /\ ~Divides(2 * p, i) => a[i] = P[i] - P[i - p]
  <2>1. e \in 0..((e + 1) - 1)
    OBVIOUS
  <2> QED
    BY <1>1, <2>1 DEF Down
<1>6. ASSUME NEW i \in 1..m, Divides(p, i) PROVE b[i] = P[i - p]
  <2>0. i \in Nat /\ i # 0
    OBVIOUS
  <2>1. CASE i % (2 * p) = 0
    <3>1. b[i] = FloatAdd(a[i], a[i - p])
      BY <1>a, <1>p, <2>1, LevelDownAt
    <3>2. i - p \in 1..m /\ i - 2 * p \in 0..m /\ Divides(p, i - p) /\ ~Divides(2 * p, i - p)
      BY <1>1, <2>1, HalfBack
    <3>3. Divides(2 * p, i)
      BY <1>1, <2>0, <2>1, DividesMod
    <3>4. a[i] = P[i - 2 * p]
      BY <1>4, <3>3
    <3>5. a[i - p] = P[i - p] - P[i - 2 * p]
      <4>1. (i - p) - p = i - 2 * p
        BY <1>1
      <4> QED
        BY <1>5, <3>2, <4>1
    <3>9. i - p \in 0..m
      BY <3>2
    <3>6. P[i - 2 * p] <= P[i - p] /\ P[i - p] <= P[m]
      <4>1. i - 2 * p <= i - p /\ m \in 0..m /\ i - p <= m
        BY <1>p, <3>9
      <4> QED
        BY <3>2, <3>9, <4>1, SumsGrow
    <3>7. P[i - p] \in Nat /\ P[i - 2 * p] \in Nat
      BY <1>P, <3>2, <3>9
    <3>8. /\ a[i] \in Nat /\ a[i - p] \in Nat
          /\ a[i] + a[i - p] = P[i - p] /\ a[i] + a[i - p] <= pow2i[Mantissa]
      BY <1>2, <3>4, <3>5, <3>6, <3>7
    <3> QED
      BY <3>1, <3>8, FloatAddExact
  <2>2. CASE i % (2 * p) # 0
    <3>1. ~Divides(2 * p, i)
      BY <1>1, <2>0, <2>2, DividesMod
    <3>2. i % (2 * p) = p /\ Divides(2 * p, i + p)
      BY <1>1, <1>6, <2>0, <3>1, Halves
    <3>3. i + p \in 1..m
      BY <1>1, <3>2, HalfFits
    <3>4. b[i] = a[i + p]
      BY <1>a, <1>p, <3>2, LevelDownAt
    <3>5. a[i + p] = P[(i + p) - 2 * p]
      BY <1>4, <3>2, <3>3
    <3>6. (i + p) - 2 * p = i - p
      BY <1>1
    <3> QED
      BY <3>4, <3>5, <3>6
  <2> QED
    BY <2>1, <2>2
<1>7. ASSUME NEW i \in 1..m, NEW t \in 0..(e - 1), Divides(pow2i[t], i), ~Divides(pow2i[t + 1], i)
      PROVE  b[i] = P[i] - P[i - pow2i[t]]
  <2>0. i \in Nat /\ t \in Nat /\ t + 1 \in Nat /\ t + 1 <= e /\ t \in 0..((e + 1) - 1)
    OBVIOUS
  <2>1. ~Divides(p, i)
    <3>1. Divides(pow2i[t + 1], p) /\ pow2i[t + 1] \in Nat
      BY <1>1, <2>0, PowersDivide, PowerType
    <3> QED
      BY <1>1, <1>7, <2>0, <3>1, DividesTrans
  <2>2. i % (2 * p) # p /\ ~Divides(2 * p, i)
    BY <1>1, <2>0, <2>1, Halves
  <2>3. i % (2 * p) # 0
    BY <1>1, <2>0, <2>2, DividesMod
  <2>4. b[i] = a[i]
    <3>1. i % (2 * p) # 0 /\ i % (2 * p) # p
      BY <2>2, <2>3
    <3>2. (i % (2 * p) # 0 /\ i % (2 * p) # p) => b[i] = a[i]
      BY <1>a, <1>p, LevelDownAt
    <3> QED
      BY <3>1, <3>2
  <2>5. a[i] = P[i] - P[i - pow2i[t]]
    BY <1>7, <2>0 DEF Down
  <2> QED
    BY <2>4, <2>5
<1>8. \A i \in 1..m : Divides(pow2i[e], i) => b[i] = P[i - pow2i[e]]
  BY <1>1, <1>6
<1> HIDE DEF b
<1>9. Down(P, m, e, b)
  BY <1>3, <1>7, <1>8 DEF Down
<1> QED
  BY <1>9 DEF b, p

LEMMA DownStart ==
  ASSUME NEW m \in Nat, NEW d \in [1..m -> Nat], NEW P, Sums(P, d, m),
         NEW n \in Nat, m = pow2i[n], NEW a, Up(P, m, n, a)
  PROVE  Down(P, m, n, clearLastElement(a)) /\ clearLastElement(a) \in [1..m -> Int]
<1> DEFINE b == clearLastElement(a)
<1>1. a \in [1..m -> Int] /\ m \in Nat \ {0} /\ P[0] = 0
  BY PowerType DEF Up, Sums
<1>2. Len(a) = m /\ m \in 1..m
  BY <1>1
<1>3. b = [a EXCEPT ![m] = 0]
  BY <1>2 DEF clearLastElement
<1>4. b \in [1..m -> Int] /\ b[m] = 0 /\ \A i \in 1..m : i # m => b[i] = a[i]
  BY <1>1, <1>2, <1>3
<1> HIDE DEF b
<1>5. ASSUME NEW i \in 1..m, Divides(pow2i[n], i) PROVE b[i] = P[i - pow2i[n]]
  <2>1. i \in Nat \ {0} /\ m <= i
    BY <1>1, <1>5, DividesBound
  <2>2. i = m /\ i - pow2i[n] = 0
    BY <1>1, <2>1
  <2> QED
    BY <1>1, <1>4, <2>2
<1>6. ASSUME NEW i \in 1..m, NEW t \in 0..(n - 1), Divides(pow2i[t], i), ~Divides(pow2i[t + 1], i)
      PROVE  b[i] = P[i] - P[i - pow2i[t]]
  <2>1. t + 1 \in Nat /\ t + 1 <= n /\ t \in 0..n
    OBVIOUS
  <2>2. Divides(pow2i[t + 1], m)
    BY <2>1, PowersDivide
  <2>3. i # m
    BY <1>6, <2>2
  <2>4. a[i] = P[i] - P[i - pow2i[t]]
    BY <1>6, <2>1 DEF Up
  <2> QED
    BY <1>4, <2>3, <2>4
<1>7. Down(P, m, n, b)
  BY <1>4, <1>5, <1>6 DEF Down
<1> QED
  BY <1>4, <1>7 DEF b

\* The function that scanRootToLeaves defines.
DownLevels(f, d, n) ==
  f = [s \in 0..n |->
         IF s = 0 THEN d
         ELSE LET prev == f[s - 1]
                  stride == Len(d) \div pow2i[s]
              IN  [i \in DOMAIN d |->
                     CASE i % (2 * stride) = 0      -> FloatAdd(prev[i], prev[i - stride])
                       [] i % (2 * stride) = stride -> prev[i + stride]
                       [] OTHER                     -> prev[i]]]

LEMMA StrideIs ==
  ASSUME NEW n \in Nat, NEW m, m = pow2i[n], NEW s \in 1..n
  PROVE  /\ n - s \in Nat /\ m \div pow2i[s] = pow2i[n - s]
         /\ pow2i[n - s] \in Nat \ {0} /\ Divides(2 * pow2i[n - s], m)
<1>1. n - s \in Nat /\ s \in Nat /\ s <= n /\ (n - s) + 1 \in Nat /\ (n - s) + 1 <= n
  OBVIOUS
<1>2. m \div pow2i[s] = pow2i[n - s]
  BY <1>1, PowerQuotient
<1>3. pow2i[n - s] \in Nat \ {0} /\ pow2i[(n - s) + 1] = 2 * pow2i[n - s]
  BY <1>1, PowerType
<1>4. Divides(pow2i[(n - s) + 1], m)
  BY <1>1, PowersDivide
<1> QED
  BY <1>1, <1>2, <1>3, <1>4

Descends(f, d, n, m) ==
  /\ f[0] = d
  /\ \A s \in 1..n : f[s - 1] \in [1..m -> Int] => f[s] = Level_down(f[s - 1], pow2i[n - s])

LEMMA DownLevelsExist ==
  ASSUME NEW n \in Nat, NEW m \in Nat, m = pow2i[n], NEW d \in [1..m -> Int]
  PROVE  Descends(CHOOSE g : DownLevels(g, d, n), d, n, m)
<1> DEFINE V == [1..m -> Int]
           step == [p \in (1..n) \X V |-> Level_down(p[2], pow2i[n - p[1]])]
<1>l. Len(d) = m
  OBVIOUS
<1>0. ASSUME NEW s \in 1..n, NEW a \in V PROVE Level_down(a, pow2i[n - s]) \in V
  <2>1. pow2i[n - s] \in Nat \ {0} /\ Divides(2 * pow2i[n - s], m)
    BY StrideIs
  <2> DEFINE p == pow2i[n - s]
  <2>2. p \in Nat \ {0} /\ Divides(2 * p, m)
    BY <2>1
  <2> HIDE DEF p
  <2>3. Level_down(a, p) \in V
    BY <2>2, LevelDownType
  <2> QED
    BY <2>3 DEF p
<1>1. step \in [(1..n) \X V -> V]
  <2> HIDE DEF V
  <2> QED
    BY <1>0
<1>2. \A s \in 1..n, a \in V : step[<<s, a>>] = Level_down(a, pow2i[n - s])
  OBVIOUS
<1>d. d \in V
  OBVIOUS
<1>v. \A a \in V : DOMAIN a = DOMAIN d
  OBVIOUS
<1> HIDE DEF step, V
<1>p. PICK f \in [0..n -> V] : Levels(f, d, n, step)
  BY <1>1, <1>d, LevelsExist
<1>3. f[0] = d /\ \A s \in 1..n : f[s] = step[<<s, f[s - 1]>>]
  BY <1>p DEF Levels
<1>4. ASSUME NEW s \in 1..n PROVE f[s - 1] \in V /\ f[s] = Level_down(f[s - 1], pow2i[n - s])
  <2>1. s - 1 \in 0..n
    OBVIOUS
  <2> QED
    BY <1>2, <1>3, <2>1
<1> DEFINE Body(g, s) == LET prev == g[s - 1]
                             stride == Len(d) \div pow2i[s]
                         IN  [i \in DOMAIN d |->
                     CASE i % (2 * stride) = 0      -> FloatAdd(prev[i], prev[i - stride])
                       [] i % (2 * stride) = stride -> prev[i + stride]
                       [] OTHER                     -> prev[i]]
<1>s. ASSUME NEW s \in 1..n, NEW g, g[s - 1] \in V
      PROVE  Body(g, s) = Level_down(g[s - 1], pow2i[n - s])
  <2>1. DOMAIN g[s - 1] = DOMAIN d /\ Len(d) \div pow2i[s] = pow2i[n - s]
    BY <1>s, <1>v, <1>l, StrideIs
  <2> QED
    BY <2>1 DEF Level_down
<1>f. \A g : DownLevels(g, d, n) <=> g = [s \in 0..n |-> IF s = 0 THEN d ELSE Body(g, s)]
  BY DEF DownLevels
<1> HIDE DEF Body
<1>6. DownLevels(f, d, n)
  <2>1. \A s \in 0..n : s # 0 => s \in 1..n
    OBVIOUS
  <2>2. f = [s \in 0..n |-> f[s]]
    BY <1>3
  <2>3. \A s \in 0..n : f[s] = IF s = 0 THEN d ELSE Body(f, s)
    BY <1>3, <1>4, <1>s, <2>1
  <2>4. f = [s \in 0..n |-> IF s = 0 THEN d ELSE Body(f, s)]
    BY <2>2, <2>3
  <2> QED
    BY <1>f, <2>4
<1> DEFINE F == CHOOSE g : DownLevels(g, d, n)
<1>7. F = [s \in 0..n |-> IF s = 0 THEN d ELSE Body(F, s)]
  <2>1. DownLevels(F, d, n)
    BY <1>6
  <2> HIDE DEF F
  <2> QED
    BY <1>f, <2>1
<1> HIDE DEF F
<1>8. F[0] = d
  BY <1>7
<1>9. ASSUME NEW s \in 1..n, F[s - 1] \in V PROVE F[s] = Level_down(F[s - 1], pow2i[n - s])
  <2>1. s \in 0..n /\ s # 0
    OBVIOUS
  <2>3. F[s] = Body(F, s)
    BY <1>7, <2>1
  <2> QED
    BY <1>9, <1>s, <2>3
<1>10. Descends(F, d, n, m)
  BY <1>8, <1>9 DEF V, Descends
<1> QED
  BY <1>10 DEF F

LEMMA RootToLeavesType ==
  ASSUME NEW m \in Nat, isPowerOfTwo(m), NEW d \in [1..m -> Int]
  PROVE  scanRootToLeaves(d) \in [1..m -> Int]
<1> DEFINE n == Exponent(m)
           f == CHOOSE g : DownLevels(g, d, n)
<1>1. n \in Nat /\ m = pow2i[n]
  BY TreeLength
<1>2. Len(d) = m /\ n = Exponent(m)
  OBVIOUS
<1> HIDE DEF n
<1>3. scanRootToLeaves(d) = f[n]
  BY <1>2 DEF scanRootToLeaves, DownLevels
<1>d. Descends(f, d, n, m)
  BY <1>1, DownLevelsExist
<1> HIDE DEF f
<1>4. /\ f[0] = d
      /\ \A s \in 1..n :
           f[s - 1] \in [1..m -> Int] => f[s] = Level_down(f[s - 1], pow2i[n - s])
  BY <1>d DEF Descends
<1> DEFINE S == {s \in Nat : s <= n => f[s] \in [1..m -> Int]}
<1>5. 0 \in S
  BY <1>4
<1>6. ASSUME NEW s \in Nat, s \in S PROVE s + 1 \in S
  <2> SUFFICES ASSUME s + 1 <= n PROVE f[s + 1] \in [1..m -> Int]
    OBVIOUS
  <2>1. s + 1 \in 1..n /\ (s + 1) - 1 = s /\ s <= n
    BY <1>1
  <2>2. f[s] \in [1..m -> Int]
    BY <1>6, <2>1
  <2> DEFINE p == pow2i[n - (s + 1)]
  <2>3. f[s + 1] = Level_down(f[s], p)
    BY <1>4, <2>1, <2>2
  <2>4. p \in Nat \ {0} /\ Divides(2 * p, m)
    BY <1>1, <2>1, StrideIs
  <2>5. p \in Nat \ {0}
    BY <2>4
  <2> HIDE DEF p
  <2>6. Level_down(f[s], p) \in [1..m -> Int]
    BY <2>2, <2>4, <2>5, LevelDownType
  <2> QED
    BY <2>3, <2>6
<1>7. Nat \subseteq S
  <2> HIDE DEF S
  <2> QED
    BY <1>5, <1>6, Induction
<1> QED
  BY <1>1, <1>3, <1>7

\* The tree scan of one block is exact.
LEMMA TreeScan ==
  ASSUME NEW m \in Nat, isPowerOfTwo(m), NEW d \in [1..m -> Nat], NEW P, Sums(P, d, m),
         P[m] <= pow2i[Mantissa]
  PROVE  /\ buildSum(d)[m] = P[m]
         /\ \A i \in 1..m : scanRootToLeaves(clearLastElement(buildSum(d)))[i] = P[i - 1]
<1> DEFINE n == Exponent(m)
           a == buildSum(d)
           b == clearLastElement(a)
           f == CHOOSE g : DownLevels(g, b, n)
<1>1. n \in Nat /\ m = pow2i[n] /\ m \in Nat \ {0}
  <2>1. n \in Nat /\ m = pow2i[n]
    BY TreeLength
  <2> QED
    BY <2>1, PowerType
<1>2. Up(P, m, n, a)
  BY BuildSumIs
<1>u. n = Exponent(m)
  OBVIOUS
<1> HIDE DEF n, a
<1>3. Down(P, m, n, b) /\ b \in [1..m -> Int]
  BY <1>1, <1>2, DownStart
<1>b. b \in [1..m -> Int]
  BY <1>3
<1> HIDE DEF b
<1>c. Len(b) = m
  BY <1>b
<1>4. scanRootToLeaves(b) = f[n]
  BY <1>u, <1>c DEF scanRootToLeaves, DownLevels
<1>d. Descends(f, b, n, m)
  BY <1>1, <1>b, DownLevelsExist
<1> HIDE DEF f
<1>5. /\ f[0] = b
      /\ \A s \in 1..n :
           f[s - 1] \in [1..m -> Int] => f[s] = Level_down(f[s - 1], pow2i[n - s])
  BY <1>d DEF Descends
<1> DEFINE S == {s \in Nat : s <= n => Down(P, m, n - s, f[s])}
<1>6. 0 \in S
  <2>1. n - 0 = n
    BY <1>1
  <2> QED
    BY <1>3, <1>5, <2>1
<1>7. ASSUME NEW s \in Nat, s \in S PROVE s + 1 \in S
  <2> SUFFICES ASSUME s + 1 <= n PROVE Down(P, m, n - (s + 1), f[s + 1])
    OBVIOUS
  <2> DEFINE e == n - (s + 1)
  <2>1. /\ s + 1 \in 1..n /\ (s + 1) - 1 = s /\ s <= n
        /\ e \in Nat /\ e + 1 = n - s /\ e + 1 \in Nat /\ e + 1 <= n
    BY <1>1
  <2>2. Down(P, m, e + 1, f[s])
    BY <1>7, <2>1
  <2>3. f[s] \in [1..m -> Int]
    BY <2>2 DEF Down
  <2>4. f[s + 1] = Level_down(f[s], pow2i[e])
    BY <1>5, <2>1, <2>3
  <2>5. Divides(pow2i[e + 1], m)
    BY <1>1, <2>1, PowersDivide
  <2> HIDE DEF e
  <2>6. Down(P, m, e, Level_down(f[s], pow2i[e]))
    BY <2>1, <2>2, <2>5, DownStep
  <2> QED
    BY <2>4, <2>6 DEF e
<1>8. Nat \subseteq S
  <2> HIDE DEF S
  <2> QED
    BY <1>6, <1>7, Induction
<1>9. Down(P, m, 0, f[n])
  <2>1. n - n = 0 /\ n <= n
    BY <1>1
  <2> QED
    BY <1>1, <1>8, <2>1
<1>10. ASSUME NEW i \in 1..m PROVE f[n][i] = P[i - 1]
  <2>1. pow2i[0] = 1 /\ i = 1 * i /\ i \in Nat
    BY Powers
  <2>2. Divides(1, i)
    BY <2>1 DEF Divides
  <2> QED
    BY <1>9, <2>1, <2>2 DEF Down
<1>11. a[m] = P[m]
  <2>1. m \in 1..m /\ n \in 0..n /\ m = m * 1
    BY <1>1
  <2>2. Divides(pow2i[n], m)
    BY <1>1, <2>1 DEF Divides
  <2>3. a[m] = P[m] - P[m - pow2i[n]]
    BY <1>2, <2>1, <2>2 DEF Up
  <2>4. m - pow2i[n] = 0 /\ P[0] = 0 /\ P[m] \in Nat
    BY <1>1 DEF Sums
  <2> QED
    BY <2>3, <2>4
<1> QED
  BY <1>4, <1>10, <1>11 DEF a, b

---------------------------------------------------------------------------
(* The blocks of a scan *)

Width == 2 * ScanDim
LastBlock(c) == (Len(c) - 1) \div Width
\* Block b has the elements Edge(c, b) + 1 to Edge(c, b + 1) of c.
Edge(c, k) == IF k = LastBlock(c) + 1 THEN Len(c) ELSE k * Width
Chunk(c, b) ==
  Padded(SubSeq(c, b * Width + 1, IF b = LastBlock(c) THEN Len(c) ELSE (b + 1) * Width))
Scanned(c, b) == scanRootToLeaves(clearLastElement(buildSum(Chunk(c, b))))
BlockSum(c, b) == buildSum(Chunk(c, b))[Len(Chunk(c, b))]
BlockSums(c) == [b \in 1..(LastBlock(c) + 1) |-> BlockSum(c, b - 1)]

LEMMA WidthType == Width \in Nat \ {0} /\ Width >= 2
BY ScanAssumption DEF Width

LEMMA LastBlockIs ==
  ASSUME NEW c, Len(c) \in Nat \ {0}
  PROVE  /\ LastBlock(c) \in Nat /\ LastBlock(c) * Width < Len(c)
         /\ Len(c) <= (LastBlock(c) + 1) * Width
<1> DEFINE n == Len(c)  w == Width  L == LastBlock(c)
<1>1. n \in Nat \ {0} /\ w \in Nat \ {0} /\ n - 1 \in Nat
  BY WidthType
<1> HIDE DEF n, w
<1>2. PICK q, r \in Nat : q = (n - 1) \div w /\ r < w /\ n - 1 = w * q + r
  BY <1>1, Quotient
<1>3. L = q
  BY <1>2 DEF LastBlock, n, w
<1> DEFINE u == w * q
<1>4. u \in Nat /\ q * w = u /\ (q + 1) * w = u + w /\ n - 1 = u + r
  BY <1>1, <1>2
<1>5. u < n /\ n <= u + w
  <2> HIDE DEF u
  <2> QED
    BY <1>1, <1>2, <1>4
<1>6. q \in Nat /\ q * w < n /\ n <= (q + 1) * w
  <2> HIDE DEF u
  <2> QED
    BY <1>4, <1>5
<1> QED
  BY <1>3, <1>6 DEF n, w

\* The blocks of a scan cut the array into pieces that follow each other.
LEMMA Edges ==
  ASSUME NEW c, Len(c) \in Nat \ {0}
  PROVE  /\ Edge(c, 0) = 0 /\ Edge(c, LastBlock(c) + 1) = Len(c)
         /\ \A b \in 0..LastBlock(c) :
              /\ Edge(c, b) = b * Width
              /\ Edge(c, b) \in 0..Len(c) /\ Edge(c, b + 1) \in 0..Len(c)
              /\ Edge(c, b) < Edge(c, b + 1)
<1> DEFINE n == Len(c)  w == Width  L == LastBlock(c)
<1>1. n \in Nat \ {0} /\ w \in Nat \ {0} /\ L \in Nat /\ L * w < n
  BY WidthType, LastBlockIs
<1>2. \A k : Edge(c, k) = IF k = L + 1 THEN n ELSE k * w
  BY DEF Edge
<1> HIDE DEF n, w, L
<1>3. ASSUME NEW b \in Nat, b <= L PROVE b * w \in Nat /\ b * w < n
  <2>1. CASE b = L
    BY <1>1, <2>1
  <2>2. CASE b # L
    <3>1. b < L
      BY <1>1, <1>3, <2>2
    <3>2. w * b \in Nat /\ w * L \in Nat /\ w * b + w <= w * L
      BY <1>1, <3>1, TimesMonotone
    <3> DEFINE u == w * b  v == w * L
    <3>3. u \in Nat /\ v \in Nat /\ u + w <= v /\ b * w = u /\ L * w = v
      BY <1>1, <3>2
    <3>4. u < n
      <4>1. v < n
        BY <1>1, <3>3
      <4> HIDE DEF u, v
      <4> QED
        BY <1>1, <3>3, <4>1
    <3> HIDE DEF u, v
    <3> QED
      BY <3>3, <3>4
  <2> QED
    BY <2>1, <2>2
<1>4. Edge(c, 0) = 0 /\ Edge(c, L + 1) = n
  <2>1. 0 # L + 1 /\ 0 * w = 0
    BY <1>1
  <2> QED
    BY <1>2, <2>1
<1>5. ASSUME NEW b \in 0..L
      PROVE  /\ Edge(c, b) = b * w /\ Edge(c, b) \in 0..n
             /\ Edge(c, b + 1) \in 0..n /\ Edge(c, b) < Edge(c, b + 1)
  <2>1. b \in Nat /\ b <= L /\ b # L + 1
    BY <1>1
  <2>2. Edge(c, b) = b * w /\ b * w \in Nat /\ b * w < n
    BY <1>2, <1>3, <2>1
  <2>3. CASE b = L
    <3>1. Edge(c, b + 1) = n
      BY <1>4, <2>3
    <3> QED
      BY <1>1, <2>2, <3>1
  <2>4. CASE b # L
    <3>1. b + 1 \in Nat /\ b + 1 <= L /\ b + 1 # L + 1
      BY <1>1, <2>1, <2>4
    <3>2. Edge(c, b + 1) = (b + 1) * w /\ (b + 1) * w \in Nat /\ (b + 1) * w < n
      BY <1>2, <1>3, <3>1
    <3>3. (b + 1) * w = b * w + w
      BY <1>1, <2>1
    <3> QED
      BY <1>1, <2>2, <3>2, <3>3
  <2> QED
    BY <2>3, <2>4
<1> QED
  BY <1>4, <1>5 DEF n, w, L

LEMMA BlockOf ==
  ASSUME NEW c, Len(c) \in Nat \ {0}, NEW i \in 1..Len(c)
  PROVE  LET b == (i - 1) \div Width
         IN  /\ b \in 0..LastBlock(c)
             /\ i - b * Width \in 1..(Edge(c, b + 1) - Edge(c, b))
             /\ i = Edge(c, b) + (i - b * Width)
<1> DEFINE n == Len(c)  w == Width  L == LastBlock(c)  b == (i - 1) \div w
<1>1. n \in Nat \ {0} /\ w \in Nat \ {0} /\ L \in Nat /\ n <= (L + 1) * w /\ i - 1 \in Nat
  BY WidthType, LastBlockIs
<1>e. n = Len(c) /\ w = Width
  OBVIOUS
<1> HIDE DEF n, w
<1>2. PICK q, r \in Nat : q = (i - 1) \div w /\ r < w /\ i - 1 = w * q + r
  BY <1>1, Quotient
<1>3. b = q
  BY <1>2
<1> HIDE DEF b, L
<1> DEFINE u == w * q
<1>4. u \in Nat /\ q * w = u /\ (q + 1) * w = u + w /\ i - 1 = u + r
  BY <1>1, <1>2
<1>5. u < i /\ i <= u + w
  <2> HIDE DEF u
  <2> QED
    BY <1>1, <1>2, <1>4
<1>6. q <= L
  <2> SUFFICES ASSUME ~(q <= L) PROVE FALSE
    OBVIOUS
  <2>1. L < q
    BY <1>1
  <2>2. w * L \in Nat /\ w * L + w <= w * q
    BY <1>1, <2>1, TimesMonotone
  <2> DEFINE v == w * L
  <2>3. v \in Nat /\ v + w <= u /\ (L + 1) * w = v + w
    BY <1>1, <2>2
  <2>4. n <= v + w /\ i <= n
    BY <1>1, <1>e, <2>3
  <2> HIDE DEF u, v
  <2> QED
    BY <1>1, <1>4, <1>5, <2>3, <2>4
<1>7. q \in 0..L
  BY <1>1, <1>6
<1>8. Edge(c, q) = q * w
  BY <1>7, <1>e, Edges DEF L
<1>9. i <= Edge(c, q + 1)
  <2>1. CASE q = L
    BY <1>e, <2>1 DEF Edge, L
  <2>2. CASE q # L
    <3>1. q + 1 # L + 1
      BY <1>1, <2>2
    <3>2. Edge(c, q + 1) = (q + 1) * w
      BY <1>e, <3>1 DEF Edge, L
    <3> QED
      BY <1>4, <1>5, <3>2
  <2> QED
    BY <2>1, <2>2
<1>10. Edge(c, q + 1) \in Nat
  BY <1>7, Edges DEF L
<1>11. q \in 0..L /\ i - q * w \in 1..(Edge(c, q + 1) - Edge(c, q)) /\ i = Edge(c, q) + (i - q * w)
  <2> DEFINE e == Edge(c, q)  g == Edge(c, q + 1)
  <2>1. e = u /\ g \in Nat /\ i <= g /\ q * w = u
    BY <1>4, <1>8, <1>9, <1>10
  <2> HIDE DEF e, g, u
  <2>2. i - q * w \in 1..(g - e) /\ i = e + (i - q * w)
    BY <1>4, <1>5, <2>1
  <2> QED
    BY <1>7, <2>2 DEF e, g
<1> QED
  BY <1>3, <1>11, <1>e DEF b, L

\* a is d, of n elements, padded with zeros to m.
Pads(a, d, n, m) ==
  /\ m \in Nat \ {0} /\ isPowerOfTwo(m) /\ n <= m /\ Len(a) = m
  /\ a = [i \in 1..m |-> IF i <= n THEN d[i] ELSE 0]

\* The padding of a block is a power of two long and adds zeros.
LEMMA PaddedIs ==
  ASSUME NEW n \in Nat \ {0}, NEW d, Len(d) = n
  PROVE  \E m \in Nat : Pads(Padded(d), d, n, m)
<1> DEFINE m == IF isPowerOfTwo(n) THEN IF n = 1 THEN 2 ELSE n ELSE 2 * floorPow2(n)
           a == [i \in 1..m |-> IF i <= n THEN d[i] ELSE 0]
<1>1. Padded(d) = a
  BY DEF Padded
<1>2. m \in Nat \ {0} /\ isPowerOfTwo(m) /\ n <= m
  <2>1. CASE isPowerOfTwo(n) /\ n # 1
    BY <2>1
  <2>2. CASE isPowerOfTwo(n) /\ n = 1
    <3>1. pow2i[1] = 2
      <4>1. pow2i[0 + 1] = 2 * pow2i[0] /\ pow2i[0] = 1 /\ 0 + 1 = 1
        BY Powers
      <4> QED
        BY <4>1
    <3>2. isPowerOfTwo(2)
      BY <3>1, IsPower
    <3> QED
      BY <2>2, <3>2
  <2>3. CASE ~isPowerOfTwo(n)
    <3>1. PICK k \in Nat : floorPow2(n) = pow2i[k]
      BY FloorIs
    <3>2. n < 2 * pow2i[k] /\ pow2i[k] \in Nat
      BY <3>1, FloorIs, PowerType
    <3>3. k + 1 \in Nat /\ pow2i[k + 1] = 2 * pow2i[k]
      BY PowerType
    <3>4. m = pow2i[k + 1]
      BY <2>3, <3>1, <3>3
    <3>5. m \in Nat \ {0} /\ n <= m
      <4> HIDE DEF m
      <4> QED
        BY <3>2, <3>3, <3>4
    <3>6. isPowerOfTwo(m)
      <4> HIDE DEF m
      <4> QED
        BY <3>3, <3>4, <3>5, IsPower
    <3> QED
      BY <3>5, <3>6
  <2> QED
    BY <2>1, <2>2, <2>3
<1> HIDE DEF m
<1>3. Len(a) = m
  BY <1>2
<1>4. Pads(a, d, n, m)
  BY <1>2, <1>3 DEF Pads
<1> QED
  BY <1>1, <1>2, <1>4

\* d is c from its element lo + 1 on.
From(d, c, lo, n) == \A i \in 1..n : d[i] = c[lo + i]

LEMMA ChunkIs ==
  ASSUME NEW T, 0 \in T, NEW c \in Seq(T), Len(c) # 0, NEW b \in 0..LastBlock(c)
  PROVE  \E m \in Nat, d \in [1..(Edge(c, b + 1) - Edge(c, b)) -> T] :
           /\ Pads(Chunk(c, b), d, Edge(c, b + 1) - Edge(c, b), m)
           /\ Chunk(c, b) \in [1..m -> T]
           /\ From(d, c, Edge(c, b), Edge(c, b + 1) - Edge(c, b))
<1> DEFINE lo == Edge(c, b)
           hi == Edge(c, b + 1)
           n == hi - lo
           d == SubSeq(c, lo + 1, hi)
<1>0. Len(c) \in Nat \ {0} /\ LastBlock(c) \in Nat
  BY LastBlockIs
<1>1. lo = b * Width /\ lo \in 0..Len(c) /\ hi \in 0..Len(c) /\ lo < hi
  BY <1>0, Edges
<1>2. hi = IF b = LastBlock(c) THEN Len(c) ELSE (b + 1) * Width
  <2>1. b + 1 = LastBlock(c) + 1 <=> b = LastBlock(c)
    BY <1>0
  <2> QED
    BY <2>1 DEF Edge
<1>3. Chunk(c, b) = Padded(d)
  BY <1>1, <1>2 DEF Chunk
<1> HIDE DEF lo, hi
<1>4. n \in Nat \ {0}
  BY <1>0, <1>1
<1>5. d = [i \in 1..n |-> c[lo + i]]
  <2>1. hi - (lo + 1) + 1 = n /\ \A i \in Int : (lo + 1) + i - 1 = lo + i
    BY <1>0, <1>1
  <2>2. /\ SubSeq(c, lo + 1, hi) \in Seq(T) /\ Len(SubSeq(c, lo + 1, hi)) = n
        /\ \A i \in 1..n : SubSeq(c, lo + 1, hi)[i] = c[lo + i]
    BY <1>0, <1>1, <1>4
  <2> QED
    BY <2>2
<1>6. \A i \in 1..n : lo + i \in 1..Len(c)
  BY <1>0, <1>1
<1> HIDE DEF d, n
<1>t. \A i \in 1..n : c[lo + i] \in T
  BY <1>6
<1>7. d \in [1..n -> T] /\ \A i \in 1..n : d[i] = c[lo + i]
  BY <1>5, <1>t
<1>8. Len(d) = n
  BY <1>4, <1>7
<1>9. PICK m \in Nat : Pads(Padded(d), d, n, m)
  BY <1>4, <1>8, PaddedIs
<1>10. Padded(d) \in [1..m -> T]
  <2>1. \A i \in 1..m : i <= n => i \in 1..n
    BY <1>4
  <2> QED
    BY <1>4, <1>7, <1>9, <2>1 DEF Pads
<1>11. /\ Pads(Chunk(c, b), d, n, m) /\ Chunk(c, b) \in [1..m -> T]
       /\ d \in [1..n -> T] /\ From(d, c, lo, n)
  BY <1>3, <1>7, <1>9, <1>10 DEF From
<1> QED
  BY <1>11 DEF lo, hi, n

\* What a block is scanned to is an array of numbers, with a number for every thread.
LEMMA ScannedType ==
  ASSUME NEW c \in Seq(Int), Len(c) # 0, NEW b \in 0..LastBlock(c)
  PROVE  /\ BlockSum(c, b) \in Int
         /\ \A i \in 1..(Edge(c, b + 1) - Edge(c, b)) : Scanned(c, b)[i] \in Int
<1>1. PICK m \in Nat, d \in [1..(Edge(c, b + 1) - Edge(c, b)) -> Int] :
           /\ Pads(Chunk(c, b), d, Edge(c, b + 1) - Edge(c, b), m)
           /\ Chunk(c, b) \in [1..m -> Int]
  <2>1. 0 \in Int
    OBVIOUS
  <2> QED
    BY <2>1, ChunkIs
<1> DEFINE n == Edge(c, b + 1) - Edge(c, b)
           a == Chunk(c, b)
           s == buildSum(a)
           t == clearLastElement(s)
<1>2. m \in Nat \ {0} /\ isPowerOfTwo(m) /\ n <= m /\ Len(a) = m /\ a \in [1..m -> Int]
  BY <1>1 DEF Pads
<1>n. n \in Int
  <2>1. Len(c) \in Nat \ {0} /\ LastBlock(c) \in Nat
    BY LastBlockIs
  <2> QED
    BY <2>1, Edges
<1> HIDE DEF a, n
<1>3. s \in [1..m -> Int]
  BY <1>2, BuildSumType
<1> HIDE DEF s
<1>4. t \in [1..m -> Int]
  <2>1. Len(s) = m /\ m \in 1..m
    BY <1>2, <1>3
  <2> QED
    BY <1>3, <2>1 DEF clearLastElement
<1> HIDE DEF t
<1>5. scanRootToLeaves(t) \in [1..m -> Int]
  BY <1>2, <1>4, RootToLeavesType
<1>6. s[m] \in Int
  BY <1>2, <1>3
<1>7. \A i \in 1..n : i \in 1..m
  BY <1>2, <1>n
<1> QED
  BY <1>2, <1>5, <1>6, <1>7 DEF BlockSum, Scanned, a, s, t, n

\* The scan of a block is exact: it counts from the first element of the block on.
LEMMA BlockScan ==
  ASSUME NEW c \in Seq(Nat), Len(c) # 0, NEW b \in 0..LastBlock(c),
         Prefix(c)[Len(c)] <= pow2i[Mantissa]
  PROVE  /\ BlockSum(c, b) = Prefix(c)[Edge(c, b + 1)] - Prefix(c)[Edge(c, b)]
         /\ \A i \in 1..(Edge(c, b + 1) - Edge(c, b)) :
              Scanned(c, b)[i] = Prefix(c)[Edge(c, b) + i - 1] - Prefix(c)[Edge(c, b)]
<1> DEFINE lo == Edge(c, b)
           hi == Edge(c, b + 1)
           n == hi - lo
           a == Chunk(c, b)
           P == Prefix(c)
<1>0. PICK m \in Nat, d \in [1..n -> Nat] :
           Pads(a, d, n, m) /\ a \in [1..m -> Nat] /\ From(d, c, lo, n)
  <2>1. 0 \in Nat
    OBVIOUS
  <2> QED
    BY <2>1, ChunkIs
<1>1. /\ Pads(a, d, n, m) /\ a \in [1..m -> Nat]
      /\ \A i \in 1..n : d[i] = c[lo + i]
  BY <1>0 DEF From
<1>2. Len(c) \in Nat \ {0} /\ LastBlock(c) \in Nat
  BY LastBlockIs
<1>3. lo \in 0..Len(c) /\ hi \in 0..Len(c) /\ lo < hi
  BY <1>2, Edges
<1>4. Sums(P, c, Len(c)) /\ c \in [1..Len(c) -> Nat]
  BY PrefixSums
<1>5. P \in [0..Len(c) -> Nat] /\ \A i \in 1..Len(c) : P[i] = P[i - 1] + c[i]
  BY <1>4 DEF Sums
<1>6. \A i, j \in 0..Len(c) : i <= j => P[i] <= P[j]
  BY <1>2, <1>4, SumsGrow
<1>7. m \in Nat \ {0} /\ isPowerOfTwo(m) /\ n <= m /\ Len(a) = m /\ a \in [1..m -> Nat]
  BY <1>1 DEF Pads
<1>8. \A i \in 1..m : a[i] = IF i <= n THEN d[i] ELSE 0
  BY <1>1 DEF Pads
<1>9. P[Len(c)] <= pow2i[Mantissa]
  OBVIOUS
<1>e. n = hi - lo
  OBVIOUS
<1> HIDE DEF lo, hi, a, P, n
<1> DEFINE at(i) == IF i <= n THEN lo + i ELSE hi
           Q == [i \in 0..m |-> P[at(i)] - P[lo]]
<1>10. ASSUME NEW i \in 0..m PROVE at(i) \in 0..Len(c) /\ lo <= at(i)
  BY <1>2, <1>3, <1>e
<1>11. \A i \in 0..m : Q[i] \in Nat /\ P[at(i)] \in Nat
  <2> SUFFICES ASSUME NEW i \in 0..m PROVE Q[i] \in Nat /\ P[at(i)] \in Nat
    OBVIOUS
  <2>1. Q[i] = P[at(i)] - P[lo]
    OBVIOUS
  <2>2. at(i) \in 0..Len(c) /\ P[lo] <= P[at(i)]
    BY <1>3, <1>6, <1>10
  <2> HIDE DEF Q, at
  <2>3. P[lo] \in Nat /\ P[at(i)] \in Nat
    BY <1>3, <1>5, <2>2
  <2> QED
    BY <2>1, <2>2, <2>3
<1>12. Q \in [0..m -> Nat]
  <2>1. Q = [i \in 0..m |-> Q[i]]
    OBVIOUS
  <2> HIDE DEF Q
  <2> QED
    BY <1>11, <2>1
<1>13. Q[0] = 0
  <2>1. at(0) = lo /\ 0 \in 0..m
    BY <1>3, <1>e
  <2>2. P[lo] \in Nat
    BY <1>3, <1>5
  <2> QED
    BY <2>1, <2>2
<1>14. ASSUME NEW i \in 1..m PROVE Q[i] = Q[i - 1] + a[i]
  <2>0. i \in 0..m /\ i - 1 \in 0..m
    OBVIOUS
  <2>1. Q[i] = P[at(i)] - P[lo] /\ Q[i - 1] = P[at(i - 1)] - P[lo]
    BY <2>0
  <2>2. P[lo] \in Nat
    BY <1>3, <1>5
  <2>3. CASE i <= n
    <3>1. at(i) = lo + i /\ at(i - 1) = (lo + i) - 1
      BY <1>3, <1>e, <2>3
    <3>2. lo + i \in 1..Len(c) /\ i \in 1..n
      BY <1>2, <1>3, <1>e, <2>3
    <3>3. P[lo + i] = P[(lo + i) - 1] + c[lo + i]
      BY <1>5, <3>2
    <3>4. a[i] = c[lo + i]
      BY <1>1, <1>8, <2>3, <3>2
    <3>5. c[lo + i] \in Nat /\ (lo + i) - 1 \in 0..Len(c)
      BY <1>2, <1>4, <3>2
    <3>6. P[(lo + i) - 1] \in Nat
      BY <1>5, <3>5
    <3>7. Q[i] = P[lo + i] - P[lo] /\ Q[i - 1] = P[(lo + i) - 1] - P[lo]
      BY <2>1, <3>1
    <3> HIDE DEF Q
    <3> QED
      BY <2>2, <3>3, <3>4, <3>5, <3>6, <3>7
  <2>4. CASE ~(i <= n)
    <3>1. at(i) = hi /\ at(i - 1) = hi
      BY <1>3, <1>e, <2>4
    <3>2. a[i] = 0
      BY <1>8, <2>4
    <3>3. P[hi] \in Nat
      BY <1>3, <1>5
    <3>4. Q[i] = P[hi] - P[lo] /\ Q[i - 1] = P[hi] - P[lo]
      BY <2>1, <3>1
    <3> HIDE DEF Q
    <3> QED
      BY <2>2, <3>2, <3>3, <3>4
  <2> QED
    BY <2>3, <2>4
<1>15. Q[m] = P[hi] - P[lo] /\ Q[m] <= pow2i[Mantissa]
  <2>1. m \in 0..m /\ at(m) = hi
    BY <1>3, <1>7, <1>e
  <2>2. Q[m] = P[hi] - P[lo]
    BY <2>1
  <2>3. P[hi] <= P[Len(c)] /\ P[hi] \in Nat /\ P[lo] \in Nat /\ P[Len(c)] \in Nat
    <3>1. Len(c) \in 0..Len(c) /\ hi <= Len(c)
      BY <1>2, <1>3
    <3> QED
      BY <1>3, <1>5, <1>6, <3>1
  <2>4. pow2i[Mantissa] \in Nat
    BY ScanAssumption, PowerType
  <2> HIDE DEF Q
  <2> QED
    BY <1>9, <2>2, <2>3, <2>4
<1>16. \A i \in 1..n : i \in 1..m /\ Q[i - 1] = P[lo + i - 1] - P[lo]
  <2> SUFFICES ASSUME NEW i \in 1..n PROVE i \in 1..m /\ Q[i - 1] = P[lo + i - 1] - P[lo]
    OBVIOUS
  <2>1. i \in 1..m /\ i - 1 \in 0..m /\ i - 1 <= n /\ lo + (i - 1) = lo + i - 1
    BY <1>3, <1>7, <1>e
  <2>2. at(i - 1) = lo + i - 1
    BY <2>1
  <2> QED
    BY <2>1, <2>2
<1> HIDE DEF Q
<1>17. Sums(Q, a, m)
  BY <1>12, <1>13, <1>14 DEF Sums
<1>18. /\ buildSum(a)[m] = Q[m]
       /\ \A i \in 1..m : scanRootToLeaves(clearLastElement(buildSum(a)))[i] = Q[i - 1]
  BY <1>7, <1>15, <1>17, TreeScan
<1>19. BlockSum(c, b) = P[hi] - P[lo]
  BY <1>7, <1>15, <1>18 DEF BlockSum, a
<1>20. \A i \in 1..n : Scanned(c, b)[i] = P[lo + i - 1] - P[lo]
  BY <1>16, <1>18 DEF Scanned, a
<1> QED
  BY <1>19, <1>20 DEF lo, hi, P, n

\* What a scan of several blocks makes of the scans of the blocks and of base.
Combined(c, base) ==
  [i \in 1..Len(c) |-> LET b == (i - 1) \div Width
                       IN  FloatAdd(Scanned(c, b)[i - b * Width], base[b + 1])]

Prescan(f, c) ==
  IF Len(c) = 1 THEN <<0>>
  ELSE IF LastBlock(c) = 0 THEN [i \in 1..Len(c) |-> Scanned(c, 0)[i]]
  ELSE Combined(c, f[BlockSums(c)])

LEMMA BlockSumsType ==
  ASSUME NEW c \in Seq(Int), Len(c) # 0
  PROVE  BlockSums(c) \in Seq(Int) /\ Len(BlockSums(c)) = LastBlock(c) + 1
<1>1. Len(c) \in Nat \ {0} /\ LastBlock(c) \in Nat
  BY LastBlockIs
<1>2. ASSUME NEW b \in 1..(LastBlock(c) + 1) PROVE BlockSum(c, b - 1) \in Int
  <2>1. b - 1 \in 0..LastBlock(c)
    BY <1>1
  <2> QED
    BY <2>1, ScannedType
<1>3. BlockSums(c) \in [1..(LastBlock(c) + 1) -> Int]
  BY <1>2 DEF BlockSums
<1> QED
  BY <1>1, <1>3

\* The recursion of prescanArrayRecursive ends: there are fewer blocks than elements.
LEMMA FewerBlocks ==
  ASSUME NEW c, Len(c) \in Nat \ {0}, LastBlock(c) # 0
  PROVE  LastBlock(c) + 1 < Len(c)
<1> DEFINE n == Len(c)  w == Width  L == LastBlock(c)
<1>1. n \in Nat /\ w \in Nat /\ w >= 2 /\ L \in Nat \ {0} /\ L * w < n
  BY WidthType, LastBlockIs
<1> HIDE DEF n, w, L
<1>2. PICK v \in Nat : w = 2 + v
  <2>1. w - 2 \in Nat /\ w = 2 + (w - 2)
    BY <1>1
  <2> QED
    BY <2>1
<1>3. L * w = L + L + L * v /\ L * v \in Nat
  BY <1>1, <1>2
<1>4. L + 1 < n
  <2> DEFINE u == L * v
  <2>1. u \in Nat /\ L + L + u < n
    BY <1>1, <1>3
  <2> HIDE DEF u
  <2> QED
    BY <1>1, <2>1
<1> QED
  BY <1>4 DEF n, L

LEMMA PrescanFixed ==
  \A c \in Seq(Int) : prescanArray[c] = Prescan(prescanArray, c)
<1> DEFINE D == Seq(Int)
           few == {c \in D : Len(c) <= 1 \/ LastBlock(c) = 0}
           rank == [c \in D |-> Len(c)]
           from == [c \in D |-> IF c \in few THEN c ELSE BlockSums(c)]
           one(c) == IF Len(c) = 0 THEN <<>>
                     ELSE IF Len(c) = 1 THEN <<0>> ELSE [i \in 1..Len(c) |-> Scanned(c, 0)[i]]
           start == [c \in D |-> IF c \in few THEN one(c) ELSE c]
           many(c, v) == [i \in 1..Len(c) |->
                            LET b == (i - 1) \div Width
                            IN  IF b + 1 \in DOMAIN v
                                  THEN FloatAdd(Scanned(c, b)[i - b * Width], v[b + 1]) ELSE 0]
           step == [p \in D \X D |-> IF p[1] \in few THEN p[2] ELSE many(p[1], p[2])]
<1>l. \A c \in D : Len(c) \in Nat
  OBVIOUS
<1>f. \A c \in D : c \in few <=> (Len(c) <= 1 \/ LastBlock(c) = 0)
  OBVIOUS
<1>g. ASSUME NEW c \in D, c \notin few PROVE Len(c) \in Nat \ {0} /\ Len(c) # 1 /\ LastBlock(c) # 0
  <2>1. ~(Len(c) <= 1) /\ LastBlock(c) # 0 /\ Len(c) \in Nat
    BY <1>f, <1>g, <1>l
  <2> DEFINE n == Len(c)
  <2>2. ~(n <= 1) /\ n \in Nat
    BY <2>1
  <2>3. n \in Nat \ {0} /\ n # 1
    <3> HIDE DEF n
    <3> QED
      BY <2>2
  <2> QED
    BY <2>1, <2>3
<1>h. ASSUME NEW c \in few, Len(c) # 0, Len(c) # 1 PROVE Len(c) \in Nat \ {0} /\ LastBlock(c) = 0
  <2>1. c \in D
    OBVIOUS
  <2>2. (Len(c) <= 1 \/ LastBlock(c) = 0) /\ Len(c) \in Nat
    BY <1>f, <1>l, <2>1
  <2> DEFINE n == Len(c)
  <2>3. n \in Nat /\ n # 0 /\ n # 1 /\ (n <= 1 \/ LastBlock(c) = 0)
    BY <1>h, <2>2
  <2>4. n \in Nat \ {0} /\ ~(n <= 1)
    <3> HIDE DEF n
    <3> QED
      BY <2>3
  <2> QED
    BY <2>3, <2>4
<1>1. ASSUME NEW c \in D, c \notin few
      PROVE  /\ Len(c) \in Nat \ {0} /\ LastBlock(c) # 0
             /\ BlockSums(c) \in D /\ Len(BlockSums(c)) = LastBlock(c) + 1
             /\ Len(BlockSums(c)) < Len(c)
  <2>1. Len(c) \in Nat \ {0} /\ Len(c) # 1 /\ LastBlock(c) # 0
    BY <1>1, <1>g
  <2>2. BlockSums(c) \in D /\ Len(BlockSums(c)) = LastBlock(c) + 1
    BY <2>1, BlockSumsType
  <2>3. LastBlock(c) + 1 < Len(c)
    BY <2>1, FewerBlocks
  <2> QED
    BY <2>1, <2>2, <2>3
<1>2. ASSUME NEW c \in few PROVE one(c) \in D /\ Len(one(c)) = Len(c)
  <2>0. c \in Seq(Int) /\ Len(c) \in Nat
    OBVIOUS
  <2>1. CASE Len(c) = 0
    BY <2>1
  <2>2. CASE Len(c) = 1
    BY <2>2
  <2>3. CASE Len(c) # 0 /\ Len(c) # 1
    <3>1. Len(c) \in Nat \ {0} /\ LastBlock(c) = 0
      BY <1>h, <2>3
    <3>2. Edge(c, 0) = 0 /\ Edge(c, 0 + 1) = Len(c) /\ Len(c) - 0 = Len(c)
      BY <3>1, Edges
    <3>3. 0 \in 0..LastBlock(c)
      BY <3>1
    <3>4. \A i \in 1..Len(c) : Scanned(c, 0)[i] \in Int
      BY <2>0, <3>1, <3>2, <3>3, ScannedType
    <3>5. one(c) \in [1..Len(c) -> Int]
      BY <2>3, <3>4
    <3> HIDE DEF one
    <3> QED
      BY <2>0, <3>5
  <2> QED
    BY <2>1, <2>2, <2>3
<1>3. ASSUME NEW c \in D, c \notin few, NEW v \in D
      PROVE  many(c, v) \in D /\ Len(many(c, v)) = Len(c)
  <2>1. c \in Seq(Int) /\ Len(c) \in Nat \ {0} /\ v \in Seq(Int)
    BY <1>1, <1>3
  <2>2. ASSUME NEW i \in 1..Len(c)
        PROVE  LET b == (i - 1) \div Width IN Scanned(c, b)[i - b * Width] \in Int
    <3> DEFINE b == (i - 1) \div Width
    <3>1. b \in 0..LastBlock(c) /\ i - b * Width \in 1..(Edge(c, b + 1) - Edge(c, b))
      BY <2>1, BlockOf
    <3> HIDE DEF b
    <3>2. Scanned(c, b)[i - b * Width] \in Int
      BY <2>1, <3>1, ScannedType
    <3> QED
      BY <3>2 DEF b
  <2>3. many(c, v) \in [1..Len(c) -> Int]
    <3> SUFFICES ASSUME NEW i \in 1..Len(c)
                 PROVE  LET b == (i - 1) \div Width
                        IN  (IF b + 1 \in DOMAIN v
                              THEN FloatAdd(Scanned(c, b)[i - b * Width], v[b + 1]) ELSE 0) \in Int
      OBVIOUS
    <3> DEFINE b == (i - 1) \div Width
               s == Scanned(c, b)[i - b * Width]
    <3>1. s \in Int
      BY <2>2
    <3> HIDE DEF b, s
    <3>2. b + 1 \in DOMAIN v => v[b + 1] \in Int
      BY <2>1
    <3>3. b + 1 \in DOMAIN v => FloatAdd(s, v[b + 1]) \in Int
      BY <3>1, <3>2, FloatAddType
    <3>4. (IF b + 1 \in DOMAIN v THEN FloatAdd(s, v[b + 1]) ELSE 0) \in Int
      BY <3>3
    <3> QED
      BY <3>4 DEF b, s
  <2> HIDE DEF many
  <2> QED
    BY <2>1, <2>3
<1> HIDE DEF one, many
<1>4. rank \in [D -> Nat] /\ few \in SUBSET D
  OBVIOUS
<1>5. from \in [D -> D]
  BY <1>1
<1>6. start \in [D -> D]
  BY <1>2
<1>7. step \in [D \X D -> D]
  BY <1>3
<1>8. \A c \in D \ few : rank[from[c]] < rank[c]
  BY <1>1
<1>9. \A c \in D : /\ c \in few => start[c] = one(c)
                   /\ c \notin few => from[c] = BlockSums(c)
                   /\ c \notin few => \A v \in D : step[<<c, v>>] = many(c, v)
  OBVIOUS
<1>D. D = Seq(Int)
  OBVIOUS
<1> HIDE DEF D, few, rank, from, start, step
<1>10. PICK f \in [D -> D] : Recursive(f, D, from, few, start, step)
  BY <1>4, <1>5, <1>6, <1>7, <1>8, Recursion
<1>11. \A c \in D : f[c] = IF c \in few THEN one(c) ELSE many(c, f[BlockSums(c)])
  <2> SUFFICES ASSUME NEW c \in D
               PROVE  f[c] = IF c \in few THEN one(c) ELSE many(c, f[BlockSums(c)])
    OBVIOUS
  <2>1. f[c] = IF c \in few THEN start[c] ELSE step[<<c, f[from[c]]>>]
    BY <1>10 DEF Recursive
  <2>2. c \notin few => f[BlockSums(c)] \in D
    BY <1>1, <1>10
  <2> QED
    BY <1>9, <2>1, <2>2
<1>12. \A c \in D : f[c] \in D /\ Len(f[c]) = Len(c)
  BY <1>1, <1>2, <1>3, <1>10, <1>11
<1>13. ASSUME NEW c \in D PROVE f[c] = Prescan(f, c)
  <2>0. Len(c) \in Nat
    BY <1>D
  <2>1. CASE c \in few /\ Len(c) # 0
    <3>1. f[c] = one(c)
      BY <1>11, <2>1
    <3>2. Len(c) # 1 => LastBlock(c) = 0
      BY <1>h, <2>1
    <3> QED
      BY <2>1, <3>1, <3>2 DEF Prescan, one
  <2>2. CASE Len(c) = 0
    <3>1. f[c] = <<>>
      <4>1. c \in few
        BY <1>f, <2>2
      <4> QED
        BY <1>11, <2>2, <4>1 DEF one
    <3>2. 1..Len(c) = {}
      BY <2>2
    <3>3. Prescan(f, c) = <<>>
      BY <2>2, <3>2 DEF Prescan, Combined
    <3> QED
      BY <3>1, <3>3
  <2>3. CASE c \notin few
    <3> DEFINE v == f[BlockSums(c)]
    <3>1. f[c] = many(c, v)
      BY <1>11, <2>3
    <3>2. /\ Len(c) \in Nat \ {0} /\ LastBlock(c) # 0
          /\ BlockSums(c) \in D /\ Len(BlockSums(c)) = LastBlock(c) + 1 /\ Len(c) # 1
      BY <1>1, <1>g, <2>3
    <3>3. v \in Seq(Int) /\ Len(v) = LastBlock(c) + 1
      BY <1>12, <1>D, <3>2
    <3> HIDE DEF v
    <3>4. \A i \in 1..Len(c) : ((i - 1) \div Width) + 1 \in DOMAIN v
      <4> SUFFICES ASSUME NEW i \in 1..Len(c) PROVE ((i - 1) \div Width) + 1 \in DOMAIN v
        OBVIOUS
      <4> DEFINE b == (i - 1) \div Width
      <4>1. b \in 0..LastBlock(c)
        BY <3>2, BlockOf
      <4>2. LastBlock(c) \in Nat
        BY <3>2, LastBlockIs
      <4> HIDE DEF b
      <4>3. b + 1 \in DOMAIN v
        BY <3>3, <4>1, <4>2
      <4> QED
        BY <4>3 DEF b
    <3>5. many(c, v) = Combined(c, v)
      BY <3>4 DEF many, Combined
    <3> QED
      BY <3>1, <3>2, <3>5 DEF Prescan, v
  <2> QED
    BY <2>1, <2>2, <2>3
<1> DEFINE Q(g) == g = [c \in Seq(Int) |-> Prescan(g, c)]
<1>14. Q(f)
  BY <1>10, <1>13, <1>D
<1>15. prescanArray = CHOOSE g : Q(g)
  BY DEF prescanArray, Prescan, Combined, BlockSums, BlockSum, Scanned, Chunk, LastBlock, Width
<1>16. Q(prescanArray)
  BY <1>14, <1>15
<1> QED
  BY <1>16

\* The counts in c add up to a number that a float holds.
Fitting(c) == c \in Seq(Nat) /\ Len(c) # 0 /\ Prefix(c)[Len(c)] <= pow2i[Mantissa]

\* The prefix sums of the sums of the blocks are prefix sums of the array.
LEMMA BlockSumsSum ==
  ASSUME NEW c, Fitting(c)
  PROVE  /\ BlockSums(c) \in Seq(Nat) /\ Len(BlockSums(c)) = LastBlock(c) + 1
         /\ \A k \in 0..(LastBlock(c) + 1) : Prefix(BlockSums(c))[k] = Prefix(c)[Edge(c, k)]
<1> DEFINE L == LastBlock(c)  s == BlockSums(c)  P == Prefix(c)  R == Prefix(s)
<1>0. c \in Seq(Nat) /\ Len(c) # 0 /\ Prefix(c)[Len(c)] <= pow2i[Mantissa]
  BY DEF Fitting
<1>1. Len(c) \in Nat \ {0} /\ L \in Nat /\ c \in Seq(Nat)
  <2>1. Len(c) \in Nat \ {0}
    BY <1>0
  <2> QED
    BY <1>0, <2>1, LastBlockIs
<1>2. /\ Edge(c, 0) = 0
      /\ \A b \in 0..L : /\ Edge(c, b) \in 0..Len(c) /\ Edge(c, b + 1) \in 0..Len(c)
                         /\ Edge(c, b) < Edge(c, b + 1)
  BY <1>1, Edges
<1>3. Sums(P, c, Len(c)) /\ c \in [1..Len(c) -> Nat]
  BY <1>1, PrefixSums
<1>4. \A i, j \in 0..Len(c) : i <= j => P[i] <= P[j]
  BY <1>1, <1>3, SumsGrow
<1>5. P \in [0..Len(c) -> Nat] /\ P[0] = 0
  BY <1>3 DEF Sums
<1>6. ASSUME NEW b \in 0..L
      PROVE  /\ BlockSum(c, b) = P[Edge(c, b + 1)] - P[Edge(c, b)]
             /\ P[Edge(c, b + 1)] \in Nat /\ P[Edge(c, b)] \in Nat /\ BlockSum(c, b) \in Nat
  <2>1. BlockSum(c, b) = P[Edge(c, b + 1)] - P[Edge(c, b)]
    BY <1>0, BlockScan
  <2>2. Edge(c, b) \in 0..Len(c) /\ Edge(c, b + 1) \in 0..Len(c) /\ Edge(c, b) < Edge(c, b + 1)
    BY <1>2
  <2>3. P[Edge(c, b + 1)] \in Nat /\ P[Edge(c, b)] \in Nat
    BY <1>5, <2>2
  <2>4. P[Edge(c, b)] <= P[Edge(c, b + 1)]
    BY <1>1, <1>4, <2>2
  <2> QED
    BY <2>1, <2>3, <2>4
<1>7. \A k \in 1..(L + 1) : s[k] = BlockSum(c, k - 1) /\ k - 1 \in 0..L
  BY <1>1 DEF BlockSums
<1>8. s \in [1..(L + 1) -> Nat]
  <2>1. s = [k \in 1..(L + 1) |-> s[k]]
    BY DEF BlockSums
  <2> HIDE DEF s, L
  <2> QED
    BY <1>6, <1>7, <2>1
<1>9. s \in Seq(Nat) /\ Len(s) = L + 1
  <2> HIDE DEF s, L
  <2> QED
    BY <1>1, <1>8
<1> HIDE DEF s, L, P
<1>10. Sums(R, s, L + 1)
  BY <1>9, PrefixSums
<1>11. R[0] = 0 /\ \A k \in 1..(L + 1) : R[k] = R[k - 1] + s[k]
  BY <1>10 DEF Sums
<1> HIDE DEF R
<1> DEFINE S == {k \in Nat : k <= L + 1 => R[k] = P[Edge(c, k)]}
<1>12. 0 \in S
  BY <1>2, <1>5, <1>11
<1>13. ASSUME NEW k \in Nat, k \in S PROVE k + 1 \in S
  <2> SUFFICES ASSUME k + 1 <= L + 1 PROVE R[k + 1] = P[Edge(c, k + 1)]
    OBVIOUS
  <2>1. k \in 0..L /\ k <= L + 1 /\ k + 1 \in 1..(L + 1) /\ (k + 1) - 1 = k
    BY <1>1
  <2>2. R[k] = P[Edge(c, k)]
    BY <1>13, <2>1
  <2>3. R[k + 1] = R[k] + s[k + 1] /\ s[k + 1] = BlockSum(c, k)
    BY <1>7, <1>11, <2>1
  <2>4. /\ BlockSum(c, k) = P[Edge(c, k + 1)] - P[Edge(c, k)]
        /\ P[Edge(c, k + 1)] \in Nat /\ P[Edge(c, k)] \in Nat
    BY <1>6, <2>1
  <2> QED
    BY <2>2, <2>3, <2>4
<1>14. Nat \subseteq S
  <2> HIDE DEF S
  <2> QED
    BY <1>12, <1>13, Induction
<1>15. \A k \in 0..(L + 1) : R[k] = P[Edge(c, k)]
  BY <1>1, <1>14
<1> QED
  BY <1>9, <1>15 DEF s, L, P, R

\* What the scan of an array promises.
Exact(c) == \A i \in 1..Len(c) : prescanArray[c][i] = Prefix(c)[i - 1]

\* A scan of several blocks is exact if the scan of their sums is.
LEMMA PrescanStep ==
  ASSUME NEW c, Fitting(c), LastBlock(c) # 0 => Exact(BlockSums(c))
  PROVE  Exact(c)
<1> DEFINE L == LastBlock(c)  s == BlockSums(c)  P == Prefix(c)
<1>0. c \in Seq(Nat) /\ Len(c) # 0 /\ Prefix(c)[Len(c)] <= pow2i[Mantissa] /\ c \in Seq(Int)
  BY DEF Fitting
<1>1. Len(c) \in Nat \ {0} /\ L \in Nat
  <2>1. Len(c) \in Nat \ {0}
    BY <1>0
  <2> QED
    BY <2>1, LastBlockIs
<1>2. P \in [0..Len(c) -> Nat] /\ P[0] = 0 /\ \A i, j \in 0..Len(c) : i <= j => P[i] <= P[j]
  <2>1. Sums(P, c, Len(c)) /\ c \in [1..Len(c) -> Nat]
    BY <1>0, PrefixSums
  <2>2. \A i, j \in 0..Len(c) : i <= j => P[i] <= P[j]
    BY <1>1, <2>1, SumsGrow
  <2> QED
    BY <2>1, <2>2 DEF Sums
<1>3. prescanArray[c] = Prescan(prescanArray, c)
  BY <1>0, PrescanFixed
<1>4. ASSUME NEW b \in 0..L, NEW i \in 1..(Edge(c, b + 1) - Edge(c, b))
      PROVE  Scanned(c, b)[i] = P[Edge(c, b) + i - 1] - P[Edge(c, b)]
  BY <1>0, BlockScan
<1>5. CASE Len(c) = 1
  <2>1. prescanArray[c] = <<0>>
    BY <1>3, <1>5 DEF Prescan
  <2>2. \A i \in 1..1 : i = 1 /\ i - 1 = 0
    OBVIOUS
  <2> QED
    BY <1>2, <1>5, <2>1, <2>2 DEF Exact
<1>6. CASE Len(c) # 1 /\ L = 0
  <2>1. prescanArray[c] = [i \in 1..Len(c) |-> Scanned(c, 0)[i]]
    BY <1>3, <1>6 DEF Prescan
  <2>2. Edge(c, 0) = 0 /\ Edge(c, 0 + 1) = Len(c) /\ 0 \in 0..L
    BY <1>1, <1>6, Edges
  <2>3. ASSUME NEW i \in 1..Len(c) PROVE Scanned(c, 0)[i] = P[i - 1]
    <3>1. i \in 1..(Edge(c, 0 + 1) - Edge(c, 0)) /\ 0 + i - 1 = i - 1 /\ i - 1 \in 0..Len(c)
      BY <1>1, <2>2
    <3>2. Scanned(c, 0)[i] = P[i - 1] - P[0]
      BY <1>4, <2>2, <3>1
    <3>3. P[i - 1] \in Nat /\ P[0] = 0
      BY <1>2, <3>1
    <3> QED
      BY <3>2, <3>3
  <2> QED
    BY <2>1, <2>3 DEF Exact
<1>7. CASE Len(c) # 1 /\ L # 0
  <2> DEFINE base == prescanArray[s]
  <2>1. prescanArray[c] = Combined(c, base)
    BY <1>3, <1>7 DEF Prescan
  <2>2. Len(s) = L + 1 /\ \A k \in 0..(L + 1) : Prefix(s)[k] = P[Edge(c, k)]
    BY BlockSumsSum
  <2>3. \A b \in 0..L : base[b + 1] = P[Edge(c, b)]
    <3> SUFFICES ASSUME NEW b \in 0..L PROVE base[b + 1] = P[Edge(c, b)]
      OBVIOUS
    <3>1. b + 1 \in 1..Len(s) /\ (b + 1) - 1 = b /\ b \in 0..(L + 1)
      BY <1>1, <2>2
    <3>2. base[b + 1] = Prefix(s)[(b + 1) - 1]
      BY <1>7, <3>1 DEF Exact
    <3> QED
      BY <2>2, <3>1, <3>2
  <2> HIDE DEF base
  <2>4. ASSUME NEW i \in 1..Len(c) PROVE Combined(c, base)[i] = P[i - 1]
    <3> DEFINE b == (i - 1) \div Width
               j == i - b * Width
               lo == Edge(c, b)
    <3>1. /\ b \in 0..L /\ j \in 1..(Edge(c, b + 1) - lo)
          /\ i = lo + j
      BY <1>1, BlockOf
    <3>2. Combined(c, base)[i] = FloatAdd(Scanned(c, b)[j], base[b + 1])
      BY DEF Combined
    <3>3. lo \in 0..Len(c)
      BY <1>1, <3>1, Edges
    <3> HIDE DEF b, j
    <3>4. Scanned(c, b)[j] = P[lo + j - 1] - P[lo] /\ base[b + 1] = P[lo]
      BY <1>4, <2>3, <3>1
    <3> HIDE DEF lo
    <3>5. lo + j - 1 = i - 1 /\ i - 1 \in 0..Len(c) /\ lo <= i - 1
      <4>1. lo \in Nat /\ j \in Nat /\ j >= 1
        BY <1>1, <3>1, <3>3
      <4> QED
        BY <1>1, <3>1, <4>1
    <3>6. P[lo] \in Nat /\ P[i - 1] \in Nat /\ P[lo] <= P[i - 1]
      BY <1>2, <3>3, <3>5
    <3>7. P[i - 1] <= P[Len(c)] /\ P[Len(c)] \in Nat
      <4>1. Len(c) \in 0..Len(c) /\ i - 1 <= Len(c)
        BY <1>1
      <4> QED
        BY <1>2, <3>5, <4>1
    <3>8. pow2i[Mantissa] \in Nat
      BY ScanAssumption, PowerType
    <3> DEFINE v == P[i - 1] - P[lo]
    <3>9. v \in Nat /\ v + P[lo] = P[i - 1] /\ v + P[lo] <= pow2i[Mantissa]
      BY <1>0, <3>6, <3>7, <3>8
    <3>10. Combined(c, base)[i] = FloatAdd(v, P[lo])
      BY <3>2, <3>4, <3>5
    <3> HIDE DEF v
    <3> QED
      BY <3>6, <3>9, <3>10, FloatAddExact
  <2> QED
    BY <2>1, <2>4 DEF Exact
<1> QED
  BY <1>5, <1>6, <1>7

\* P2 is exact: every block of P3 gets the number of elements before it.
LEMMA PrescanExact ==
  ASSUME NEW c, Fitting(c)
  PROVE  Exact(c)
<1> DEFINE S == {n \in Nat : \A d : Fitting(d) /\ Len(d) = n => Exact(d)}
<1>1. ASSUME NEW n \in Nat, \A m \in Nat : m < n => m \in S PROVE n \in S
  <2> SUFFICES ASSUME NEW d, Fitting(d), Len(d) = n PROVE Exact(d)
    OBVIOUS
  <2>1. d \in Seq(Nat) /\ n \in Nat \ {0}
    BY DEF Fitting
  <2>2. ASSUME LastBlock(d) # 0 PROVE Exact(BlockSums(d))
    <3> DEFINE s == BlockSums(d)
               L == LastBlock(d)
    <3>1. L \in Nat
      BY <2>1, LastBlockIs
    <3>2. L + 1 < n
      BY <2>1, <2>2, FewerBlocks
    <3>3. /\ s \in Seq(Nat) /\ Len(s) = L + 1
          /\ \A k \in 0..(L + 1) : Prefix(s)[k] = Prefix(d)[Edge(d, k)]
      BY BlockSumsSum
    <3>4. Prefix(s)[L + 1] = Prefix(d)[n]
      <4>1. Edge(d, L + 1) = n /\ L + 1 \in 0..(L + 1)
        BY <2>1, <3>1, Edges
      <4> QED
        BY <3>3, <4>1
    <3> HIDE DEF s, L
    <3>5. Fitting(s)
      BY <3>1, <3>3, <3>4 DEF Fitting
    <3>6. L + 1 \in Nat /\ L + 1 \in S
      BY <1>1, <3>1, <3>2
    <3>7. Exact(s)
      BY <3>3, <3>5, <3>6
    <3> QED
      BY <3>7 DEF s
  <2> QED
    BY <2>2, PrescanStep
<1>2. Nat \subseteq S
  <2> HIDE DEF S
  <2> QED
    BY <1>1, CourseOfValues
<1>3. Len(c) \in Nat
  BY DEF Fitting
<1> QED
  BY <1>2, <1>3

---------------------------------------------------------------------------
(* Counting *)

\* Sets without a common element add up.
LEMMA DisjointUnion ==
  ASSUME NEW S, NEW T, IsFiniteSet(S), IsFiniteSet(T), S \cap T = {}
  PROVE  /\ IsFiniteSet(S \cup T) /\ Cardinality(S \cup T) = Cardinality(S) + Cardinality(T)
         /\ Cardinality(S) \in Nat /\ Cardinality(T) \in Nat
<1>1. Cardinality(S) \in Nat /\ Cardinality(T) \in Nat /\ Cardinality(S \cap T) = 0
  BY FS_CardinalityType, FS_EmptySet
<1>2. /\ IsFiniteSet(S \cup T)
      /\ Cardinality(S \cup T) = Cardinality(S) + Cardinality(T) - Cardinality(S \cap T)
  BY FS_Union
<1> QED
  BY <1>1, <1>2

\* A shifted set has as many elements.
LEMMA Shifted ==
  ASSUME NEW S \in SUBSET Int, IsFiniteSet(S), NEW a \in Int
  PROVE  IsFiniteSet({a + m : m \in S}) /\ Cardinality({a + m : m \in S}) = Cardinality(S)
<1> DEFINE T == {a + m : m \in S}
           f == [m \in S |-> a + m]
<1>1. f \in [S -> T]
  OBVIOUS
<1>2. \A m, n \in S : f[m] = f[n] => m = n
  OBVIOUS
<1>3. \A t \in T : \E m \in S : f[m] = t
  OBVIOUS
<1> HIDE DEF T, f
<1>4. f \in Bijection(S, T)
  <2>1. f \in Injection(S, T)
    BY <1>1, <1>2 DEF Injection, IsInjective
  <2>2. f \in Surjection(S, T)
    BY <1>1, <1>3 DEF Surjection
  <2> QED
    BY <2>1, <2>2 DEF Bijection
<1>5. ExistsBijection(S, T)
  BY <1>4 DEF ExistsBijection
<1>6. IsFiniteSet(T) /\ Cardinality(T) = Cardinality(S)
  BY <1>5, FS_Bijection
<1> QED
  BY <1>6 DEF T

LEMMA IntervalSubset ==
  ASSUME NEW n \in Int, NEW S \in SUBSET (0..n)
  PROVE  IsFiniteSet(S) /\ Cardinality(S) \in Nat
<1>1. IsFiniteSet(0..n)
  BY FS_Interval
<1> QED
  BY <1>1, FS_Subset, FS_CardinalityType

---------------------------------------------------------------------------
(* The offsets of the warps, digit by digit *)

\* One more binary digit of a number.
LEMMA BitSum ==
  ASSUME NEW v \in Nat, NEW k \in Nat
  PROVE  /\ Bit(v, k) \in {0, 1} /\ pow2i[k] \in Nat /\ v % pow2i[k] \in Nat
         /\ v % pow2i[k + 1] = (v % pow2i[k]) + pow2i[k] * Bit(v, k)
<1> DEFINE p == pow2i[k]
<1>1. p \in Nat \ {0} /\ pow2i[k + 1] = 2 * p /\ p = pow2i[k]
  BY PowerType
<1> HIDE DEF p
<1>2. PICK q, r \in Nat : q = v \div p /\ r = v % p /\ r < p /\ v = p * q + r
  BY <1>1, Quotient
<1>3. PICK h, c \in Nat : h = q \div 2 /\ c = q % 2 /\ c < 2 /\ q = 2 * h + c
  BY Quotient
<1>4. Bit(v, k) = c
  BY <1>1, <1>2, <1>3 DEF Bit
<1>5. c \in {0, 1}
  BY <1>3
<1>6. v = (2 * p) * h + (p * c + r)
  <2> DEFINE u == p * h
  <2>1. u \in Nat /\ (2 * p) * h = 2 * u
    BY <1>1, <1>3
  <2>2. CASE c = 0
    <3>1. p * q = 2 * u /\ p * c = 0
      BY <1>1, <1>3, <2>2
    <3> HIDE DEF u
    <3> QED
      BY <1>1, <1>2, <2>1, <3>1
  <2>3. CASE c = 1
    <3>1. p * q = 2 * u + p /\ p * c = p
      BY <1>1, <1>3, <2>3
    <3> HIDE DEF u
    <3> QED
      BY <1>1, <1>2, <2>1, <3>1
  <2> QED
    BY <1>5, <2>2, <2>3
<1>r. r \in Nat /\ r < p
  BY <1>2
<1>7. p * c + r \in Nat /\ p * c + r < 2 * p /\ 2 * p \in Nat \ {0}
  <2>1. CASE c = 0
    <3> DEFINE u == p * c
    <3>1. u = 0
      BY <1>1, <2>1
    <3> HIDE DEF u
    <3>2. u + r \in Nat /\ u + r < 2 * p /\ 2 * p \in Nat \ {0}
      BY <1>1, <1>r, <3>1
    <3> QED
      BY <3>2 DEF u
  <2>2. CASE c = 1
    <3> DEFINE u == p * c
    <3>1. u = p
      BY <1>1, <2>2
    <3> HIDE DEF u
    <3>2. u + r \in Nat /\ u + r < 2 * p /\ 2 * p \in Nat \ {0}
      BY <1>1, <1>r, <3>1
    <3> QED
      BY <3>2 DEF u
  <2> QED
    BY <1>5, <2>1, <2>2
<1>8. v % (2 * p) = p * c + r
  <2> DEFINE u == p * c + r
  <2>1. u \in Nat /\ u < 2 * p /\ v = (2 * p) * h + u /\ 2 * p \in Nat \ {0}
    BY <1>6, <1>7
  <2> HIDE DEF u
  <2>2. v % (2 * p) = u
    BY <2>1, QuotientIs
  <2> QED
    BY <2>2 DEF u
<1>9. r + p * c = p * c + r
  BY <1>1, <1>2, <1>5
<1> QED
  BY <1>1, <1>2, <1>4, <1>5, <1>8, <1>9

Ones(b, w, junk, k) == Cardinality({m \in 0..(w - 1) : Bit(WarpTotal(b, m, junk), k) = 1})

\* The function that WarpOffset defines.
Digitwise(f, b, w, junk) ==
  f = [k \in Nat |-> IF k = 0 THEN 0 ELSE f[k - 1] + pow2i[k - 1] * Ones(b, w, junk, k - 1)]

Adds(f, b, w, junk) ==
  /\ f \in [Nat -> Nat] /\ f[0] = 0
  /\ \A k \in Nat : f[k + 1] = f[k] + pow2i[k] * Ones(b, w, junk, k)

LEMMA OnesType ==
  ASSUME NEW b, NEW w \in Nat, NEW junk, NEW k
  PROVE  /\ Ones(b, w, junk, k) \in Nat
         /\ Ones(b, 0, junk, k) = 0
         /\ Ones(b, w + 1, junk, k) =
              Ones(b, w, junk, k) + IF Bit(WarpTotal(b, w, junk), k) = 1 THEN 1 ELSE 0
<1> DEFINE S(n) == {m \in 0..(n - 1) : Bit(WarpTotal(b, m, junk), k) = 1}
<1>1. IsFiniteSet(S(w)) /\ Cardinality(S(w)) \in Nat
  <2>1. w - 1 \in Int /\ S(w) \in SUBSET (0..(w - 1))
    OBVIOUS
  <2> HIDE DEF S
  <2> QED
    BY <2>1, IntervalSubset
<1>2. S(0) = {}
  OBVIOUS
<1>3. 0..((w + 1) - 1) = (0..(w - 1)) \cup {w} /\ w \notin 0..(w - 1)
  OBVIOUS
<1>4. CASE Bit(WarpTotal(b, w, junk), k) = 1
  <2>1. S(w + 1) = S(w) \cup {w} /\ w \notin S(w)
    BY <1>3, <1>4
  <2> HIDE DEF S
  <2>2. Cardinality(S(w + 1)) = Cardinality(S(w)) + 1
    BY <1>1, <2>1, FS_AddElement
  <2> QED
    BY <1>1, <1>2, <1>4, <2>2, FS_EmptySet DEF Ones, S
<1>5. CASE Bit(WarpTotal(b, w, junk), k) # 1
  <2>1. S(w + 1) = S(w)
    BY <1>3, <1>5
  <2> QED
    BY <1>1, <1>2, <1>5, <2>1, FS_EmptySet DEF Ones
<1> QED
  BY <1>4, <1>5

LEMMA WarpOffsetIs ==
  ASSUME NEW b, NEW w \in Nat, NEW junk
  PROVE  \E f : Adds(f, b, w, junk) /\ WarpOffset(b, w, junk) = f[Digits + 1]
<1> DEFINE One(k) == Ones(b, w, junk, k)
           step == [p \in Nat \X Nat |->
                      IF p[1] = 0 THEN p[2] ELSE p[2] + pow2i[p[1] - 1] * One(p[1] - 1)]
<1>1. \A k \in Nat : pow2i[k] * One(k) \in Nat
  <2> SUFFICES ASSUME NEW k \in Nat PROVE pow2i[k] * One(k) \in Nat
    OBVIOUS
  <2>1. pow2i[k] \in Nat /\ One(k) \in Nat
    BY PowerType, OnesType
  <2> HIDE DEF One
  <2> QED
    BY <2>1
<1>o. \A k : One(k) = Ones(b, w, junk, k)
  OBVIOUS
<1> HIDE DEF One
<1>2. step \in [Nat \X Nat -> Nat]
  <2>1. \A k \in Nat : k # 0 => k - 1 \in Nat
    OBVIOUS
  <2> QED
    BY <1>1, <2>1
<1>3. \A k, v \in Nat : step[<<k + 1, v>>] = v + pow2i[k] * One(k)
  <2> SUFFICES ASSUME NEW k \in Nat, NEW v \in Nat PROVE step[<<k + 1, v>>] = v + pow2i[k] * One(k)
    OBVIOUS
  <2>1. k + 1 \in Nat /\ k + 1 # 0 /\ (k + 1) - 1 = k
    OBVIOUS
  <2> QED
    BY <2>1
<1> HIDE DEF step
<1>4. PICK g \in [Nat -> Nat] : Iterates(g, 0, step)
  BY <1>2, Iteration
<1>5. g[0] = 0 /\ \A k \in Nat : g[k + 1] = g[k] + pow2i[k] * One(k)
  BY <1>3, <1>4 DEF Iterates
<1>6. Digitwise(g, b, w, junk)
  <2>1. \A k \in Nat : k # 0 => g[k] = g[k - 1] + pow2i[k - 1] * One(k - 1)
    <3> SUFFICES ASSUME NEW k \in Nat, k # 0 PROVE g[k] = g[k - 1] + pow2i[k - 1] * One(k - 1)
      OBVIOUS
    <3>1. k - 1 \in Nat /\ (k - 1) + 1 = k
      OBVIOUS
    <3> QED
      BY <1>5, <3>1
  <2>2. g = [k \in Nat |-> g[k]]
    OBVIOUS
  <2> QED
    BY <1>5, <1>o, <2>1, <2>2 DEF Digitwise
<1> DEFINE f == CHOOSE h : Digitwise(h, b, w, junk)
<1>7. Digitwise(f, b, w, junk)
  BY <1>6
<1>8. WarpOffset(b, w, junk) = f[Digits + 1]
  BY DEF WarpOffset, Digitwise, Ones
<1> HIDE DEF f
<1>9. f[0] = 0 /\ f = [k \in Nat |-> f[k]]
  BY <1>7 DEF Digitwise
<1>10. ASSUME NEW k \in Nat PROVE f[k + 1] = f[k] + pow2i[k] * One(k)
  <2>1. k + 1 \in Nat /\ k + 1 # 0 /\ (k + 1) - 1 = k
    OBVIOUS
  <2> QED
    BY <1>7, <1>o, <2>1 DEF Digitwise
<1> DEFINE S == {k \in Nat : f[k] \in Nat}
<1>11. Nat \subseteq S
  <2>1. 0 \in S
    BY <1>9
  <2>2. ASSUME NEW k \in Nat, k \in S PROVE k + 1 \in S
    BY <1>1, <1>10, <2>2
  <2> HIDE DEF S
  <2> QED
    BY <2>1, <2>2, Induction
<1>12. f \in [Nat -> Nat]
  BY <1>9, <1>11
<1>13. Adds(f, b, w, junk)
  BY <1>9, <1>10, <1>12, <1>o DEF Adds
<1> QED
  BY <1>8, <1>13

LEMMA WarpOffsetNone ==
  ASSUME NEW b, NEW junk
  PROVE  WarpOffset(b, 0, junk) = 0
<1>1. PICK h : Adds(h, b, 0, junk) /\ WarpOffset(b, 0, junk) = h[Digits + 1]
  BY WarpOffsetIs
<1>2. Digits + 1 \in Nat
  BY GridAssumption
<1> DEFINE Z == {k \in Nat : h[k] = 0}
<1>3. 0 \in Z
  BY <1>1 DEF Adds
<1>4. ASSUME NEW k \in Nat, k \in Z PROVE k + 1 \in Z
  <2>1. h[k + 1] = h[k] + pow2i[k] * Ones(b, 0, junk, k) /\ h[k] = 0
    BY <1>1, <1>4 DEF Adds
  <2>2. Ones(b, 0, junk, k) = 0 /\ pow2i[k] \in Nat
    BY OnesType, PowerType
  <2> QED
    BY <2>1, <2>2
<1>5. Nat \subseteq Z
  <2> HIDE DEF Z
  <2> QED
    BY <1>3, <1>4, Induction
<1> QED
  BY <1>1, <1>2, <1>5

\* The offset of a warp is the sum of the totals of the warps before it.
LEMMA WarpOffsetStep ==
  ASSUME NEW b, NEW w \in Nat, NEW junk,
         WarpTotal(b, w, junk) \in Nat, WarpTotal(b, w, junk) < pow2i[Digits + 1]
  PROVE  /\ WarpOffset(b, w, junk) \in Nat
         /\ WarpOffset(b, w + 1, junk) = WarpOffset(b, w, junk) + WarpTotal(b, w, junk)
<1> DEFINE T == WarpTotal(b, w, junk)
<1>1. PICK f : Adds(f, b, w, junk) /\ WarpOffset(b, w, junk) = f[Digits + 1]
  BY WarpOffsetIs
<1>2. PICK g : Adds(g, b, w + 1, junk) /\ WarpOffset(b, w + 1, junk) = g[Digits + 1]
  <2>1. w + 1 \in Nat
    OBVIOUS
  <2> QED
    BY <2>1, WarpOffsetIs
<1>4. Digits \in Nat /\ Digits + 1 \in Nat
  BY GridAssumption
<1>5. T \in Nat /\ T < pow2i[Digits + 1]
  OBVIOUS
<1>6. \A k : Ones(b, w + 1, junk, k) = Ones(b, w, junk, k) + IF Bit(T, k) = 1 THEN 1 ELSE 0
  BY OnesType
<1> HIDE DEF T
<1> DEFINE S == {k \in Nat : g[k] = f[k] + (T % pow2i[k])}
<1>7. 0 \in S
  <2>1. f[0] = 0 /\ g[0] = 0 /\ pow2i[0] = 1 /\ T % 1 = 0
    BY <1>1, <1>2, <1>5, Powers DEF Adds
  <2> QED
    BY <2>1
<1>8. ASSUME NEW k \in Nat, k \in S PROVE k + 1 \in S
  <2> DEFINE p == pow2i[k]
             o == Ones(b, w, junk, k)
             c == Bit(T, k)
             m == T % p
  <2>1. c \in {0, 1} /\ p \in Nat /\ m \in Nat /\ T % pow2i[k + 1] = m + p * c
    BY <1>5, BitSum
  <2>2. o \in Nat /\ f[k] \in Nat
    BY <1>1, OnesType DEF Adds
  <2>3. f[k + 1] = f[k] + p * o /\ g[k + 1] = g[k] + p * Ones(b, w + 1, junk, k)
    BY <1>1, <1>2 DEF Adds
  <2>4. Ones(b, w + 1, junk, k) = o + c
    <3>1. Ones(b, w + 1, junk, k) = o + IF c = 1 THEN 1 ELSE 0
      BY <1>6
    <3> HIDE DEF o, c
    <3> QED
      BY <2>1, <2>2, <3>1
  <2>5. g[k] = f[k] + m
    BY <1>8
  <2> HIDE DEF p, o, c, m
  <2>6. p * (o + c) = p * o + p * c /\ p * o \in Nat /\ p * c \in Nat
    BY <2>1, <2>2
  <2>7. g[k + 1] = f[k + 1] + (m + p * c)
    <3> DEFINE u == p * o  v == p * c
    <3>1. u \in Nat /\ v \in Nat /\ f[k + 1] = f[k] + u /\ g[k + 1] = g[k] + (u + v)
      BY <2>3, <2>4, <2>6
    <3> HIDE DEF u, v
    <3>2. g[k + 1] = f[k + 1] + (m + v)
      BY <2>1, <2>2, <2>5, <3>1
    <3> QED
      BY <3>2 DEF v
  <2> QED
    BY <2>1, <2>7
<1>9. Nat \subseteq S
  <2> HIDE DEF S
  <2> QED
    BY <1>7, <1>8, Induction
<1>10. g[Digits + 1] = f[Digits + 1] + (T % pow2i[Digits + 1])
  BY <1>4, <1>9
<1>11. T % pow2i[Digits + 1] = T
  <2> DEFINE p == pow2i[Digits + 1]
  <2>1. p \in Nat \ {0} /\ T < p
    BY <1>4, <1>5, PowerType
  <2> HIDE DEF p
  <2>2. (p * 0 + T) % p = T /\ p * 0 + T = T
    BY <1>5, <2>1, QuotientIs
  <2>3. T % p = T
    BY <2>2
  <2> QED
    BY <2>3 DEF p
<1>12. f[Digits + 1] \in Nat
  BY <1>1, <1>4 DEF Adds
<1>15. g[Digits + 1] = f[Digits + 1] + T
  BY <1>10, <1>11
<1> QED
  BY <1>1, <1>2, <1>12, <1>15 DEF T

---------------------------------------------------------------------------
(* The counts of P1 and the offsets of P2 *)

CountsInv ==
  /\ phase \in {"P1", "P3", "scanned"} => counts \in Seq(Nat) /\ Len(counts) # 0
  /\ phase \in {"P3", "scanned"} => offsets = prescanArray[counts]

LEMMA BlocksAre ==
  \E q \in Nat : q = (N - 1) \div BlockDim /\ Blocks = 0..q /\ Cardinality(Blocks) = q + 1
<1> DEFINE n == N - 1
<1>1. n \in Nat /\ BlockDim \in Nat \ {0}
  BY SizeAssumption, GridAssumption
<1> HIDE DEF n
<1>2. PICK q, r \in Nat : q = n \div BlockDim
  BY <1>1, Quotient
<1>3. Blocks = 0..q
  BY <1>2 DEF Blocks, n
<1>4. Cardinality(0..q) = q + 1
  BY FS_Interval
<1> QED
  BY <1>2, <1>3, <1>4 DEF n

LEMMA PassingFinite ==
  ASSUME NEW b
  PROVE  /\ IsFiniteSet(Passing(b)) /\ Cardinality(Passing(b)) \in Nat
         /\ Passing(b) \subseteq 0..(BlockDim - 1)
<1>1. BlockDim - 1 \in Int /\ Passing(b) \in SUBSET (0..(BlockDim - 1))
  BY GridAssumption DEF Passing, Active
<1> QED
  BY <1>1, IntervalSubset

LEMMA CountsStart ==
  ASSUME StartGrid
  PROVE  CountsInv'
<1>1. PICK q \in Nat : Cardinality(Blocks) = q + 1
  BY BlocksAre
<1>2. counts' = [b \in 1..(q + 1) |-> 0] /\ phase' = "P1"
  BY <1>1 DEF StartGrid
<1>3. counts' \in Seq(Nat) /\ Len(counts') = q + 1
  BY <1>2
<1> QED
  BY <1>2, <1>3 DEF CountsInv

LEMMA CountsP1 ==
  ASSUME CountsInv, NEW b \in Blocks, encoderKernelP1(b)
  PROVE  CountsInv'
<1> DEFINE v == Cardinality(Passing(b))
<1>1. phase = "P1" /\ phase' = "P1" /\ counts' = [counts EXCEPT ![b + 1] = v]
  BY DEF encoderKernelP1
<1>2. v \in Nat
  BY PassingFinite
<1> HIDE DEF v
<1>3. counts \in Seq(Nat) /\ Len(counts) # 0
  BY <1>1 DEF CountsInv
<1>4. counts' \in Seq(Nat) /\ Len(counts') = Len(counts)
  <2> DEFINE n == Len(counts)
  <2>1. n \in Nat /\ counts \in [1..n -> Nat]
    BY <1>3
  <2> HIDE DEF n
  <2>2. counts' \in [1..n -> Nat]
    BY <1>1, <1>2, <2>1
  <2>3. counts' \in Seq(Nat) /\ Len(counts') = n
    BY <2>1, <2>2
  <2> QED
    BY <2>3 DEF n
<1> QED
  BY <1>1, <1>3, <1>4 DEF CountsInv

LEMMA CountsScan ==
  ASSUME NEW c \in ScanInputs, Scan(c)
  PROVE  CountsInv'
<1>1. c \in Seq(Nat) /\ c # <<>>
  BY ScanAssumption
<1>2. Len(c) # 0
  BY <1>1
<1>3. counts' = c /\ offsets' = prescanArray[c]
  BY DEF Scan
<1>4. offsets' = prescanArray[counts']
  BY <1>3
<1> QED
  BY <1>1, <1>2, <1>3, <1>4 DEF CountsInv

LEMMA CountsKept ==
  ASSUME CountsInv, UNCHANGED gridVars,
         phase' = phase \/ phase' \notin {"P1", "P3", "scanned"}
  PROVE  CountsInv'
<1>1. UNCHANGED <<counts, offsets>>
  BY DEF gridVars
<1>2. prescanArray[counts'] = prescanArray[counts]
  BY <1>1
<1> QED
  BY <1>1, <1>2 DEF CountsInv

\* The counts and offsets stay what P1 and P2 have made of them.
LEMMA CountsNext ==
  ASSUME CountsInv, [Next]_vars
  PROVE  CountsInv'
<1>0. Next \/ UNCHANGED vars
  OBVIOUS
<1>1. CASE CpuEncode
  <2>1. UNCHANGED gridVars /\ (phase' = phase \/ phase' = "sent")
    BY <1>1 DEF CpuEncode, EndEncode, Fetch, LoadFlag, Capture, Store
  <2> QED
    BY <2>1, CountsKept
<1>2. CASE Decode
  <2>1. UNCHANGED gridVars /\ (phase' = phase \/ phase' \in {"idle", "undefined"})
    BY <1>2 DEF Decode, EndDecode, DecodeRead, DecodeWrite
  <2> QED
    BY <2>1, CountsKept
<1>3. CASE Bitmap
  <2>1. UNCHANGED gridVars /\ (phase' = phase \/ phase' \in {"idle", "words"})
    BY <1>3 DEF Bitmap, EndBitmap, encodeBitmap, decodeBitmap
  <2> QED
    BY <2>1, CountsKept
<1>4. CASE Grid
  <2>1. CASE encodeThresholdP2
    <3>1. phase = "P1" /\ UNCHANGED counts /\ offsets' = prescanArray[counts]
      BY <2>1 DEF encodeThresholdP2
    <3>2. counts' \in Seq(Nat) /\ Len(counts') # 0
      BY <3>1 DEF CountsInv
    <3>3. offsets' = prescanArray[counts']
      BY <3>1
    <3> QED
      BY <3>2, <3>3 DEF CountsInv
  <2>2. CASE EndGrid
    <3>1. phase' = "sent"
      BY <2>2 DEF EndGrid
    <3> QED
      BY <3>1 DEF CountsInv
  <2>3. ASSUME NEW b \in Blocks, encoderKernelP3(b) PROVE CountsInv'
    BY <2>3, CountsKept DEF encoderKernelP3
  <2> QED
    BY <1>4, <2>1, <2>2, <2>3, CountsP1 DEF Grid
<1>5. CASE Call
  <2>1. CASE StartEncode \/ StartDecode \/ StartBitmap \/ \E g \in Inputs : Deposit(g)
    <3>1. UNCHANGED gridVars /\ (phase' = phase \/ phase' \in {"encode", "decode", "bitmap"})
      BY <2>1 DEF StartEncode, StartDecode, StartBitmap, Deposit
    <3> QED
      BY <3>1, CountsKept
  <2> QED
    BY <1>5, <2>1, CountsStart, CountsScan DEF Call
<1>6. CASE UNCHANGED vars
  <2>1. UNCHANGED gridVars /\ phase' = phase
    BY <1>6 DEF vars
  <2> QED
    BY <2>1, CountsKept
<1> QED
  BY <1>0, <1>1, <1>2, <1>3, <1>4, <1>5, <1>6 DEF Next

LEMMA CountsExact ==
  ASSUME CountsInv
  PROVE  ScanExact
<1> SUFFICES ASSUME phase \in {"P3", "scanned"}, Prefix(counts)[Len(counts)] <= pow2i[Mantissa],
                    NEW i \in DOMAIN counts
             PROVE  offsets[i] = Prefix(counts)[i - 1]
  BY DEF ScanExact
<1>1. counts \in Seq(Nat) /\ Len(counts) # 0 /\ offsets = prescanArray[counts]
  BY DEF CountsInv
<1>2. Exact(counts)
  BY <1>1, PrescanExact DEF Fitting
<1>3. i \in 1..Len(counts)
  BY <1>1
<1> QED
  BY <1>1, <1>2, <1>3 DEF Exact

\* For any number of blocks the tree scan of P2, recursive over the sums of the
\* blocks and through floats, gives every block the number of large elements before
\* it, as long as their total fits the mantissa of a float.
THEOREM CompressionScanExact == Spec => []ScanExact
<1>1. Init => CountsInv
  BY DEF Init, CountsInv
<1>2. CountsInv /\ [Next]_vars => CountsInv'
  BY CountsNext
<1>3. CountsInv => ScanExact
  BY CountsExact
<1> QED
  BY <1>1, <1>2, <1>3, PTL DEF Spec

---------------------------------------------------------------------------
(* Blocks, elements and ranks *)

InBlock(b) == {e \in pool : Home(e) = b}
Below(b) == {e \in pool : Home(e) < b}

\* The elements of a block are those that were large when encoding began.
Fixed(b) == \A e \in Elems : Home(e) = b => (Large(x, e) <=> e \in pool)

\* Every element belongs to one thread of one block.
LEMMA Place ==
  ASSUME NEW e \in Elems
  PROVE  /\ Home(e) \in Blocks /\ Home(e) \in Nat /\ e \in Nat
         /\ e - BlockDim * Home(e) \in Active(Home(e))
         /\ Tid(Home(e), e - BlockDim * Home(e)) = e
<1>1. e \in Nat /\ N \in Nat \ {0} /\ BlockDim \in Nat \ {0} /\ e <= N - 1 /\ N - 1 \in Nat
  BY SizeAssumption, GridAssumption DEF Elems
<1>2. PICK h, j \in Nat : /\ h = e \div BlockDim /\ j = e % BlockDim
                          /\ j < BlockDim /\ e = BlockDim * h + j
  BY <1>1, Quotient
<1>3. PICK q \in Nat : q = (N - 1) \div BlockDim /\ Blocks = 0..q
  BY BlocksAre
<1> DEFINE n == N - 1
<1>4. PICK q2, r \in Nat : q2 = n \div BlockDim /\ r < BlockDim /\ n = BlockDim * q2 + r
  BY <1>1, Quotient
<1>5. q2 = q
  BY <1>3, <1>4
<1>6. h <= q
  <2> SUFFICES ASSUME q < h PROVE FALSE
    OBVIOUS
  <2>1. BlockDim * q + BlockDim <= BlockDim * h
    BY <1>1, TimesMonotone
  <2> DEFINE u == BlockDim * q  v == BlockDim * h
  <2>2. u \in Nat /\ v \in Nat /\ u + BlockDim <= v /\ e = v + j /\ n = u + r
    BY <1>1, <1>2, <1>4, <1>5, <2>1
  <2>3. e <= n /\ r < BlockDim /\ r \in Nat /\ j \in Nat
    BY <1>1, <1>2, <1>4
  <2> HIDE DEF u, v, n
  <2> QED
    BY <1>1, <2>2, <2>3
<1>7. Home(e) = h
  BY <1>2 DEF Home
<1>8. e - BlockDim * h = j /\ h * BlockDim + j = e
  <2> DEFINE v == BlockDim * h
  <2>1. v \in Nat /\ e = v + j /\ h * BlockDim = v
    BY <1>1, <1>2
  <2> HIDE DEF v
  <2>2. e - v = j /\ v + j = e
    BY <1>1, <1>2, <2>1
  <2> QED
    BY <2>1, <2>2 DEF v
<1>9. j \in Active(h)
  BY <1>1, <1>2, <1>8 DEF Active, Tid
<1>10. e - BlockDim * Home(e) = j /\ h \in 0..q
  BY <1>2, <1>6, <1>7, <1>8
<1>11. Tid(h, j) = e
  BY <1>8 DEF Tid
<1> QED
  BY <1>1, <1>2, <1>3, <1>7, <1>9, <1>10, <1>11

\* Every active thread has one element, of its own block.
LEMMA Lane ==
  ASSUME NEW b \in Blocks, NEW j \in Active(b)
  PROVE  /\ b \in Nat /\ j \in Nat /\ Tid(b, j) \in Elems /\ Home(Tid(b, j)) = b
         /\ Tid(b, j) = BlockDim * b + j /\ BlockDim * b \in Nat
<1>1. b \in Nat
  BY BlocksAre
<1>2. BlockDim \in Nat \ {0} /\ N \in Nat \ {0}
  BY SizeAssumption, GridAssumption
<1>3. j \in Nat /\ j < BlockDim /\ Tid(b, j) < N
  BY <1>2 DEF Active
<1> DEFINE v == BlockDim * b
<1>4. v \in Nat /\ b * BlockDim = v
  BY <1>1, <1>2
<1>5. Tid(b, j) = v + j
  BY <1>4 DEF Tid
<1>6. (v + j) \div BlockDim = b
  BY <1>1, <1>2, <1>3, QuotientIs
<1> HIDE DEF v
<1>7. Tid(b, j) \in Elems
  BY <1>2, <1>3, <1>4, <1>5 DEF Elems
<1> QED
  BY <1>1, <1>3, <1>4, <1>5, <1>6, <1>7 DEF Home, v

\* The lanes of a block that pass, up to some lane, count the elements.
LEMMA Lanes ==
  ASSUME pool \subseteq Elems, NEW b \in Blocks, Fixed(b), NEW a \in Int
  PROVE  Cardinality({m \in Passing(b) : m < a}) =
           Cardinality({e \in InBlock(b) : e < BlockDim * b + a})
<1> DEFINE S == {m \in Passing(b) : m < a}
           T == {e \in InBlock(b) : e < BlockDim * b + a}
           v == BlockDim * b
<1>1. Passing(b) \subseteq 0..(BlockDim - 1) /\ IsFiniteSet(Passing(b))
  BY PassingFinite
<1>2. S \in SUBSET Int /\ IsFiniteSet(S)
  BY <1>1, FS_Subset
<1>3. v \in Nat
  BY BlocksAre, GridAssumption
<1>4. ASSUME NEW m \in S PROVE v + m \in T
  <2>1. m \in Active(b) /\ Large(x, Tid(b, m)) /\ m < a /\ m \in Nat
    BY <1>1 DEF Passing
  <2>2. Tid(b, m) \in Elems /\ Home(Tid(b, m)) = b /\ Tid(b, m) = v + m
    BY <2>1, Lane
  <2>3. v + m \in InBlock(b)
    BY <2>1, <2>2 DEF InBlock, Fixed
  <2> HIDE DEF v
  <2>4. v + m < v + a
    BY <1>3, <2>1
  <2> QED
    BY <2>3, <2>4 DEF v
<1>5. ASSUME NEW e \in T PROVE \E m \in S : v + m = e
  <2>1. e \in Elems /\ e \in pool /\ Home(e) = b /\ e < v + a
    BY DEF InBlock
  <2>2. e \in Nat /\ e - v \in Active(b) /\ Tid(b, e - v) = e
    BY <2>1, Place
  <2>3. Large(x, Tid(b, e - v))
    BY <2>1, <2>2 DEF Fixed
  <2>4. e - v \in Passing(b)
    BY <2>2, <2>3 DEF Passing
  <2> HIDE DEF v
  <2>5. e - v < a /\ v + (e - v) = e
    BY <1>3, <2>1, <2>2
  <2> QED
    BY <2>4, <2>5
<1> HIDE DEF S, T, v
<1>6. T = {v + m : m \in S}
  <2>1. \A e \in T : e \in {v + m : m \in S}
    BY <1>5
  <2> QED
    BY <1>4, <2>1
<1>7. Cardinality({v + m : m \in S}) = Cardinality(S)
  <2>1. v \in Int
    BY <1>3
  <2> QED
    BY <1>2, <2>1, Shifted, Zenon
<1> QED
  BY <1>6, <1>7 DEF S, T, v

LEMMA PoolFinite ==
  ASSUME pool \subseteq Elems, NEW S \in SUBSET pool
  PROVE  IsFiniteSet(S) /\ Cardinality(S) \in Nat /\ S \in SUBSET Elems
BY Finite, Constants

\* P1 counts the large elements of its block.
LEMMA BlockCount ==
  ASSUME pool \subseteq Elems, NEW b \in Blocks, Fixed(b)
  PROVE  Cardinality(Passing(b)) = Cardinality(InBlock(b))
<1> DEFINE a == BlockDim  v == BlockDim * b
<1>1. a \in Int /\ v \in Nat
  BY BlocksAre, GridAssumption
<1>2. Cardinality({m \in Passing(b) : m < a}) = Cardinality({e \in InBlock(b) : e < v + a})
  BY <1>1, Lanes
<1>3. {m \in Passing(b) : m < a} = Passing(b)
  BY <1>1, PassingFinite
<1>4. ASSUME NEW e \in InBlock(b) PROVE e < v + a
  <2>1. e \in Elems /\ Home(e) = b
    BY DEF InBlock
  <2>2. e \in Nat /\ e - v \in Active(b)
    BY <2>1, Place
  <2>3. e - v < a
    BY <1>1, <2>2 DEF Active
  <2> HIDE DEF v
  <2> QED
    BY <1>1, <2>2, <2>3
<1>5. {e \in InBlock(b) : e < v + a} = InBlock(b)
  BY <1>4
<1> QED
  BY <1>2, <1>3, <1>5

\* The elements before a block, and those before the next.
LEMMA BelowStep ==
  ASSUME pool \subseteq Elems, NEW b \in Nat
  PROVE  /\ Below(0) = {} /\ Cardinality(Below(b)) \in Nat /\ Cardinality(InBlock(b)) \in Nat
         /\ Cardinality(Below(b + 1)) = Cardinality(Below(b)) + Cardinality(InBlock(b))
<1>1. \A e \in pool : Home(e) \in Nat
  BY Place
<1>2. Below(b + 1) = Below(b) \cup InBlock(b) /\ Below(b) \cap InBlock(b) = {}
  BY <1>1 DEF Below, InBlock
<1>3. Below(0) = {}
  BY <1>1 DEF Below
<1>4. IsFiniteSet(Below(b)) /\ IsFiniteSet(InBlock(b))
  <2>1. Below(b) \in SUBSET pool /\ InBlock(b) \in SUBSET pool
    BY DEF Below, InBlock
  <2> QED
    BY <2>1, PoolFinite
<1> QED
  BY <1>2, <1>3, <1>4, DisjointUnion

LEMMA QuotientOrder ==
  ASSUME NEW p \in Nat \ {0}, NEW m \in Nat, NEW n \in Nat
  PROVE  /\ m \div p \in Nat /\ n \div p \in Nat
         /\ m \div p < n \div p => m < n
         /\ m <= n => m \div p <= n \div p
         /\ p * (m \div p) \in Nat /\ p * (m \div p) <= m /\ m <= p * (m \div p) + (p - 1)
<1>1. PICK q, r \in Nat : q = m \div p /\ r = m % p /\ r < p /\ m = p * q + r
  BY Quotient
<1>2. PICK q2, r2 \in Nat : q2 = n \div p /\ r2 = n % p /\ r2 < p /\ n = p * q2 + r2
  BY Quotient
<1>3. q < q2 => m < n
  <2> SUFFICES ASSUME q < q2 PROVE m < n
    OBVIOUS
  <2> DEFINE u == p * q  v == p * q2
  <2>1. u \in Nat /\ v \in Nat /\ u + p <= v
    BY TimesMonotone
  <2>2. m = u + r /\ n = v + r2 /\ r < p /\ r \in Nat /\ r2 \in Nat
    BY <1>1, <1>2
  <2> HIDE DEF u, v
  <2> QED
    BY <2>1, <2>2
<1>4. q2 < q => n < m
  <2> SUFFICES ASSUME q2 < q PROVE n < m
    OBVIOUS
  <2> DEFINE u == p * q  v == p * q2
  <2>1. u \in Nat /\ v \in Nat /\ v + p <= u
    BY TimesMonotone
  <2>2. m = u + r /\ n = v + r2 /\ r2 < p /\ r \in Nat /\ r2 \in Nat
    BY <1>1, <1>2
  <2> HIDE DEF u, v
  <2> QED
    BY <2>1, <2>2
<1>5. p * q \in Nat /\ p * q <= m /\ m <= p * q + (p - 1)
  <2> DEFINE u == p * q
  <2>1. u \in Nat
    OBVIOUS
  <2>2. m = u + r /\ r < p /\ r \in Nat
    BY <1>1
  <2> HIDE DEF u
  <2>3. u <= m /\ m <= u + (p - 1)
    BY <2>1, <2>2
  <2> QED
    BY <2>1, <2>3 DEF u
<1>6. m <= n => q <= q2
  BY <1>4
<1> QED
  BY <1>1, <1>2, <1>3, <1>5, <1>6

LEMMA ActiveDown ==
  ASSUME NEW b \in Blocks, NEW j \in Active(b), NEW m \in Nat, m <= j
  PROVE  m \in Active(b)
<1> DEFINE v == b * BlockDim
<1>1. v \in Nat /\ BlockDim \in Nat \ {0} /\ N \in Nat
  BY BlocksAre, GridAssumption, SizeAssumption
<1>2. j \in 0..(BlockDim - 1) /\ v + j < N
  BY DEF Active, Tid
<1> HIDE DEF v
<1>3. m \in 0..(BlockDim - 1) /\ v + m < N
  BY <1>1, <1>2
<1> QED
  BY <1>3 DEF Active, Tid, v

\* The total of a warp whose last lane is active.
LEMMA WarpTotalIs ==
  ASSUME NEW b \in Blocks, NEW w \in Nat, w * Warp + Warp - 1 \in Active(b), NEW junk
  PROVE  /\ WarpTotal(b, w, junk) = Cardinality({m \in Passing(b) : m \div Warp = w})
         /\ WarpTotal(b, w, junk) \in Nat /\ WarpTotal(b, w, junk) < pow2i[Digits + 1]
<1> DEFINE S == {m \in Passing(b) : m \div Warp = w}
           u == Warp * w
           W == Warp
<1>1. W \in Nat \ {0} /\ u \in Nat /\ Digits + 1 \in Nat /\ Warp < pow2i[Digits + 1] /\ Warp = W
  BY GridAssumption
<1>2. S \subseteq u..(u + (W - 1))
  <2> SUFFICES ASSUME NEW m \in S PROVE m \in u..(u + (W - 1))
    OBVIOUS
  <2>1. m \in Nat /\ m \div W = w
    BY PassingFinite
  <2>2. W * (m \div W) <= m /\ m <= W * (m \div W) + (W - 1)
    BY <1>1, <2>1, QuotientOrder
  <2>3. W * (m \div W) = u
    BY <2>1
  <2> HIDE DEF u, W
  <2> QED
    BY <1>1, <2>1, <2>2, <2>3
<1> HIDE DEF S, u
<1>3. IsFiniteSet(u..(u + (W - 1))) /\ Cardinality(u..(u + (W - 1))) = W
  <2> HIDE DEF W
  <2>1. u \in Int /\ u + (W - 1) \in Int /\ (u + (W - 1)) - u + 1 = W /\ u <= u + (W - 1)
    BY <1>1
  <2> QED
    BY <2>1, FS_Interval
<1>4. Cardinality(S) \in Nat /\ Cardinality(S) <= W
  <2>1. IsFiniteSet(S) /\ Cardinality(S) <= Cardinality(u..(u + (W - 1)))
    BY <1>2, <1>3, FS_Subset
  <2> QED
    BY <1>3, <2>1, FS_CardinalityType
<1>5. WarpTotal(b, w, junk) = Cardinality(S)
  BY DEF WarpTotal, S
<1>6. pow2i[Digits + 1] \in Nat
  BY <1>1, PowerType
<1>7. Cardinality(S) < pow2i[Digits + 1]
  BY <1>1, <1>4, <1>6
<1> QED
  BY <1>4, <1>5, <1>7 DEF S

\* The offset of a warp is the number of passing lanes in the warps before it, which
\* are full when the warp has an active lane.
LEMMA WarpOffsetExact ==
  ASSUME NEW b \in Blocks, NEW j \in Active(b), NEW junk
  PROVE  WarpOffset(b, j \div Warp, junk) =
           Cardinality({m \in Passing(b) : m \div Warp < j \div Warp})
<1> DEFINE J == j \div Warp
           C(w) == {m \in Passing(b) : m \div Warp < w}
           E(w) == {m \in Passing(b) : m \div Warp = w}
           S == {w \in Nat : w <= J => WarpOffset(b, w, junk) = Cardinality(C(w))}
<1>1. Warp \in Nat \ {0} /\ j \in Nat /\ Passing(b) \subseteq Nat /\ IsFiniteSet(Passing(b))
  BY GridAssumption, PassingFinite, Lane
<1>2. J \in Nat /\ Warp * J <= j /\ Warp * J \in Nat
  BY <1>1, QuotientOrder
<1>3. \A m \in Passing(b) : m \div Warp \in Nat
  BY <1>1, QuotientOrder
<1>4. ASSUME NEW w \in Nat, w < J PROVE w * Warp + Warp - 1 \in Active(b)
  <2> DEFINE u == Warp * w  v == Warp * J
  <2>1. u \in Nat /\ v \in Nat /\ u + Warp <= v /\ w * Warp = u
    BY <1>1, <1>2, <1>4, TimesMonotone
  <2>2. v <= j
    BY <1>2
  <2> HIDE DEF u, v
  <2>3. u + Warp - 1 \in Nat /\ u + Warp - 1 <= j
    BY <1>1, <2>1, <2>2
  <2>4. w * Warp + Warp - 1 \in Nat /\ w * Warp + Warp - 1 <= j
    BY <2>1, <2>3
  <2> QED
    BY <2>4, ActiveDown
<1>5. \A w : IsFiniteSet(C(w)) /\ IsFiniteSet(E(w))
  BY <1>1, FS_Subset
<1>6. WarpOffset(b, 0, junk) = 0
  BY WarpOffsetNone
<1>7. 0 \in S
  <2>1. C(0) = {}
    BY <1>3
  <2> QED
    BY <1>6, <2>1, FS_EmptySet
<1> HIDE DEF C, E, J
<1>8. ASSUME NEW w \in Nat, w \in S PROVE w + 1 \in S
  <2> SUFFICES ASSUME w + 1 <= J PROVE WarpOffset(b, w + 1, junk) = Cardinality(C(w + 1))
    OBVIOUS
  <2>1. w < J
    BY <1>2
  <2>2. WarpOffset(b, w, junk) = Cardinality(C(w))
    BY <1>2, <1>8, <2>1
  <2>3. w * Warp + Warp - 1 \in Active(b)
    BY <1>4, <2>1
  <2>4. /\ WarpTotal(b, w, junk) = Cardinality(E(w))
        /\ WarpTotal(b, w, junk) \in Nat /\ WarpTotal(b, w, junk) < pow2i[Digits + 1]
    BY <2>3, WarpTotalIs DEF E
  <2>5. WarpOffset(b, w + 1, junk) = WarpOffset(b, w, junk) + WarpTotal(b, w, junk)
    BY <2>4, WarpOffsetStep
  <2>6. C(w + 1) = C(w) \cup E(w) /\ C(w) \cap E(w) = {}
    BY <1>3 DEF C, E
  <2>7. Cardinality(C(w + 1)) = Cardinality(C(w)) + Cardinality(E(w))
    BY <1>5, <2>6, DisjointUnion
  <2> QED
    BY <2>2, <2>4, <2>5, <2>7
<1>9. J \in S
  <2> HIDE DEF S, J
  <2>1. Nat \subseteq S
    BY <1>7, <1>8, Induction
  <2> QED
    BY <1>2, <2>1
<1>10. WarpOffset(b, J, junk) = Cardinality(C(J))
  BY <1>2, <1>9
<1> QED
  BY <1>10 DEF C, J

\* P3 puts an element where its rank among the large elements of the array says.
LEMMA PositionIs ==
  ASSUME pool \subseteq Elems, NEW b \in Blocks, Fixed(b), NEW j \in Passing(b), NEW junk,
         offsets[b + 1] = Cardinality(Below(b))
  PROVE  Position(b, j, junk) = Rank(Tid(b, j)) /\ Rank(Tid(b, j)) \in Nat
<1> DEFINE J == j \div Warp
           C == {m \in Passing(b) : m \div Warp < J}
           E == {m \in Passing(b) : m \div Warp = J /\ m < j}
           F == {m \in Passing(b) : m < j}
           e == Tid(b, j)
           G == {f \in InBlock(b) : f < e}
           H == {f \in pool : f < e}
<1>1. /\ Warp \in Nat \ {0} /\ BlockDim \in Nat \ {0}
      /\ Passing(b) \subseteq Nat /\ IsFiniteSet(Passing(b))
  BY GridAssumption, PassingFinite
<1>2. j \in Active(b) /\ j \in Nat
  BY <1>1 DEF Passing
<1>3. e = BlockDim * b + j /\ e \in Elems /\ Home(e) = b /\ e \in Nat /\ b \in Nat
  BY <1>2, Lane, Place
<1>4. F = C \cup E /\ C \cap E = {}
  <2>1. ASSUME NEW m \in Passing(b)
        PROVE  /\ m < j <=> (m \div Warp < J \/ (m \div Warp = J /\ m < j))
               /\ ~(m \div Warp < J /\ m \div Warp = J)
    <3> DEFINE k == m \div Warp
    <3>1. m \in Nat
      BY <1>1
    <3>2. k \in Nat /\ J \in Nat /\ (k < J => m < j) /\ (m <= j => k <= J)
      BY <1>1, <1>2, <3>1, QuotientOrder
    <3> HIDE DEF J, k
    <3>3. (m < j <=> (k < J \/ (k = J /\ m < j))) /\ ~(k < J /\ k = J)
      BY <1>2, <3>1, <3>2
    <3> QED
      BY <3>3 DEF k
  <2> HIDE DEF J
  <2> QED
    BY <2>1
<1>5. /\ Cardinality(F) = Cardinality(C) + Cardinality(E)
      /\ Cardinality(C) \in Nat /\ Cardinality(E) \in Nat
  <2>1. IsFiniteSet(C) /\ IsFiniteSet(E)
    BY <1>1, FS_Subset
  <2> HIDE DEF C, E, F
  <2> QED
    BY <1>4, <2>1, DisjointUnion
<1>6. WarpOffset(b, J, junk) = Cardinality(C) /\ Before(b, j) = Cardinality(E)
  BY <1>2, WarpOffsetExact DEF Before
<1>7. Cardinality(F) = Cardinality(G)
  <2>1. j \in Int
    BY <1>2
  <2>2. Cardinality(F) = Cardinality({f \in InBlock(b) : f < BlockDim * b + j})
    BY <2>1, Lanes
  <2> QED
    BY <1>3, <2>2
<1>8. H = Below(b) \cup G /\ Below(b) \cap G = {}
  <2>1. ASSUME NEW f \in pool
        PROVE  Home(f) \in Nat /\ (Home(f) < b => f < e) /\ (f < e => Home(f) <= b)
    <3>1. f \in Nat
      BY Place
    <3>2. /\ f \div BlockDim \in Nat
          /\ f \div BlockDim < e \div BlockDim => f < e
          /\ f <= e => f \div BlockDim <= e \div BlockDim
      BY <1>1, <1>3, <3>1, QuotientOrder
    <3>3. f \div BlockDim = Home(f) /\ e \div BlockDim = b
      BY <1>3 DEF Home
    <3> HIDE DEF e
    <3> QED
      BY <1>3, <3>1, <3>2, <3>3
  <2>2. \A f \in pool : f < e <=> (Home(f) < b \/ (Home(f) = b /\ f < e))
    <3> HIDE DEF e
    <3> QED
      BY <1>3, <2>1
  <2>3. \A f \in pool : ~(Home(f) < b /\ Home(f) = b)
    BY <1>3
  <2> QED
    BY <2>2, <2>3 DEF Below, InBlock
<1>9. Cardinality(H) = Cardinality(Below(b)) + Cardinality(G) /\ Cardinality(Below(b)) \in Nat
      /\ Cardinality(G) \in Nat
  <2>1. Below(b) \in SUBSET pool /\ G \in SUBSET pool
    BY DEF Below, InBlock
  <2>2. IsFiniteSet(Below(b)) /\ IsFiniteSet(G)
    BY <2>1, PoolFinite
  <2> HIDE DEF G, H
  <2> QED
    BY <1>8, <2>2, DisjointUnion
<1>10. Rank(e) = Cardinality(H)
  BY DEF Rank
<1> HIDE DEF C, E, F, G, H
<1>11. Position(b, j, junk) = Cardinality(E) + Cardinality(C) + Cardinality(Below(b))
  BY <1>6 DEF Position
<1> QED
  BY <1>5, <1>7, <1>9, <1>10, <1>11

\* The ranks of n large elements are the numbers below n, each of one element.
LEMMA Ranks ==
  ASSUME pool \subseteq Elems
  PROVE  /\ Cardinality(pool) \in 0..N
         /\ \A e \in pool : Rank(e) \in Nat /\ Rank(e) < Cardinality(pool)
         /\ \A e, f \in pool : e # f => Rank(e) # Rank(f)
         /\ \A k \in 0..(Cardinality(pool) - 1) : \E e \in pool : Rank(e) = k
<1> DEFINE n == Cardinality(pool)
           B(e) == {f \in pool : f < e}
           R == {Rank(e) : e \in pool}
           r == [e \in pool |-> Rank(e)]
<1>1. IsFiniteSet(pool) /\ n \in 0..N /\ n \in Nat /\ pool \subseteq Nat
  BY Finite, Constants
<1>2. \A e : IsFiniteSet(B(e)) /\ Cardinality(B(e)) \in Nat
  BY PoolFinite
<1>3. \A e : Rank(e) = Cardinality(B(e))
  BY DEF Rank
<1>4. ASSUME NEW e \in pool, NEW T \in SUBSET pool, B(e) \subseteq T, e \in T
      PROVE  Rank(e) < Cardinality(T)
  <2>1. IsFiniteSet(T) /\ Cardinality(T) \in Nat
    BY PoolFinite
  <2>2. e \notin B(e)
    BY <1>1
  <2> HIDE DEF B
  <2>3. Cardinality(B(e)) <= Cardinality(T) /\ (Cardinality(T) = Cardinality(B(e)) => T = B(e))
    BY <1>4, <2>1, FS_Subset
  <2>4. Cardinality(B(e)) < Cardinality(T)
    BY <1>2, <1>4, <2>1, <2>2, <2>3
  <2> QED
    BY <1>3, <2>4
<1>5. \A e \in pool : Rank(e) \in Nat /\ Rank(e) < n
  BY <1>2, <1>3, <1>4
<1>6. ASSUME NEW e \in pool, NEW f \in pool, e < f PROVE Rank(e) < Rank(f)
  <2>t. ASSUME NEW d \in B(e) PROVE d \in B(f)
    <3>1. d \in Nat /\ e \in Nat /\ f \in Nat /\ d < e /\ e < f /\ d \in pool
      BY <1>1, <1>6
    <3>2. d < f
      BY <3>1
    <3> QED
      BY <3>1, <3>2
  <2>1. B(f) \in SUBSET pool /\ B(e) \subseteq B(f) /\ e \in B(f)
    BY <1>6, <2>t
  <2> HIDE DEF B
  <2> QED
    BY <1>3, <1>4, <2>1
<1>7. \A e, f \in pool : e # f => Rank(e) # Rank(f)
  <2> SUFFICES ASSUME NEW e \in pool, NEW f \in pool, e # f PROVE Rank(e) # Rank(f)
    OBVIOUS
  <2>1. e \in Nat /\ f \in Nat /\ Rank(e) \in Nat /\ Rank(f) \in Nat
    BY <1>1, <1>5
  <2>2. e < f \/ f < e
    BY <2>1
  <2> QED
    BY <1>6, <2>1, <2>2
<1>8. ExistsBijection(pool, R)
  <2>1. r \in [pool -> R] /\ \A e \in pool : r[e] = Rank(e)
    OBVIOUS
  <2>2. \A k \in R : \E e \in pool : Rank(e) = k
    OBVIOUS
  <2> HIDE DEF r, R
  <2>3. r \in Injection(pool, R)
    BY <1>7, <2>1 DEF Injection, IsInjective
  <2>4. r \in Surjection(pool, R)
    BY <2>1, <2>2 DEF Surjection
  <2> QED
    BY <2>3, <2>4 DEF ExistsBijection, Bijection
<1>9. R = 0..(n - 1)
  <2>1. IsFiniteSet(0..(n - 1)) /\ Cardinality(0..(n - 1)) = n
    BY <1>1, FS_Interval
  <2>2. R \in SUBSET (0..(n - 1))
    BY <1>1, <1>5
  <2>3. Cardinality(R) = n
    BY <1>1, <1>8, FS_Bijection
  <2> HIDE DEF R, n
  <2> QED
    BY <2>1, <2>2, <2>3, FS_Subset
<1> QED
  BY <1>1, <1>5, <1>7, <1>9

\* What P2 is given once P1 has counted all blocks.
Tallied == /\ counts \in [1..Cardinality(Blocks) -> Nat]
           /\ \A b \in Blocks : counts[b + 1] = Cardinality(InBlock(b))

LEMMA Tally ==
  ASSUME pool \subseteq Elems, Tallied
  PROVE  /\ counts \in Seq(Nat) /\ Len(counts) = Cardinality(Blocks) /\ Len(counts) # 0
         /\ \A b \in Blocks : b + 1 \in 1..Len(counts) /\ Prefix(counts)[b] = Cardinality(Below(b))
         /\ Prefix(counts)[Len(counts)] = Cardinality(pool)
<1>1. PICK q \in Nat : Blocks = 0..q /\ Cardinality(Blocks) = q + 1
  BY BlocksAre
<1> DEFINE n == q + 1
           P == Prefix(counts)
           S == {k \in Nat : k <= n => P[k] = Cardinality(Below(k))}
<1>n. n \in Nat \ {0}
  OBVIOUS
<1>2. counts \in [1..n -> Nat] /\ counts \in Seq(Nat) /\ Len(counts) = n
  <2>1. counts \in [1..n -> Nat]
    BY <1>1 DEF Tallied
  <2> HIDE DEF n
  <2> QED
    BY <1>n, <2>1
<1>3. Sums(P, counts, n)
  BY <1>2, PrefixSums
<1> HIDE DEF P
<1>4. P[0] = 0 /\ \A k \in 1..n : P[k] = P[k - 1] + counts[k]
  BY <1>3 DEF Sums
<1>5. 0 \in S
  <2>1. Cardinality(Below(0)) = 0
    BY BelowStep, FS_EmptySet
  <2> QED
    BY <1>4, <2>1
<1>6. ASSUME NEW k \in Nat, k \in S PROVE k + 1 \in S
  <2> SUFFICES ASSUME k + 1 <= n PROVE P[k + 1] = Cardinality(Below(k + 1))
    OBVIOUS
  <2>1. k \in Blocks /\ k + 1 \in 1..n /\ (k + 1) - 1 = k /\ k <= n
    BY <1>1
  <2>2. P[k + 1] = P[k] + counts[k + 1]
    BY <1>4, <2>1
  <2>3. P[k] = Cardinality(Below(k))
    BY <1>6, <2>1
  <2>4. counts[k + 1] = Cardinality(InBlock(k))
    BY <2>1 DEF Tallied
  <2> QED
    BY <2>2, <2>3, <2>4, BelowStep
<1>7. \A k \in Nat : k <= n => P[k] = Cardinality(Below(k))
  <2>1. Nat \subseteq S
    <3> HIDE DEF S
    <3> QED
      BY <1>5, <1>6, Induction
  <2> QED
    BY <2>1
<1>8. Below(n) = pool
  <2>1. ASSUME NEW e \in pool PROVE Home(e) < n
    <3>1. Home(e) \in 0..q
      BY <1>1, Place
    <3> QED
      BY <3>1
  <2> QED
    BY <2>1 DEF Below
<1>9. \A b \in Blocks : b + 1 \in 1..n /\ P[b] = Cardinality(Below(b))
  BY <1>1, <1>7
<1>10. P[n] = Cardinality(pool)
  BY <1>7, <1>8
<1> QED
  BY <1>1, <1>2, <1>9, <1>10 DEF P

\* The offsets are exact as long as the elements can be counted in a float.
LEMMA Offsets ==
  ASSUME pool \subseteq Elems, Tallied, N <= pow2i[Mantissa]
  PROVE  \A b \in Blocks : prescanArray[counts][b + 1] = Cardinality(Below(b))
<1>1. /\ counts \in Seq(Nat) /\ Len(counts) # 0 /\ Len(counts) \in Nat
      /\ \A b \in Blocks : b + 1 \in 1..Len(counts) /\ Prefix(counts)[b] = Cardinality(Below(b))
      /\ Prefix(counts)[Len(counts)] = Cardinality(pool)
  BY Tally
<1>2. Prefix(counts)[Len(counts)] <= pow2i[Mantissa]
  <2>1. Cardinality(pool) \in 0..N /\ N \in Nat /\ pow2i[Mantissa] \in Nat
    BY Ranks, Constants, ScanAssumption, PowerType
  <2> QED
    BY <1>1, <2>1
<1>3. Exact(counts)
  BY <1>1, <1>2, PrescanExact DEF Fitting
<1>4. \A b \in Blocks : b \in Nat /\ (b + 1) - 1 = b
  BY BlocksAre
<1> QED
  BY <1>1, <1>3, <1>4 DEF Exact

---------------------------------------------------------------------------
(* The blocks of a grid, in any order *)

Counting ==
  phase = "P1" =>
    /\ pool = LargeIn(x, Elems)
    /\ counts \in [1..Cardinality(Blocks) -> Nat]
    /\ \A b \in Blocks \ todo : counts[b + 1] = Cardinality(InBlock(b))
    /\ sum = Cardinality(Finished)

Placing ==
  phase = "P3" =>
    /\ limit \in 1..Cardinality(pool)
    /\ \A b \in todo : Fixed(b)
    /\ \A b \in Blocks : offsets[b + 1] = Cardinality(Below(b))
    /\ \A e \in Finished : Rank(e) < limit => Target(Rank(e)) = e

GridInv ==
  /\ phase \in {"P1", "P3"} => todo \subseteq Blocks
  /\ Counting /\ Placing

\* No step but those of a grid has to do with it.
LEMMA OffGrid ==
  ASSUME phase' \notin {"P1", "P3"}
  PROVE  GridInv'
BY DEF GridInv, Counting, Placing

\* Steps that keep what the grid has done.
LEMMA GridKept ==
  ASSUME GridInv, phase' = phase, UNCHANGED <<x, z, limit, pool, todo, counts, sum, offsets>>
  PROVE  GridInv'
<1>1. /\ Finished' = Finished
      /\ \A b : InBlock(b)' = InBlock(b) /\ Below(b)' = Below(b) /\ (Fixed(b)' <=> Fixed(b))
      /\ (\A e : Rank(e)' = Rank(e)) /\ (\A k : Target(k)' = Target(k))
      /\ LargeIn(x', Elems) = LargeIn(x, Elems)
  BY DEF Finished, InBlock, Below, Fixed, Rank, Home, Large, Target
<1> QED
  BY <1>1 DEF GridInv, Counting, Placing

\* While nothing is held the sender and the receiver have what is due.
LEMMA GridFrame ==
  ASSUME IndInv, phase \in {"idle", "P1"}, phase' \in {"idle", "P1", "P3", "scanned"},
         Held' = {}, pool' \subseteq Elems, limit' \in 0..N,
         UNCHANGED encodeVars, UNCHANGED <<x, y, due, z, reading, words>>
  PROVE  IndInv'
<1>1. Held = {} /\ reading = {}
  BY AtRest
<1>2. TypeInv'
  BY DEF IndInv, TypeInv, encodeVars
<1>3. Teams' /\ Untouched' /\ Counted'
  BY TeamsKept
<1>4. Slots' /\ Reading' /\ Bitmaps'
  BY <1>1 DEF Slots, Reading, Bitmaps
<1>5. Balance'
  BY <1>1 DEF IndInv, Balance
<1> QED
  BY <1>2, <1>3, <1>4, <1>5 DEF IndInv

\* The grid of P1 is launched.
LEMMA StartGridInv ==
  ASSUME IndInv, GridInv, StartGrid
  PROVE  IndInv' /\ GridInv'
<1>1. /\ phase = "idle" /\ phase' = "P1" /\ todo' = Blocks /\ pool' = LargeIn(x, Elems)
      /\ counts' = [b \in 1..Cardinality(Blocks) |-> 0] /\ sum' = 0
      /\ UNCHANGED encodeVars /\ UNCHANGED <<x, y, due, z, limit, reading, words>>
  BY DEF StartGrid
<1>2. Held' = {} /\ pool' \subseteq Elems /\ limit' \in 0..N
  BY <1>1 DEF Held, LargeIn, IndInv, TypeInv
<1>3. IndInv'
  BY <1>1, <1>2, GridFrame
<1>4. Finished' = {}
  <2>1. \A e \in pool' : Home(e) \in Blocks
    BY <1>2, Place
  <2> QED
    BY <1>1, <2>1 DEF Finished, Home
<1>5. counts' \in [1..Cardinality(Blocks) -> Nat]
  BY <1>1
<1>6. Cardinality(Finished') = 0
  BY <1>4, FS_EmptySet
<1>7. GridInv'
  BY <1>1, <1>4, <1>5, <1>6 DEF GridInv, Counting, Placing
<1> QED
  BY <1>3, <1>7

\* What a block adds to the blocks that have run.
LEMMA FinishedStep ==
  ASSUME pool \subseteq Elems, NEW b \in todo, todo' = todo \ {b}, pool' = pool
  PROVE  /\ Finished' = Finished \cup InBlock(b) /\ Finished \cap InBlock(b) = {}
         /\ Cardinality(Finished') = Cardinality(Finished) + Cardinality(InBlock(b))
         /\ \A c : InBlock(c)' = InBlock(c) /\ Below(c)' = Below(c)
         /\ \A e : Rank(e)' = Rank(e)
<1>1. Finished' = Finished \cup InBlock(b) /\ Finished \cap InBlock(b) = {}
  BY DEF Finished, InBlock, Home
<1>2. IsFiniteSet(Finished) /\ IsFiniteSet(InBlock(b))
  BY PoolFinite DEF Finished, InBlock
<1>3. \A c : InBlock(c)' = InBlock(c) /\ Below(c)' = Below(c)
  BY DEF InBlock, Below, Home
<1>4. \A e : Rank(e)' = Rank(e)
  BY DEF Rank
<1> QED
  BY <1>1, <1>2, <1>3, <1>4, DisjointUnion

\* encoderKernelP1 of one block, whichever blocks have run.
LEMMA P1Inv ==
  ASSUME IndInv, GridInv, NEW b \in Blocks, encoderKernelP1(b)
  PROVE  IndInv' /\ GridInv'
<1> DEFINE v == Cardinality(Passing(b))
<1>1. /\ phase = "P1" /\ phase' = "P1" /\ b \in todo /\ todo' = todo \ {b}
      /\ counts' = [counts EXCEPT ![b + 1] = v] /\ sum' = sum + v
      /\ UNCHANGED encodeVars /\ UNCHANGED <<x, y, due, z, limit, pool, reading, words>>
  BY DEF encoderKernelP1, callVars, messageVars
<1>2. Held' = {} /\ pool \subseteq Elems /\ pool' \subseteq Elems /\ limit' \in 0..N
  BY <1>1 DEF Held, IndInv, TypeInv
<1>3. IndInv'
  BY <1>1, <1>2, GridFrame
<1>4. Fixed(b)
  BY <1>1 DEF GridInv, Counting, Fixed, LargeIn
<1>5. v = Cardinality(InBlock(b))
  BY <1>2, <1>4, BlockCount
<1>6. v \in Nat
  BY PassingFinite
<1> HIDE DEF v
<1>7. /\ Cardinality(Finished') = Cardinality(Finished) + v
      /\ \A c : InBlock(c)' = InBlock(c)
  BY <1>1, <1>2, <1>5, FinishedStep
<1>8. counts \in [1..Cardinality(Blocks) -> Nat] /\ b + 1 \in 1..Cardinality(Blocks) /\ b \in Nat
      /\ \A c \in Blocks : c \in Nat
  BY <1>1, BlocksAre DEF GridInv, Counting
<1>9. counts' \in [1..Cardinality(Blocks) -> Nat]
  BY <1>1, <1>6, <1>8
<1>10. \A c \in Blocks \ todo' : counts'[c + 1] = Cardinality(InBlock(c))
  <2> SUFFICES ASSUME NEW c \in Blocks \ todo' PROVE counts'[c + 1] = Cardinality(InBlock(c))
    OBVIOUS
  <2>1. CASE c = b
    BY <1>1, <1>5, <1>8, <2>1
  <2>2. CASE c # b
    <3>1. c + 1 # b + 1 /\ c \notin todo
      BY <1>1, <1>8, <2>2
    <3>2. counts'[c + 1] = counts[c + 1]
      BY <1>1, <1>8, <3>1
    <3> QED
      BY <1>1, <3>1, <3>2 DEF GridInv, Counting
  <2> QED
    BY <2>1, <2>2
<1>11. pool' = LargeIn(x', Elems) /\ sum' = Cardinality(Finished') /\ todo' \subseteq Blocks
  BY <1>1, <1>7 DEF GridInv, Counting
<1>12. GridInv'
  BY <1>1, <1>7, <1>9, <1>10, <1>11 DEF GridInv, Counting, Placing
<1> QED
  BY <1>3, <1>12

\* encodeThresholdP2, and the caller between the kernels.
LEMMA P2Inv ==
  ASSUME IndInv, GridInv, N <= pow2i[Mantissa], encodeThresholdP2
  PROVE  IndInv' /\ GridInv'
<1>1. /\ phase = "P1" /\ todo = {} /\ offsets' = prescanArray[counts]
      /\ UNCHANGED encodeVars /\ UNCHANGED <<x, y, due, z, pool, reading, words>>
  BY DEF encodeThresholdP2, callVars
<1>2. pool \subseteq Elems /\ limit \in 0..N /\ pool = LargeIn(x, Elems)
  BY <1>1 DEF IndInv, TypeInv, GridInv, Counting
<1>3. sum = Cardinality(pool) /\ Cardinality(pool) \in 0..N
  <2>1. Finished = pool
    BY <1>1 DEF Finished
  <2> QED
    BY <1>1, <1>2, <2>1, Ranks DEF GridInv, Counting
<1>4. CASE phase' = "idle" /\ UNCHANGED <<limit, todo>>
  <2>1. Held' = {} /\ pool' \subseteq Elems /\ limit' \in 0..N
    BY <1>1, <1>2, <1>4 DEF Held
  <2> QED
    BY <1>1, <1>4, <2>1, GridFrame, OffGrid
<1>5. CASE phase' = "P3" /\ limit' \in 1..sum /\ todo' = Blocks
  <2>1. Finished' = {}
    <3>1. \A e \in pool' : Home(e) \in Blocks
      BY <1>1, <1>2, Place
    <3> QED
      BY <1>5, <3>1 DEF Finished, Home
  <2>2. Held' = {} /\ pool' \subseteq Elems /\ limit' \in 0..N
    <3>1. Held' = Written' /\ Written' = {}
      BY <1>5, <2>1 DEF Held, Written
    <3> QED
      BY <1>1, <1>2, <1>3, <1>5, <3>1, Constants
  <2>3. Tallied
    BY <1>1 DEF GridInv, Counting, Tallied
  <2>4. \A b \in Blocks : offsets'[b + 1] = Cardinality(Below(b))
    BY <1>1, <1>2, <2>3, Offsets
  <2>5. \A b : Below(b)' = Below(b) /\ Fixed(b)'
    BY <1>1, <1>2 DEF Below, Fixed, Home, Large, LargeIn
  <2>6. GridInv'
    BY <1>1, <1>3, <1>5, <2>1, <2>4, <2>5 DEF GridInv, Counting, Placing
  <2> QED
    BY <1>1, <1>5, <2>2, <2>6, GridFrame
<1> QED
  BY <1>4, <1>5 DEF encodeThresholdP2

\* The elements that a block of P3 puts into the message.
New(b) == {e \in InBlock(b) : Rank(e) < limit}

Puts(b) ==
  /\ x' \in [Elems -> Int] /\ z' \in [Elems -> Int]
  /\ \A e \in New(b) : x'[e] = x[e] - Amount(Entry(x, e)) /\ z'[Rank(e)] = Entry(x, e)
  /\ \A e \in Elems \ New(b) : x'[e] = x[e]
  /\ \A k \in Elems : (\A e \in New(b) : Rank(e) # k) => z'[k] = z[k]

\* encoderKernelP3 of one block, for any value that a warp without a total reads.
LEMMA P3Effect ==
  ASSUME IndInv, GridInv, NEW b \in Blocks, encoderKernelP3(b)
  PROVE  Puts(b)
<1>1. phase = "P3" /\ b \in todo
  BY DEF encoderKernelP3
<1>2. PICK junk \in 0..Warp :
       LET at == [j \in Passing(b) |-> Position(b, j, junk)]
           stored == {j \in Passing(b) : at[j] < limit}
       IN  /\ z' = [k \in DOMAIN z |-> IF \E j \in stored : at[j] = k
                                         THEN Entry(x, Tid(b, CHOOSE j \in stored : at[j] = k))
                                         ELSE z[k]]
           /\ x' = [e \in Elems |-> IF \E j \in stored : Tid(b, j) = e
                                      THEN x[e] - Amount(Entry(x, e)) ELSE x[e]]
  BY DEF encoderKernelP3
<1>3. /\ pool \subseteq Elems /\ limit \in 0..N /\ x \in [Elems -> Int] /\ z \in [Elems -> Int]
  BY DEF IndInv, TypeInv
<1>4. Fixed(b) /\ offsets[b + 1] = Cardinality(Below(b))
  BY <1>1 DEF GridInv, Placing
<1> DEFINE at == [j \in Passing(b) |-> Position(b, j, junk)]
           stored == {j \in Passing(b) : at[j] < limit}
           slot(k) == CHOOSE j \in stored : at[j] = k
<1>5. z' = [k \in Elems |-> IF \E j \in stored : at[j] = k THEN Entry(x, Tid(b, slot(k))) ELSE z[k]]
  BY <1>2, <1>3
<1>6. x' = [e \in Elems |-> IF \E j \in stored : Tid(b, j) = e
                               THEN x[e] - Amount(Entry(x, e)) ELSE x[e]]
  BY <1>2
<1>7. ASSUME NEW j \in Passing(b)
      PROVE  /\ Tid(b, j) \in InBlock(b) /\ Tid(b, j) \in Elems /\ Large(x, Tid(b, j))
             /\ at[j] = Rank(Tid(b, j))
  <2>1. j \in Active(b) /\ Large(x, Tid(b, j))
    BY DEF Passing
  <2>2. Tid(b, j) \in Elems /\ Home(Tid(b, j)) = b
    BY <2>1, Lane
  <2>3. Tid(b, j) \in InBlock(b)
    BY <1>4, <2>1, <2>2 DEF Fixed, InBlock
  <2>4. Position(b, j, junk) = Rank(Tid(b, j))
    BY <1>3, <1>4, PositionIs
  <2> QED
    BY <2>1, <2>2, <2>3, <2>4
<1> HIDE DEF at
<1>8. ASSUME NEW j \in stored
      PROVE  j \in Passing(b) /\ Tid(b, j) \in New(b) /\ at[j] = Rank(Tid(b, j))
  BY <1>7 DEF New
<1>9. ASSUME NEW e \in New(b) PROVE \E j \in stored : Tid(b, j) = e /\ at[j] = Rank(e)
  <2>1. e \in Elems /\ e \in pool /\ Home(e) = b /\ Rank(e) < limit
    BY <1>3 DEF New, InBlock
  <2>2. PICK j \in Active(b) : Tid(b, j) = e
    BY <2>1, Place
  <2>3. j \in Passing(b)
    BY <1>4, <2>1, <2>2 DEF Passing, Fixed
  <2> QED
    BY <1>7, <2>1, <2>2, <2>3
<1> HIDE DEF stored
<1>10. ASSUME NEW e \in Elems PROVE (\E j \in stored : Tid(b, j) = e) <=> e \in New(b)
  BY <1>8, <1>9
<1>11. x' = [e \in Elems |-> IF e \in New(b) THEN x[e] - Amount(Entry(x, e)) ELSE x[e]]
  BY <1>6, <1>10
<1>12. New(b) \subseteq pool /\ New(b) \subseteq Elems
  BY <1>3 DEF New, InBlock
<1>13. \A e \in New(b) : Large(x, e) /\ Entry(x, e) \in Int
  <2>1. \A e \in New(b) : Large(x, e)
    BY <1>7, <1>8, <1>9
  <2> QED
    BY <1>3, <1>12, <2>1, EntryFacts
<1>14. \A e \in Elems : x[e] - Amount(Entry(x, e)) \in Int /\ x[e] \in Int
  BY <1>3, AmountType
<1>15. x' \in [Elems -> Int]
  BY <1>11, <1>14
<1>16. ASSUME NEW k, \E j \in stored : at[j] = k
       PROVE  \E e \in New(b) : Rank(e) = k /\ Tid(b, slot(k)) = e
  <2>1. slot(k) \in stored /\ at[slot(k)] = k
    BY <1>16
  <2> HIDE DEF slot
  <2> QED
    BY <1>8, <2>1
<1> HIDE DEF slot
<1>17. \A e \in New(b) : Rank(e) \in Elems
  <2>1. \A e \in New(b) : Rank(e) \in Nat /\ Rank(e) < limit
    BY <1>3, <1>12, Ranks DEF New
  <2> QED
    BY <1>3, <2>1, Constants
<1>18. z' \in [Elems -> Int]
  <2>1. ASSUME NEW k \in Elems
        PROVE  (IF \E j \in stored : at[j] = k THEN Entry(x, Tid(b, slot(k))) ELSE z[k]) \in Int
    BY <1>3, <1>13, <1>16
  <2> QED
    BY <1>5, <2>1
<1>19. ASSUME NEW e \in New(b) PROVE z'[Rank(e)] = Entry(x, e)
  <2>1. \E j \in stored : at[j] = Rank(e)
    BY <1>9
  <2>2. PICK f \in New(b) : Rank(f) = Rank(e) /\ Tid(b, slot(Rank(e))) = f
    BY <1>16, <2>1
  <2>3. f = e
    BY <1>3, <1>12, <2>2, Ranks
  <2> QED
    BY <1>5, <1>17, <2>1, <2>2, <2>3
<1>20. ASSUME NEW k \in Elems, \A e \in New(b) : Rank(e) # k PROVE z'[k] = z[k]
  <2>1. ~\E j \in stored : at[j] = k
    BY <1>16, <1>20
  <2> QED
    BY <1>5, <2>1
<1> QED
  BY <1>11, <1>12, <1>15, <1>18, <1>19, <1>20 DEF Puts

\* The blocks of encoderKernelP3 may run in any order.
LEMMA P3Inv ==
  ASSUME IndInv, GridInv, NEW b \in Blocks, encoderKernelP3(b)
  PROVE  IndInv' /\ GridInv'
<1>1. /\ phase = "P3" /\ phase' = "P3" /\ b \in todo /\ todo' = todo \ {b}
      /\ UNCHANGED encodeVars
      /\ UNCHANGED <<y, due, limit, pool, reading, counts, sum, offsets, words>>
  BY DEF encoderKernelP3, callVars, gridVars
<1>2. /\ pool \subseteq Elems /\ limit \in 0..N /\ x \in [Elems -> Int] /\ z \in [Elems -> Int]
      /\ y \in [Elems -> Int] /\ due \in [Elems -> Int]
  BY DEF IndInv, TypeInv
<1>3. /\ x' \in [Elems -> Int] /\ z' \in [Elems -> Int]
      /\ \A e \in New(b) : x'[e] = x[e] - Amount(Entry(x, e)) /\ z'[Rank(e)] = Entry(x, e)
      /\ \A e \in Elems \ New(b) : x'[e] = x[e]
      /\ \A k \in Elems : (\A e \in New(b) : Rank(e) # k) => z'[k] = z[k]
  BY P3Effect DEF Puts
<1>4. /\ limit \in 1..Cardinality(pool) /\ \A c \in todo : Fixed(c)
      /\ \A c \in Blocks : offsets[c + 1] = Cardinality(Below(c))
      /\ \A e \in Finished : Rank(e) < limit => Target(Rank(e)) = e
      /\ todo \subseteq Blocks
  BY <1>1 DEF GridInv, Placing
<1>5. /\ Finished' = Finished \cup InBlock(b) /\ Finished \cap InBlock(b) = {}
      /\ \A c : Below(c)' = Below(c)
      /\ \A e : Rank(e)' = Rank(e)
  BY <1>1, <1>2, FinishedStep
<1>6. /\ \A e \in pool : Rank(e) \in Nat
      /\ \A e, f \in pool : e # f => Rank(e) # Rank(f)
  BY <1>2, Ranks
<1>7. New(b) \subseteq InBlock(b) /\ InBlock(b) \subseteq pool /\ Finished \subseteq pool
  BY DEF New, InBlock, Finished
<1>8. \A e \in pool : Rank(e) < limit => Rank(e) \in 0..(limit - 1) /\ Rank(e) \in Elems
  BY <1>2, <1>6, Constants
\* What is new in the message, and what was there.
<1>9. ASSUME NEW e \in New(b), NEW k, k = Rank(e)
      PROVE  /\ k \in 0..(limit - 1) /\ e \in Elems /\ e \in pool
             /\ Target(k)' = e /\ Was(k)' = x[e]
             /\ Abs(x[e]) >= Threshold /\ (x[e] > 0 <=> z'[k] > 0)
  <2>1. e \in pool /\ e \in Elems /\ Home(e) = b /\ k < limit /\ k \in 0..(limit - 1)
    BY <1>2, <1>8, <1>9 DEF New, InBlock
  <2>2. Large(x, e)
    BY <1>1, <1>4, <2>1 DEF Fixed
  <2>3. PICK en \in Int : en = Entry(x, e) /\ Abs(en) - 1 = e /\ (en > 0 <=> x[e] > 0)
    BY <1>2, <2>1, <2>2, EntryFacts
  <2>4. PICK am \in Int : am = Amount(en)
    BY AmountType
  <2>5. z'[k] = en /\ x'[e] = x[e] - am
    BY <1>3, <1>9, <2>3, <2>4
  <2>6. Target(k)' = e
    BY <2>3, <2>5 DEF Target
  <2>7. Was(k)' = x'[e] + am
    BY <2>4, <2>5, <2>6 DEF Was
  <2>8. x'[e] + am = x[e]
    BY <1>2, <2>1, <2>5
  <2> QED
    BY <2>1, <2>2, <2>3, <2>5, <2>6, <2>7, <2>8 DEF Large
<1>10. ASSUME NEW e \in Finished, NEW k, k = Rank(e), k < limit
       PROVE  /\ k \in 0..(limit - 1) /\ e \in Elems /\ e \in pool
              /\ Target(k) = e /\ Target(k)' = e /\ Was(k)' = Was(k)
              /\ z'[k] = z[k]
  <2>1. e \in pool /\ e \in Elems /\ k \in 0..(limit - 1) /\ k \in Elems
    BY <1>2, <1>7, <1>8, <1>10
  <2>2. \A f \in New(b) : f # e /\ f \in pool
    BY <1>5, <1>7
  <2>3. z'[k] = z[k]
    BY <1>3, <1>6, <1>10, <2>1, <2>2
  <2>4. x'[e] = x[e]
    BY <1>3, <2>1, <2>2
  <2>5. Target(k) = e
    BY <1>4, <1>10
  <2>6. Target(k)' = e
    BY <2>3, <2>5 DEF Target
  <2>7. Was(k)' = Was(k)
    BY <2>3, <2>4, <2>5, <2>6 DEF Was
  <2> QED
    BY <2>1, <2>3, <2>5, <2>6, <2>7
<1>11. Held = Written /\ Held' = Written'
  BY <1>1 DEF Held
<1>12. \A k \in Held : \E e \in Finished : Rank(e) = k /\ Rank(e) < limit
  BY <1>2, <1>11 DEF Written
<1>13. ASSUME NEW k \in Held'
       PROVE  (\E e \in Finished : Rank(e) = k /\ Rank(e) < limit) \/ \E e \in New(b) : Rank(e) = k
  <2>1. PICK e \in Finished' : Rank(e)' = k /\ k \in 0..(limit - 1)
    BY <1>1, <1>11 DEF Written
  <2>2. Rank(e) = k /\ Rank(e) < limit
    BY <1>2, <1>5, <2>1
  <2> QED
    BY <1>5, <2>1, <2>2 DEF New
<1>14. \A e \in Finished : Rank(e) < limit => Rank(e) \in Held
  BY <1>10, <1>11 DEF Written
<1>15. \A e \in Finished : Rank(e) < limit => Rank(e) \in Held'
  BY <1>1, <1>5, <1>10, <1>11 DEF Written
<1>16. \A e \in New(b) : Rank(e) \in Held'
  BY <1>1, <1>5, <1>7, <1>9, <1>11 DEF Written
<1>17. TypeInv'
  BY <1>1, <1>2, <1>3 DEF IndInv, TypeInv, encodeVars
<1>18. Teams' /\ Untouched' /\ Counted'
  BY <1>1, TeamsKept
<1>19. Reading' /\ Bitmaps'
  BY <1>1 DEF IndInv, Reading, Bitmaps
<1>20. Slots'
  <2>1. Held' \subseteq 0..(limit - 1)
    BY <1>1, <1>11 DEF Written
  <2>2. ASSUME NEW k \in Held'
        PROVE  /\ Target(k)' \in pool /\ Abs(Was(k)') >= Threshold /\ (Was(k)' > 0 <=> z'[k] > 0)
               /\ Target(k)' \in Finished' /\ Rank(Target(k)') = k
    <3>1. CASE \E e \in Finished : Rank(e) = k /\ Rank(e) < limit
      <4>1. PICK e \in Finished : Rank(e) = k /\ Rank(e) < limit
        BY <3>1
      <4>2. k \in Held /\ Target(k)' = e /\ Was(k)' = Was(k) /\ z'[k] = z[k] /\ Target(k) = e
        BY <1>10, <1>14, <4>1
      <4>3. Target(k) \in pool /\ Abs(Was(k)) >= Threshold /\ (Was(k) > 0 <=> z[k] > 0)
        BY <4>2 DEF IndInv, Slots
      <4> QED
        BY <1>5, <4>1, <4>2, <4>3
    <3>2. CASE \E e \in New(b) : Rank(e) = k
      BY <1>5, <1>7, <1>9, <3>2
    <3> QED
      BY <1>13, <3>1, <3>2
  <2>3. \A k, m \in Held' : k # m => Target(k)' # Target(m)'
    BY <2>2
  <2> QED
    BY <1>1, <2>1, <2>2, <2>3 DEF Slots
<1>21. Balance'
  <2>1. /\ \A k \in Held : Was(k) + y[Target(k)] = due[Target(k)]
        /\ \A e \in Elems : (\A k \in Held : Target(k) # e) => x[e] + y[e] = due[e]
    BY <1>1 DEF IndInv, Balance
  <2>2. ASSUME NEW e \in New(b) PROVE x[e] + y[e] = due[e]
    <3>1. ASSUME NEW k \in Held PROVE Target(k) # e
      <4>1. PICK f \in Finished : Rank(f) = k /\ Rank(f) < limit
        BY <1>12
      <4>2. Target(k) = f
        BY <1>10, <4>1
      <4> QED
        BY <1>5, <1>7, <4>2
    <3> QED
      BY <1>9, <2>1, <3>1
  <2>3. ASSUME NEW k \in Held' PROVE Was(k)' + y[Target(k)'] = due[Target(k)']
    <3>1. CASE \E e \in Finished : Rank(e) = k /\ Rank(e) < limit
      BY <1>10, <1>14, <2>1, <3>1
    <3>2. CASE \E e \in New(b) : Rank(e) = k
      BY <1>9, <2>2, <3>2
    <3> QED
      BY <1>13, <3>1, <3>2
  <2>4. ASSUME NEW e \in Elems, \A k \in Held' : Target(k)' # e PROVE x'[e] + y[e] = due[e]
    <3>1. e \notin New(b)
      BY <1>9, <1>16, <2>4
    <3>2. ASSUME NEW k \in Held PROVE Target(k) # e
      <4>1. PICK f \in Finished : Rank(f) = k /\ Rank(f) < limit
        BY <1>12
      <4>2. Target(k) = f /\ Target(k)' = f /\ k \in Held'
        BY <1>10, <1>15, <4>1
      <4> QED
        BY <2>4, <4>2
    <3>3. x'[e] = x[e]
      BY <1>3, <3>1
    <3> QED
      BY <2>1, <3>2, <3>3
  <2> QED
    BY <1>1, <2>3, <2>4 DEF Balance
<1>22. GridInv'
  <2>1. ASSUME NEW c \in todo' PROVE Fixed(c)'
    <3>1. c \in todo /\ c # b
      BY <1>1
    <3>2. ASSUME NEW e \in Elems, Home(e) = c PROVE x'[e] = x[e]
      <4>1. e \notin New(b)
        BY <3>1, <3>2 DEF New, InBlock
      <4> QED
        BY <1>3, <4>1
    <3> QED
      BY <1>1, <1>4, <3>1, <3>2 DEF Fixed, Large, Home
  <2>2. ASSUME NEW e \in Finished', Rank(e)' < limit' PROVE Target(Rank(e))' = e
    <3>1. PICK k : k = Rank(e)
      OBVIOUS
    <3>2. k < limit /\ k = Rank(e)' /\ (e \in Finished \/ e \in New(b))
      BY <1>1, <1>5, <2>2, <3>1 DEF New
    <3>3. Target(k)' = e
      BY <1>9, <1>10, <3>1, <3>2
    <3> QED
      BY <3>2, <3>3 DEF Target
  <2> QED
    BY <1>1, <1>4, <1>5, <2>1, <2>2 DEF GridInv, Counting, Placing
<1> QED
  BY <1>17, <1>18, <1>19, <1>20, <1>21, <1>22 DEF IndInv

\* When all blocks have run every slot below the limit is written.
LEMMA EndGridInv ==
  ASSUME IndInv, GridInv, EndGrid
  PROVE  IndInv' /\ GridInv'
<1>1. /\ phase = "P3" /\ todo = {} /\ phase' = "sent"
      /\ UNCHANGED encodeVars /\ UNCHANGED <<x, y, due, z, limit, pool, todo, reading, words>>
  BY DEF EndGrid, callVars, messageVars, workVars
<1>2. pool \subseteq Elems /\ limit \in 1..Cardinality(pool)
  BY <1>1 DEF IndInv, TypeInv, GridInv, Placing
<1>3. Finished = pool
  BY <1>1 DEF Finished
<1>4. Held = 0..(limit - 1)
  <2>1. \A k \in 0..(limit - 1) : \E e \in pool : Rank(e) = k
    <3>1. Cardinality(pool) \in 0..N
      BY <1>2, Ranks
    <3>2. \A k \in 0..(limit - 1) : k \in 0..(Cardinality(pool) - 1)
      BY <1>2, <3>1, Constants
    <3> QED
      BY <1>2, <3>2, Ranks
  <2> QED
    BY <1>1, <1>3, <2>1 DEF Held, Written
<1>5. Held' = Held
  BY <1>1, <1>4 DEF Held
<1>6. \A k : Was(k)' = Was(k) /\ Target(k)' = Target(k)
  BY <1>1 DEF Was, Target
<1>7. TypeInv'
  BY <1>1 DEF IndInv, TypeInv, encodeVars
<1>8. Teams' /\ Untouched' /\ Counted'
  BY <1>1, TeamsKept
<1>9. Slots' /\ Balance'
  BY <1>1, <1>5, <1>6 DEF IndInv, Slots, Balance
<1>10. Reading' /\ Bitmaps'
  BY <1>1 DEF IndInv, Reading, Bitmaps
<1>11. GridInv'
  BY <1>1, OffGrid
<1> QED
  BY <1>7, <1>8, <1>9, <1>10, <1>11 DEF IndInv

\* P2 on its own.
LEMMA ScanInv ==
  ASSUME IndInv, NEW c \in ScanInputs, Scan(c)
  PROVE  IndInv' /\ GridInv'
<1>1. /\ phase = "idle" /\ phase' = "scanned"
      /\ UNCHANGED encodeVars /\ UNCHANGED <<x, y, due, z, limit, pool, todo, reading, words>>
  BY DEF Scan, callVars, messageVars, workVars
<1>2. Held' = {} /\ pool' \subseteq Elems /\ limit' \in 0..N
  BY <1>1 DEF Held, IndInv, TypeInv
<1> QED
  BY <1>1, <1>2, GridFrame, OffGrid

\* What the steps of the CPU backend do to the phase.
LEMMA CpuPhase ==
  ASSUME IndInv, CpuNext
  PROVE  phase' \notin {"P1", "P3", "scanned"}
<1>1. CASE CpuEncode
  <2>1. ASSUME NEW t \in Threads, Fetch(t) \/ LoadFlag(t) \/ Capture(t) \/ Store(t)
        PROVE  phase' = "encode"
    <3>1. CASE Fetch(t)
      BY <3>1 DEF Fetch
    <3>2. CASE LoadFlag(t) \/ Capture(t) \/ Store(t)
      <4>1. Busy(t) /\ phase' = phase
        BY <3>2 DEF LoadFlag, Capture, Store, Busy, callVars
      <4> QED
        BY <4>1, BusyEncodes
    <3> QED
      BY <2>1, <3>1, <3>2
  <2> QED
    BY <1>1, <2>1 DEF CpuEncode, EndEncode
<1>2. CASE Decode
  BY <1>2 DEF Decode, EndDecode, DecodeRead, DecodeWrite
<1>3. CASE Bitmap
  BY <1>3 DEF Bitmap, EndBitmap, encodeBitmap, decodeBitmap
<1>4. CASE CpuCall
  BY <1>4 DEF CpuCall, StartEncode, StartDecode, StartBitmap, Deposit
<1> QED
  BY <1>1, <1>2, <1>3, <1>4 DEF CpuNext

LEMMA WholeNext ==
  ASSUME IndInv, GridInv, [Next]_vars, N <= pow2i[Mantissa]
  PROVE  IndInv' /\ GridInv'
<1>0. Next \/ UNCHANGED vars
  OBVIOUS
<1>1. CASE CpuNext
  <2>1. phase' \notin {"P1", "P3"}
    BY <1>1, CpuPhase
  <2>2. IndInv'
    BY <1>1, NextInv
  <2> QED
    BY <2>1, <2>2, OffGrid
<1>2. CASE Grid
  BY <1>2, P1Inv, P2Inv, P3Inv, EndGridInv DEF Grid
<1>3. CASE StartGrid \/ \E c \in ScanInputs : Scan(c)
  BY <1>3, StartGridInv, ScanInv
<1>4. CASE UNCHANGED vars
  <2>1. IndInv'
    BY <1>4, NextInv
  <2>2. phase' = phase /\ UNCHANGED <<x, z, limit, pool, todo, counts, sum, offsets>>
    BY <1>4 DEF vars, messageVars, workVars, gridVars
  <2> QED
    BY <2>1, <2>2, GridKept
<1> QED
  BY <1>0, <1>1, <1>2, <1>3, <1>4 DEF Next, Call, CpuNext, CpuCall

\* The invariant of the whole model, CPU and grid.
LEMMA WholeInvariant ==
  ASSUME N <= pow2i[Mantissa]
  PROVE  Spec => [](IndInv /\ GridInv)
<1>1. Init => IndInv /\ GridInv
  <2>1. Init => GridInv
    BY DEF Init, GridInv, Counting, Placing
  <2> QED
    BY <2>1, InitInv
<1>2. (IndInv /\ GridInv) /\ [Next]_vars => (IndInv /\ GridInv)'
  BY WholeNext
<1> QED
  BY <1>1, <1>2, PTL DEF Spec

LEMMA ConservedHolds == IndInv => Conserved
<1>1. ASSUME IndInv, phase = "idle", NEW e \in Elems PROVE x[e] + y[e] = due[e]
  <2>1. Held = {}
    BY <1>1, AtRest
  <2> QED
    BY <1>1, <2>1 DEF IndInv, Balance
<1> QED
  BY <1>1 DEF Conserved

LEMMA MessageFullHolds ==
  ASSUME IndInv, phase = "P3" => GridInv
  PROVE  MessageFull
<1>1. ASSUME phase = "sent", NEW k \in 0..(limit - 1)
      PROVE  /\ Target(k) \in pool
             /\ \A m \in 0..(limit - 1) : m # k => Target(m) # Target(k)
             /\ LET was == x[Target(k)] + Amount(z[k])
                IN  Abs(was) >= Threshold /\ (was > 0 <=> z[k] > 0)
  <2>1. Held = 0..(limit - 1)
    BY <1>1 DEF Held
  <2>2. Was(k) = x[Target(k)] + Amount(z[k])
    BY DEF Was
  <2> QED
    BY <2>1, <2>2 DEF IndInv, Slots
<1>2. ASSUME phase = "P3", todo = {}, NEW e \in pool, Rank(e) < limit
      PROVE  Target(Rank(e)) = e
  <2>1. e \in Finished
    BY <1>2 DEF Finished
  <2> QED
    BY <1>2, <2>1 DEF GridInv, Placing
<1> QED
  BY <1>1, <1>2 DEF MessageFull, Rank

\* The invariant of the CPU backend, for arrays of any length.
LEMMA CpuInvariant == CpuSpec => [](IndInv /\ phase # "P3")
<1>1. Init => IndInv /\ phase # "P3"
  BY InitInv DEF Init
<1>2. (IndInv /\ phase # "P3") /\ [CpuNext]_vars => (IndInv /\ phase # "P3")'
  <2> SUFFICES ASSUME IndInv, phase # "P3", [CpuNext]_vars PROVE IndInv' /\ phase' # "P3"
    OBVIOUS
  <2>1. IndInv'
    BY NextInv
  <2>2. CASE CpuNext
    BY <2>1, <2>2, CpuPhase
  <2>3. CASE UNCHANGED vars
    BY <2>1, <2>3 DEF vars
  <2> QED
    BY <2>2, <2>3
<1> QED
  BY <1>1, <1>2, PTL DEF CpuSpec

\* Whatever the number of threads, their interleaving and the limit, what
\* convertToThreshold or encodeBitmap takes out of the sender's array is what
\* convertFromThreshold or decodeBitmap adds to the receiver's, once: on the CPU for
\* arrays of any length.
THEOREM CpuConserved == CpuSpec => []Conserved
BY CpuInvariant, ConservedHolds, PTL

\* A finished message of convertToThreshold has limit different large elements with
\* their signs: threads that find the message full have not left a slot empty.
THEOREM CpuMessageFull == CpuSpec => []MessageFull
<1>1. IndInv /\ phase # "P3" => MessageFull
  BY MessageFullHolds
<1> QED
  BY <1>1, CpuInvariant, PTL

\* The same with the kernels P1, P2 and P3 of a grid, whose blocks run in any order,
\* when a float can count the elements of the array.
THEOREM CompressionConserved ==
  ASSUME N <= pow2i[Mantissa]
  PROVE  Spec => []Conserved
BY WholeInvariant, ConservedHolds, PTL

\* A finished message is full on either backend, and P3 has written it in the order
\* of the array, as one thread would, whatever the order of the blocks.
THEOREM CompressionMessageFull ==
  ASSUME N <= pow2i[Mantissa]
  PROVE  Spec => []MessageFull
<1>1. IndInv /\ GridInv => MessageFull
  BY MessageFullHolds
<1> QED
  BY <1>1, WholeInvariant, PTL
=============================================================================
