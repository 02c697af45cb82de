-------------------------- MODULE RandomOpsProofs --------------------------
(***************************************************************************)
(* Proofs about the random ops: for every size of the buffer, every team   *)
(* of threads, every grid of blocks and every op.                          *)
(*                                                                         *)
(* The invariant says what a half finished op has done.  On the CPU the    *)
(* buffer is still the one the op started with and every thread has        *)
(* computed the elements from the start of its span to its place.  On CUDA *)
(* the buffer is the same but for its tickets, which count the blocks that *)
(* are done: the block with the last ticket moves a buffer on that no other *)
(* block will read.  A shuffle has a permutation in indeces and the final  *)
(* slices above its place.                                                 *)
(***************************************************************************)
EXTENDS RandomOps, TLAPS, FiniteSetTheorems, SequenceTheorems, NaturalsInduction,
        WellFoundedInduction

Buffers == [seed : Seeds, amp : Seeds, pos : 0..(Size - 1), gen : Nat \ {0}, sync : Nat]

\* Two copies of a buffer, with whatever tickets.
Same(b, c) == b.seed = c.seed /\ b.amp = c.amp /\ b.pos = c.pos /\ b.gen = c.gen

TypeInv ==
  /\ backend \in {"cpu", "cuda"}
  /\ buf \in Buffers /\ base \in Buffers /\ base.sync = 0
  /\ status \in {"idle", "running", "undefined"} /\ calls \in 0..MaxCalls
  /\ op \in Ops \cup {Nil} /\ (status # "idle" => op \in Ops)
  /\ team \in Nat /\ high \in Int

Filling == status = "running" /\ op.kind \in OpKinds

\* The iteration that computes element f.
Source(o, f) == IF o.kind = "truncated" THEN f % Middle(o) ELSE f

Indices == 0..(op.len - 1)
Right(f) == z[f] = Sequential(op, base, f)

Shape ==
  Filling => /\ team > 0 /\ DOMAIN z = Indices
             /\ at \in [Workers -> Nat] /\ DOMAIN carry = Workers /\ DOMAIN copy = Workers
             /\ pc \in [Workers -> {"start", "copied", "drawn", "done"}]

Progress(w) ==
  /\ at[w] >= Span(op) * w
  /\ \A f \in Indices :
       (Span(op) * w <= Source(op, f) /\ Source(op, f) < at[w]) => Right(f)

\* The pair a thread keeps for its next element.
Pair(b, j, k) == Draws(b, <<j, k>>)
Kept(b, n) == IF n % 2 = 0 THEN Nil ELSE Pair(b, n - 1, n)
Carried(w) == carry[w] = Kept(base, at[w])

OnCpu ==
  (Filling /\ backend = "cpu") =>
    /\ buf = base /\ team = Threads(op)
    /\ op.kind = "plain" => \A e \in Indices : z[e] = Nil \/ Right(e)
    /\ op.kind # "plain" => \A w \in Workers : Progress(w)
    /\ op.kind = "gauss" => \A w \in Workers : Carried(w)

Finished == {w \in Workers : pc[w] = "done"}

Block(w) ==
  /\ pc[w] # "start" => copy[w] \in Buffers /\ Same(copy[w], base)
  /\ pc[w] \in {"drawn", "done"} =>
       \A f \in Indices : Source(op, f) \in Mine(w) => Right(f)

OnCuda ==
  (Filling /\ backend = "cuda") =>
    /\ Same(buf, base)
    /\ buf.sync = IF Advance(op) = 0 \/ team = 1 THEN 0 ELSE Cardinality(Finished)
    /\ \E w \in Workers : pc[w] # "done"
    /\ \A w \in Workers : Block(w)

Result == Filled => buf = rewindH(base, Advance(op)) /\ \A f \in Indices : Right(f)

Tickets == (status = "idle" \/ backend = "cpu" \/ op.kind = "shuffle") => buf.sync = 0

\* How far an op reads: to the number after its own, or as far as its retries.
Near(o, b, k) == k <= Advance(o) \/ ByRetries(o, b, k)

Reach ==
  /\ Filling => Near(op, base, high)
  /\ (op # Nil /\ op.kind = "shuffle") => Linear(base) + high <= Linear(buf)
  /\ Filled => Linear(base) + high <= Linear(buf) \/ ByRetries(op, base, high)

Permutes(f, n) == {f[k] : k \in 0..(n - 1)} = 0..(n - 1)

Shuffles(n) ==
  [i : 0..(n - 1), r : Int \cup {Nil}, least : BOOLEAN, tries : Nat,
   indeces : [0..(n - 1) -> 0..(n - 1)], arr : [0..(n - 1) -> 0..(n - 1) \cup {Nil}],
   zero : BOOLEAN]

Arranged ==
  /\ op.inplace => Permutes(shuffle.arr, op.len)
  /\ Permutes(shuffle.indeces, op.len)
  /\ ~op.inplace =>
       /\ \A k \in (shuffle.i + 1)..(op.len - 1) : shuffle.arr[k] = shuffle.indeces[k]
       /\ (shuffle.zero \/ op.vector) => shuffle.arr[0] = shuffle.indeces[0]
       /\ ~shuffle.zero => shuffle.indeces[0] = 0

ShuffleInv ==
  (op # Nil /\ op.kind = "shuffle") =>
    /\ shuffle \in Shuffles(op.len)
    /\ status # "undefined" => Arranged
    /\ (status = "running" /\ shuffle.r # Nil) => shuffle.r \in 0..(shuffle.i - 1)
    /\ status = "undefined" => shuffle.least
    /\ status = "idle" => Permutes(shuffle.arr, op.len)

Undefined == status = "undefined" => op.kind = "shuffle"

IndInv ==
  /\ TypeInv /\ Shape /\ OnCpu /\ OnCuda /\ Undefined
  /\ Result /\ Tickets /\ Reach /\ ShuffleInv

---------------------------------------------------------------------------
(* Arithmetic *)

LEMMA DivMod ==
  ASSUME NEW a \in Nat, NEW s \in Nat \ {0}
  PROVE  \E q \in Nat, r \in 0..(s - 1) : q = a \div s /\ r = a % s /\ a = s * q + r
<1>1. PICK q, r : q = a \div s /\ r = a % s
  OBVIOUS
<1>2. r \in 0..(s - 1) /\ q \in Int /\ q >= 0
  BY <1>1
<1>3. r = a - s * q
  BY <1>1
<1>4. a = s * q + r
  BY <1>2, <1>3
<1> QED
  BY <1>1, <1>2, <1>4

\* The quotient and the remainder are the only ones.
LEMMA DivUnique ==
  ASSUME NEW s \in Nat \ {0}, NEW q \in Nat, NEW r \in 0..(s - 1), NEW a \in Nat, a = s * q + r
  PROVE  a % s = r /\ a \div s = q
  OBVIOUS

LEMMA SmallestExists ==
  ASSUME NEW T \in SUBSET Nat, T # {}
  PROVE  \E x \in T : \A y \in T : x <= y
<1> DEFINE R == {p \in Nat \X Nat : p[1] < p[2]}
<1>1. IsWellFoundedOn(R, Nat)
  BY NatLessThanWellFounded DEF OpToRel
<1>2. \A a, b \in Nat : a < b => <<a, b>> \in R
  OBVIOUS
<1> HIDE DEF R
<1>3. PICK x \in T : \A y \in T : ~(<<y, x>> \in R)
  BY <1>1, WFMin, Zenon
<1>4. ASSUME NEW y \in T PROVE x <= y
  <2>1. x \in Nat /\ y \in Nat
    OBVIOUS
  <2>2. ~(y < x)
    BY <1>2, <1>3, <2>1
  <2> QED
    BY <2>1, <2>2
<1> QED
  BY <1>4

LEMMA DivSame ==
  ASSUME NEW s \in Nat \ {0}, NEW q \in Nat, NEW r \in 0..(s - 1),
         NEW u \in Nat, NEW v \in 0..(s - 1), s * q + r = s * u + v
  PROVE  q = u /\ r = v
<1>1. PICK a \in Nat : a = s * q + r
  OBVIOUS
<1>2. a % s = r /\ a \div s = q
  BY <1>1
<1>3. a % s = v /\ a \div s = u
  BY <1>1
<1> QED
  BY <1>2, <1>3

\* A bounded set of numbers that is not empty has a largest one.
LEMMA BiggestFacts ==
  ASSUME NEW S \in SUBSET Nat, S # {}, NEW B \in Nat, \A x \in S : x <= B
  PROVE  Biggest(S) \in S /\ Biggest(S) <= B
<1> DEFINE T == {B - x : x \in S}
<1>1. \A x \in S : B - x \in Nat
  OBVIOUS
<1>2. T \in SUBSET Nat /\ T # {}
  BY <1>1
<1>3. PICK t \in T : \A u \in T : t <= u
  BY <1>2, SmallestExists
<1>4. PICK x \in S : t = B - x
  OBVIOUS
<1>5. \A y \in S : y <= x
  <2> TAKE y \in S
  <2>1. B - x <= B - y
    BY <1>3, <1>4
  <2> QED
    BY <2>1
<1>6. Biggest(S) \in S /\ \A y \in S : y <= Biggest(S)
  BY <1>5 DEF Biggest
<1> QED
  BY <1>6

LEMMA OpFacts ==
  ASSUME NEW o \in Ops
  PROVE  /\ o.kind \in OpKinds \cup {"shuffle"} /\ o.len \in Nat \ {0}
         /\ o.kind = "shuffle" => o.len > 1 /\ o.inplace \in BOOLEAN /\ o.vector \in BOOLEAN
         /\ o.kind # "shuffle" => o.kind \in OpKinds /\ o.trials \in Nat
         /\ Advance(o) \in Nat
         /\ o.kind \in OpKinds \ {"binomial"} => Advance(o) = o.len
<1>1. CASE o \in [kind : OpKinds, len : Nat \ {0}, trials : Nat, far : BOOLEAN]
  <2>1. o.kind \in OpKinds /\ o.len \in Nat \ {0} /\ o.trials \in Nat /\ o.kind # "shuffle"
    BY <1>1 DEF OpKinds
  <2>2. o.len * o.trials \in Nat
    BY <2>1
  <2> QED
    BY <2>1, <2>2 DEF Advance, OpKinds
<1>2. CASE o \in [kind : {"shuffle"}, len : Nat \ {0, 1}, inplace : BOOLEAN, vector : BOOLEAN]
  BY <1>2 DEF Advance, OpKinds
<1> QED
  BY <1>1, <1>2, RandomOpsAssumption

LEMMA MiddleFacts ==
  ASSUME NEW o \in Ops
  PROVE  /\ Middle(o) \in Nat \ {0}
         /\ 2 * Middle(o) >= o.len /\ 2 * Middle(o) <= o.len + 1
         /\ Range1(o) \in Nat \ {0}
BY OpFacts DEF Middle, Range1

\* The iteration of an element, and the two elements of an iteration.
LEMMA SourceFacts ==
  ASSUME NEW o \in Ops, o.kind \in OpKinds
  PROVE  /\ \A f \in 0..(o.len - 1) : Source(o, f) \in 0..(Range1(o) - 1)
         /\ o.kind = "truncated" =>
              \A f \in 0..(o.len - 1), e \in 0..(Middle(o) - 1) :
                 f % Middle(o) = e <=> f \in {e, e + Middle(o)}
<1>1. Middle(o) \in Nat \ {0} /\ 2 * Middle(o) >= o.len /\ o.len \in Nat \ {0}
  BY OpFacts, MiddleFacts
<1>2. \A f \in 0..(o.len - 1) : f % Middle(o) \in 0..(Middle(o) - 1)
  BY <1>1
<1>3. ASSUME NEW f \in 0..(o.len - 1), NEW e \in 0..(Middle(o) - 1)
      PROVE  f % Middle(o) = e <=> f \in {e, e + Middle(o)}
  <2> DEFINE m == Middle(o)
  <2>1. m \in Nat \ {0} /\ f \in Nat /\ e \in Nat /\ f < 2 * m
    BY <1>1
  <2> HIDE DEF m
  <2>2. CASE f < m
    <3>1. f % m = f
      BY <2>1, <2>2, DivUnique
    <3> QED
      BY <3>1, <2>1, <2>2 DEF m
  <2>3. CASE f >= m
    <3>1. f = m * 1 + (f - m) /\ f - m \in 0..(m - 1)
      BY <2>1, <2>3
    <3>2. f % m = f - m
      BY <3>1, <2>1, DivUnique
    <3> QED
      BY <3>2, <2>1, <2>3 DEF m
  <2> QED
    BY <2>1, <2>2, <2>3
<1> QED
  BY <1>1, <1>2, <1>3 DEF Source, Range1

\* The spans of the threads of an op cover its iterations.
LEMMA SpanFacts ==
  ASSUME NEW o \in Ops, o.kind \in OpKinds
  PROVE  /\ Threads(o) \in Nat \ {0} /\ Span(o) \in Nat \ {0}
         /\ o.kind = "gauss" => Span(o) % 2 = 0
         /\ \A e \in 0..(Range1(o) - 1) :
              \E w \in 0..(Threads(o) - 1) : Span(o) * w <= e /\ e < End(o, w)
<1> DEFINE R == Range1(o)  T == Threads(o)  P == Span(o)
<1>1. R \in Nat \ {0}
  BY MiddleFacts
<1>2. T \in Nat \ {0}
  BY <1>1, RandomOpsAssumption DEF Threads, Smaller, Larger
<1> HIDE DEF R, T
<1>3. PICK D \in Nat, M \in 0..(T - 1) : D = R \div T /\ M = R % T /\ R = T * D + M
  BY <1>1, <1>2, DivMod
<1>4. P \in Nat /\ P >= D + 1 /\ (o.kind = "gauss" => P % 2 = 0)
  <2> DEFINE s == D + Slack
  <2>1. s \in Nat /\ s >= D + 2
    BY <1>3, RandomOpsAssumption
  <2>2. P = IF o.kind \in {"gauss", "truncated"} THEN s - (s % 2) ELSE s
    BY <1>3 DEF Span, R, T
  <2> HIDE DEF s, P
  <2> QED
    BY <2>1, <2>2, <1>3
<1> HIDE DEF P
<1>5. P * T >= R
  <2>1. P * T >= (D + 1) * T
    BY <1>2, <1>3, <1>4
  <2>2. (D + 1) * T = T * D + T
    BY <1>2, <1>3
  <2> QED
    BY <2>1, <2>2, <1>1, <1>2, <1>3, <1>4
<1>6. ASSUME NEW e \in 0..(R - 1)
      PROVE  \E w \in 0..(T - 1) : P * w <= e /\ e < P * (w + 1) /\ e < R
  <2>0. e \in Nat /\ P \in Nat \ {0}
    BY <1>1, <1>3, <1>4
  <2>1. PICK w \in Nat, r \in 0..(P - 1) : e = P * w + r
    BY <2>0, DivMod
  <2>2. P * w <= e /\ e < P * (w + 1)
    <3> DEFINE m == P * w
    <3>1. P * (w + 1) = m + P /\ m \in Nat
      BY <2>1, <1>4
    <3>2. e = m + r /\ r \in 0..(P - 1)
      BY <2>1
    <3> HIDE DEF m
    <3>3. m <= e /\ e < m + P
      BY <3>1, <3>2, <1>4
    <3> QED
      BY <3>1, <3>3 DEF m
  <2>3. w < T
    <3> SUFFICES ASSUME w >= T PROVE FALSE
      BY <2>1, <1>2
    <3>1. P * w >= P * T
      BY <2>1, <1>2, <1>4
    <3> QED
      BY <3>1, <2>2, <2>1, <1>1, <1>2, <1>4, <1>5
  <2> QED
    BY <2>1, <2>2, <2>3, <1>1, <1>2
<1>7. \A e \in 0..(R - 1) : \E w \in 0..(T - 1) : P * w <= e /\ e < End(o, w)
  BY <1>6 DEF End, Smaller, R, P
<1> QED
  BY <1>2, <1>3, <1>4, <1>7 DEF R, T, P

---------------------------------------------------------------------------
(* The buffer *)

\* A buffer at another place.
At(b, p, g) == [seed |-> b.seed, amp |-> b.amp, pos |-> p, gen |-> g, sync |-> b.sync]

LEMMA AtPos ==
  ASSUME NEW b \in Buffers, NEW p
  PROVE  [b EXCEPT !.pos = p] = At(b, p, b.gen)
BY DEF Buffers, At

LEMMA AtGen ==
  ASSUME NEW b \in Buffers, NEW g \in Nat \ {0}
  PROVE  [b EXCEPT !.gen = g] = At(b, b.pos, g)
BY DEF Buffers, At

Moved(b, p, g) == [b EXCEPT !.pos = p, !.gen = g]

LEMMA MovedAt ==
  ASSUME NEW b \in Buffers, NEW p \in 0..(Size - 1), NEW g \in Nat \ {0}
  PROVE  Moved(b, p, g) = At(b, p, g)
<1> DEFINE c == [b EXCEPT !.pos = p]
<1>1. c \in Buffers
  BY DEF Buffers
<1>2. c.seed = b.seed /\ c.amp = b.amp /\ c.pos = p /\ c.sync = b.sync
  BY DEF Buffers
<1>3. Moved(b, p, g) = [c EXCEPT !.gen = g]
  BY DEF Moved
<1> HIDE DEF c
<1>4. [c EXCEPT !.gen = g] = At(c, c.pos, g)
  BY <1>1, AtGen
<1>5. At(c, c.pos, g) = At(b, p, g)
  BY <1>2 DEF At
<1> QED
  BY <1>3, <1>4, <1>5

LEMMA AtFacts ==
  ASSUME NEW b \in Buffers, NEW p \in 0..(Size - 1), NEW g \in Nat \ {0}
  PROVE  /\ At(b, p, g) \in Buffers
         /\ At(b, p, g).sync = b.sync /\ At(b, p, g).pos = p /\ At(b, p, g).gen = g
         /\ At(b, p, g).seed = b.seed /\ At(b, p, g).amp = b.amp
<1>1. At(b, p, g) \in Buffers
  BY DEF Buffers, At
<1> QED
  BY <1>1 DEF At

\* rewindH has three branches and one meaning.
LEMMA RewindFacts ==
  ASSUME NEW b \in Buffers, NEW n \in Nat
  PROVE  \E q \in Nat, r \in 0..(Size - 1) :
           /\ b.pos + n = Size * q + r
           /\ rewindH(b, n) = At(b, r, b.gen + q)
<1>1. b.pos \in 0..(Size - 1) /\ b.gen \in Nat \ {0} /\ Size \in Nat \ {0}
  BY RandomOpsAssumption DEF Buffers
<1>2. PICK p \in Nat : p = b.pos + n
  BY <1>1
<1>3. PICK q \in Nat, r \in 0..(Size - 1) : q = p \div Size /\ r = p % Size /\ p = Size * q + r
  BY <1>1, <1>2, DivMod
<1>4. CASE p > Size
  <2>1. rewindH(b, n) = Moved(b, p % Size, b.gen + p \div Size)
    BY <1>2, <1>4 DEF rewindH, Moved
  <2>2. b.gen + q \in Nat \ {0}
    BY <1>1
  <2>3. Moved(b, r, b.gen + q) = At(b, r, b.gen + q)
    BY <2>2, MovedAt
  <2>4. rewindH(b, n) = At(b, r, b.gen + q)
    BY <1>3, <2>1, <2>3
  <2> QED
    BY <2>4, <1>2, <1>3
<1>5. CASE p = Size
  <2>1. rewindH(b, n) = Moved(b, 0, b.gen + 1)
    BY <1>1, <1>2, <1>5 DEF rewindH, Moved
  <2>2. b.gen + 1 \in Nat \ {0} /\ 0 \in 0..(Size - 1)
    BY <1>1
  <2>3. rewindH(b, n) = At(b, 0, b.gen + 1)
    BY <2>1, <2>2, MovedAt
  <2>4. p = Size * 1 + 0 /\ 1 \in Nat
    BY <1>1, <1>5
  <2> QED
    BY <1>2, <2>2, <2>3, <2>4
<1>6. CASE p < Size
  <2>1. rewindH(b, n) = [b EXCEPT !.pos = p]
    BY <1>1, <1>2, <1>6 DEF rewindH
  <2>2. p \in 0..(Size - 1)
    BY <1>1, <1>6
  <2>3. rewindH(b, n) = At(b, p, b.gen)
    BY <2>1, AtPos
  <2>4. p = Size * 0 + p /\ 0 \in Nat /\ b.gen = b.gen + 0
    BY <1>1
  <2> QED
    BY <1>2, <2>2, <2>3, <2>4
<1> QED
  <2>1. p > Size \/ p = Size \/ p < Size
    BY <1>1
  <2> QED
    BY <2>1, <1>4, <1>5, <1>6

\* It moves the place in the stream on by n.
LEMMA RewindLinear ==
  ASSUME NEW b \in Buffers, NEW n \in Nat
  PROVE  /\ rewindH(b, n) \in Buffers /\ rewindH(b, n).sync = b.sync
         /\ Linear(b) \in Int /\ Linear(rewindH(b, n)) = Linear(b) + n
<1>1. b.pos \in 0..(Size - 1) /\ b.gen \in Nat \ {0} /\ Size \in Nat \ {0}
  BY RandomOpsAssumption DEF Buffers
<1>2. PICK q \in Nat, r \in 0..(Size - 1) :
        b.pos + n = Size * q + r /\ rewindH(b, n) = At(b, r, b.gen + q)
  BY RewindFacts
<1>3. PICK g \in Nat \ {0} : g = b.gen + q
  BY <1>1
<1>4. /\ rewindH(b, n) \in Buffers /\ rewindH(b, n).sync = b.sync
      /\ rewindH(b, n).pos = r /\ rewindH(b, n).gen = g
  BY <1>2, <1>3, AtFacts
<1>0. Linear(rewindH(b, n)) = (g - 1) * Size + r
  BY <1>4 DEF Linear
<1>5. (g - 1) * Size + r = (b.gen - 1) * Size + (Size * q + r)
  BY <1>1, <1>3
<1>6. Linear(b) \in Int /\ Linear(b) = (b.gen - 1) * Size + b.pos
  BY <1>1 DEF Linear
<1>7. Linear(rewindH(b, n)) = (b.gen - 1) * Size + (b.pos + n)
  BY <1>2, <1>0, <1>5
<1>8. PICK m \in Int : m = (b.gen - 1) * Size
  BY <1>1
<1>9. m + (b.pos + n) = (m + b.pos) + n
  BY <1>1
<1> QED
  BY <1>4, <1>6, <1>7, <1>8, <1>9

LEMMA NextIndexLinear ==
  ASSUME NEW b \in Buffers
  PROVE  /\ getNextIndex(b) \in Buffers /\ getNextIndex(b).sync = b.sync
         /\ Linear(getNextIndex(b)) = Linear(b) + 1
<1>1. b.pos \in 0..(Size - 1) /\ b.gen \in Nat \ {0} /\ Size \in Nat \ {0}
  BY RandomOpsAssumption DEF Buffers
<1>2. getNextIndex(b) = rewindH(b, 1)
  BY <1>1 DEF getNextIndex, rewindH
<1> QED
  BY <1>2, RewindLinear

\* Tickets do not matter to a reader.
LEMMA SameDraws ==
  ASSUME NEW b, NEW c, Same(b, c)
  PROVE  /\ \A k : getElement(b, k) = getElement(c, k)
         /\ \A ks : Draws(b, ks) = Draws(c, ks)
         /\ \A o, e : Accepted(o, b, e) = Accepted(o, c, e)
         /\ \A o, e : TruncatedValues(o, b, e) = TruncatedValues(o, c, e)
         /\ \A o, e : Furthest(o, b, e) = Furthest(o, c, e)
<1>1. \A k : getElement(b, k) = getElement(c, k)
  BY DEF Same, getElement
<1>2. \A ks : Draws(b, ks) = Draws(c, ks)
  BY <1>1 DEF Draws
<1>3. \A o, e : Accepted(o, b, e) = Accepted(o, c, e)
  BY <1>2 DEF Accepted
<1>4. \A o, e : TruncatedValues(o, b, e) = TruncatedValues(o, c, e)
  BY <1>2, <1>3 DEF TruncatedValues, Attempt
<1>5. \A o, e : Furthest(o, b, e) = Furthest(o, c, e)
  BY <1>3 DEF Furthest, Attempt
<1> QED
  BY <1>1, <1>2, <1>3, <1>4, <1>5

LEMMA ElementType ==
  ASSUME NEW b \in Buffers, NEW k \in Nat
  PROVE  getElement(b, k) \in Numbers
<1> DEFINE p == b.pos + k
           tempGen == b.gen + (IF p >= Size THEN p \div Size ELSE 0)
           s1 == IF tempGen # b.gen THEN <<tempGen>> ELSE <<>>
           s2 == IF b.gen > 1 THEN <<b.gen>> ELSE <<>>
           s3 == IF b.amp # b.seed THEN <<b.amp>> ELSE <<>>
<1>1. p \in Nat /\ Size \in Nat \ {0} /\ b.gen \in Nat /\ b.amp \in Nat /\ b.seed \in Seeds
  BY RandomOpsAssumption DEF Buffers
<1> HIDE DEF p
<1>2. p % Size \in 0..(Size - 1) /\ p \div Size \in Nat
  BY <1>1, DivMod
<1>3. tempGen \in Nat
  BY <1>1, <1>2
<1> HIDE DEF tempGen
<1>4. s1 \in Seq(Nat) /\ s2 \in Seq(Nat) /\ s3 \in Seq(Nat)
  BY <1>1, <1>3
<1>5. getElement(b, k) = [seed |-> b.seed, idx |-> p % Size, shifts |-> s1 \o s2 \o s3]
  BY DEF getElement, p, tempGen
<1> HIDE DEF s1, s2, s3
<1>6. s1 \o s2 \o s3 \in Seq(Nat)
  BY <1>4
<1> QED
  BY <1>1, <1>2, <1>5, <1>6 DEF Numbers

LEMMA PairFacts ==
  ASSUME NEW b \in Buffers, NEW j \in Nat, NEW k \in Nat
  PROVE  /\ Draws(b, <<j, k>>) # Nil
         /\ Draws(b, <<j, k>>) = <<getElement(b, j), getElement(b, k)>>
<1>1. Draws(b, <<j, k>>) = <<getElement(b, j), getElement(b, k)>>
  BY DEF Draws
<1>2. <<getElement(b, j), getElement(b, k)>> \in [1..2 -> Numbers]
  BY ElementType
<1> QED
  BY <1>1, <1>2, NilAssumption

---------------------------------------------------------------------------
(* Calls *)

LEMMA FreshFacts ==
  ASSUME NEW s \in Seeds
  PROVE  Fresh(s) \in Buffers /\ Fresh(s).sync = 0
<1>1. 0 \in 0..(Size - 1)
  BY RandomOpsAssumption
<1> QED
  BY <1>1 DEF Fresh, Buffers

LEMMA InitInv ==
  ASSUME Init
  PROVE  IndInv
<1>1. buf \in Buffers /\ buf.sync = 0 /\ base = buf /\ op = Nil /\ status = "idle"
      /\ high = -1 /\ team = 0 /\ calls = 0 /\ backend \in {"cpu", "cuda"}
  BY FreshFacts DEF Init
<1>2. TypeInv
  BY <1>1, RandomOpsAssumption DEF TypeInv
<1> QED
  BY <1>1, <1>2
  DEF IndInv, Shape, OnCpu, OnCuda, Filling, Result, Filled, Tickets, Reach, ShuffleInv,
      Undefined

\* After a call that leaves no op.
LEMMA NoOp ==
  ASSUME IndInv, Call, buf' \in Buffers, buf'.sync = 0, base' = buf', op' = Nil,
         status' = status, backend' = backend, high' = -1, NoWork
  PROVE  IndInv'
<1>1. status' = "idle" /\ team' = 0 /\ calls' \in 0..MaxCalls
  BY RandomOpsAssumption DEF IndInv, TypeInv, Call, NoWork
<1>2. TypeInv'
  BY <1>1 DEF IndInv, TypeInv
<1> QED
  BY <1>1, <1>2
  DEF IndInv, Shape, OnCpu, OnCuda, Filling, Result, Filled, Tickets, Reach, ShuffleInv,
      Undefined

LEMMA RefreshInv ==
  ASSUME IndInv, NEW s \in Seeds, RefreshBuffer(s)
  PROVE  IndInv'
<1>1. buf.gen \in Nat \ {0}
  BY DEF IndInv, TypeInv, Buffers
<1>2. buf' \in Buffers /\ buf'.sync = 0
  BY <1>1, FreshFacts DEF RefreshBuffer, Buffers
<1> QED
  BY <1>2, NoOp DEF RefreshBuffer

LEMMA ReSeedInv ==
  ASSUME IndInv, NEW s \in Seeds, ReSeedBuffer(s)
  PROVE  IndInv'
<1>1. buf \in Buffers /\ buf.seed \in Seeds /\ buf.sync = 0
  BY DEF IndInv, TypeInv, Buffers, Tickets, ReSeedBuffer, Call
<1>2. Fresh(buf.seed) \in Buffers /\ Fresh(buf.seed).sync = 0
  BY <1>1, FreshFacts
<1>3. \A b \in Buffers : [b EXCEPT !.amp = s] \in Buffers /\ [b EXCEPT !.amp = s].sync = b.sync
  BY DEF Buffers
<1>4. buf' \in Buffers /\ buf'.sync = 0
  BY <1>1, <1>2, <1>3 DEF ReSeedBuffer
<1> QED
  BY <1>4, NoOp DEF ReSeedBuffer

LEMMA EvenTimes ==
  ASSUME NEW s \in Nat, s % 2 = 0, NEW w \in Nat
  PROVE  s * w \in Nat /\ (s * w) % 2 = 0
<1>1. PICK h \in Nat : s = 2 * h
  BY DivMod
<1>2. PICK m \in Nat : m = h * w
  OBVIOUS
<1>3. s * w = 2 * m
  BY <1>1, <1>2
<1> QED
  BY <1>3

LEMMA StartOpInv ==
  ASSUME IndInv, NEW o \in Ops, o.kind # "shuffle", NEW n \in Nat, StartOp(o, n)
  PROVE  IndInv'
<1> USE DEF StartOp
<1>1. o.kind \in OpKinds /\ o.len \in Nat \ {0} /\ Advance(o) \in Nat
  BY OpFacts
<1>2. Threads(o) \in Nat \ {0} /\ Span(o) \in Nat \ {0} /\ (o.kind = "gauss" => Span(o) % 2 = 0)
  BY <1>1, SpanFacts
<1>3. n > 0
  BY <1>2, RandomOpsAssumption
<1>4. Workers' = 0..(n - 1)
  BY DEF Workers
<1>5. status = "idle" /\ buf \in Buffers /\ buf.sync = 0 /\ backend \in {"cpu", "cuda"}
  BY DEF Call, IndInv, TypeInv, Tickets
<1>6. TypeInv'
  BY <1>5, RandomOpsAssumption DEF IndInv, TypeInv, Call
<1>7. \A w \in 0..(n - 1) : Span(o) * w \in Nat /\ at'[w] = Span(o) * w
  BY <1>2
<1>8. Shape'
  BY <1>3, <1>4, <1>7 DEF Shape, Indices
<1>9. OnCpu'
  <2> SUFFICES ASSUME backend = "cpu" PROVE OnCpu'
    BY DEF OnCpu
  <2>1. team' = Threads(o)
    OBVIOUS
  <2>2. \A e \in Indices' : z'[e] = Nil
    BY DEF Indices
  <2>3. ASSUME NEW w \in Workers' PROVE Progress(w)'
    <3>1. PICK m \in Nat : m = Span(o) * w /\ at'[w] = m
      BY <1>4, <1>7
    <3>2. \A f \in Indices' : Source(o, f) \in Int
      BY <1>1, MiddleFacts, SourceFacts DEF Indices
    <3>3. /\ at'[w] >= Span(o) * w
          /\ \A f \in Indices' : ~(Span(o) * w <= Source(o, f) /\ Source(o, f) < at'[w])
      BY <3>1, <3>2
    <3> QED
      BY <3>3 DEF Progress
  <2>4. ASSUME NEW w \in Workers', o.kind = "gauss" PROVE Carried(w)'
    <3>1. at'[w] % 2 = 0
      <4>1. w \in Nat /\ Span(o) \in Nat /\ Span(o) % 2 = 0
        BY <1>2, <1>4, <2>4
      <4>2. (Span(o) * w) % 2 = 0
        BY <4>1, EvenTimes
      <4> QED
        BY <4>2, <1>4, <1>7
    <3>2. carry'[w] = Nil
      BY <1>4
    <3> QED
      BY <3>1, <3>2 DEF Carried, Kept
  <2> QED
    BY <2>1, <2>2, <2>3, <2>4 DEF OnCpu
<1>10. OnCuda'
  <2> SUFFICES ASSUME backend = "cuda" PROVE OnCuda'
    BY DEF OnCuda
  <2>1. \A w \in Workers' : pc'[w] = "start"
    BY <1>4
  <2>2. Finished' = {}
    BY <2>1 DEF Finished
  <2>3. Cardinality(Finished') = 0
    BY <2>2, FS_EmptySet
  <2>4. 0 \in Workers'
    BY <1>3, <1>4
  <2>5. \A w \in Workers' : Block(w)'
    BY <2>1 DEF Block
  <2> QED
    BY <1>5, <2>1, <2>3, <2>4, <2>5 DEF OnCuda, Same
<1>11. Result' /\ Tickets' /\ Reach' /\ ShuffleInv' /\ Undefined'
  BY <1>1, <1>5 DEF Result, Filled, Tickets, Reach, Near, ShuffleInv, Undefined, OpKinds
<1> QED
  BY <1>6, <1>8, <1>9, <1>10, <1>11 DEF IndInv

LEMMA StartShuffleInv ==
  ASSUME IndInv, NEW o \in Ops, o.kind = "shuffle", StartShuffle(o)
  PROVE  IndInv'
<1> USE DEF StartShuffle
<1> DEFINE id == [k \in 0..(o.len - 1) |-> k]
           new == [k \in 0..(o.len - 1) |-> IF k = 0 /\ o.vector THEN 0 ELSE Nil]
           first == IF o.inplace THEN id ELSE new
<1>1. o.len \in Nat /\ o.len > 1 /\ o.inplace \in BOOLEAN /\ o.vector \in BOOLEAN
  BY OpFacts
<1>2. status = "idle" /\ buf \in Buffers /\ buf.sync = 0 /\ backend \in {"cpu", "cuda"}
  BY DEF Call, IndInv, TypeInv, Tickets
<1>3. TypeInv'
  BY <1>2, RandomOpsAssumption DEF IndInv, TypeInv, Call, NoWork
<1>4. ~Filling' /\ ~Filled'
  BY DEF Filling, Filled, OpKinds
<1>5. Shape' /\ OnCpu' /\ OnCuda' /\ Result' /\ Tickets' /\ Undefined'
  BY <1>2, <1>4 DEF Shape, OnCpu, OnCuda, Result, Tickets, Undefined
<1>6. Reach'
  <2>1. Linear(buf) \in Int
    BY <1>2, RewindLinear
  <2> QED
    BY <1>4, <2>1 DEF Reach, Linear
<1>7. ShuffleInv'
  <2>1. shuffle' = [i |-> o.len - 1, r |-> Nil, least |-> FALSE, tries |-> 0,
                    indeces |-> id, arr |-> first, zero |-> FALSE]
    OBVIOUS
  <2>2. id \in [0..(o.len - 1) -> 0..(o.len - 1)] /\ Permutes(id, o.len)
    BY DEF Permutes
  <2>3. first \in [0..(o.len - 1) -> 0..(o.len - 1) \cup {Nil}]
    BY <1>1
  <2>4. o.inplace => first = id
    OBVIOUS
  <2>5. ~o.inplace /\ o.vector => first[0] = 0
    BY <1>1
  <2>6. id[0] = 0
    BY <1>1
  <2> HIDE DEF id, first
  <2>7. shuffle' \in Shuffles(o.len)
    BY <1>1, <2>1, <2>2, <2>3 DEF Shuffles
  <2>8. Arranged'
    <3>1. /\ shuffle'.arr = first /\ shuffle'.indeces = id /\ shuffle'.i = o.len - 1
          /\ shuffle'.zero = FALSE /\ op' = o
      BY <2>1
    <3>2. (o.len - 1 + 1)..(o.len - 1) = {}
      BY <1>1
    <3> QED
      BY <3>1, <3>2, <1>1, <2>2, <2>4, <2>5, <2>6 DEF Arranged
  <2> QED
    BY <2>1, <2>7, <2>8 DEF ShuffleInv
<1> QED
  BY <1>3, <1>5, <1>6, <1>7 DEF IndInv

---------------------------------------------------------------------------
(* Threads on the CPU *)

LEMMA FillingFacts ==
  ASSUME IndInv, Filling
  PROVE  /\ op \in Ops /\ op.kind \in OpKinds /\ op.kind # "shuffle" /\ op.len \in Nat \ {0}
         /\ op.trials \in Nat /\ Advance(op) \in Nat /\ Middle(op) \in Nat \ {0}
         /\ Range1(op) \in Nat \ {0} /\ Span(op) \in Nat \ {0}
         /\ team \in Nat \ {0} /\ DOMAIN z = Indices /\ high \in Int /\ Near(op, base, high)
         /\ buf \in Buffers /\ base \in Buffers /\ base.sync = 0
<1>1. op \in Ops /\ op.kind \in OpKinds /\ op.kind # "shuffle" /\ high \in Int
      /\ buf \in Buffers /\ base \in Buffers /\ base.sync = 0 /\ team \in Nat
  BY DEF IndInv, TypeInv, Filling, OpKinds
<1> QED
  BY <1>1, OpFacts, MiddleFacts, SpanFacts DEF IndInv, Shape, Reach

\* The attempt whose pair is taken, and the offset it reads.
LEMMA AttemptFacts ==
  ASSUME NEW o \in Ops, o.kind = "truncated", NEW b, NEW e \in 0..(Middle(o) - 1),
         Accepted(o, b, e) # {}
  PROVE  /\ Attempt(o, b, e) \in 0..MaxAttempts
         /\ Furthest(o, b, e) \in Nat /\ Near(o, b, Furthest(o, b, e))
<1>1. Accepted(o, b, e) \subseteq 0..MaxAttempts
  BY DEF Accepted
<1>2. 0..MaxAttempts \subseteq Nat
  BY RandomOpsAssumption
<1>3. PICK x \in Accepted(o, b, e) : \A y \in Accepted(o, b, e) : x <= y
  BY <1>1, <1>2, SmallestExists
<1>4. Attempt(o, b, e) \in Accepted(o, b, e)
  BY <1>3 DEF Attempt, Smallest
<1>5. PICK a \in 0..MaxAttempts : a = Attempt(o, b, e)
  BY <1>1, <1>4
<1>6. Furthest(o, b, e) = e + Middle(o) + a * o.len
  BY <1>5 DEF Furthest, PairAt
<1>7. /\ o.len \in Nat \ {0} /\ Middle(o) \in Nat \ {0} /\ 2 * Middle(o) <= o.len + 1
      /\ a \in Nat /\ e \in Nat /\ e < Middle(o)
  BY <1>2, OpFacts, MiddleFacts
<1>8. PICK m \in Nat : m = a * o.len
  BY <1>7
<1>9. (1 + a) * o.len = o.len + m
  BY <1>7, <1>8
<1>10. e + Middle(o) + m \in Nat /\ e + Middle(o) + m <= o.len + m
  BY <1>7, <1>8
<1>11. ByRetries(o, b, Furthest(o, b, e))
  BY <1>5, <1>6, <1>8, <1>9, <1>10 DEF ByRetries
<1> QED
  BY <1>5, <1>6, <1>8, <1>10, <1>11 DEF Near

\* How far an op reads is bounded.
LEMMA NearBound ==
  ASSUME NEW o \in Ops, o.kind \in OpKinds, NEW b
  PROVE  \E B \in Nat : \A k \in Nat : Near(o, b, k) => k <= B
<1>1. Advance(o) \in Nat /\ o.len \in Nat /\ MaxAttempts \in Nat
  BY OpFacts, RandomOpsAssumption
<1>2. PICK M \in Nat : M = (1 + MaxAttempts) * o.len
  BY <1>1
<1>3. ASSUME NEW k \in Nat, ByRetries(o, b, k) PROVE k <= M
  <2>1. PICK e \in 0..(Middle(o) - 1) :
          Accepted(o, b, e) # {} /\ k <= (1 + Attempt(o, b, e)) * o.len
    BY <1>3 DEF ByRetries
  <2>2. PICK a \in 0..MaxAttempts : a = Attempt(o, b, e)
    BY <1>3, <2>1, AttemptFacts DEF ByRetries
  <2>3. (1 + a) * o.len <= M /\ (1 + a) * o.len \in Nat
    BY <1>1, <1>2
  <2> QED
    BY <2>1, <2>2, <2>3
<1>4. PICK B \in Nat : B = Advance(o) + M
  BY <1>1
<1>5. \A k \in Nat : Near(o, b, k) => k <= B
  BY <1>1, <1>3, <1>4 DEF Near
<1> QED
  BY <1>5

LEMMA ReadFacts ==
  ASSUME IndInv, Filling, NEW S \in SUBSET Nat, Read(S), \A x \in S : Near(op, base, x)
  PROVE  high' \in Int /\ Near(op, base, high')
<1>1. high \in Int /\ Near(op, base, high) /\ op \in Ops /\ op.kind \in OpKinds
  BY FillingFacts
<1>2. CASE S = {}
  BY <1>1, <1>2 DEF Read
<1>3. CASE S # {}
  <2>1. PICK B \in Nat : \A k \in Nat : Near(op, base, k) => k <= B
    BY <1>1, NearBound
  <2>2. PICK m \in S : m = Biggest(S)
    BY <1>3, <2>1, BiggestFacts
  <2>3. high' = high \/ high' = m
    BY <1>3, <2>2 DEF Read, Larger
  <2>4. m \in Nat /\ Near(op, base, m)
    OBVIOUS
  <2>5. CASE high' = high
    BY <1>1, <2>5
  <2>6. CASE high' = m
    BY <2>4, <2>6
  <2> QED
    BY <2>3, <2>5, <2>6
<1> QED
  BY <1>2, <1>3

\* What a step of a thread leaves alone.
LEMMA ThreadFrame ==
  ASSUME IndInv, Running("cpu"),
         UNCHANGED <<backend, buf, base, calls, op, status, team, pc, copy, shuffle>>,
         DOMAIN z' = DOMAIN z, at' \in [Workers -> Nat], DOMAIN carry' = Workers,
         high' \in Int, Near(op, base, high'), OnCpu'
  PROVE  IndInv'
<1>1. Filling
  BY DEF Running, Filling
<1>2. op.kind \in OpKinds /\ op.kind # "shuffle" /\ status = "running" /\ backend = "cpu"
  BY <1>1, FillingFacts DEF Running
<1>3. TypeInv'
  BY DEF IndInv, TypeInv
<1>4. Shape'
  BY <1>1 DEF IndInv, Shape, Workers, Indices, Filling
<1>5. OnCuda' /\ Result' /\ Tickets' /\ ShuffleInv' /\ Undefined'
  BY <1>2 DEF IndInv, OnCuda, Result, Filled, Tickets, ShuffleInv, Undefined
<1>6. Reach'
  BY <1>2 DEF Reach, Filled
<1> QED
  BY <1>3, <1>4, <1>5, <1>6 DEF IndInv

LEMMA PlainInv ==
  ASSUME IndInv, NEW e \in DOMAIN z, PlainElement(e)
  PROVE  IndInv'
<1> USE DEF PlainElement
<1>1. Filling /\ op.kind = "plain" /\ backend = "cpu"
  BY DEF Running, Filling
<1>2. e \in Indices /\ DOMAIN z = Indices /\ buf = base /\ op.len \in Nat
  BY <1>1, FillingFacts DEF IndInv, OnCpu
<1>3. <<getElement(base, e)>> = Sequential(op, base, e)
  BY <1>1 DEF Sequential, Draws
<1>4. \A f \in Indices : z'[f] = IF f = e THEN Sequential(op, base, e) ELSE z[f]
  BY <1>2, <1>3
<1>5. OnCpu'
  <2>1. \A f \in Indices : z[f] = Nil \/ Right(f)
    BY <1>1 DEF IndInv, OnCpu
  <2>2. \A f \in Indices : z'[f] = Nil \/ z'[f] = Sequential(op, base, f)
    BY <1>4, <2>1 DEF Right
  <2>3. Indices' = Indices /\ Workers' = Workers /\ buf' = base' /\ team' = Threads(op')
    BY <1>1, <1>2 DEF Indices, Workers, work, IndInv, OnCpu
  <2> QED
    BY <1>1, <2>2, <2>3 DEF OnCpu, Right
<1>6. high' \in Int /\ Near(op, base, high')
  <2>1. {e} \in SUBSET Nat /\ \A x \in {e} : Near(op, base, x)
    BY <1>1, <1>2 DEF Indices, Advance, Near
  <2> QED
    BY <1>1, <2>1, ReadFacts
<1>7. at' \in [Workers -> Nat] /\ DOMAIN carry' = Workers
  BY <1>1 DEF IndInv, Shape, work
<1> QED
  BY <1>5, <1>6, <1>7, ThreadFrame DEF work

\* A thread that writes the elements of its next iteration makes progress, and no
\* thread undoes that of another: what is written is right.
LEMMA ProgressStep ==
  ASSUME IndInv, Running("cpu"), op.kind # "plain", NEW w \in Workers,
         UNCHANGED <<op, base, team>>, Step(w),
         \A f \in Indices :
           z'[f] = IF Source(op, f) = at[w] THEN Sequential(op, base, f) ELSE z[f]
  PROVE  \A v \in Workers' : Progress(v)'
<1>1. Filling /\ backend = "cpu"
  BY DEF Running, Filling
<1>2. at \in [Workers -> Nat] /\ \A v \in Workers : Progress(v)
  BY <1>1 DEF IndInv, Shape, OnCpu
<1>3. \A f \in Indices : Source(op, f) \in Int
  BY <1>1, FillingFacts, SourceFacts DEF Indices
<1>4. Workers' = Workers /\ Indices' = Indices
  BY DEF Workers, Indices
<1>5. ASSUME NEW v \in Workers PROVE Progress(v)'
  <2>1. at'[v] = IF v = w THEN at[v] + 1 ELSE at[v]
    BY <1>2 DEF Step
  <2>2. PICK m \in Nat : m = Span(op) * v
    BY <1>1, FillingFacts DEF Workers
  <2>3. at[v] \in Nat /\ at[v] >= m /\ \A f \in Indices :
          (m <= Source(op, f) /\ Source(op, f) < at[v]) => Right(f)
    BY <1>2, <2>2 DEF Progress
  <2>4. ASSUME NEW f \in Indices, m <= Source(op, f), Source(op, f) < at'[v]
        PROVE  z'[f] = Sequential(op, base, f)
    BY <1>3, <2>1, <2>3, <2>4 DEF Right
  <2>5. at'[v] >= m
    BY <2>1, <2>3
  <2> QED
    BY <1>4, <2>2, <2>4, <2>5 DEF Progress, Right
<1> QED
  BY <1>4, <1>5

LEMMA ChunkFacts ==
  ASSUME IndInv, NEW w \in Workers, Chunk(w)
  PROVE  /\ Filling /\ Running("cpu") /\ op.kind # "plain" /\ backend = "cpu" /\ buf = base
         /\ at \in [Workers -> Nat] /\ DOMAIN carry = Workers
         /\ at[w] \in 0..(Range1(op) - 1)
         /\ team = Threads(op)
<1>1. Filling /\ backend = "cpu" /\ op.kind # "plain" /\ Running("cpu")
  BY DEF Chunk, Running, Filling
<1>2. at \in [Workers -> Nat] /\ DOMAIN carry = Workers /\ buf = base /\ team = Threads(op)
  BY <1>1 DEF IndInv, Shape, OnCpu
<1>3. PICK m \in Nat : m = Span(op) * (w + 1)
  BY <1>1, FillingFacts DEF Workers
<1>4. at[w] < End(op, w) /\ Range1(op) \in Nat
  BY <1>1, FillingFacts DEF Chunk
<1>5. End(op, w) = Smaller(m, Range1(op))
  BY <1>3 DEF End
<1>6. at[w] < Range1(op)
  BY <1>2, <1>4, <1>5 DEF Smaller
<1> QED
  BY <1>1, <1>2, <1>4, <1>6

\* What is left to show of an iteration: that it writes what one thread would.
LEMMA IterationInv ==
  ASSUME IndInv, NEW w \in Workers, Chunk(w), Step(w),
         UNCHANGED <<backend, buf, base, calls, op, status, team, pc, copy, shuffle>>,
         DOMAIN z' = DOMAIN z, DOMAIN carry' = Workers,
         \A f \in Indices :
           z'[f] = IF Source(op, f) = at[w] THEN Sequential(op, base, f) ELSE z[f],
         op.kind = "gauss" => \A v \in Workers : Carried(v)',
         NEW S \in SUBSET Nat, Read(S),
         \A x \in S : Near(op, base, x)
  PROVE  IndInv'
<1>1. /\ Filling /\ Running("cpu") /\ op.kind # "plain" /\ backend = "cpu" /\ buf = base
      /\ at \in [Workers -> Nat] /\ team = Threads(op)
  BY ChunkFacts
<1>2. \A v \in Workers' : Progress(v)'
  BY <1>1, ProgressStep
<1>3. at' \in [Workers -> Nat] /\ Workers' = Workers
  BY <1>1 DEF Step, Workers
<1>4. OnCpu'
  BY <1>1, <1>2, <1>3 DEF OnCpu
<1>5. high' \in Int /\ Near(op, base, high')
  BY <1>1, ReadFacts
<1> QED
  BY <1>1, <1>3, <1>4, <1>5, ThreadFrame

LEMMA GaussInv ==
  ASSUME IndInv, NEW w \in Workers, GaussElement(w)
  PROVE  IndInv'
<1> USE DEF GaussElement
<1> DEFINE e == at[w]
<1>1. Chunk(w) /\ op.kind = "gauss" /\ Step(w)
  OBVIOUS
<1>2. /\ Filling /\ backend = "cpu" /\ buf = base /\ e \in Nat /\ e < op.len
      /\ at \in [Workers -> Nat] /\ DOMAIN carry = Workers
  <2>1. Range1(op) = op.len
    BY <1>1 DEF Range1
  <2> QED
    BY <1>1, <2>1, ChunkFacts, FillingFacts
<1>3. op.len \in Nat /\ DOMAIN z = Indices /\ base \in Buffers /\ Advance(op) = op.len /\ e \in Indices
  BY <1>1, <1>2, FillingFacts DEF Advance, Indices
<1>4. \A v \in Workers : Carried(v)
  BY <1>1, <1>2 DEF IndInv, OnCpu
<1> HIDE DEF e
<1>5. ASSUME e % 2 = 0
      PROVE  /\ carry[w] = Nil
             /\ z' = [z EXCEPT ![e] = <<"cos">> \o Draws(base, <<e, e + 1>>)]
             /\ carry' = [carry EXCEPT ![w] = Draws(base, <<e, e + 1>>)]
             /\ Read({e + 1})
  <2>1. carry[w] = Nil
    BY <1>4, <1>5 DEF Carried, Kept, Pair, e
  <2> QED
    BY <2>1, <1>2 DEF e
<1>6. ASSUME e % 2 # 0
      PROVE  /\ z' = [z EXCEPT ![e] = <<"sin">> \o Draws(base, <<e - 1, e>>)]
             /\ carry' = [carry EXCEPT ![w] = Nil]
             /\ Read({})
  <2>1. carry[w] = Draws(base, <<e - 1, e>>)
    BY <1>4, <1>6 DEF Carried, Kept, Pair, e
  <2>2. e - 1 \in Nat
    BY <1>2, <1>6
  <2>3. carry[w] # Nil
    BY <2>1, <2>2, <1>2, <1>3, PairFacts
  <2> QED
    BY <2>1, <2>3 DEF e
<1>7. /\ DOMAIN z' = DOMAIN z /\ DOMAIN carry' = Workers
      /\ \A f \in Indices : f # e => z'[f] = z[f]
      /\ \A v \in Workers : v # w => carry'[v] = carry[v]
      /\ \A v \in Workers : at'[v] = IF v = w THEN e + 1 ELSE at[v]
  <2>1. \A v \in Workers : at'[v] = IF v = w THEN e + 1 ELSE at[v]
    BY <1>1, <1>2 DEF Step, e
  <2>2. CASE e % 2 = 0
    BY <1>2, <1>3, <1>5, <2>1, <2>2
  <2>3. CASE e % 2 # 0
    BY <1>2, <1>3, <1>6, <2>1, <2>3
  <2> QED
    BY <2>2, <2>3
<1>8. z'[e] = Sequential(op, base, e)
  <2>1. CASE e % 2 = 0
    <3>1. e - (e % 2) = e
      BY <1>2, <2>1
    <3>2. Sequential(op, base, e) = <<"cos">> \o Draws(base, <<e, e + 1>>)
      BY <1>1, <3>1 DEF Sequential
    <3> QED
      BY <1>3, <1>5, <2>1, <3>2
  <2>2. CASE e % 2 # 0
    <3>1. e - (e % 2) = e - 1 /\ e # e - 1 /\ e - 1 + 1 = e
      BY <1>2, <2>2
    <3>2. Sequential(op, base, e) = <<"sin">> \o Draws(base, <<e - 1, e>>)
      BY <1>1, <3>1 DEF Sequential
    <3> QED
      BY <1>3, <1>6, <2>2, <3>2
  <2> QED
    BY <2>1, <2>2
<1>9. \A v \in Workers : Carried(v)'
  <2>1. \A v \in Workers : v # w => Carried(v)'
    BY <1>4, <1>7 DEF Carried
  <2>2. carry'[w] = Kept(base, e + 1)
    <3>1. e + 1 - 1 = e /\ (e % 2 = 0 <=> (e + 1) % 2 # 0)
      BY <1>2
    <3>2. CASE e % 2 = 0
      <4>2. Kept(base, e + 1) = Pair(base, e, e + 1)
        BY <1>2, <3>1, <3>2 DEF Kept
      <4>1. Kept(base, e + 1) = Draws(base, <<e, e + 1>>)
        BY <4>2 DEF Pair
      <4> QED
        BY <1>2, <1>5, <3>2, <4>1
    <3>3. CASE e % 2 # 0
      <4>1. Kept(base, e + 1) = Nil
        BY <3>1, <3>3 DEF Kept
      <4> QED
        BY <1>2, <1>6, <3>3, <4>1
    <3> QED
      BY <3>2, <3>3
  <2>3. Carried(w)'
    <3>1. at'[w] = e + 1 /\ base' = base
      BY <1>7
    <3> QED
      BY <2>2, <3>1 DEF Carried
  <2> QED
    BY <2>1, <2>3
<1>10. \A f \in Indices :
         z'[f] = IF Source(op, f) = at[w] THEN Sequential(op, base, f) ELSE z[f]
  BY <1>1, <1>7, <1>8 DEF Source, e
<1>11. \E S \in SUBSET Nat : Read(S) /\ \A x \in S : Near(op, base, x)
  <2>1. CASE e % 2 = 0
    <3>1. {e + 1} \in SUBSET Nat /\ \A x \in {e + 1} : Near(op, base, x)
      BY <1>2, <1>3 DEF Near
    <3> QED
      BY <3>1, <1>5, <2>1
  <2>2. CASE e % 2 # 0
    BY <1>6, <2>2
  <2> QED
    BY <2>1, <2>2
<1> QED
  BY <1>1, <1>7, <1>9, <1>10, <1>11, IterationInv

LEMMA TruncatedInv ==
  ASSUME IndInv, NEW w \in Workers, TruncatedElement(w)
  PROVE  IndInv'
<1> USE DEF TruncatedElement
<1> DEFINE e == at[w]
<1>1. /\ Chunk(w) /\ op.kind = "truncated" /\ Step(w)
      /\ Accepted(op, buf, e) # {} /\ Read({Furthest(op, buf, e)})
  OBVIOUS
<1>2. Filling /\ buf = base /\ e \in 0..(Middle(op) - 1) /\ DOMAIN carry = Workers
  <2>1. Range1(op) = Middle(op)
    BY <1>1 DEF Range1
  <2> QED
    BY <1>1, <2>1, ChunkFacts
<1>3. DOMAIN z = Indices /\ op \in Ops /\ op.kind \in OpKinds
  BY <1>2, FillingFacts
<1> HIDE DEF e
<1>4. ASSUME NEW f \in Indices
      PROVE  z'[f] = IF Source(op, f) = e THEN Sequential(op, base, f) ELSE z[f]
  <2>1. Source(op, f) = e <=> f \in {e, e + Middle(op)}
    BY <1>1, <1>2, <1>3, SourceFacts DEF Source, Indices
  <2>2. z'[f] = IF f \in {e, e + Middle(op)} THEN TruncatedValues(op, base, e)[f] ELSE z[f]
    BY <1>2, <1>3 DEF e
  <2>3. Sequential(op, base, f) = TruncatedValues(op, base, Source(op, f))[f]
    BY <1>1 DEF Sequential, Source
  <2> QED
    BY <2>1, <2>2, <2>3
<1>5. DOMAIN z' = DOMAIN z /\ DOMAIN carry' = Workers
  BY <1>2, <1>3
<1>6. Furthest(op, buf, e) \in Nat /\ Near(op, base, Furthest(op, buf, e))
  BY <1>1, <1>2, <1>3, AttemptFacts
<1>7. PICK S \in SUBSET Nat : Read(S) /\ \A x \in S : Near(op, base, x)
  BY <1>1, <1>6
<1> QED
  BY <1>1, <1>4, <1>5, <1>7, IterationInv DEF e

LEMMA BinomialInv ==
  ASSUME IndInv, NEW w \in Workers, BinomialElement(w)
  PROVE  IndInv'
<1> USE DEF BinomialElement
<1> DEFINE e == at[w]
           S == {Trials(op, e)[t] : t \in 1..op.trials}
<1>1. Chunk(w) /\ op.kind = "binomial" /\ Step(w) /\ Read(S)
  OBVIOUS
<1>2. Filling /\ buf = base /\ e \in Nat /\ e < op.len /\ DOMAIN carry = Workers
  <2>1. Range1(op) = op.len
    BY <1>1 DEF Range1
  <2> QED
    BY <1>1, <2>1, ChunkFacts, FillingFacts
<1>3. /\ DOMAIN z = Indices /\ op.len \in Nat /\ op.trials \in Nat /\ e \in Indices
      /\ Advance(op) = op.len * op.trials
  BY <1>1, <1>2, FillingFacts DEF Advance, Indices
<1> HIDE DEF e, S
<1>4. \A f \in Indices : z'[f] = IF Source(op, f) = e THEN Sequential(op, base, f) ELSE z[f]
  BY <1>1, <1>2, <1>3 DEF Source, Sequential, e
<1>5. S \in SUBSET Nat /\ \A x \in S : Near(op, base, x)
  <2>1. ASSUME NEW t \in 1..op.trials
        PROVE  (e + 1) * t \in Nat /\ (e + 1) * t <= op.len * op.trials
    <3>1. (e + 1) * t \in Nat /\ (e + 1) * t <= op.len * t
      BY <1>2, <1>3
    <3>2. op.len * t <= op.len * op.trials /\ op.len * t \in Nat /\ op.len * op.trials \in Nat
      BY <1>3
    <3> QED
      BY <3>1, <3>2
  <2>2. \A t \in 1..op.trials : Trials(op, e)[t] = (e + 1) * t
    BY DEF Trials
  <2> QED
    BY <1>3, <2>1, <2>2 DEF S, Near
<1>6. DOMAIN z' = DOMAIN z /\ DOMAIN carry' = Workers
  BY <1>2, <1>3
<1> QED
  BY <1>1, <1>4, <1>5, <1>6, IterationInv DEF e

\* After the region every element is right, and the buffer is moved on once.
LEMMA FinishOpInv ==
  ASSUME IndInv, FinishOp
  PROVE  IndInv'
<1> USE DEF FinishOp
<1>1. Filling /\ backend = "cpu" /\ status' = "idle" /\ AllRead
  BY DEF Running, Filling
<1>2. /\ op \in Ops /\ op.kind \in OpKinds /\ op.kind # "shuffle" /\ op.len \in Nat
      /\ Advance(op) \in Nat /\ base \in Buffers /\ base.sync = 0
      /\ high \in Int /\ Near(op, base, high) /\ DOMAIN z = Indices
  BY <1>1, FillingFacts
<1>3. buf = base /\ team = Threads(op) /\ at \in [Workers -> Nat]
  BY <1>1 DEF IndInv, OnCpu, Shape
<1>4. /\ rewindH(base, Advance(op)) \in Buffers /\ rewindH(base, Advance(op)).sync = 0
      /\ Linear(base) \in Int
      /\ Linear(rewindH(base, Advance(op))) = Linear(base) + Advance(op)
  BY <1>2, RewindLinear
<1>5. ASSUME NEW f \in Indices PROVE Right(f)
  <2>1. CASE op.kind = "plain"
    BY <1>1, <1>2, <2>1 DEF AllRead, IndInv, OnCpu
  <2>2. CASE op.kind # "plain"
    <3>1. Source(op, f) \in 0..(Range1(op) - 1)
      BY <1>2, SourceFacts DEF Indices
    <3>2. PICK w \in 0..(Threads(op) - 1) :
            Span(op) * w <= Source(op, f) /\ Source(op, f) < End(op, w)
      BY <1>2, <3>1, SpanFacts
    <3>3. w \in Workers /\ at[w] \in Nat
      BY <1>3, <3>2 DEF Workers
    <3>4. Progress(w) /\ at[w] >= End(op, w)
      BY <1>1, <2>2, <3>3 DEF IndInv, OnCpu, AllRead
    <3>5. End(op, w) \in Int
      BY <1>1, <3>3, FillingFacts DEF End, Smaller, Workers
    <3>6. Source(op, f) < at[w]
      BY <3>1, <3>2, <3>3, <3>4, <3>5
    <3> QED
      BY <3>2, <3>4, <3>6 DEF Progress
  <2> QED
    BY <2>1, <2>2
<1>6. TypeInv'
  BY <1>4, <1>3, <1>1, <1>2 DEF IndInv, TypeInv, work
<1>7. ~Filling'
  BY <1>1 DEF Filling
<1>8. Shape' /\ OnCpu' /\ OnCuda' /\ Tickets' /\ ShuffleInv' /\ Undefined'
  BY <1>1, <1>2, <1>3, <1>4, <1>7 DEF Shape, OnCpu, OnCuda, Tickets, ShuffleInv, Undefined
<1>9. Result'
  BY <1>3, <1>5 DEF Result, Right, Indices
<1>10. Reach'
  <2>1. Linear(base)' = Linear(base) /\ Linear(buf)' = Linear(rewindH(base, Advance(op)))
    BY <1>3 DEF Linear
  <2> QED
    BY <1>2, <1>4, <1>7, <2>1 DEF Reach, Near
<1> QED
  BY <1>6, <1>8, <1>9, <1>10 DEF IndInv

---------------------------------------------------------------------------
(* Blocks on CUDA *)

\* Where rewindH leads does not depend on the tickets.
LEMMA RewindSame ==
  ASSUME NEW b \in Buffers, NEW c \in Buffers, Same(b, c), c.sync = 0, NEW n \in Nat
  PROVE  /\ [rewindH(b, n) EXCEPT !.sync = 0] = rewindH(c, n)
         /\ b.sync = 0 => b = c
         /\ rewindH(c, 0) = c
<1>1. b.pos \in 0..(Size - 1) /\ b.gen \in Nat \ {0} /\ Size \in Nat \ {0} /\ c.pos = b.pos /\ c.gen = b.gen
  BY RandomOpsAssumption DEF Buffers, Same
<1>2. \A d \in Buffers : \A p, g : d.sync = 0 =>
        At(d, p, g) = [seed |-> d.seed, amp |-> d.amp, pos |-> p, gen |-> g, sync |-> 0]
  BY DEF At
<1>3. PICK q \in Nat, r \in 0..(Size - 1) :
        b.pos + n = Size * q + r /\ rewindH(b, n) = At(b, r, b.gen + q)
  BY RewindFacts
<1>4. PICK q2 \in Nat, r2 \in 0..(Size - 1) :
        c.pos + n = Size * q2 + r2 /\ rewindH(c, n) = At(c, r2, c.gen + q2)
  BY RewindFacts
<1>5. q = q2 /\ r = r2
  <2>1. Size * q + r = Size * q2 + r2
    BY <1>1, <1>3, <1>4
  <2> QED
    BY <1>1, <2>1, DivSame
<1>6. [rewindH(b, n) EXCEPT !.sync = 0] = rewindH(c, n)
  <2>1. PICK g \in Nat \ {0} : g = b.gen + q
    BY <1>1
  <2>2. [At(b, r, g) EXCEPT !.sync = 0] = At(c, r, g)
    BY DEF At, Same
  <2> QED
    BY <1>1, <1>3, <1>4, <1>5, <2>1, <2>2
<1>7. b.sync = 0 => b = c
  BY DEF Buffers, Same
<1>8. rewindH(c, 0) = c
  <2>1. c.pos + 0 = c.pos /\ c.pos < Size /\ c.pos \in Nat
    BY <1>1
  <2>2. rewindH(c, 0) = [c EXCEPT !.pos = c.pos]
    BY <1>1, <2>1 DEF rewindH
  <2> QED
    BY <2>2 DEF Buffers
<1> QED
  BY <1>6, <1>7, <1>8

LEMMA CudaFacts ==
  ASSUME IndInv, Running("cuda")
  PROVE  /\ Filling /\ backend = "cuda" /\ status = "running" /\ op.kind \in OpKinds
         /\ Same(buf, base) /\ team \in Nat \ {0} /\ Workers = 0..(team - 1)
         /\ buf.sync = IF Advance(op) = 0 \/ team = 1 THEN 0 ELSE Cardinality(Finished)
         /\ pc \in [Workers -> {"start", "copied", "drawn", "done"}]
         /\ DOMAIN copy = Workers /\ DOMAIN carry = Workers /\ at \in [Workers -> Nat]
         /\ \A w \in Workers : Block(w)
<1>1. Filling /\ backend = "cuda"
  BY DEF Running, Filling
<1> QED
  BY <1>1, FillingFacts DEF IndInv, OnCuda, Shape, Filling, Workers

LEMMA BlockFrame ==
  ASSUME IndInv, Running("cuda"),
         UNCHANGED <<backend, base, calls, op, status, team, at, carry, shuffle>>,
         buf' \in Buffers, DOMAIN z' = DOMAIN z, DOMAIN copy' = Workers,
         pc' \in [Workers -> {"start", "copied", "drawn", "done"}],
         high' \in Int, Near(op, base, high'), OnCuda'
  PROVE  IndInv'
<1>1. Filling /\ op.kind \in OpKinds /\ op.kind # "shuffle" /\ status = "running" /\ backend = "cuda"
  BY CudaFacts, FillingFacts
<1>2. TypeInv'
  BY DEF IndInv, TypeInv
<1>3. Shape'
  BY <1>1 DEF IndInv, Shape, Workers, Indices, Filling
<1>4. OnCpu' /\ Result' /\ Tickets' /\ ShuffleInv' /\ Undefined'
  BY <1>1 DEF OnCpu, Result, Filled, Tickets, ShuffleInv, Undefined
<1>5. Reach'
  BY <1>1 DEF Reach, Filled
<1> QED
  BY <1>2, <1>3, <1>4, <1>5 DEF IndInv

LEMMA CopyBufferInv ==
  ASSUME IndInv, NEW w \in Workers, CopyBuffer(w)
  PROVE  IndInv'
<1> USE DEF CopyBuffer
<1>1. Running("cuda") /\ pc[w] = "start"
  OBVIOUS
<1>2. /\ Filling /\ Same(buf, base) /\ DOMAIN copy = Workers /\ backend = "cuda"
      /\ pc \in [Workers -> {"start", "copied", "drawn", "done"}]
      /\ buf.sync = IF Advance(op) = 0 \/ team = 1 THEN 0 ELSE Cardinality(Finished)
      /\ \A v \in Workers : Block(v)
  BY <1>1, CudaFacts
<1>3. buf \in Buffers /\ high \in Int /\ Near(op, base, high)
  BY <1>2, FillingFacts
<1>4. /\ Workers' = Workers /\ Indices' = Indices /\ Finished' = Finished
      /\ \A v \in Workers : Mine(v)' = Mine(v)
  BY <1>1, <1>2 DEF Workers, Indices, Finished, Mine
<1>5. ASSUME NEW v \in Workers PROVE Block(v)'
  <2>1. CASE v = w
    <3>1. pc'[v] = "copied" /\ copy'[v] = buf
      BY <1>2, <2>1
    <3> QED
      BY <1>2, <1>3, <3>1 DEF Block, Same
  <2>2. CASE v # w
    <3>1. pc'[v] = pc[v] /\ copy'[v] = copy[v]
      BY <1>2, <2>2
    <3> QED
      BY <1>2, <1>4, <3>1 DEF Block, Same, Right
  <2> QED
    BY <2>1, <2>2
<1>6. OnCuda'
  <2>1. pc'[w] # "done"
    BY <1>2
  <2> QED
    BY <1>2, <1>4, <1>5, <2>1 DEF OnCuda, Same
<1> QED
  BY <1>1, <1>2, <1>3, <1>6, BlockFrame

\* The number of threads of a block is even: a pair is never cut in two.
LEMMA SameBlock ==
  ASSUME NEW e \in Nat, e % 2 = 0
  PROVE  (e + 1) \div BlockDim = e \div BlockDim
<1>1. BlockDim \in Nat \ {0} /\ BlockDim % 2 = 0
  BY RandomOpsAssumption
<1>2. PICK h \in Nat : BlockDim = 2 * h
  BY <1>1, DivMod
<1>3. PICK q \in Nat, r \in 0..(BlockDim - 1) : q = e \div BlockDim /\ e = BlockDim * q + r
  BY <1>1, DivMod
<1>4. PICK m \in Nat : m = h * q
  OBVIOUS
<1>5. e = 2 * m + r
  <2>1. (2 * h) * q = 2 * (h * q)
    OBVIOUS
  <2> QED
    BY <1>2, <1>3, <1>4, <2>1
<1>6. r % 2 = 0 /\ r + 1 \in 0..(BlockDim - 1)
  BY <1>1, <1>2, <1>5
<1>7. e + 1 \in Nat /\ e + 1 = BlockDim * q + (r + 1)
  BY <1>1, <1>3
<1>8. (e + 1) \div BlockDim = q
  <2>1. PICK a \in Nat, t \in 0..(BlockDim - 1) : a = e + 1 /\ t = r + 1
    BY <1>6
  <2>2. a = BlockDim * q + t
    BY <1>7, <2>1
  <2>3. a \div BlockDim = q
    BY <1>1, <2>2, DivUnique
  <2> QED
    BY <2>1, <2>3
<1> QED
  BY <1>3, <1>8

LEMMA PairOfBlock ==
  ASSUME IndInv, Running("cuda"), op.kind = "gauss", NEW w \in Workers, NEW e \in Mine(w)
  PROVE  /\ e \in Nat /\ e < op.len
         /\ e % 2 = 0 => tZ(w, e) = getElement(copy[w], e) /\ tZ(w, e + 1) = getElement(copy[w], e + 1)
         /\ e % 2 # 0 => /\ e - 1 \in Nat /\ (e - 1) % 2 = 0
                         /\ tZ(w, e - 1) = getElement(copy[w], e - 1)
                         /\ tZ(w, e) = getElement(copy[w], e)
<1>1. Range1(op) = op.len /\ op.len \in Nat \ {0}
  BY CudaFacts, FillingFacts DEF Range1
<1>2. Mine(w) = {f \in 0..(op.len - 1) : (f \div BlockDim) % team = w}
  BY <1>1 DEF Mine
<1>3. e \in Nat /\ e < op.len /\ (e \div BlockDim) % team = w
  BY <1>1, <1>2
<1>4. tZ(w, e) = getElement(copy[w], e)
  BY DEF tZ
<1>5. ASSUME e % 2 = 0 PROVE tZ(w, e + 1) = getElement(copy[w], e + 1)
  <2>1. CASE e + 1 = op.len
    <3>1. PICK k \in Nat : k = e + 1 /\ k - 1 = e
      BY <1>3
    <3>2. tZ(w, k) = getElement(copy[w], k)
      BY <1>5, <2>1, <3>1 DEF tZ
    <3> QED
      BY <3>1, <3>2
  <2>2. CASE e + 1 < op.len
    <3>1. (e + 1) \div BlockDim = e \div BlockDim
      BY <1>3, <1>5, SameBlock
    <3>2. e + 1 \in Mine(w)
      BY <1>1, <1>2, <1>3, <2>2, <3>1
    <3> QED
      BY <3>2 DEF tZ
  <2> QED
    BY <1>1, <1>3, <2>1, <2>2
<1>6. ASSUME e % 2 # 0
      PROVE  e - 1 \in Nat /\ (e - 1) % 2 = 0 /\ tZ(w, e - 1) = getElement(copy[w], e - 1)
  <2>1. PICK d \in Nat : d = e - 1 /\ d % 2 = 0 /\ d + 1 = e
    BY <1>3, <1>6
  <2>2. (d + 1) \div BlockDim = d \div BlockDim
    BY <2>1, SameBlock
  <2>3. d \in Mine(w)
    BY <1>1, <1>2, <1>3, <2>1, <2>2
  <2>4. tZ(w, d) = getElement(copy[w], d)
    BY <2>3 DEF tZ
  <2> QED
    BY <2>1, <2>4
<1> QED
  BY <1>3, <1>4, <1>5, <1>6

LEMMA Triple ==
  ASSUME NEW c, NEW a, NEW b
  PROVE  <<c>> \o <<a, b>> = <<c, a, b>>
<1> DEFINE S == {c, a, b}  s == <<c>>  t == <<a, b>>  u == <<c, a, b>>
<1>1. s \in Seq(S) /\ t \in Seq(S) /\ Len(s) = 1 /\ Len(t) = 2
  OBVIOUS
<1>2. s[1] = c /\ t[1] = a /\ t[2] = b
  OBVIOUS
<1>3. u \in Seq(S) /\ Len(u) = 3 /\ u[1] = c /\ u[2] = a /\ u[3] = b
  OBVIOUS
<1> HIDE DEF s, t, S, u
<1>4. PICK v : v = s \o t
  OBVIOUS
<1>5. v \in Seq(S) /\ Len(v) = Len(s) + Len(t)
  BY <1>1, <1>4, ConcatProperties, Zenon
<1>6. \A i \in 1..(Len(s) + Len(t)) : v[i] = IF i <= Len(s) THEN s[i] ELSE t[i - Len(s)]
  BY <1>1, <1>4, ConcatProperties, Zenon
<1>7. v[1] = u[1] /\ v[2] = u[2] /\ v[3] = u[3]
  BY <1>1, <1>2, <1>3, <1>6
<1>8. v = u
  BY <1>1, <1>3, <1>5, <1>7
<1> QED
  BY <1>4, <1>8 DEF s, t, u

\* A block writes what one thread would.
LEMMA BlockValueRight ==
  ASSUME IndInv, Running("cuda"), NEW w \in Workers, NEW e \in Mine(w),
         op.kind # "truncated", Same(copy[w], base)
  PROVE  BlockValue(w, e) = Sequential(op, base, e)
<1>1. /\ \A k : getElement(copy[w], k) = getElement(base, k)
      /\ \A ks : Draws(copy[w], ks) = Draws(base, ks)
  BY SameDraws
<1>2. op.kind \in OpKinds /\ base \in Buffers
  BY CudaFacts, FillingFacts
<1>3. CASE op.kind = "plain"
  BY <1>1, <1>3 DEF BlockValue, Sequential, Draws
<1>4. CASE op.kind = "binomial"
  BY <1>1, <1>4 DEF BlockValue, Sequential
<1>5. CASE op.kind = "gauss"
  <2>0. e \in Nat
    BY <1>5, PairOfBlock
  <2>1. CASE e % 2 = 0
    <3>1. BlockValue(w, e) = <<"cos", getElement(base, e), getElement(base, e + 1)>>
      BY <1>1, <1>5, <2>1, PairOfBlock DEF BlockValue
    <3>2. e - (e % 2) = e
      BY <2>0, <2>1
    <3>3. Sequential(op, base, e) = <<"cos">> \o Draws(base, <<e, e + 1>>)
      BY <1>5, <3>2 DEF Sequential
    <3>4. Draws(base, <<e, e + 1>>) = <<getElement(base, e), getElement(base, e + 1)>>
      BY <1>2, <2>0, PairFacts
    <3> QED
      BY <3>1, <3>3, <3>4, Triple
  <2>2. CASE e % 2 # 0
    <3>1. BlockValue(w, e) = <<"sin", getElement(base, e - 1), getElement(base, e)>> /\ e - 1 \in Nat
      BY <1>1, <1>5, <2>2, PairOfBlock DEF BlockValue
    <3>2. e - (e % 2) = e - 1 /\ e # e - 1 /\ e - 1 + 1 = e
      BY <2>0, <2>2
    <3>3. Sequential(op, base, e) = <<"sin">> \o Draws(base, <<e - 1, e>>)
      BY <1>5, <3>2 DEF Sequential
    <3>4. Draws(base, <<e - 1, e>>) = <<getElement(base, e - 1), getElement(base, e)>>
      BY <1>2, <2>0, <3>1, PairFacts
    <3> QED
      BY <3>1, <3>3, <3>4, Triple
  <2> QED
    BY <2>1, <2>2
<1> QED
  BY <1>2, <1>3, <1>4, <1>5 DEF OpKinds

LEMMA BlockElementsInv ==
  ASSUME IndInv, NEW w \in Workers, BlockElements(w)
  PROVE  IndInv'
<1> DEFINE At1(e) == CASE op.kind = "gauss" -> {e - (e % 2) + 1}
                       [] op.kind = "binomial" -> {Trials(op, e)[t] : t \in 1..op.trials}
                       [] op.kind = "truncated" -> {Furthest(op, copy[w], e)}
                       [] OTHER -> {e}
           S == UNION {At1(e) : e \in Mine(w)}
<1>1. Running("cuda") /\ pc[w] = "copied" /\ Read(S)
  BY DEF BlockElements
<1>2. /\ Filling /\ Same(buf, base) /\ DOMAIN copy = Workers /\ backend = "cuda"
      /\ pc \in [Workers -> {"start", "copied", "drawn", "done"}]
      /\ buf.sync = IF Advance(op) = 0 \/ team = 1 THEN 0 ELSE Cardinality(Finished)
      /\ \A v \in Workers : Block(v)
  BY <1>1, CudaFacts
<1>3. /\ op \in Ops /\ op.kind \in OpKinds /\ op.len \in Nat \ {0} /\ op.trials \in Nat
      /\ Middle(op) \in Nat \ {0} /\ Range1(op) \in Nat \ {0} /\ Advance(op) \in Nat
      /\ DOMAIN z = Indices /\ buf \in Buffers
  BY <1>2, FillingFacts
<1>4. Same(copy[w], base)
  BY <1>1, <1>2 DEF Block
<1>5. \A e \in Mine(w) : e \in 0..(Range1(op) - 1)
  BY DEF Mine
<1>6. /\ DOMAIN z' = DOMAIN z
      /\ \A f \in Indices :
           z'[f] = IF Source(op, f) \in Mine(w) THEN Sequential(op, base, f) ELSE z[f]
  <2>1. CASE op.kind = "truncated"
    <3>1. z' = [f \in DOMAIN z |->
                  IF \E e \in Mine(w) : f \in {e, e + Middle(op)}
                  THEN TruncatedValues(op, copy[w], f % Middle(op))[f] ELSE z[f]]
      BY <2>1 DEF BlockElements
    <3>2. Range1(op) = Middle(op)
      BY <2>1 DEF Range1
    <3>3. ASSUME NEW f \in Indices
          PROVE  f % Middle(op) \in Mine(w) <=> \E e \in Mine(w) : f \in {e, e + Middle(op)}
      <4>1. f % Middle(op) \in 0..(Middle(op) - 1)
        BY <1>3 DEF Indices
      <4>2. \A e \in 0..(Middle(op) - 1) : f % Middle(op) = e <=> f \in {e, e + Middle(op)}
        BY <1>3, <2>1, SourceFacts DEF Indices
      <4> QED
        BY <1>5, <3>2, <4>1, <4>2
    <3>4. \A f \in Indices : Sequential(op, base, f) = TruncatedValues(op, base, f % Middle(op))[f]
      BY <2>1 DEF Sequential
    <3>5. \A o, e : TruncatedValues(o, copy[w], e) = TruncatedValues(o, base, e)
      BY <1>4, SameDraws
    <3> QED
      BY <1>3, <2>1, <3>1, <3>3, <3>4, <3>5 DEF Source
  <2>2. CASE op.kind # "truncated"
    <3>1. z' = [e \in DOMAIN z |-> IF e \in Mine(w) THEN BlockValue(w, e) ELSE z[e]]
      BY <2>2 DEF BlockElements
    <3>2. \A e \in Mine(w) : BlockValue(w, e) = Sequential(op, base, e)
      BY <1>1, <1>4, <2>2, BlockValueRight
    <3> QED
      BY <1>3, <2>2, <3>1, <3>2 DEF Source
  <2> QED
    BY <2>1, <2>2
<1>7. /\ UNCHANGED <<backend, buf, base, calls, op, status, team, at, carry, copy, shuffle>>
      /\ pc' = [pc EXCEPT ![w] = "drawn"]
  BY DEF BlockElements
<1>8. /\ Workers' = Workers /\ Indices' = Indices /\ Finished' = Finished
      /\ \A v \in Workers : Mine(v)' = Mine(v)
  BY <1>1, <1>2, <1>7 DEF Workers, Indices, Finished, Mine
<1>9. ASSUME NEW v \in Workers PROVE Block(v)'
  <2>1. \A f \in Indices : Source(op, f) \in Mine(w) => Right(f)'
    BY <1>6, <1>7 DEF Right
  <2>2. \A f \in Indices : Right(f) => Right(f)'
    BY <1>6, <1>7 DEF Right
  <2>3. CASE v = w
    <3>1. pc'[v] = "drawn" /\ copy'[v] = copy[v] /\ pc[v] = "copied"
      BY <1>1, <1>2, <1>7, <2>3
    <3> QED
      BY <1>2, <1>7, <1>8, <2>1, <2>3, <3>1 DEF Block, Same
  <2>4. CASE v # w
    <3>1. pc'[v] = pc[v] /\ copy'[v] = copy[v]
      BY <1>2, <1>7, <2>4
    <3> QED
      BY <1>2, <1>7, <1>8, <2>2, <3>1 DEF Block, Same
  <2> QED
    BY <2>3, <2>4
<1>10. OnCuda'
  <2>1. pc'[w] # "done"
    BY <1>2, <1>7
  <2> QED
    BY <1>2, <1>7, <1>8, <1>9, <2>1 DEF OnCuda, Same
<1>11. high' \in Int /\ Near(op, base, high')
  <2>1. ASSUME NEW e \in Mine(w)
        PROVE  At1(e) \subseteq Nat /\ \A x \in At1(e) : Near(op, base, x)
    <3>1. e \in Nat /\ e < Range1(op)
      BY <1>3, <1>5
    <3>2. CASE op.kind = "gauss"
      <4>1. Advance(op) = op.len /\ Range1(op) = op.len /\ At1(e) = {e - (e % 2) + 1}
        BY <3>2 DEF Advance, Range1
      <4>2. e - (e % 2) + 1 \in Nat /\ e - (e % 2) + 1 <= op.len
        BY <1>3, <3>1, <4>1
      <4> QED
        BY <4>1, <4>2 DEF Near
    <3>3. CASE op.kind = "binomial"
      <4>1. Advance(op) = op.len * op.trials /\ Range1(op) = op.len
            /\ At1(e) = {Trials(op, e)[t] : t \in 1..op.trials}
        BY <3>3 DEF Advance, Range1
      <4>2. ASSUME NEW t \in 1..op.trials
            PROVE  (e + 1) * t \in Nat /\ (e + 1) * t <= op.len * op.trials
        <5>1. (e + 1) * t \in Nat /\ (e + 1) * t <= op.len * t
          BY <1>3, <3>1, <4>1
        <5>2. op.len * t <= op.len * op.trials /\ op.len * t \in Nat /\ op.len * op.trials \in Nat
          BY <1>3
        <5> QED
          BY <5>1, <5>2
      <4>3. \A t \in 1..op.trials : Trials(op, e)[t] = (e + 1) * t
        BY DEF Trials
      <4> QED
        BY <4>1, <4>2, <4>3 DEF Near
    <3>4. CASE op.kind = "plain"
      BY <1>3, <3>1, <3>4 DEF Advance, Range1, Near
    <3>5. CASE op.kind = "truncated"
      <4>1. e \in 0..(Middle(op) - 1) /\ Accepted(op, copy[w], e) # {}
        BY <1>5, <3>5 DEF Range1, BlockElements
      <4>2. /\ Accepted(op, copy[w], e) = Accepted(op, base, e)
            /\ Furthest(op, copy[w], e) = Furthest(op, base, e)
        BY <1>4, SameDraws
      <4>3. Furthest(op, base, e) \in Nat /\ Near(op, base, Furthest(op, base, e))
        BY <1>3, <3>5, <4>1, <4>2, AttemptFacts
      <4> QED
        BY <3>5, <4>2, <4>3
    <3> QED
      BY <1>3, <3>2, <3>3, <3>4, <3>5 DEF OpKinds
  <2> HIDE DEF At1
  <2>2. S \in SUBSET Nat /\ \A x \in S : Near(op, base, x)
    BY <2>1
  <2> QED
    BY <1>1, <1>2, <2>2, ReadFacts
<1> QED
  BY <1>1, <1>2, <1>3, <1>6, <1>7, <1>10, <1>11, BlockFrame

\* The block that finds all others done ends the op; the buffer is then where one
\* thread would have left it.
LEMMA LastBlock ==
  ASSUME IndInv, NEW w \in Workers, Rewind(w), status' = "idle",
         \A v \in Workers : pc[v] \in {"drawn", "done"},
         buf' = rewindH(base, Advance(op))
  PROVE  IndInv'
<1> USE DEF Rewind
<1>1. Filling /\ backend = "cuda" /\ (\A v \in Workers : Block(v)) /\ Workers = 0..(team - 1)
      /\ team \in Nat \ {0}
  BY CudaFacts
<1>2. /\ op \in Ops /\ op.kind \in OpKinds /\ op.kind # "shuffle" /\ op.len \in Nat
      /\ Advance(op) \in Nat /\ base \in Buffers /\ base.sync = 0
      /\ high \in Int /\ Near(op, base, high)
  BY <1>1, FillingFacts
<1>3. /\ buf' \in Buffers /\ buf'.sync = 0 /\ Linear(base) \in Int
      /\ Linear(rewindH(base, Advance(op))) = Linear(base) + Advance(op)
  BY <1>2, RewindLinear
<1>4. ASSUME NEW f \in Indices PROVE Right(f)
  <2>1. PICK e \in Nat : e = Source(op, f) /\ e \in 0..(Range1(op) - 1)
    BY <1>2, SourceFacts, MiddleFacts DEF Indices
  <2>2. BlockDim \in Nat \ {0}
    BY RandomOpsAssumption
  <2>3. PICK q \in Nat : q = e \div BlockDim
    BY <2>2, DivMod
  <2>4. PICK v \in Workers : v = q % team
    BY <1>1
  <2>5. e \in Mine(v)
    BY <2>1, <2>3, <2>4 DEF Mine
  <2> QED
    BY <1>1, <2>1, <2>4, <2>5 DEF Block
<1>5. TypeInv'
  BY <1>2, <1>3 DEF IndInv, TypeInv
<1>6. ~Filling'
  BY DEF Filling
<1>7. Shape' /\ OnCpu' /\ OnCuda' /\ Tickets' /\ ShuffleInv' /\ Undefined'
  BY <1>2, <1>3, <1>6 DEF Shape, OnCpu, OnCuda, Tickets, ShuffleInv, Undefined
<1>8. Result'
  BY <1>4 DEF Result, Right, Indices
<1>9. Reach'
  <2>1. Linear(base)' = Linear(base) /\ Linear(buf)' = Linear(rewindH(base, Advance(op)))
    BY DEF Linear
  <2> QED
    BY <1>2, <1>3, <1>6, <2>1 DEF Reach, Near
<1> QED
  BY <1>5, <1>7, <1>8, <1>9 DEF IndInv

LEMMA RewindInv ==
  ASSUME IndInv, NEW w \in Workers, Rewind(w)
  PROVE  IndInv'
<1>1. /\ Running("cuda") /\ pc[w] = "drawn" /\ pc' = [pc EXCEPT ![w] = "done"]
      /\ UNCHANGED <<backend, base, calls, op, team, at, carry, copy, z, high, shuffle>>
  BY DEF Rewind
<1>2. /\ Filling /\ Same(buf, base) /\ DOMAIN copy = Workers /\ backend = "cuda"
      /\ status = "running" /\ team \in Nat \ {0} /\ Workers = 0..(team - 1)
      /\ pc \in [Workers -> {"start", "copied", "drawn", "done"}]
      /\ buf.sync = IF Advance(op) = 0 \/ team = 1 THEN 0 ELSE Cardinality(Finished)
      /\ \A v \in Workers : Block(v)
  BY <1>1, CudaFacts
<1>3. /\ Advance(op) \in Nat /\ buf \in Buffers /\ base \in Buffers /\ base.sync = 0
      /\ high \in Int /\ Near(op, base, high)
  BY <1>2, FillingFacts
<1>4. /\ [rewindH(buf, Advance(op)) EXCEPT !.sync = 0] = rewindH(base, Advance(op))
      /\ buf.sync = 0 => buf = base
      /\ rewindH(base, 0) = base
  BY <1>2, <1>3, RewindSame
<1> DEFINE Others == Workers \ {w}
<1>5. IsFiniteSet(Workers) /\ Cardinality(Workers) = team
  BY <1>2, FS_Interval
<1>6. IsFiniteSet(Others) /\ Cardinality(Others) = team - 1
  BY <1>2, <1>5, FS_RemoveElement
<1>7. Finished \subseteq Others
  BY <1>1 DEF Finished
<1>8. /\ IsFiniteSet(Finished) /\ Cardinality(Finished) \in Nat /\ Cardinality(Finished) <= team - 1
      /\ Cardinality(Finished) = team - 1 <=> \A v \in Others : pc[v] = "done"
  <2>1. IsFiniteSet(Finished) /\ Cardinality(Finished) <= team - 1
        /\ (Cardinality(Finished) = team - 1 => Finished = Others)
    BY <1>6, <1>7, FS_Subset
  <2>2. Finished = Others <=> \A v \in Others : pc[v] = "done"
    BY <1>7 DEF Finished
  <2> QED
    BY <1>6, <2>1, <2>2, FS_CardinalityType
<1>9. Workers' = Workers /\ Indices' = Indices /\ Finished' = Finished \cup {w}
      /\ \A v \in Workers : Mine(v)' = Mine(v)
  BY <1>1, <1>2 DEF Workers, Indices, Finished, Mine
<1>10. Cardinality(Finished') = Cardinality(Finished) + 1
  BY <1>7, <1>8, <1>9, FS_AddElement
<1>11. CASE \A v \in Others : pc[v] = "done"
  <2>1. status' = "idle"
    BY <1>11 DEF Rewind
  <2>2. \A v \in Workers : pc[v] \in {"drawn", "done"}
    BY <1>1, <1>11
  <2>3. buf' = rewindH(base, Advance(op))
    <3>1. CASE Advance(op) = 0
      BY <1>2, <1>4, <3>1 DEF Rewind
    <3>2. CASE Advance(op) # 0 /\ team = 1
      BY <1>2, <1>4, <3>2 DEF Rewind
    <3>3. CASE Advance(op) # 0 /\ team # 1
      <4>1. buf.sync = team - 1
        BY <1>2, <1>8, <1>11, <3>3
      <4>2. buf' = [rewindH(buf, Advance(op)) EXCEPT !.sync = 0]
        BY <3>3, <4>1 DEF Rewind, amLast
      <4> QED
        BY <1>4, <4>2
    <3> QED
      BY <3>1, <3>2, <3>3
  <2> QED
    BY <2>1, <2>2, <2>3, LastBlock
<1>12. CASE ~(\A v \in Others : pc[v] = "done")
  <2>1. status' = status
    BY <1>12 DEF Rewind
  <2>2. PICK v \in Others : pc[v] # "done"
    BY <1>12
  <2>3. team # 1
    BY <1>2, <2>2
  <2>4. buf' = IF Advance(op) = 0 THEN buf ELSE [buf EXCEPT !.sync = @ + 1]
    <3>1. Advance(op) # 0 => buf.sync # team - 1
      BY <1>2, <1>8, <1>12, <2>3
    <3> QED
      BY <2>3, <3>1 DEF Rewind, amLast
  <2>5. buf' \in Buffers /\ Same(buf', base)
        /\ buf'.sync = IF Advance(op) = 0 THEN 0 ELSE Cardinality(Finished')
    <3>1. CASE Advance(op) = 0
      BY <1>2, <1>3, <2>4, <3>1
    <3>2. CASE Advance(op) # 0
      <4>1. buf.sync \in Nat /\ buf.sync = Cardinality(Finished)
        BY <1>2, <1>8, <2>3, <3>2
      <4>2. PICK n \in Nat : n = buf.sync + 1
        BY <4>1
      <4>3. buf' = [buf EXCEPT !.sync = n]
        BY <2>4, <3>2, <4>2
      <4>4. buf' \in Buffers /\ Same(buf', base) /\ buf'.sync = n
        BY <1>2, <1>3, <4>3 DEF Buffers, Same
      <4> QED
        BY <1>10, <3>2, <4>1, <4>2, <4>4
    <3> QED
      BY <3>1, <3>2
  <2>6. ASSUME NEW u \in Workers PROVE Block(u)'
    <3>1. copy'[u] = copy[u] /\ z' = z /\ base' = base /\ op' = op
      BY <1>1
    <3>2. pc'[u] # "start" => pc[u] # "start"
      BY <1>1, <1>2
    <3>3. pc'[u] \in {"drawn", "done"} => pc[u] \in {"drawn", "done"}
      BY <1>1, <1>2
    <3> QED
      BY <1>2, <1>9, <3>1, <3>2, <3>3 DEF Block, Right, Same
  <2>7. v \in Workers' /\ pc'[v] # "done"
    BY <1>1, <1>2, <1>9, <2>2
  <2>8. OnCuda'
    BY <1>1, <1>9, <2>3, <2>5, <2>6, <2>7 DEF OnCuda, Same
  <2>9. pc' \in [Workers -> {"start", "copied", "drawn", "done"}]
    BY <1>1, <1>2
  <2> QED
    BY <1>1, <1>2, <1>3, <2>1, <2>5, <2>8, <2>9, BlockFrame
<1> QED
  BY <1>11, <1>12

---------------------------------------------------------------------------
(* random_shuffle *)

LEMMA HalfFacts == Half \in Nat \ {0}
BY PowerAssumption DEF Half

\* Only the smallest int keeps its sign.
LEMMA NextIntFacts ==
  ASSUME NEW u \in 0..(2 * Half - 1)
  PROVE  /\ Wrap(u) # MinInt => nextInt(u) \in 0..(Half - 1)
         /\ Wrap(u) = MinInt => nextInt(u) = -Half
<1>1. PICK H \in Nat \ {0} : H = Half
  BY HalfFacts
<1>2. \A x : Wrap(x) = ((x + H) % (2 * H)) - H
  BY <1>1 DEF Wrap
<1>3. \A y \in 0..(2 * H - 1) : y % (2 * H) = y
  BY <1>1
<1>4. (2 * H) % (2 * H) = 0
  <2>1. PICK a \in Nat \ {0} : a = 2 * H
    OBVIOUS
  <2>2. a = a * 1 + 0 /\ 0 \in 0..(a - 1) /\ 1 \in Nat
    BY <2>1
  <2>3. a % a = 0
    BY <2>2, DivUnique
  <2> QED
    BY <2>1, <2>3
<1>5. Wrap(u) \in (-H)..(H - 1)
  BY <1>1, <1>2
<1>6. ASSUME Wrap(u) < 0, Wrap(u) # -H PROVE nextInt(u) \in 0..(H - 1)
  <2>1. PICK v \in 1..(H - 1) : v = -Wrap(u)
    BY <1>5, <1>6
  <2>2. v + H \in 0..(2 * H - 1)
    OBVIOUS
  <2>3. Wrap(v) = v
    BY <1>2, <1>3, <2>2
  <2> QED
    BY <1>6, <2>1, <2>3 DEF nextInt
<1>7. ASSUME Wrap(u) = -H PROVE nextInt(u) = -H
  <2>1. -Wrap(u) = H /\ Wrap(u) < 0
    BY <1>7
  <2>2. Wrap(H) = -H
    <3>1. H + H = 2 * H
      OBVIOUS
    <3>2. Wrap(H) = ((H + H) % (2 * H)) - H
      BY <1>2
    <3>3. Wrap(H) = 0 - H
      BY <1>4, <3>1, <3>2
    <3> QED
      BY <3>3
  <2> QED
    BY <2>1, <2>2 DEF nextInt
<1>8. ASSUME Wrap(u) >= 0 PROVE nextInt(u) \in 0..(H - 1)
  BY <1>5, <1>8 DEF nextInt
<1>9. CASE Wrap(u) = -H
  BY <1>1, <1>7, <1>9 DEF MinInt
<1>10. CASE Wrap(u) # -H
  BY <1>1, <1>5, <1>6, <1>8, <1>10 DEF MinInt
<1> QED
  BY <1>9, <1>10

\* nextInt(0, to) is an index below to, or negative for the smallest int.
LEMMA NextIntToFacts ==
  ASSUME NEW to \in Nat \ {0}, NEW u \in 0..(2 * Half - 1), NEW r \in nextIntTo(to, u), r # Nil
  PROVE  /\ r \in Int
         /\ Wrap(u) # MinInt => r \in 0..(to - 1)
         /\ r \in Nat => r \in 0..(to - 1)
<1>1. PICK H \in Nat \ {0} : H = Half
  BY HalfFacts
<1>2. PICK n : n = nextInt(u)
  OBVIOUS
<1>3. (Wrap(u) # MinInt => n \in 0..(H - 1)) /\ (Wrap(u) = MinInt => n = -H)
  BY <1>1, <1>2, NextIntFacts
<1>4. r = (to * n) \div H \/ r = Rem(n, to)
  BY <1>1, <1>2 DEF nextIntTo
<1>5. CASE Wrap(u) # MinInt
  <2>1. n \in 0..(H - 1)
    BY <1>3, <1>5
  <2>2. Rem(n, to) \in 0..(to - 1)
    BY <2>1 DEF Rem
  <2>3. (to * n) \div H \in 0..(to - 1)
    <3>1. PICK a \in Nat : a = to * n
      BY <2>1
    <3>2. PICK q \in Nat, m \in 0..(H - 1) : q = a \div H /\ a = H * q + m
      BY DivMod
    <3>3. a < to * H
      BY <2>1, <3>1
    <3>4. q < to
      <4> SUFFICES ASSUME q >= to PROVE FALSE
        OBVIOUS
      <4>1. H * q >= to * H
        OBVIOUS
      <4> QED
        BY <3>2, <3>3, <4>1
    <3> QED
      BY <3>1, <3>2, <3>4
  <2> QED
    BY <1>4, <2>2, <2>3
<1>6. CASE Wrap(u) = MinInt
  <2>1. n = -H
    BY <1>3, <1>6
  <2>2. (to * n) \div H = -to
    BY <2>1
  <2>3. Rem(n, to) \in Int /\ Rem(n, to) <= 0
    BY <2>1 DEF Rem
  <2> QED
    BY <1>4, <1>6, <2>2, <2>3
<1> QED
  BY <1>5, <1>6

LEMMA SwapPermutes ==
  ASSUME NEW n \in Nat, NEW T, NEW f \in [0..(n - 1) -> T],
         NEW i \in 0..(n - 1), NEW j \in 0..(n - 1), Permutes(f, n)
  PROVE  Swapped(f, i, j) \in [0..(n - 1) -> T] /\ Permutes(Swapped(f, i, j), n)
<1> DEFINE g == Swapped(f, i, j)
<1>1. g \in [0..(n - 1) -> T]
  BY DEF Swapped
<1>2. \A k \in 0..(n - 1) : g[k] = IF k = j THEN f[i] ELSE IF k = i THEN f[j] ELSE f[k]
  BY DEF Swapped
<1> HIDE DEF g
<1>3. \A k \in 0..(n - 1) : \E m \in 0..(n - 1) : g[m] = f[k]
  BY <1>2
<1>4. \A k \in 0..(n - 1) : \E m \in 0..(n - 1) : f[m] = g[k]
  BY <1>2
<1>5. {g[k] : k \in 0..(n - 1)} = {f[k] : k \in 0..(n - 1)}
  <2>1. \A x \in {g[k] : k \in 0..(n - 1)} : x \in {f[k] : k \in 0..(n - 1)}
    BY <1>4
  <2>2. \A x \in {f[k] : k \in 0..(n - 1)} : x \in {g[k] : k \in 0..(n - 1)}
    BY <1>3
  <2> QED
    BY <2>1, <2>2, Zenon
<1> QED
  BY <1>1, <1>5 DEF Permutes, g

LEMMA ShuffleFacts ==
  ASSUME IndInv, Shuffling
  PROVE  /\ op \in Ops /\ op # Nil /\ op.len \in Nat /\ op.len > 1 /\ status = "running"
         /\ op.kind = "shuffle" /\ op.inplace \in BOOLEAN /\ op.vector \in BOOLEAN
         /\ shuffle \in Shuffles(op.len) /\ Arranged
         /\ shuffle.r # Nil => shuffle.r \in 0..(shuffle.i - 1)
         /\ buf \in Buffers /\ base \in Buffers /\ buf.sync = 0 /\ high \in Int
         /\ Linear(base) + high <= Linear(buf)
<1>1. op \in Ops /\ op.kind = "shuffle" /\ status = "running" /\ buf \in Buffers /\ base \in Buffers
      /\ high \in Int
  BY DEF IndInv, TypeInv, Shuffling
<1>2. op # Nil
  BY <1>1, NilAssumption
<1> QED
  BY <1>1, <1>2, OpFacts DEF IndInv, ShuffleInv, Tickets, Reach

LEMMA ShuffleFrame ==
  ASSUME IndInv, Shuffling, UNCHANGED <<backend, base, calls, op, work, z>>,
         buf' \in Buffers, buf'.sync = 0, high' \in Int, Linear(base) + high' <= Linear(buf'),
         status' \in {"idle", "running", "undefined"}, ShuffleInv'
  PROVE  IndInv'
<1>1. op \in Ops /\ op.kind = "shuffle"
  BY ShuffleFacts
<1>2. ~Filling' /\ ~Filled'
  BY <1>1 DEF Filling, Filled, OpKinds
<1>3. TypeInv'
  BY <1>1 DEF IndInv, TypeInv, work
<1>4. Shape' /\ OnCpu' /\ OnCuda' /\ Result' /\ Tickets' /\ Undefined'
  BY <1>1, <1>2 DEF Shape, OnCpu, OnCuda, Result, Tickets, Undefined
<1>5. Reach'
  <2>1. Linear(base)' = Linear(base) /\ Linear(buf)' = Linear(buf')
    BY DEF Linear
  <2> QED
    BY <1>2, <2>1 DEF Reach
<1> QED
  BY <1>3, <1>4, <1>5 DEF IndInv

LEMMA DrawIndexInv ==
  ASSUME IndInv, NEW u \in 0..(2 * Half - 1), DrawIndex(u)
  PROVE  IndInv'
<1>1. Shuffling /\ shuffle.i > 0 /\ UNCHANGED <<backend, base, calls, op, work, z>>
      /\ buf' = getNextIndex(buf) /\ high' = Linear(buf') - Linear(base)
  BY DEF DrawIndex
<1>2. PICK r \in nextIntTo(shuffle.i, u) :
        /\ shuffle' = [shuffle EXCEPT !.r = r, !.least = Wrap(u) = MinInt,
                                      !.tries = IF r = Nil THEN @ + 1 ELSE @]
        /\ status' = IF r = Nil \/ r \in DOMAIN shuffle.indeces THEN status ELSE "undefined"
  BY DEF DrawIndex
<1>3. /\ op # Nil /\ op.len \in Nat /\ status = "running" /\ op.kind = "shuffle"
      /\ shuffle \in Shuffles(op.len) /\ Arranged /\ buf \in Buffers /\ buf.sync = 0
      /\ base \in Buffers
  BY <1>1, ShuffleFacts
<1>4. /\ shuffle.i \in Nat \ {0} /\ shuffle.tries \in Nat
      /\ shuffle.indeces \in [0..(op.len - 1) -> 0..(op.len - 1)]
  BY <1>1, <1>3 DEF Shuffles
<1>5. r # Nil => /\ r \in Int
                 /\ Wrap(u) # MinInt => r \in 0..(shuffle.i - 1)
                 /\ r \in Nat => r \in 0..(shuffle.i - 1)
  BY <1>4, NextIntToFacts
<1>6. shuffle' \in Shuffles(op.len)
  <2>1. PICK l \in BOOLEAN : l = (Wrap(u) = MinInt)
    OBVIOUS
  <2>2. PICK t \in Nat : t = IF r = Nil THEN shuffle.tries + 1 ELSE shuffle.tries
    BY <1>4
  <2>3. shuffle' = [shuffle EXCEPT !.r = r, !.least = l, !.tries = t]
    BY <1>2, <2>1, <2>2
  <2>4. r \in Int \cup {Nil}
    BY <1>5
  <2> QED
    BY <1>3, <2>3, <2>4 DEF Shuffles
<1>7. /\ shuffle'.i = shuffle.i /\ shuffle'.indeces = shuffle.indeces /\ shuffle'.arr = shuffle.arr
      /\ shuffle'.zero = shuffle.zero /\ shuffle'.r = r
      /\ shuffle'.least = (Wrap(u) = MinInt)
  BY <1>2, <1>3 DEF Shuffles
<1>8. Arranged'
  BY <1>1, <1>3, <1>7 DEF Arranged
<1>9. status' = "running" \/ (status' = "undefined" /\ r # Nil /\ r \notin 0..(op.len - 1))
  BY <1>2, <1>3, <1>4
<1>10. status' = "running" => (r = Nil \/ r \in 0..(op.len - 1))
  BY <1>2, <1>3, <1>4
<1>11. shuffle.i \in 0..(op.len - 1)
  BY <1>3 DEF Shuffles
<1>12. (status' = "running" /\ r # Nil) => r \in 0..(shuffle.i - 1)
  BY <1>3, <1>5, <1>10
<1>13. status' = "undefined" => Wrap(u) = MinInt
  BY <1>3, <1>5, <1>9, <1>11
<1>14. ShuffleInv'
  BY <1>1, <1>6, <1>7, <1>8, <1>9, <1>12, <1>13 DEF ShuffleInv
<1>15. /\ buf' \in Buffers /\ buf'.sync = 0 /\ Linear(buf') = Linear(buf) + 1
       /\ Linear(buf) \in Int /\ Linear(base) \in Int
  BY <1>1, <1>3, NextIndexLinear, RewindLinear
<1>16. high' \in Int /\ Linear(base) + high' <= Linear(buf')
  BY <1>1, <1>15
<1> QED
  BY <1>1, <1>9, <1>14, <1>15, <1>16, ShuffleFrame

\* An exchange fixes the slice at its place and keeps the rest a permutation.
LEMMA ExchangeInv ==
  ASSUME IndInv, Exchange
  PROVE  IndInv'
<1> DEFINE i == shuffle.i  r == shuffle.r  n == op.len
           a == shuffle.arr  d == shuffle.indeces
<1>1. /\ op # Nil /\ n \in Nat /\ status = "running" /\ op.kind = "shuffle"
      /\ op.inplace \in BOOLEAN /\ op.vector \in BOOLEAN /\ Shuffling
      /\ shuffle \in Shuffles(n) /\ Arranged /\ buf \in Buffers /\ buf.sync = 0
      /\ r \in 0..(i - 1) /\ high \in Int /\ Linear(base) + high <= Linear(buf)
  BY ShuffleFacts DEF Exchange
<1>2. UNCHANGED <<backend, buf, base, calls, op, status, work, z, high>>
  BY DEF Exchange
<1>3. /\ i \in 0..(n - 1) /\ d \in [0..(n - 1) -> 0..(n - 1)]
      /\ a \in [0..(n - 1) -> 0..(n - 1) \cup {Nil}] /\ shuffle.zero \in BOOLEAN
      /\ shuffle.tries \in Nat
  BY <1>1 DEF Shuffles
<1>4. r \in 0..(n - 1) /\ r # i /\ i - 1 \in 0..(n - 1) /\ r < i
  BY <1>1, <1>3
<1>5. Permutes(d, n) /\ (op.inplace => Permutes(a, n))
  BY <1>1 DEF Arranged
<1>6. Swapped(d, i, r) \in [0..(n - 1) -> 0..(n - 1)] /\ Permutes(Swapped(d, i, r), n)
  BY <1>1, <1>3, <1>4, <1>5, SwapPermutes
<1>7. ASSUME NEW A \in [0..(n - 1) -> 0..(n - 1) \cup {Nil}], NEW D \in [0..(n - 1) -> 0..(n - 1)],
             NEW Z \in BOOLEAN,
             shuffle' = [i |-> i - 1, r |-> Nil, least |-> FALSE, tries |-> shuffle.tries,
                         indeces |-> D, arr |-> A, zero |-> Z],
             op.inplace => Permutes(A, n), Permutes(D, n),
             ~op.inplace => /\ \A k \in i..(n - 1) : A[k] = D[k]
                            /\ (Z \/ op.vector) => A[0] = D[0]
                            /\ ~Z => D[0] = 0
      PROVE  IndInv'
  <2>1. shuffle' \in Shuffles(n)
    BY <1>3, <1>4, <1>7 DEF Shuffles
  <2>2. /\ shuffle'.arr = A /\ shuffle'.indeces = D /\ shuffle'.zero = Z /\ shuffle'.r = Nil
        /\ shuffle'.i + 1 = i
    BY <1>3, <1>7
  <2>3. Arranged'
    BY <1>2, <1>7, <2>2 DEF Arranged
  <2>4. ShuffleInv'
    BY <1>1, <1>2, <2>1, <2>2, <2>3 DEF ShuffleInv
  <2> QED
    BY <1>1, <1>2, <2>4, ShuffleFrame
<1>8. shuffle = [i |-> i, r |-> r, least |-> shuffle.least, tries |-> shuffle.tries,
                 indeces |-> d, arr |-> a, zero |-> shuffle.zero]
  BY <1>1 DEF Shuffles
<1>9. CASE ~op.inplace
  <2> DEFINE A == [a EXCEPT ![i] = d[r], ![r] = d[i]]
             D == Swapped(d, i, r)
  <2>1. PICK Z \in BOOLEAN : Z = (shuffle.zero \/ r = 0)
    OBVIOUS
  <2>2. shuffle' = [Exchanged(shuffle, i, r) EXCEPT !.i = i - 1, !.r = Nil, !.least = FALSE]
    BY <1>9 DEF Exchange
  <2>5. A \in [0..(n - 1) -> 0..(n - 1) \cup {Nil}]
    BY <1>3, <1>4
  <2>3. PICK E \in Shuffles(n) : /\ E = Exchanged(shuffle, i, r) /\ E.arr = A /\ E.indeces = D
                                 /\ E.zero = Z /\ E.tries = shuffle.tries
    <3>1. Exchanged(shuffle, i, r) = [shuffle EXCEPT !.arr = A, !.indeces = D, !.zero = Z]
      BY <1>4, <2>1 DEF Exchanged
    <3> HIDE DEF A, D
    <3>2. [shuffle EXCEPT !.arr = A, !.indeces = D, !.zero = Z] \in Shuffles(n)
      BY <1>1, <1>6, <2>5 DEF Shuffles, D
    <3>3. PICK E \in Shuffles(n) : E = [shuffle EXCEPT !.arr = A, !.indeces = D, !.zero = Z]
      BY <3>2
    <3>4. E.arr = A /\ E.indeces = D /\ E.zero = Z /\ E.tries = shuffle.tries
      BY <1>1, <3>3 DEF Shuffles
    <3> QED
      BY <3>1, <3>3, <3>4
  <2>4. shuffle' = [i |-> i - 1, r |-> Nil, least |-> FALSE, tries |-> shuffle.tries,
                    indeces |-> D, arr |-> A, zero |-> Z]
    <3>1. shuffle' = [E EXCEPT !.i = i - 1, !.r = Nil, !.least = FALSE]
      BY <2>2, <2>3
    <3> HIDE DEF A, D
    <3> QED
      BY <2>3, <3>1 DEF Shuffles
  <2>6. \A k \in 0..(n - 1) : /\ A[k] = IF k = r THEN d[i] ELSE IF k = i THEN d[r] ELSE a[k]
                              /\ D[k] = IF k = r THEN d[i] ELSE IF k = i THEN d[r] ELSE d[k]
    BY <1>3, <1>4 DEF Swapped
  <2>7. /\ \A k \in (i + 1)..(n - 1) : a[k] = d[k]
        /\ (shuffle.zero \/ op.vector) => a[0] = d[0]
        /\ ~shuffle.zero => d[0] = 0
    BY <1>1, <1>9 DEF Arranged
  <2> HIDE DEF A, D
  <2>8. ASSUME NEW k \in i..(n - 1) PROVE A[k] = D[k]
    <3>1. k \in 0..(n - 1) /\ k # r /\ (k = i \/ k \in (i + 1)..(n - 1))
      BY <1>1, <1>3, <1>4
    <3> QED
      BY <2>6, <2>7, <3>1
  <2>9. 0 \in 0..(n - 1) /\ i # 0
    BY <1>1, <1>3, <1>4
  <2>10. (Z \/ op.vector) => A[0] = D[0]
    BY <2>1, <2>6, <2>7, <2>9
  <2>11. ~Z => D[0] = 0
    BY <2>1, <2>6, <2>7, <2>9
  <2> QED
    BY <1>6, <1>7, <1>9, <2>4, <2>5, <2>8, <2>10, <2>11 DEF D
<1>10. CASE op.inplace /\ ~op.vector
  <2>1. shuffle' = [[shuffle EXCEPT !.arr = Swapped(@, i, r)]
                      EXCEPT !.i = i - 1, !.r = Nil, !.least = FALSE]
    BY <1>10 DEF Exchange
  <2>2. shuffle' = [i |-> i - 1, r |-> Nil, least |-> FALSE, tries |-> shuffle.tries,
                    indeces |-> d, arr |-> Swapped(a, i, r), zero |-> shuffle.zero]
    BY <1>8, <2>1
  <2>3. Swapped(a, i, r) \in [0..(n - 1) -> 0..(n - 1) \cup {Nil}] /\ Permutes(Swapped(a, i, r), n)
    <3>1. PICK T : T = 0..(n - 1) \cup {Nil} /\ a \in [0..(n - 1) -> T]
      BY <1>3
    <3>2. Permutes(a, n)
      BY <1>5, <1>10
    <3> HIDE DEF a, i, r, n
    <3>3. Swapped(a, i, r) \in [0..(n - 1) -> T] /\ Permutes(Swapped(a, i, r), n)
      BY <1>1, <1>3, <1>4, <3>1, <3>2, SwapPermutes
    <3> QED
      BY <3>1, <3>3
  <2> QED
    BY <1>3, <1>5, <1>7, <1>10, <2>2, <2>3
<1>11. CASE op.inplace /\ op.vector
  <2>1. shuffle' = [shuffle EXCEPT !.i = i - 1, !.r = Nil, !.least = FALSE]
    BY <1>11 DEF Exchange
  <2>2. shuffle' = [i |-> i - 1, r |-> Nil, least |-> FALSE, tries |-> shuffle.tries,
                    indeces |-> d, arr |-> a, zero |-> shuffle.zero]
    BY <1>8, <2>1
  <2> QED
    BY <1>3, <1>5, <1>7, <1>11, <2>2
<1> QED
  BY <1>1, <1>9, <1>10, <1>11

LEMMA FinishShuffleInv ==
  ASSUME IndInv, FinishShuffle
  PROVE  IndInv'
<1> DEFINE n == op.len  a == shuffle.arr  d == shuffle.indeces
<1>1. /\ op # Nil /\ op \in Ops /\ n \in Nat /\ n > 1 /\ status = "running" /\ op.kind = "shuffle"
      /\ op.inplace \in BOOLEAN /\ op.vector \in BOOLEAN /\ Shuffling
      /\ shuffle \in Shuffles(n) /\ Arranged /\ buf \in Buffers /\ buf.sync = 0 /\ base \in Buffers
      /\ high \in Int /\ Linear(base) + high <= Linear(buf) /\ shuffle.i = 0
  BY ShuffleFacts DEF FinishShuffle
<1>2. UNCHANGED <<backend, base, calls, op, work, z, high>> /\ status' = "idle"
  BY DEF FinishShuffle
<1>3. /\ d \in [0..(n - 1) -> 0..(n - 1)]
      /\ a \in [0..(n - 1) -> 0..(n - 1) \cup {Nil}] /\ shuffle.zero \in BOOLEAN
  BY <1>1 DEF Shuffles
<1>4. shuffle' \in Shuffles(n) /\ shuffle'.i = 0 /\ shuffle'.indeces = d /\ shuffle'.zero = shuffle.zero
      /\ Permutes(shuffle'.arr, n) /\ Arranged'
  <2>1. CASE op.inplace
    <3>1. shuffle' = shuffle
      BY <2>1 DEF FinishShuffle
    <3> QED
      BY <1>1, <1>2, <2>1, <3>1 DEF Arranged
  <2>2. CASE ~op.inplace /\ (op.vector \/ shuffle.zero)
    <3>1. shuffle' = shuffle
      BY <2>2 DEF FinishShuffle
    <3>2. \A k \in 0..(n - 1) : a[k] = d[k]
      BY <1>1, <2>2 DEF Arranged
    <3>3. {a[k] : k \in 0..(n - 1)} = {d[k] : k \in 0..(n - 1)}
      BY <3>2
    <3> QED
      BY <1>1, <1>2, <3>1, <3>3 DEF Arranged, Permutes
  <2>3. CASE ~op.inplace /\ ~(op.vector \/ shuffle.zero)
    <3> DEFINE A == [a EXCEPT ![0] = 0]
    <3>1. shuffle' = [shuffle EXCEPT !.arr[0] = 0]
      BY <2>3 DEF FinishShuffle
    <3>2. A \in [0..(n - 1) -> 0..(n - 1) \cup {Nil}] /\ 0 \in 0..(n - 1)
      BY <1>1, <1>3
    <3>3. shuffle' = [shuffle EXCEPT !.arr = A]
      BY <3>1
    <3>4. \A k \in 0..(n - 1) : A[k] = d[k]
      <4>1. d[0] = 0 /\ \A k \in (0 + 1)..(n - 1) : a[k] = d[k]
        BY <1>1, <2>3 DEF Arranged
      <4> QED
        BY <1>1, <1>3, <4>1
    <3> HIDE DEF A
    <3>5. {A[k] : k \in 0..(n - 1)} = {d[k] : k \in 0..(n - 1)}
      BY <3>4
    <3>6. Permutes(A, n) /\ Permutes(d, n)
      BY <1>1, <3>5 DEF Arranged, Permutes
    <3>7. /\ shuffle' \in Shuffles(n) /\ shuffle'.i = shuffle.i /\ shuffle'.indeces = d
          /\ shuffle'.zero = shuffle.zero /\ shuffle'.arr = A
      BY <1>1, <3>2, <3>3 DEF Shuffles
    <3>8. Arranged'
      BY <1>1, <1>2, <2>3, <3>2, <3>4, <3>6, <3>7 DEF Arranged
    <3> QED
      BY <1>1, <3>6, <3>7, <3>8
  <2> QED
    BY <2>1, <2>2, <2>3
<1>5. ShuffleInv'
  BY <1>1, <1>2, <1>4 DEF ShuffleInv
<1>6. Advance(op) \in Nat
  BY <1>1, OpFacts
<1>7. buf' \in Buffers /\ buf'.sync = 0 /\ Linear(base) + high <= Linear(buf')
  <2>1. buf' = buf \/ buf' = rewindH(buf, Advance(op))
    BY DEF FinishShuffle
  <2>2. /\ rewindH(buf, Advance(op)) \in Buffers /\ rewindH(buf, Advance(op)).sync = 0
        /\ Linear(buf) \in Int /\ Linear(base) \in Int
        /\ Linear(rewindH(buf, Advance(op))) = Linear(buf) + Advance(op)
    BY <1>1, <1>6, RewindLinear
  <2> QED
    BY <1>1, <1>6, <2>1, <2>2
<1> QED
  BY <1>1, <1>2, <1>5, <1>7, ShuffleFrame

---------------------------------------------------------------------------
(* The theorems *)

LEMMA NextInv ==
  ASSUME IndInv, [Next]_vars
  PROVE  IndInv'
<1>1. ASSUME NEW s \in Seeds, RefreshBuffer(s) PROVE IndInv'
  BY <1>1, RefreshInv
<1>2. ASSUME NEW s \in Seeds, ReSeedBuffer(s) PROVE IndInv'
  BY <1>2, ReSeedInv
<1>3. ASSUME NEW o \in Ops, o.kind = "shuffle", StartShuffle(o) PROVE IndInv'
  BY <1>3, StartShuffleInv
<1>4. ASSUME NEW o \in Ops, o.kind # "shuffle", NEW n \in 1..(MaxThreads + MaxBlocks), StartOp(o, n)
      PROVE  IndInv'
  <2>1. n \in Nat
    BY RandomOpsAssumption
  <2> QED
    BY <1>4, <2>1, StartOpInv
<1>5. ASSUME NEW e \in DOMAIN z, PlainElement(e) PROVE IndInv'
  BY <1>5, PlainInv
<1>6. ASSUME NEW w \in Workers, GaussElement(w) PROVE IndInv'
  BY <1>6, GaussInv
<1>7. ASSUME NEW w \in Workers, TruncatedElement(w) PROVE IndInv'
  BY <1>7, TruncatedInv
<1>8. ASSUME NEW w \in Workers, BinomialElement(w) PROVE IndInv'
  BY <1>8, BinomialInv
<1>9. ASSUME FinishOp PROVE IndInv'
  BY <1>9, FinishOpInv
<1>10. ASSUME NEW w \in Workers, CopyBuffer(w) PROVE IndInv'
  BY <1>10, CopyBufferInv
<1>11. ASSUME NEW w \in Workers, BlockElements(w) PROVE IndInv'
  BY <1>11, BlockElementsInv
<1>12. ASSUME NEW w \in Workers, Rewind(w) PROVE IndInv'
  BY <1>12, RewindInv
<1>13. ASSUME Exchange PROVE IndInv'
  BY <1>13, ExchangeInv
<1>14. ASSUME FinishShuffle PROVE IndInv'
  BY <1>14, FinishShuffleInv
<1>15. ASSUME NEW u \in 0..(2 * Half - 1), DrawIndex(u) PROVE IndInv'
  BY <1>15, DrawIndexInv
<1>16. CASE UNCHANGED vars
  <2>1. TypeInv' /\ Shape' /\ OnCpu' /\ OnCuda'
    BY <1>16 DEF vars, IndInv, TypeInv, Shape, OnCpu, OnCuda, Filling, Indices, Workers,
                 Progress, Carried, Right, Block, Same, Finished, Mine
  <2>2. Result' /\ Tickets' /\ Reach' /\ ShuffleInv' /\ Undefined'
    BY <1>16 DEF vars, IndInv, Undefined, Result, Filled, Filling, Indices, Right, Tickets, Reach, Linear,
                 ShuffleInv, Arranged
  <2> QED
    BY <2>1, <2>2 DEF IndInv
<1>17. CASE StartStep
  BY <1>1, <1>2, <1>3, <1>4, <1>17 DEF StartStep
<1>18. CASE CpuStep
  BY <1>5, <1>6, <1>7, <1>8, <1>9, <1>18 DEF CpuStep
<1>19. CASE CudaStep
  BY <1>10, <1>11, <1>12, <1>19 DEF CudaStep
<1>20. CASE ShuffleStep
  BY <1>13, <1>14, <1>15, <1>20 DEF ShuffleStep
<1> QED
  BY <1>16, <1>17, <1>18, <1>19, <1>20 DEF Next

\* Every step of an op, a shuffle or the caller keeps the inductive invariant.
THEOREM Invariant == Spec => []IndInv
<1>1. Init => IndInv
  BY InitInv
<1>2. IndInv /\ [Next]_vars => IndInv'
  BY NextInv
<1> QED
  BY <1>1, <1>2, PTL DEF Spec

\* The position stays inside the buffer whatever an op skips, and no tickets are
\* left between two ops: getNextIndex, rewindH and rewind of the CUDA buffer.
THEOREM RandomTypeOK == Spec => []TypeOK
<1>1. ASSUME IndInv PROVE TypeOK
  <2>1. /\ buf \in Buffers /\ status \in {"idle", "running", "undefined"} /\ calls \in 0..MaxCalls
        /\ op \in Ops \cup {Nil} /\ team \in Nat
    BY <1>1 DEF IndInv, TypeInv
  <2>2. /\ buf.seed \in Seeds /\ buf.amp \in Seeds /\ buf.pos \in 0..(Size - 1)
        /\ buf.gen \in Nat \ {0} /\ buf.sync \in Nat
    BY <2>1 DEF Buffers
  <2>3. status = "idle" => buf.sync = 0
    BY <1>1 DEF IndInv, Tickets
  <2>4. buf.sync \in 0..Larger(team - 1, 0)
    <3>1. CASE buf.sync = 0
      BY <2>1, <3>1 DEF Larger
    <3>2. CASE buf.sync # 0
      <4>1. status # "idle" /\ backend = "cuda" /\ op.kind # "shuffle" /\ op \in Ops
        BY <1>1, <3>2 DEF IndInv, Tickets, TypeInv
      <4>2. status # "undefined"
        <5>1. status = "undefined" => op.kind = "shuffle"
          BY <1>1 DEF IndInv, Undefined
        <5> QED
          BY <4>1, <5>1
      <4>3. Filling
        BY <2>1, <4>1, <4>2, OpFacts DEF Filling
      <4>4. PICK w \in Workers : pc[w] # "done"
        BY <1>1, <4>1, <4>3 DEF IndInv, OnCuda
      <4>5. Workers = 0..(team - 1) /\ team > 0
        BY <1>1, <4>3, FillingFacts DEF Workers
      <4>9. IsFiniteSet(Workers) /\ Cardinality(Workers) = team
        BY <2>1, <4>5, FS_Interval
      <4>6. IsFiniteSet(Workers \ {w}) /\ Cardinality(Workers \ {w}) = team - 1
        BY <4>4, <4>9, FS_RemoveElement
      <4>7. Cardinality(Finished) <= team - 1
        BY <4>4, <4>6, FS_Subset DEF Finished
      <4>8. buf.sync = Cardinality(Finished)
        BY <1>1, <3>2, <4>1, <4>3 DEF IndInv, OnCuda
      <4> QED
        BY <2>1, <2>2, <4>7, <4>8 DEF Larger
    <3> QED
      BY <3>1, <3>2
  <2> QED
    BY <2>1, <2>2, <2>3, <2>4 DEF TypeOK
<1> QED
  BY <1>1, Invariant, PTL

\* Every element of a finished op is what one thread would have computed from the
\* buffer the op began with: for every team of threads with its spans in execTransform
\* of the random ops, every grid, and every interleaving of their steps.
THEOREM RandomResultsDeterministic == Spec => []ResultsDeterministic
<1>1. IndInv => ResultsDeterministic
  BY DEF IndInv, Result, Right, Indices, ResultsDeterministic
<1> QED
  BY <1>1, Invariant, PTL

\* However many blocks an op has, rewind moves the position on once, by the elements
\* of the op, counted through all generations.
THEOREM RandomSkipExact == Spec => []SkipExact
<1>1. ASSUME IndInv, Filled PROVE Linear(buf) = Linear(base) + Advance(op)
  <2>1. base \in Buffers /\ op \in Ops
    BY <1>1 DEF IndInv, TypeInv, Filled
  <2>2. Advance(op) \in Nat /\ buf = rewindH(base, Advance(op))
    BY <1>1, <2>1, OpFacts DEF IndInv, Result
  <2> QED
    BY <2>1, <2>2, RewindLinear
<1>2. IndInv => SkipExact
  BY <1>1 DEF SkipExact
<1> QED
  BY <1>2, Invariant, PTL

\* What getElement reads ahead of a buffer of the first generation is what it reads
\* after rewindH has moved the buffer on, up to its end.
LEMMA ElementAhead ==
  ASSUME NEW b \in Buffers, b.gen = 1, NEW n \in Nat,
         NEW k \in 0..(Size - 1 - rewindH(b, n).pos)
  PROVE  getElement(rewindH(b, n), k) = getElement(b, n + k)
<1>1. b.pos \in 0..(Size - 1) /\ Size \in Nat \ {0}
  BY RandomOpsAssumption DEF Buffers
<1>2. PICK q \in Nat, r \in 0..(Size - 1) :
        b.pos + n = Size * q + r /\ rewindH(b, n) = At(b, r, b.gen + q)
  BY RewindFacts
<1>3. PICK g \in Nat \ {0} : g = 1 + q
  OBVIOUS
<1>4. PICK c \in Buffers : c = rewindH(b, n) /\ c.seed = b.seed /\ c.amp = b.amp
                           /\ c.pos = r /\ c.gen = g
  BY <1>2, <1>3, AtFacts
<1>5. PICK e \in 0..(Size - 1) : e = r + k /\ c.pos + k = e
  BY <1>1, <1>2, <1>4
<1>6. e % Size = e /\ ~(e >= Size)
  <2>1. e \in Nat /\ Size \in Nat \ {0} /\ e < Size
    BY <1>1, <1>5
  <2> QED
    BY <2>1
<1>7. PICK m \in Nat : m = Size * q
  BY <1>1, <1>2
<1>8. PICK p \in Nat : p = b.pos + (n + k) /\ p = Size * q + e
  <2>1. b.pos + n = m + r /\ b.pos \in Nat /\ k \in Nat /\ r \in Nat /\ e \in Nat
    BY <1>1, <1>2, <1>5, <1>7
  <2>2. b.pos + (n + k) = m + e /\ m + e \in Nat
    BY <2>1, <1>5
  <2> QED
    BY <1>7, <2>2
<1>9. p % Size = e /\ p \div Size = q
  <2>1. Size \in Nat \ {0} /\ q \in Nat /\ e \in 0..(Size - 1) /\ p \in Nat /\ p = Size * q + e
    BY <1>1, <1>5, <1>8
  <2> QED
    BY ONLY <2>1, DivUnique
<1>10. p >= Size <=> q > 0
  <2>1. CASE q = 0
    BY <1>1, <1>5, <1>8, <2>1
  <2>2. CASE q > 0
    <3>1. m >= Size
      BY <1>1, <1>7, <2>2
    <3> QED
      BY <3>1, <1>1, <1>5, <1>7, <1>8, <2>2
  <2> QED
    BY <2>1, <2>2
<1>11. PICK t : t = b.gen + (IF p >= Size THEN p \div Size ELSE 0) /\ t = g
  BY <1>3, <1>9, <1>10
<1>12. c.gen + (IF e >= Size THEN e \div Size ELSE 0) = g
  BY <1>4, <1>6
<1> DEFINE amp == IF b.amp # b.seed THEN <<b.amp>> ELSE <<>>
           own == IF g > 1 THEN <<g>> ELSE <<>>
<1>13. getElement(c, k) = [seed |-> b.seed, idx |-> e, shifts |-> <<>> \o own \o amp]
  BY <1>4, <1>5, <1>6, <1>12 DEF getElement
<1>14. getElement(b, n + k) = [seed |-> b.seed, idx |-> e, shifts |-> own \o <<>> \o amp]
  <2>1. (IF t # b.gen THEN <<t>> ELSE <<>>) = own
    BY <1>11
  <2> HIDE DEF own
  <2>2. ~(b.gen > 1)
    OBVIOUS
  <2> QED
    BY <1>8, <1>9, <1>11, <2>1, <2>2 DEF getElement
<1>15. own \in Seq(Nat) /\ <<>> \o own = own /\ own \o <<>> = own
  <2>1. own \in Seq(Nat)
    OBVIOUS
  <2> QED
    BY <2>1
<1> HIDE DEF own, amp
<1> QED
  BY <1>4, <1>13, <1>14, <1>15

\* The factors of getElement are those rewindH leads to, and no op shares more than
\* one number with the ops after it, but for what the retries of a truncated normal
\* op read at + zLength (TruncatedNormalDistribution), which rewindH does not pass.
THEOREM RandomStreamContinues == Spec => []StreamContinues
<1>1. ASSUME IndInv, Filled, base.gen = 1, NEW k \in 0..(Size - 1 - buf.pos)
      PROVE  getElement(buf, k) = getElement(base, Advance(op) + k)
  <2>1. base \in Buffers /\ op \in Ops
    BY <1>1 DEF IndInv, TypeInv, Filled
  <2>2. Advance(op) \in Nat /\ buf = rewindH(base, Advance(op))
    BY <1>1, <2>1, OpFacts DEF IndInv, Result
  <2> QED
    BY <1>1, <2>1, <2>2, ElementAhead
<1>2. ASSUME IndInv, status = "idle", op # Nil
      PROVE  Linear(base) + high <= Linear(buf) \/ ByRetries(op, base, high)
  <2>1. op.kind = "shuffle" \/ Filled
    BY <1>2, OpFacts DEF IndInv, TypeInv, Filled
  <2> QED
    BY <1>2, <2>1 DEF IndInv, Reach
<1>3. ASSUME IndInv PROVE StreamContinues
  BY <1>1, <1>2, <1>3 DEF StreamContinues
<1> QED
  BY <1>3, Invariant, PTL

\* A shuffled array has every slice of its input once, and nextInt(0, i) is an index
\* below i for every number drawn but that of the smallest int.
THEOREM RandomShufflePermutes == Spec => []ShufflePermutes
<1>1. ASSUME IndInv PROVE ShufflePermutes
  <2>1. (status = "idle" /\ op # Nil /\ op.kind = "shuffle") =>
          {shuffle.arr[k] : k \in 0..(op.len - 1)} = 0..(op.len - 1)
    BY <1>1 DEF IndInv, ShuffleInv, Permutes
  <2>2. ASSUME status # "idle", op.kind = "shuffle", shuffle.r # Nil
        PROVE  shuffle.r \in 0..(shuffle.i - 1) \/ shuffle.least
    <3>1. op # Nil /\ status \in {"running", "undefined"}
      BY <1>1, <2>2, NilAssumption DEF IndInv, TypeInv
    <3> QED
      BY <1>1, <2>2, <3>1 DEF IndInv, ShuffleInv
  <2> QED
    BY <2>1, <2>2 DEF ShufflePermutes
<1> QED
  BY <1>1, Invariant, PTL
=============================================================================
