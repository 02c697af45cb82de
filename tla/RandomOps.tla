----------------------------- MODULE RandomOps -----------------------------
(***************************************************************************)
(* The random ops over a RandomBuffer.  The buffer is a ring of numbers    *)
(* with a position and a generation, the number of times it has wrapped;   *)
(* an op reads elements relative to the position, in parallel, and moves   *)
(* the position on when all are read.  On the CPU the workers are OpenMP   *)
(* threads that read the buffer itself; on CUDA they are blocks, which     *)
(* read copies of it, and the block that takes the last ticket moves the   *)
(* position on.  random_shuffle draws its numbers one by one.              *)
(*                                                                         *)
(* A number is symbolic: the seed and the index of the element and the     *)
(* factors getElement shifts it by.  A result is the numbers it is made of.*)
(***************************************************************************)
EXTENDS Integers, FiniteSets, Sequences

CONSTANTS
  Size,           \* elements of the buffer
  Seeds,
  Ops,            \* the ops a caller executes, see below
  Rejects(_),     \* whether a truncated normal op rejects a pair (external)
  MaxThreads,     \* omp_get_max_threads
  Threshold,      \* TAD_THRESHOLD
  Slack,          \* what a thread's span has beyond its share, 8 in the code
  MaxBlocks,      \* largest grid
  BlockDim,       \* threads of a block
  Width,          \* bits of an int, 32 in the code
  MaxAttempts,    \* bound on the attempts at a truncated value or an index
  MaxCalls,       \* bound on the calls of the caller
  Nil

(* An op has a kind, a length and a number of trials; far is a mean of     *)
(* more than two standard deviations, with which a truncated normal op     *)
(* rejects every value.  A shuffle says whether it is in place and whether *)
(* its input is a vector.                                                  *)
OpKinds == {"plain", "gauss", "truncated", "binomial"}

Numbers == [seed : Seeds, idx : 0..(Size - 1), shifts : Seq(Nat)]

ASSUME RandomOpsAssumption ==
  /\ {Size, MaxThreads, Threshold, MaxBlocks, BlockDim, Width} \subseteq Nat \ {0}
  /\ BlockDim % 2 = 0 /\ Slack \in Nat \ {0, 1}
  /\ Seeds \subseteq Nat /\ Seeds # {}
  /\ {MaxAttempts, MaxCalls} \subseteq Nat
  /\ Ops \subseteq [kind : OpKinds, len : Nat \ {0}, trials : Nat, far : BOOLEAN]
                   \cup [kind : {"shuffle"}, len : Nat \ {0, 1}, inplace : BOOLEAN, vector : BOOLEAN]

\* Nil is no op, no index and no pair of numbers.
ASSUME NilAssumption == Nil \notin Ops /\ Nil \notin Int /\ Nil \notin [1..2 -> Numbers]

\* Arithmetic, for any width.
ASSUME PowerAssumption == 2^(Width - 1) \in Nat \ {0}

VARIABLES
  backend,  \* "cpu" or "cuda"
  buf,      \* the RandomBuffer
  base,     \* ghost: the buffer when the current op started
  calls,    \* calls so far
  op,       \* the current or last op
  status,   \* "idle", "running", "undefined" (an index outside the array)
  team,     \* threads of the region, or blocks of the grid
  pc,       \* of each block: "start", "copied", "drawn", "done"
  at,       \* of each thread: its next element
  carry,    \* of each thread: the pair the next element is made of
  copy,     \* of each block: its copy of the buffer
  z,        \* the result
  high,     \* ghost: the furthest offset the current op has read
  shuffle   \* of a shuffle: i, indeces, the array

vars == <<backend, buf, base, calls, op, status, team, pc, at, carry, copy, z, high, shuffle>>
work == <<team, pc, at, carry, copy>>

Workers == 0..(team - 1)

Larger(a, b)  == IF a > b THEN a ELSE b
Smaller(a, b) == IF a < b THEN a ELSE b
Biggest(S)    == CHOOSE x \in S : \A y \in S : y <= x
Smallest(S)   == CHOOSE x \in S : \A y \in S : x <= y

---------------------------------------------------------------------------
(* RandomBuffer *)

\* The place of a buffer in the endless stream of its numbers.
Linear(b) == (b.gen - 1) * Size + b.pos

Fresh(seed) == [seed |-> seed, amp |-> seed, pos |-> 0, gen |-> 1, sync |-> 0]

\* Mutant: the generation is not that of the element.
getElement_sameGen(b, k) ==
  [seed |-> b.seed, idx |-> (b.pos + k) % Size,
   shifts |-> (IF b.gen > 1 THEN <<b.gen>> ELSE <<>>)
              \o (IF b.amp # b.seed THEN <<b.amp>> ELSE <<>>)]

getElement(b, k) ==
  LET p == b.pos + k
      tempGen == b.gen + (IF p >= Size THEN p \div Size ELSE 0)
  IN  [seed |-> b.seed, idx |-> p % Size,
       shifts |-> (IF tempGen # b.gen THEN <<tempGen>> ELSE <<>>)
                  \o (IF b.gen > 1 THEN <<b.gen>> ELSE <<>>)
                  \o (IF b.amp # b.seed THEN <<b.amp>> ELSE <<>>)]

\* Mutant: the end of the buffer is taken for a place inside it.
rewindH_edge(b, n) ==
  LET p == b.pos + n
  IN  IF p > Size THEN [b EXCEPT !.pos = p % Size, !.gen = @ + p \div Size]
      ELSE [b EXCEPT !.pos = p]

\* rewindH, and the same in rewind on CUDA.
rewindH(b, n) ==
  LET p == b.pos + n
  IN  CASE p > Size -> [b EXCEPT !.pos = p % Size, !.gen = @ + p \div Size]
        [] p = Size -> [b EXCEPT !.pos = 0, !.gen = @ + 1]
        [] OTHER    -> [b EXCEPT !.pos = p]

getNextIndex(b) ==
  IF b.pos + 1 >= Size THEN [b EXCEPT !.pos = 0, !.gen = @ + 1]
  ELSE [b EXCEPT !.pos = @ + 1]

---------------------------------------------------------------------------
(* What an op computes, given the element e of its result and a buffer *)

Middle(o) == (o.len \div 2) + (o.len % 2)

\* Mutant: every attempt reads the same pair.
PairAt_same(o, e, a) == <<e, e + Middle(o)>>

\* The offsets at which the loop for e reads: attempt a of a truncated value.
PairAt(o, e, a) == <<e + a * o.len, e + Middle(o) + a * o.len>>
Trials(o, e)    == [t \in 1..o.trials |-> (e + 1) * t]

Draws(b, ks) == [i \in DOMAIN ks |-> getElement(b, ks[i])]

Accepted(o, b, e) ==
  {a \in 0..MaxAttempts : ~o.far /\ ~Rejects(Draws(b, PairAt(o, e, a)))}
Attempt(o, b, e) == Smallest(Accepted(o, b, e))

\* The furthest offset at which the loop for e reads, in its last attempt.
Furthest(o, b, e) == PairAt(o, e, Attempt(o, b, e))[2]

\* An offset the retries of a truncated op reach: each attempt reads its pair o.len
\* numbers further, past the elements of the op.
ByRetries(o, b, k) ==
  /\ o.kind = "truncated"
  /\ \E e \in 0..(Middle(o) - 1) :
       Accepted(o, b, e) # {} /\ k <= (1 + Attempt(o, b, e)) * o.len

\* By how much an op moves the position on.
Advance(o) ==
  CASE o.kind = "binomial" -> o.len * o.trials
    [] o.kind = "shuffle"  -> o.len - 1
    [] OTHER               -> o.len

---------------------------------------------------------------------------
(* Calls *)

Init ==
  /\ backend \in {"cpu", "cuda"}
  /\ buf \in {Fresh(s) : s \in Seeds}
  /\ base = buf /\ calls = 0 /\ op = Nil /\ status = "idle"
  /\ team = 0 /\ pc = <<>> /\ at = <<>> /\ carry = <<>> /\ copy = <<>>
  /\ z = <<>> /\ high = -1 /\ shuffle = Nil

NoWork ==
  team' = 0 /\ pc' = <<>> /\ at' = <<>> /\ carry' = <<>> /\ copy' = <<>> /\ z' = <<>>

Call == status = "idle" /\ calls < MaxCalls /\ calls' = calls + 1

\* refreshBuffer: on CUDA the host's object, which no op moves, is copied to the
\* device; on the CPU the generation stays.
RefreshBuffer(s) ==
  /\ Call
  /\ buf' = [Fresh(s) EXCEPT !.gen = IF backend = "cuda" THEN 1 ELSE buf.gen]
  /\ op' = Nil /\ high' = -1
  /\ NoWork /\ shuffle' = Nil /\ base' = buf'
  /\ UNCHANGED <<backend, status>>

ReSeedBuffer(s) ==
  /\ Call
  /\ buf' = IF backend = "cuda" THEN [Fresh(buf.seed) EXCEPT !.amp = s]
            ELSE [buf EXCEPT !.amp = s]
  /\ op' = Nil /\ high' = -1
  /\ NoWork /\ shuffle' = Nil /\ base' = buf'
  /\ UNCHANGED <<backend, status>>

\* The threads an op asks for and the span of the elements of each.
Range1(o)  == IF o.kind = "truncated" THEN Middle(o) ELSE o.len
Threads(o) == Smaller(Larger(1, Range1(o) \div Threshold), MaxThreads)

\* Mutant: spans may be odd.
Span_odd(o) == Range1(o) \div Threads(o) + Slack

Span(o) ==
  LET s == Range1(o) \div Threads(o) + Slack
  IN  IF o.kind \in {"gauss", "truncated"} THEN s - (s % 2) ELSE s

End(o, w) == Smaller(Span(o) * (w + 1), Range1(o))

\* Execution of an op that fills an array: n threads or blocks.
StartOp(o, n) ==
  /\ Call
  /\ n \in IF backend = "cpu" THEN {Threads(o)} ELSE 1..MaxBlocks
  /\ op' = o /\ base' = buf /\ status' = "running"
  /\ team' = n
  /\ pc' = [w \in 0..(n - 1) |-> "start"]
  /\ at' = [w \in 0..(n - 1) |-> Span(o) * w]
  /\ carry' = [w \in 0..(n - 1) |-> Nil]
  /\ copy' = [w \in 0..(n - 1) |-> Nil]
  /\ z' = [e \in 0..(o.len - 1) |-> Nil] /\ shuffle' = Nil /\ high' = -1
  /\ UNCHANGED <<backend, buf>>

Running(b) == status = "running" /\ backend = b /\ op.kind \in OpKinds

\* The ghost high after reads at offsets S.
Read(S) == high' = IF S = {} THEN high ELSE Larger(high, Biggest(S))

---------------------------------------------------------------------------
(* Workers on the CPU *)

\* The iterations of a parallel for come in any order.
PlainElement(e) ==
  /\ Running("cpu") /\ op.kind = "plain" /\ z[e] = Nil
  /\ z' = [z EXCEPT ![e] = <<getElement(buf, e)>>]
  /\ Read({e})
  /\ UNCHANGED <<backend, buf, base, calls, op, status, work, shuffle>>

Chunk(w) == Running("cpu") /\ op.kind # "plain" /\ at[w] < End(op, w)
Step(w)  == at' = [at EXCEPT ![w] = @ + 1]

\* Box-Muller: one pair of numbers for two elements.
GaussElement(w) ==
  LET e == at[w]
      pair == IF carry[w] = Nil THEN Draws(buf, <<e, e + 1>>) ELSE carry[w]
  IN  /\ Chunk(w) /\ op.kind = "gauss"
      /\ z' = [z EXCEPT ![e] = <<IF carry[w] = Nil THEN "cos" ELSE "sin">> \o pair]
      /\ carry' = [carry EXCEPT ![w] = IF carry[w] = Nil THEN pair ELSE Nil]
      /\ Step(w)
      /\ Read(IF carry[w] = Nil THEN {e + 1} ELSE {})
      /\ UNCHANGED <<backend, buf, base, calls, op, status, team, pc, copy, shuffle>>

\* Both values of the first accepted pair; without one the loop does not end.
TruncatedValues(o, b, e) ==
  LET pair == Draws(b, PairAt(o, e, Attempt(o, b, e)))
  IN  [f \in {e, e + Middle(o)} |-> <<IF f = e THEN "cos" ELSE "sin">> \o pair]

TruncatedElement(w) ==
  /\ Chunk(w) /\ op.kind = "truncated" /\ Accepted(op, buf, at[w]) # {}
  /\ z' = [f \in DOMAIN z |-> IF f \in {at[w], at[w] + Middle(op)}
                              THEN TruncatedValues(op, buf, at[w])[f] ELSE z[f]]
  /\ Step(w) /\ Read({Furthest(op, buf, at[w])})
  /\ UNCHANGED <<backend, buf, base, calls, op, status, team, pc, carry, copy, shuffle>>

BinomialElement(w) ==
  /\ Chunk(w) /\ op.kind = "binomial"
  /\ z' = [z EXCEPT ![at[w]] = Draws(buf, Trials(op, at[w]))]
  /\ Step(w)
  /\ Read({Trials(op, at[w])[t] : t \in 1..op.trials})
  /\ UNCHANGED <<backend, buf, base, calls, op, status, team, pc, carry, copy, shuffle>>

\* The region has ended.
AllRead ==
  IF op.kind = "plain" THEN \A e \in DOMAIN z : z[e] # Nil
  ELSE \A w \in Workers : at[w] >= End(op, w)

FinishOp ==
  /\ Running("cpu") /\ AllRead
  /\ buf' = rewindH(buf, Advance(op))
  /\ status' = "idle"
  /\ UNCHANGED <<backend, base, calls, op, work, z, high, shuffle>>

---------------------------------------------------------------------------
(* Blocks on CUDA *)

\* The elements of block w: one to each of its threads, grid after grid.
Mine(w) == {e \in 0..(Range1(op) - 1) : (e \div BlockDim) % team = w}

CopyBuffer(w) ==
  /\ Running("cuda") /\ pc[w] = "start"
  /\ copy' = [copy EXCEPT ![w] = buf]
  /\ pc' = [pc EXCEPT ![w] = "copied"]
  /\ UNCHANGED <<backend, buf, base, calls, op, status, team, at, carry, z, high, shuffle>>

\* The numbers the threads of block w put into shared memory; beside its own, the
\* last thread reads the one after the last element, if that is even.
tZ(w, k) ==
  IF k \in Mine(w) \/ (k = op.len /\ k - 1 \in Mine(w) /\ (k - 1) % 2 = 0)
  THEN getElement(copy[w], k) ELSE Nil

BlockValue(w, e) ==
  CASE op.kind = "plain"    -> <<getElement(copy[w], e)>>
    [] op.kind = "gauss"    -> IF e % 2 = 0 THEN <<"cos", tZ(w, e), tZ(w, e + 1)>>
                               ELSE <<"sin", tZ(w, e - 1), tZ(w, e)>>
    [] op.kind = "binomial" -> Draws(copy[w], Trials(op, e))

\* All threads of a block; they write only elements of their own.
BlockElements(w) ==
  /\ Running("cuda") /\ pc[w] = "copied"
  /\ IF op.kind = "truncated"
     THEN /\ \A e \in Mine(w) : Accepted(op, copy[w], e) # {}
          /\ z' = [f \in DOMAIN z |->
                     IF \E e \in Mine(w) : f \in {e, e + Middle(op)}
                     THEN TruncatedValues(op, copy[w], f % Middle(op))[f] ELSE z[f]]
     ELSE z' = [e \in DOMAIN z |-> IF e \in Mine(w) THEN BlockValue(w, e) ELSE z[e]]
  /\ Read(UNION {CASE op.kind = "gauss" -> {e - (e % 2) + 1}
                   [] op.kind = "binomial" -> {Trials(op, e)[t] : t \in 1..op.trials}
                   [] op.kind = "truncated" -> {Furthest(op, copy[w], e)}
                   [] OTHER -> {e} : e \in Mine(w)})
  /\ pc' = [pc EXCEPT ![w] = "drawn"]
  /\ UNCHANGED <<backend, buf, base, calls, op, status, team, at, carry, copy, shuffle>>

\* Mutant: every block moves the position on.
amLast_all(ticket) == TRUE

amLast(ticket) == ticket = team - 1

\* rewind: the block takes a ticket, by atomicInc; the last one moves the
\* position on and resets the tickets.
Rewind(w) ==
  /\ Running("cuda") /\ pc[w] = "drawn"
  /\ pc' = [pc EXCEPT ![w] = "done"]
  /\ buf' = IF Advance(op) = 0 THEN buf
            ELSE IF team = 1 THEN rewindH(buf, Advance(op))
            ELSE IF amLast(buf.sync) THEN [rewindH(buf, Advance(op)) EXCEPT !.sync = 0]
            ELSE [buf EXCEPT !.sync = @ + 1]
  /\ status' = IF \A v \in Workers \ {w} : pc[v] = "done" THEN "idle" ELSE status
  /\ UNCHANGED <<backend, base, calls, op, team, at, carry, copy, z, high, shuffle>>

---------------------------------------------------------------------------
(* random_shuffle *)

Half   == 2 ^ (Width - 1)
MinInt == -Half

Wrap(x)  == ((x + Half) % (2 * Half)) - Half

\* nextInt(): an int from the low bits of a number, made positive.
nextInt(u) == IF Wrap(u) < 0 THEN Wrap(-Wrap(u)) ELSE Wrap(u)

\* The remainder of C, which has the sign of a.
Rem(a, n) == IF a < 0 THEN -((-a) % n) ELSE a % n

PowerOfTwo(n) == \E k \in 0..n : n = 2 ^ k

\* nextInt(to).  Nil stands for another number drawn, because r - rem + m overflows,
\* unless the compiler takes it that ints do not overflow.
nextIntTo(to, u) ==
  LET r == nextInt(u)
      sum == r - Rem(r, to) + to - 1
  IN  CASE PowerOfTwo(to) -> {(to * r) \div Half}
        [] sum < 0        -> {Nil}
        [] sum >= Half    -> {Nil, Rem(r, to)}
        [] OTHER          -> {Rem(r, to)}

StartShuffle(o) ==
  /\ Call /\ backend = "cpu"
  /\ op' = o /\ base' = buf /\ status' = "running"
  /\ shuffle' = [i |-> o.len - 1, r |-> Nil, least |-> FALSE, tries |-> 0,
                 indeces |-> [k \in 0..(o.len - 1) |-> k],
                 arr |-> IF o.inplace THEN [k \in 0..(o.len - 1) |-> k]
                         ELSE [k \in 0..(o.len - 1) |-> IF k = 0 /\ o.vector THEN 0 ELSE Nil],
                 zero |-> FALSE]
  /\ NoWork /\ high' = -1
  /\ UNCHANGED <<backend, buf>>

Shuffling == status = "running" /\ op.kind = "shuffle"

\* One number is drawn.
DrawIndex(u) ==
  /\ Shuffling /\ shuffle.i > 0 /\ shuffle.r = Nil
  /\ buf' = getNextIndex(buf)
  /\ high' = Linear(buf') - Linear(base)
  /\ \E r \in nextIntTo(shuffle.i, u) :
       /\ r = Nil => shuffle.tries < MaxAttempts
       /\ shuffle' = [shuffle EXCEPT !.r = r, !.least = Wrap(u) = MinInt,
                                     !.tries = IF r = Nil THEN @ + 1 ELSE @]
       /\ status' = IF r = Nil \/ r \in DOMAIN shuffle.indeces THEN status ELSE "undefined"
  /\ UNCHANGED <<backend, base, calls, op, work, z>>

Swapped(f, i, j) == [f EXCEPT ![i] = f[j], ![j] = f[i]]

\* Mutant: indeces are not exchanged.
Exchanged_kept(s, i, r) ==
  [s EXCEPT !.arr = [@ EXCEPT ![i] = s.indeces[r], ![r] = s.indeces[i]]]

\* Not in place: both slices are copied from where the input has them.
Exchanged(s, i, r) ==
  [s EXCEPT !.arr = IF r = i THEN [@ EXCEPT ![i] = s.indeces[r]]
                    ELSE [@ EXCEPT ![i] = s.indeces[r], ![r] = s.indeces[i]],
            !.indeces = Swapped(s.indeces, i, r),
            !.zero = s.zero \/ r = 0]

\* The slices i and r change places; of a vector in place, i and i.
Exchange ==
  LET i == shuffle.i  r == shuffle.r
      s == CASE ~op.inplace -> Exchanged(shuffle, i, r)
             [] op.inplace /\ ~op.vector -> [shuffle EXCEPT !.arr = Swapped(@, i, r)]
             [] OTHER -> shuffle
  IN  /\ Shuffling /\ shuffle.r # Nil
      /\ shuffle' = [s EXCEPT !.i = i - 1, !.r = Nil, !.least = FALSE]
      /\ UNCHANGED <<backend, buf, base, calls, op, status, work, z, high>>

FinishShuffle ==
  /\ Shuffling /\ shuffle.i = 0
  /\ shuffle' = IF op.inplace \/ op.vector \/ shuffle.zero THEN shuffle
                ELSE [shuffle EXCEPT !.arr[0] = 0]
  /\ buf' = IF op.inplace /\ op.vector THEN buf ELSE rewindH(buf, Advance(op))
  /\ status' = "idle"
  /\ UNCHANGED <<backend, base, calls, op, work, z, high>>

---------------------------------------------------------------------------

CpuStep ==
  \/ \E e \in DOMAIN z : PlainElement(e)
  \/ \E w \in Workers : GaussElement(w) \/ TruncatedElement(w) \/ BinomialElement(w)
  \/ FinishOp

CudaStep == \E w \in Workers : CopyBuffer(w) \/ BlockElements(w) \/ Rewind(w)

ShuffleStep == Exchange \/ FinishShuffle \/ \E u \in 0..(2 * Half - 1) : DrawIndex(u)

StartStep ==
  \/ \E s \in Seeds : RefreshBuffer(s) \/ ReSeedBuffer(s)
  \/ \E o \in Ops : IF o.kind = "shuffle" THEN StartShuffle(o)
                    ELSE \E n \in 1..(MaxThreads + MaxBlocks) : StartOp(o, n)

Next == StartStep \/ CpuStep \/ CudaStep \/ ShuffleStep

Spec == Init /\ [][Next]_vars

\* The threads of a region and the blocks of a grid all run.
FairSpec == Spec /\ WF_vars(CpuStep) /\ WF_vars(CudaStep)

---------------------------------------------------------------------------
(* Properties *)

\* The position stays inside the buffer, whatever is skipped, and tickets are
\* left only while a grid runs.
TypeOK ==
  /\ buf.seed \in Seeds /\ buf.amp \in Seeds
  /\ buf.pos \in 0..(Size - 1) /\ buf.gen \in Nat \ {0}
  /\ buf.sync \in 0..Larger(team - 1, 0) /\ (status = "idle" => buf.sync = 0)
  /\ status \in {"idle", "running", "undefined"} /\ calls \in 0..MaxCalls
  /\ op \in Ops \cup {Nil}

Filled == status = "idle" /\ op # Nil /\ op.kind \in OpKinds

\* What one thread would compute, element after element.
Sequential(o, b, e) ==
  CASE o.kind = "plain"     -> Draws(b, <<e>>)
    [] o.kind = "gauss"     -> LET k == e - (e % 2)
                               IN  <<IF e = k THEN "cos" ELSE "sin">> \o Draws(b, <<k, k + 1>>)
    [] o.kind = "truncated" -> TruncatedValues(o, b, e % Middle(o))[e]
    [] o.kind = "binomial"  -> Draws(b, Trials(o, e))

\* The result does not depend on the number of threads or blocks, on their order
\* or on the backend: every element is what one thread would have computed from
\* the buffer at the start of the op.
ResultsDeterministic ==
  Filled => \A e \in 0..(op.len - 1) : z[e] = Sequential(op, base, e)

\* However many blocks an op has, the position moves on once, by the elements of
\* the op, counted through all generations.
SkipExact == Filled => Linear(buf) = Linear(base) + Advance(op)

\* What an op that starts in the first generation would have read past its own
\* elements is what the next op reads, up to the end of the buffer: the factors of
\* getElement are those rewindH leads to.  In any generation an op shares at most
\* one number with the ops after it (a Gaussian or truncated op of odd length and a
\* binomial op read one more than they skip, and a shuffle leaves the position at the
\* number it drew last), unless it is a truncated op that rejected values: attempt a
\* reads a * zLength further, up to a whole op's length of the numbers that the ops
\* after it read again, and rewindH(zLength) does not pass them.
StreamContinues ==
  /\ (Filled /\ base.gen = 1) =>
       \A k \in 0..(Size - 1 - buf.pos) :
         getElement(buf, k) = getElement(base, Advance(op) + k)
  /\ (status = "idle" /\ op # Nil) =>
       Linear(base) + high <= Linear(buf) \/ ByRetries(op, base, high)

\* A shuffled array has every slice of its input once, and each slice is exchanged
\* with one below it: nextInt(0, i) is an index below i, unless the number drawn is
\* that of the smallest int, which has no absolute value.
ShufflePermutes ==
  /\ (status = "idle" /\ op # Nil /\ op.kind = "shuffle") =>
       {shuffle.arr[k] : k \in 0..(op.len - 1)} = 0..(op.len - 1)
  /\ (status # "idle" /\ op.kind = "shuffle" /\ shuffle.r # Nil) =>
       shuffle.r \in 0..(shuffle.i - 1) \/ shuffle.least

\* Every op ends, unless it is a truncated normal one that rejects all values.
OpEnds ==
  (status = "running" /\ op.kind \in OpKinds) ~>
    (status = "idle" \/ (op.kind = "truncated" /\ op.far))
===========================================================================
