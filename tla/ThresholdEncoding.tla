------------------------- MODULE ThresholdEncoding -------------------------
(***************************************************************************)
(* The compression of gradients: an array x is turned into a message that   *)
(* holds +Threshold or -Threshold for its large elements, what the message  *)
(* carries is subtracted from x, and a receiver adds it to its array y.     *)
(*                                                                         *)
(*   threshold, CPU    convertToThreshold: OpenMP threads share a counter    *)
(*                     of used slots and a flag that says they are used up   *)
(*   threshold, CUDA   encoderKernelP1 counts per block, prescanArrayRecursive *)
(*                     turns the counts into offsets, encoderKernelP3 writes *)
(*   bitmap            two bits per element, WordBits elements per word      *)
(*                                                                         *)
(* Values are integers, in units that make Threshold even.  Slot k stands   *)
(* for z[k + 4] and word w for z[w + 4]; the header is limit.               *)
(***************************************************************************)
EXTENDS Integers, Sequences, FiniteSets

CONSTANTS
  N,          \* elements of the array
  Threshold,
  Inputs,     \* gradients that may be added to x between two messages
  MaxCalls,   \* bound: gradients added and messages begun
  Threads,    \* the OpenMP team
  BlockDim,   \* threads of a block of P1 and P3 (1024)
  Warp,       \* warpSize (32)
  Digits,     \* binary digits P3 sums warp totals over, less one (5)
  ScanDim,    \* blockSize of prescanArrayRecursive (512)
  ScanInputs, \* arrays of counts given to P2 on their own
  Mantissa,   \* bits of precision of a float (24)
  WordBits    \* elements per word of a bitmap (16)

Elems == 0..(N - 1)
Blocks == 0..((N - 1) \div BlockDim)
Words == 0..(N \div WordBits)       \* the caller's buffer: N / 16 + 1 words

\* Powers of two, which the code shifts to.
pow2i[k \in Nat] == IF k = 0 THEN 1 ELSE 2 * pow2i[k - 1]

ASSUME SizeAssumption == N \in Nat \ {0} /\ Threads # {} /\ WordBits \in Nat \ {0}
ASSUME ThresholdAssumption == Threshold \in Nat \ {0} /\ Threshold % 2 = 0
ASSUME InputsAssumption == Inputs \subseteq [Elems -> Int] /\ MaxCalls \in Nat
ASSUME GridAssumption ==
  /\ Warp \in Nat \ {0} /\ BlockDim \in Nat \ {0} /\ BlockDim % Warp = 0
  /\ BlockDim <= Warp * Warp /\ Digits \in Nat /\ Warp < pow2i[Digits + 1]
ASSUME ScanAssumption ==
  /\ ScanDim \in Nat \ {0} /\ Mantissa \in Nat \ {0}
  /\ \A c \in ScanInputs : c \in Seq(Nat) /\ c # <<>>

VARIABLES
  x,        \* the sender's array
  y,        \* the receiver's
  due,      \* history: all gradients added so far
  calls,
  phase,
  z,        \* slots of the message, as the last message left them
  limit,    \* z[0]
  pool,     \* history: the elements that were large when encoding began
  cnt, flag, next, th,      \* convertToThreshold: shared variables, threads
  todo,     \* blocks, words or slots not done yet
  reading,  \* slots being decoded, with the value of y that was read
  counts, sum, offsets,     \* the arrays of P1 and P2
  words     \* the bitmap

callVars == <<due, calls>>
messageVars == <<z, limit, pool>>
workVars == <<todo, reading>>
encodeVars == <<cnt, flag, next, th>>
gridVars == <<counts, sum, offsets>>
vars == <<x, y, phase, callVars, messageVars, workVars, encodeVars, gridVars, words>>

Abs(v) == IF v < 0 THEN -v ELSE v
Large(a, e) == Abs(a[e]) >= Threshold
LargeIn(a, S) == {e \in S : Large(a, e)}

\* What the message says of element e, and what is left of its value then.
Entry(a, e) == IF a[e] > 0 THEN e + 1 ELSE -e - 1
Amount(el) == IF el > 0 THEN Threshold ELSE -Threshold

Idle == [pc |-> "fetch", e |-> 0, last |-> 0, idx |-> 0]

Init ==
  /\ x = [e \in Elems |-> 0] /\ y = x /\ due = x /\ calls = 0 /\ phase = "idle"
  /\ z = x /\ limit = 0 /\ pool = {}
  /\ cnt = 0 /\ flag = FALSE /\ next = 0 /\ th = [t \in Threads |-> Idle]
  /\ todo = {} /\ reading = {}
  /\ counts = <<>> /\ sum = 0 /\ offsets = <<>>
  /\ words = [w \in Words |-> [bits |-> {}, signs |-> {}]]

Called == calls < MaxCalls /\ calls' = calls + 1

\* The training adds a gradient to what earlier messages left over.
Deposit(g) ==
  /\ phase = "idle" /\ Called
  /\ x' = [e \in Elems |-> x[e] + g[e]]
  /\ due' = [e \in Elems |-> due[e] + g[e]]
  /\ UNCHANGED <<y, phase, messageVars, workVars, encodeVars, gridVars, words>>

---------------------------------------------------------------------------
\* convertToThreshold.  The caller has counted the large elements and made room
\* for all of them or for fewer.
StartEncode ==
  /\ phase = "idle" /\ Called /\ phase' = "encode"
  /\ pool' = LargeIn(x, Elems)
  /\ limit' \in 1..Cardinality(pool')
  /\ UNCHANGED <<x, y, due, z, workVars, encodeVars, gridVars, words>>

Fetched(t, k) == [th EXCEPT ![t] = [Idle EXCEPT !.pc = "load", !.e = next, !.last = next + k - 1]]
Advanced(t) ==
  [th EXCEPT ![t] = IF th[t].e < th[t].last
                      THEN [Idle EXCEPT !.pc = "load", !.e = th[t].e + 1, !.last = th[t].last]
                      ELSE Idle]

\* schedule(guided): a thread takes the next iterations, some at a time.
Fetch(t) ==
  /\ phase = "encode" /\ th[t].pc = "fetch" /\ next < N
  /\ \E k \in 1..(N - next) : th' = Fetched(t, k) /\ next' = next + k
  /\ UNCHANGED <<x, y, callVars, phase, messageVars, workVars, cnt, flag, gridVars, words>>

\* Mutant: the iteration is not given up.
LoadFlag_spin(t) ==
  /\ th[t].pc = "load" /\ th' = (IF flag THEN th ELSE [th EXCEPT ![t].pc = "capture"])
  /\ UNCHANGED <<x, y, callVars, phase, messageVars, workVars, cnt, flag, next, gridVars, words>>

LoadFlag(t) ==
  /\ th[t].pc = "load"
  /\ th' = IF flag THEN Advanced(t) ELSE [th EXCEPT ![t].pc = "capture"]
  /\ UNCHANGED <<x, y, callVars, phase, messageVars, workVars, cnt, flag, next, gridVars, words>>

\* Mutant: a plain cnt++ may miss those under way.
Captured_plain(t) == cnt - Cardinality({u \in Threads \ {t} : th[u].pc = "store"})

\* idx = cnt++ is one atomic step.
Captured(t) == cnt

Capture(t) ==
  /\ th[t].pc = "capture"
  /\ \/ /\ ~Large(x, th[t].e)
        /\ th' = Advanced(t) /\ cnt' = cnt
     \/ /\ Large(x, th[t].e)
        /\ th' = [th EXCEPT ![t].pc = "store", ![t].idx = Captured(t)]
        /\ cnt' = cnt + 1
  /\ UNCHANGED <<x, y, callVars, phase, messageVars, workVars, flag, next, gridVars, words>>

\* Mutant: one slot too many.
Fits_oneMore(k) == k <= limit

Fits(k) == k < limit

Store(t) ==
  /\ th[t].pc = "store" /\ th' = Advanced(t)
  /\ LET e == th[t].e
         k == th[t].idx
     IN  IF Fits(k)
           THEN /\ z' = [z EXCEPT ![k] = Entry(x, e)]
                /\ x' = [x EXCEPT ![e] = @ - Amount(Entry(x, e))]
                /\ flag' = flag
           ELSE flag' = TRUE /\ UNCHANGED <<x, z>>
  /\ UNCHANGED <<y, callVars, phase, limit, pool, workVars, cnt, next, gridVars, words>>

EndEncode ==
  /\ phase = "encode" /\ next = N /\ \A t \in Threads : th[t].pc = "fetch"
  /\ phase' = "sent" /\ cnt' = 0 /\ flag' = FALSE /\ next' = 0
  /\ UNCHANGED <<x, y, callVars, messageVars, workVars, th, gridVars, words>>

---------------------------------------------------------------------------
\* convertFromThreshold and decoderKernel: every slot up to limit, by any number of
\* threads at once; y[ael] += ... is a read and a write.
StartDecode ==
  /\ phase = "sent" /\ phase' = "decode" /\ todo' = 0..(limit - 1)
  /\ UNCHANGED <<x, y, callVars, messageVars, reading, encodeVars, gridVars, words>>

Target(k) == Abs(z[k]) - 1

DecodeRead(k) ==
  /\ phase = "decode" /\ k \in todo /\ todo' = todo \ {k}
  /\ IF Target(k) \in Elems
       THEN reading' = reading \cup {<<k, y[Target(k)]>>} /\ phase' = phase
       ELSE phase' = "undefined" /\ UNCHANGED reading
  /\ UNCHANGED <<x, y, callVars, messageVars, encodeVars, gridVars, words>>

DecodeWrite(r) ==
  /\ phase = "decode" /\ r \in reading /\ reading' = reading \ {r}
  /\ y' = [y EXCEPT ![Target(r[1])] = r[2] + Amount(z[r[1]])]
  /\ UNCHANGED <<x, callVars, phase, messageVars, todo, encodeVars, gridVars, words>>

EndDecode ==
  /\ phase = "decode" /\ todo = {} /\ reading = {} /\ phase' = "idle" /\ pool' = {}
  /\ UNCHANGED <<x, y, callVars, z, limit, workVars, encodeVars, gridVars, words>>

---------------------------------------------------------------------------
\* P2: exclusive prefix sums, by a tree in each block of 2 * ScanDim elements and
\* recursively over the sums of the blocks.  The way down and uniformAdd go through
\* a float, whose Mantissa bits round large numbers to the nearest.
Exponent(m) == CHOOSE k \in 0..m : pow2i[k] = m
isPowerOfTwo(n) == \E k \in 0..n : pow2i[k] = n
floorPow2(n) == CHOOSE p \in 1..n : isPowerOfTwo(p) /\ n < 2 * p

Ulp(v) == IF v < pow2i[Mantissa] THEN 1 ELSE floorPow2(v) \div pow2i[Mantissa - 1]
Rounded(v) ==
  LET u == Ulp(v)
      q == v \div u
      r == v % u
  IN  u * IF 2 * r > u \/ (2 * r = u /\ q % 2 = 1) THEN q + 1 ELSE q
FloatAdd(v, w) == Rounded(Rounded(v) + Rounded(w))

buildSum(d) ==
  LET up[s \in 0..Exponent(Len(d))] ==
        IF s = 0 THEN d
        ELSE LET prev == up[s - 1]
             IN  [i \in DOMAIN d |->
                    IF i % pow2i[s] = 0 THEN prev[i] + prev[i - pow2i[s - 1]] ELSE prev[i]]
  IN  up[Exponent(Len(d))]

\* Mutant: the total stays in the last element.
clearLastElement_kept(d) == d

clearLastElement(d) == [d EXCEPT ![Len(d)] = 0]

scanRootToLeaves(d) ==
  LET down[s \in 0..Exponent(Len(d))] ==
        IF s = 0 THEN d
        ELSE LET prev == down[s - 1]
                 stride == Len(d) \div pow2i[s]
             IN  [i \in DOMAIN d |->
                    CASE i % (2 * stride) = 0      -> FloatAdd(prev[i], prev[i - stride])
                      [] i % (2 * stride) = stride -> prev[i + stride]
                      [] OTHER                     -> prev[i]]
  IN  down[Exponent(Len(d))]

\* loadSharedChunkFromMem pads the last block, to the next power of two.
Padded(d) ==
  LET n == Len(d)
      m == IF isPowerOfTwo(n) THEN IF n = 1 THEN 2 ELSE n ELSE 2 * floorPow2(n)
  IN  [i \in 1..m |-> IF i <= n THEN d[i] ELSE 0]

\* A single element is scanned by no thread: the buffer keeps its zero.
prescanArray[c \in Seq(Int)] ==
  LET n == Len(c)
      width == 2 * ScanDim
      last == (n - 1) \div width
      Chunk(b) == Padded(SubSeq(c, b * width + 1, IF b = last THEN n ELSE (b + 1) * width))
      Scanned(b) == scanRootToLeaves(clearLastElement(buildSum(Chunk(b))))
      Sum(b) == buildSum(Chunk(b))[Len(Chunk(b))]
  IN  IF n = 1 THEN <<0>>
      ELSE IF last = 0 THEN [i \in 1..n |-> Scanned(0)[i]]
      ELSE LET base == prescanArray[[b \in 1..(last + 1) |-> Sum(b - 1)]]
           IN  [i \in 1..n |-> LET b == (i - 1) \div width
                               IN  FloatAdd(Scanned(b)[i - b * width], base[b + 1])]

Scan(c) ==
  /\ phase = "idle" /\ calls = 0 /\ phase' = "scanned"
  /\ counts' = c /\ offsets' = prescanArray[c]
  /\ UNCHANGED <<x, y, callVars, messageVars, workVars, sum, encodeVars, words>>

---------------------------------------------------------------------------
\* P1 and P3: the blocks of a grid run in any order, each between two barriers.
Tid(b, j) == b * BlockDim + j
Active(b) == {j \in 0..(BlockDim - 1) : Tid(b, j) < N}
Passing(b) == {j \in Active(b) : Large(x, Tid(b, j))}

StartGrid ==
  /\ phase = "idle" /\ Called /\ phase' = "P1" /\ todo' = Blocks
  /\ pool' = LargeIn(x, Elems)
  /\ counts' = [b \in 1..Cardinality(Blocks) |-> 0] /\ sum' = 0
  /\ UNCHANGED <<x, y, due, z, limit, reading, offsets, encodeVars, words>>

encoderKernelP1(b) ==
  /\ phase = "P1" /\ b \in todo /\ todo' = todo \ {b}
  /\ counts' = [counts EXCEPT ![b + 1] = Cardinality(Passing(b))]
  /\ sum' = sum + Cardinality(Passing(b))
  /\ UNCHANGED <<x, y, callVars, phase, messageVars, reading, offsets, encodeVars, words>>

\* The caller sends nothing when nothing is large, and at most sum elements.
encodeThresholdP2 ==
  /\ phase = "P1" /\ todo = {} /\ offsets' = prescanArray[counts]
  /\ \/ sum = 0 /\ phase' = "idle" /\ UNCHANGED <<limit, todo>>
     \/ phase' = "P3" /\ limit' \in 1..sum /\ todo' = Blocks
  /\ UNCHANGED <<x, y, callVars, z, pool, reading, counts, sum, encodeVars, words>>

\* Rank in the warp by __ballot and __popc; totals of the warps from their last
\* lanes, which a partial warp has not; and offsets of the warps, digit by digit.
Before(b, j) == Cardinality({m \in Passing(b) : m \div Warp = j \div Warp /\ m < j})
WarpTotal(b, w, junk) ==
  IF w * Warp + Warp - 1 \in Active(b)
    THEN Cardinality({m \in Passing(b) : m \div Warp = w}) ELSE junk
Bit(v, k) == (v \div pow2i[k]) % 2
WarpOffset(b, w, junk) ==
  LET Ones(k) == Cardinality({m \in 0..(w - 1) : Bit(WarpTotal(b, m, junk), k) = 1})
      below[k \in Nat] == IF k = 0 THEN 0 ELSE below[k - 1] + pow2i[k - 1] * Ones(k - 1)
  IN  below[Digits + 1]
Position(b, j, junk) == Before(b, j) + WarpOffset(b, j \div Warp, junk) + offsets[b + 1]

encoderKernelP3(b) ==
  /\ phase = "P3" /\ b \in todo /\ todo' = todo \ {b}
  /\ \E junk \in 0..Warp :
       LET at == [j \in Passing(b) |-> Position(b, j, junk)]
           stored == {j \in Passing(b) : at[j] < limit}
       IN  /\ z' = [k \in DOMAIN z |-> IF \E j \in stored : at[j] = k
                                         THEN Entry(x, Tid(b, CHOOSE j \in stored : at[j] = k))
                                         ELSE z[k]]
           /\ x' = [e \in Elems |-> IF \E j \in stored : Tid(b, j) = e
                                      THEN x[e] - Amount(Entry(x, e)) ELSE x[e]]
  /\ UNCHANGED <<y, callVars, phase, limit, pool, reading, encodeVars, gridVars, words>>

EndGrid ==
  /\ phase = "P3" /\ todo = {} /\ phase' = "sent"
  /\ counts' = <<>> /\ sum' = 0 /\ offsets' = <<>>
  /\ UNCHANGED <<x, y, callVars, messageVars, workVars, encodeVars, words>>

---------------------------------------------------------------------------
\* encodeBitmap and decodeBitmap, on both backends: a word at a time.
OfWord(w) == {e \in Elems : e \div WordBits = w}
Negative(a, e) == a[e] < 0 /\ Abs(a[e]) >= Threshold \div 2
Part(word, e) ==
  LET bit == e % WordBits
  IN  CASE bit \in word.bits /\ bit \in word.signs -> -Threshold
        [] bit \in word.bits                       -> Threshold
        [] bit \in word.signs                      -> -(Threshold \div 2)
        [] OTHER                                   -> 0

StartBitmap ==
  /\ phase = "idle" /\ Called /\ phase' = "bitmap"
  /\ todo' = {e \div WordBits : e \in Elems}
  /\ UNCHANGED <<x, y, due, messageVars, reading, words, encodeVars, gridVars>>

WordOf(w) == [bits |-> {e % WordBits : e \in LargeIn(x, OfWord(w))},
              signs |-> {e % WordBits : e \in {f \in OfWord(w) : Negative(x, f)}}]

encodeBitmap(w) ==
  /\ phase = "bitmap" /\ w \in todo /\ todo' = todo \ {w}
  /\ words' = [words EXCEPT ![w] = WordOf(w)]
  /\ x' = [e \in Elems |-> IF e \in OfWord(w) THEN x[e] - Part(WordOf(w), e) ELSE x[e]]
  /\ UNCHANGED <<y, callVars, phase, messageVars, reading, encodeVars, gridVars>>

EndBitmap ==
  /\ phase = "bitmap" /\ todo = {} /\ phase' = "words" /\ todo' = Words
  /\ UNCHANGED <<x, y, callVars, messageVars, reading, encodeVars, gridVars, words>>

decodeBitmap(w) ==
  /\ phase = "words" /\ w \in todo /\ todo' = todo \ {w}
  /\ phase' = IF todo' = {} THEN "idle" ELSE phase
  /\ y' = [e \in Elems |-> IF e \in OfWord(w) THEN y[e] + Part(words[w], e) ELSE y[e]]
  /\ UNCHANGED <<x, callVars, messageVars, reading, encodeVars, gridVars, words>>

---------------------------------------------------------------------------
CpuEncode == EndEncode \/ \E t \in Threads : Fetch(t) \/ LoadFlag(t) \/ Capture(t) \/ Store(t)
Decode == EndDecode \/ (\E k \in Elems : DecodeRead(k)) \/ (\E r \in reading : DecodeWrite(r))
Grid == encodeThresholdP2 \/ EndGrid \/ \E b \in Blocks : encoderKernelP1(b) \/ encoderKernelP3(b)
Bitmap == EndBitmap \/ \E w \in Words : encodeBitmap(w) \/ decodeBitmap(w)
Call == StartEncode \/ StartDecode \/ StartGrid \/ StartBitmap
          \/ (\E g \in Inputs : Deposit(g)) \/ (\E c \in ScanInputs : Scan(c))
Next == CpuEncode \/ Decode \/ Grid \/ Bitmap \/ Call

Spec == Init /\ [][Next]_vars

\* A parallel region and a grid run on once they are started, and so does a caller
\* between P1, P2 and P3; new calls need not come.
FairSpec == Spec /\ WF_vars(CpuEncode) /\ WF_vars(Decode) /\ WF_vars(Grid) /\ WF_vars(Bitmap)

---------------------------------------------------------------------------
\* Between two messages every element of every gradient is either still with the
\* sender or has arrived, once: what convertToThreshold, P3 or encodeBitmap takes
\* out of x is what the decoder adds to y, whatever the interleaving and the limit.
Conserved == phase = "idle" => \A e \in Elems : x[e] + y[e] = due[e]

\* A finished message has limit different large elements with their signs and no
\* slot of an older message; P3 writes them in the order of the array, as one
\* thread would.
MessageFull ==
  /\ phase = "sent" =>
       \A k \in 0..(limit - 1) :
         /\ Target(k) \in pool
         /\ \A m \in 0..(limit - 1) : m # k => Target(m) # Target(k)
         /\ LET was == x[Target(k)] + Amount(z[k])
            IN  Abs(was) >= Threshold /\ (was > 0 <=> z[k] > 0)
  /\ (phase = "P3" /\ todo = {}) =>
       \A e \in pool : LET rank == Cardinality({f \in pool : f < e})
                       IN  rank < limit => Target(rank) = e

\* Prefix(c)[n] is the sum of the first n counts.
Prefix(c) == LET before[n \in 0..Len(c)] == IF n = 0 THEN 0 ELSE before[n - 1] + c[n] IN before

\* The tree scan gives every block the number of elements before it, for any
\* number of blocks, as long as the total fits the mantissa of a float.
ScanExact ==
  phase \in {"P3", "scanned"} =>
    (Prefix(counts)[Len(counts)] <= pow2i[Mantissa] =>
       \A i \in DOMAIN counts : offsets[i] = Prefix(counts)[i - 1])

\* Every encoding and decoding ends.
CodingEnds ==
  (phase \in {"encode", "P1", "P3", "decode", "bitmap", "words"}) ~> (phase \in {"idle", "sent"})
===========================================================================
