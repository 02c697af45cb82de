---------------------------- MODULE GraphMeaning ----------------------------
(***************************************************************************)
(* What a graph of GraphExecutor denotes, as equations: an address is      *)
(* alive when its node is in a branch that is taken, and has the value     *)
(* that the node computes of its inputs; in a loop both depend on the      *)
(* iteration.  There is no walk, no FlowPath, no frame and no array here:  *)
(* that GraphExecutor, which has them, leaves a solution of the equations  *)
(* is what is proved about it.                                             *)
(*                                                                         *)
(* A reading r of a graph h says how to read it: r.loop[v] is the frame of *)
(* the loop that v is part of, -1 if none; r.src[a] is the arrays that the *)
(* variable a may hold; and for a feed f, r.den[f] has the live addresses  *)
(* of each iteration (live), their values (val), and for each loop the     *)
(* number of times it goes back, -1 if it never ends (trips).              *)
(***************************************************************************)
EXTENDS GraphExecutor

NodesOf(h)     == DOMAIN h.kind
ExtOf(h)       == UNION {DOMAIN f : f \in h.feeds}
AddressesOf(h) == {<<x, i>> : x \in NodesOf(h) \cup ExtOf(h), i \in {0, 1}}

\* The outputs of a node.
OutputsOf(h, v) == IF h.kind[v] = "Switch" THEN {<<v, 0>>, <<v, 1>>} ELSE {<<v, 0>>}

\* The walk comes to u before it comes to v.
Before(h, u, v) ==
  \E i, k \in DOMAIN h.layers : \E j \in DOMAIN h.layers[i], m \in DOMAIN h.layers[k] :
     /\ h.layers[i][j] = u /\ h.layers[k][m] = v
     /\ (i < k \/ (i = k /\ j < m))

Back(h, m) == h.in[m][2][1]
IsLoopMerge(h, v) ==
  h.kind[v] = "Merge" /\ Back(h, v) \in NodesOf(h) /\ h.kind[Back(h, v)] = "NextIteration"

\* The loops, and what is between the Enters and the Exits of one.
Loops(r)       == {r.loop[v] : v \in DOMAIN r.loop} \ {-1}
Inner(h, r, v) == v \in NodesOf(h) /\ r.loop[v] # -1 /\ h.kind[v] \notin {"Enter", "Exit"}

PartOf(h, r, f, k) == {v \in NodesOf(h) : r.loop[v] = f /\ h.kind[v] = k}

\* The Merge that the walk goes back to.
IsHead(h, r, m) ==
  /\ IsLoopMerge(h, m)
  /\ \A i \in DOMAIN h.layers : \A j \in DOMAIN h.layers[i] : h.layers[i][j] = m => j = 1
  /\ \A w \in PartOf(h, r, r.loop[m], "Merge") : w # m =>
       Before(h, m, w) /\ Before(h, Back(h, m), Back(h, w))

\* The order of the parts of a loop.
Stage(k) ==
  CASE k = "Enter" -> 0 [] k = "Merge" -> 1 [] k = "NextIteration" -> 3 [] k = "Exit" -> 4
    [] OTHER -> 2

\* The parts of a loop come in their order, and its variables are decided together.
\* Nodes outside a loop do not come between its parts, but before its Merges.
GoodLoops(h, r) ==
  /\ r.loop \in [NodesOf(h) -> Nat \cup {-1}]
  /\ \A f \in Loops(r) : /\ \E m \in PartOf(h, r, f, "Merge") : IsHead(h, r, m)
                         /\ PartOf(h, r, f, "Exit") # {}
  /\ \A u, v \in NodesOf(h) :
       r.loop[u] = r.loop[v] /\ r.loop[u] # -1 /\ Stage(h.kind[u]) < Stage(h.kind[v]) => Before(h, u, v)
  /\ \A f \in Loops(r) : \A u, w, v \in NodesOf(h) :
       r.loop[u] = f /\ r.loop[v] = f /\ r.loop[w] # f /\ Before(h, u, w) /\ Before(h, w, v) =>
         /\ r.loop[w] = -1 /\ h.kind[w] # "Merge"
         /\ \A m \in PartOf(h, r, f, "Merge") : Before(h, w, m)

\* What a node is connected to.
GoodNode(h, r, v) ==
  LET in == h.in[v]
      k  == h.kind[v]
  IN  /\ k \in {"Op", "Enter", "Merge", "Switch", "LoopCond", "NextIteration", "Exit"}
      /\ k # "Op" => in # <<>>
      /\ k = "Merge" => Len(in) = 2
      /\ k = "Switch" => Len(in) = 2
      /\ k = "LoopCond" => Len(in) = 1
      /\ k \in {"Enter", "NextIteration", "Exit"} => r.loop[v] # -1
      /\ k = "Enter" => h.frame[v] = r.loop[v]
      /\ k = "Merge" => (IsLoopMerge(h, v) <=> r.loop[v] # -1)
      /\ k = "Merge" /\ ~IsLoopMerge(h, v) => h.frame[v] = -1
      /\ IsLoopMerge(h, v) =>
           /\ h.frame[v] \in {-1, r.loop[v]}
           /\ in[1][1] \in PartOf(h, r, r.loop[v], "Enter")
           /\ in[2] \in {<<b, 0>> : b \in PartOf(h, r, r.loop[v], "NextIteration")}
           /\ \A w \in NodesOf(h) : IsLoopMerge(h, w) /\ Back(h, w) = Back(h, v) => w = v
      /\ k = "NextIteration" =>
           /\ \E m \in NodesOf(h) : IsLoopMerge(h, m) /\ Back(h, m) = v
           /\ \A i \in DOMAIN in : Inner(h, r, in[i][1])
      /\ k = "Exit" => Inner(h, r, in[1][1])

\* A node reads what comes before it, in its own loop or outside the loops; a Merge
\* reads its loop's NextIteration too.
GoodInput(h, r, v, i) ==
  LET a == h.in[v][i]
  IN  /\ \/ a \in {<<x, 0>> : x \in ExtOf(h)}
         \/ /\ a[1] \in NodesOf(h) /\ a \in OutputsOf(h, a[1])
            /\ Before(h, a[1], v) \/ (i = 2 /\ IsLoopMerge(h, v))
      /\ Inner(h, r, a[1]) => r.loop[v] = r.loop[a[1]]

\* The variables that an op's array may be passed on to.
Flows(h, r) ==
  /\ r.src \in [AddressesOf(h) -> SUBSET AddressesOf(h)]
  /\ \A x \in ExtOf(h) : <<x, 0>> \in r.src[<<x, 0>>]
  /\ \A v \in NodesOf(h) :
       LET from(i, b) == r.src[h.in[v][i]] \subseteq r.src[<<v, b>>]
       IN  CASE h.kind[v] = "Op"     -> <<v, 0>> \in r.src[<<v, 0>>]
             [] h.kind[v] = "Switch" -> from(1, 0) /\ from(1, 1)
             [] h.kind[v] = "Merge"  -> from(1, 0) /\ from(2, 0)
             [] OTHER                -> from(1, 0)

\* No op computes into an array between the node that passes it on and one that reads
\* it, except before an Exit, where no op is alive.  Outside the loops none does so
\* afterwards.
Settled(h, r) ==
  \A b \in NodesOf(h) : h.kind[b] = "Op" =>
    /\ \A a \in AddressesOf(h) : <<b, 0>> \in r.src[a] =>
         \/ Inner(h, r, a[1])
         \/ a[1] \in NodesOf(h) /\ (b = a[1] \/ Before(h, b, a[1]))
    /\ \A v \in NodesOf(h) : \A i \in DOMAIN h.in[v] :
         <<b, 0>> \in r.src[h.in[v][i]] /\ Before(h, h.in[v][i][1], b) /\ Before(h, b, v) =>
           h.kind[v] = "Exit" /\ i = 1

\* A graph with a Merge that closes no loop is executed once: the Merge keeps the
\* array of the branch that was taken.
Structured(h, r) ==
  /\ \A f \in h.feeds : DOMAIN f = ExtOf(h)
  /\ h.in \in [NodesOf(h) -> Seq(AddressesOf(h))]
  /\ \A v \in NodesOf(h) : GoodNode(h, r, v) /\ \A i \in DOMAIN h.in[v] : GoodInput(h, r, v, i)
  /\ GoodLoops(h, r) /\ Flows(h, r) /\ Settled(h, r)
  /\ (\E v \in NodesOf(h) : h.kind[v] = "Merge" /\ ~IsLoopMerge(h, v)) => MaxRuns(h) = 1

---------------------------------------------------------------------------
(* The equations *)

\* The iterations of a loop that goes back so many times.
Iterations(t) == IF t = -1 THEN Nat ELSE 0..t

Alive(h, r, d, a, k) == a \in d.live[IF Inner(h, r, a[1]) THEN k ELSE 0]
Value(h, r, d, a, k) == d.val[IF Inner(h, r, a[1]) THEN k ELSE 0][a]
AllAlive(h, r, d, v, k) == \A i \in DOMAIN h.in[v] : Alive(h, r, d, h.in[v][i], k)
Values1(h, r, d, v, k)  == [i \in DOMAIN h.in[v] |-> Value(h, r, d, h.in[v][i], k)]

\* The output of v in iteration k is alive, or not, and is `value' if it is.
Yields(h, r, d, v, k, alive, value) ==
  /\ Alive(h, r, d, <<v, 0>>, k) <=> alive
  /\ alive => Value(h, r, d, <<v, 0>>, k) = value

OpSolved(h, r, d, v, k) ==
  Yields(h, r, d, v, k, AllAlive(h, r, d, v, k), Apply(h.op[v], Values1(h, r, d, v, k)))

\* LoopCond and NextIteration pass on their input.
PassSolved(h, r, d, v, k) ==
  Yields(h, r, d, v, k, AllAlive(h, r, d, v, k), Value(h, r, d, h.in[v][1], k))

SwitchSolved(h, r, d, v, k) ==
  \A b \in {0, 1} :
    LET taken == AllAlive(h, r, d, v, k) /\ (Value(h, r, d, h.in[v][2], k) = 0 <=> b = 0)
    IN  /\ Alive(h, r, d, <<v, b>>, k) <=> taken
        /\ taken => Value(h, r, d, <<v, b>>, k) = Value(h, r, d, h.in[v][1], k)

\* A Merge passes on the branch that was taken.
MergeSolved(h, r, d, v) ==
  LET one == Alive(h, r, d, h.in[v][1], 0)
      two == Alive(h, r, d, h.in[v][2], 0)
  IN  Yields(h, r, d, v, 0, one \/ two,
             IF one THEN Value(h, r, d, h.in[v][1], 0) ELSE Value(h, r, d, h.in[v][2], 0))

\* A loop's variable: what enters, then what the iteration before has left.
VariableSolved(h, r, d, v, k) ==
  Yields(h, r, d, v, k, TRUE,
         IF k = 0 THEN Value(h, r, d, h.in[v][1], 0) ELSE Value(h, r, d, h.in[v][2], k - 1))

\* Loops are outside the branches.
EnterSolved(h, r, d, v) ==
  AllAlive(h, r, d, v, 0) /\ Yields(h, r, d, v, 0, TRUE, Value(h, r, d, h.in[v][1], 0))

\* All variables of a loop go back as often as it does.
GoesBack(h, r, d, v, k) ==
  Alive(h, r, d, <<v, 0>>, k) <=> k + 1 \in Iterations(d.trips[r.loop[v]])

\* A loop's result is that of its last iteration, in which no op computes over it.
ExitSolved(h, r, d, v) ==
  LET t == d.trips[r.loop[v]]
  IN  t # -1 => /\ Alive(h, r, d, h.in[v][1], t)
                /\ Yields(h, r, d, v, 0, TRUE, Value(h, r, d, h.in[v][1], t))
                /\ \A b \in PartOf(h, r, r.loop[v], "Op") :
                     /\ <<b, 0>> \in r.src[h.in[v][1]]
                     /\ Before(h, h.in[v][1][1], b)
                     => ~Alive(h, r, d, <<b, 0>>, t)

NodeSolved(h, r, d, v, k) ==
  CASE h.kind[v] = "Op"            -> OpSolved(h, r, d, v, k)
    [] h.kind[v] = "Switch"        -> SwitchSolved(h, r, d, v, k)
    [] h.kind[v] = "LoopCond"      -> PassSolved(h, r, d, v, k)
    [] h.kind[v] = "NextIteration" -> PassSolved(h, r, d, v, k) /\ GoesBack(h, r, d, v, k)
    [] h.kind[v] = "Enter"         -> EnterSolved(h, r, d, v)
    [] h.kind[v] = "Exit"          -> ExitSolved(h, r, d, v)
    [] OTHER                       -> IF IsLoopMerge(h, v) THEN VariableSolved(h, r, d, v, k)
                                      ELSE MergeSolved(h, r, d, v)

\* d is what h computes of the feed f.
Solves(h, r, f, d) ==
  /\ d.trips \in [Loops(r) -> Nat \cup {-1}]
  /\ \A x \in ExtOf(h) : Alive(h, r, d, <<x, 0>>, 0) /\ Value(h, r, d, <<x, 0>>, 0) = f[x]
  /\ \A v \in NodesOf(h) :
       IF Inner(h, r, v) THEN \A k \in Iterations(d.trips[r.loop[v]]) : NodeSolved(h, r, d, v, k)
       ELSE NodeSolved(h, r, d, v, 0)

\* The results that h.meaning gives for f are among them.
Means(h, r, f, d) ==
  \A o \in DOMAIN h.meaning[f] :
    /\ o[1] \in NodesOf(h) /\ o \in OutputsOf(h, o[1]) /\ ~Inner(h, r, o[1])
    /\ Alive(h, r, d, o, 0) /\ h.meaning[f][o] = Value(h, r, d, o, 0)

Reads(h, r) ==
  Structured(h, r) /\ \A f \in h.feeds : Solves(h, r, f, r.den[f]) /\ Means(h, r, f, r.den[f])

\* h.meaning is what h denotes.
Denotes(h) == \E r : Reads(h, r)
=============================================================================
