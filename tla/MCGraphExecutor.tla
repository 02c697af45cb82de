-------------------------- MODULE MCGraphExecutor --------------------------
(***************************************************************************)
(* Graphs for GraphExecutor, laid out as the import of a FlatGraph lays    *)
(* them out (one node per layer, in file order) or as addNode does (nodes  *)
(* that do not depend on each other share a layer).  Loops have the shape  *)
(* TensorFlow gives them: Enter, Merge, condition, LoopCond, Switch,       *)
(* Identity, body, NextIteration, Exit.                                    *)
(***************************************************************************)
EXTENDS GraphMeaning, TLC

MCValues == 0..16

\* The custom ops; "lt" compares with 3, as the constants of the test graphs.
MCApply(op, a) ==
  CASE op = "id"  -> a[1]
    [] op = "inc" -> a[1] + 1
    [] op = "dbl" -> a[1] * 2
    [] op = "add" -> a[1] + a[2]
    [] op = "lt"  -> IF a[1] < 3 THEN 1 ELSE 0

Op(v, op, in)        == [id |-> v, kind |-> "Op", op |-> op, in |-> in, frame |-> -1, under |-> {}]
Logic(v, kind, in)   == [id |-> v, kind |-> kind, op |-> "", in |-> in, frame |-> -1, under |-> {}]
EnterAt(v, in, f)    == [id |-> v, kind |-> "Enter", op |-> "", in |-> in, frame |-> f, under |-> {}]
Under(row, a)        == [row EXCEPT !.under = a]

\* A graph from its nodes in file order; `layers' lists row numbers.
Table(rows, c(_)) ==
  [v \in {rows[i].id : i \in DOMAIN rows} |-> c(CHOOSE r \in {rows[i] : i \in DOMAIN rows} : r.id = v)]

Graph(rows, layers, feeds, meaning(_)) ==
  LET k(r) == r.kind  o(r) == r.op  i(r) == r.in  f(r) == r.frame  u(r) == r.under
  IN  [kind |-> Table(rows, k), op |-> Table(rows, o), in |-> Table(rows, i),
       frame |-> Table(rows, f), under |-> Table(rows, u),
       layers |-> [j \in DOMAIN layers |-> [m \in DOMAIN layers[j] |-> rows[layers[j][m]].id]],
       feeds |-> feeds, meaning |-> [fd \in feeds |-> meaning(fd)],
       ends |-> feeds]

OnePerLayer(rows) == [i \in DOMAIN rows |-> <<i>>]

X  == <<"x", 0>>
C  == <<"c", 0>>
A(v) == <<v, 0>>
Feeds(xs, cs) == [{"x", "c"} -> xs \cup cs]
FeedX  == {f \in Feeds(0..4, {0}) : f["c"] = 0}
FeedXC == {f \in Feeds(0..2, {0, 2}) : f["c"] # 1}

\* o = (x + 1) + x, the two ops in one layer after the first
ChainRows == <<Op("a", "inc", <<X>>), Op("b", "dbl", <<X>>), Op("o", "add", <<A("a"), A("b")>>)>>
Chain ==
  LET m(f) == (A("o") :> f["x"] * 3 + 1)
  IN  Graph(ChainRows, <<<<1, 2>>, <<3>>>>, FeedX, m)

\* o = (if c then 2x else x + 1) + 1
IfRows ==
  <<Logic("s", "Switch", <<X, C>>),
    Under(Op("a", "inc", <<<<"s", 0>>>>), {<<"s", 0>>}),
    Under(Op("b", "dbl", <<<<"s", 1>>>>), {<<"s", 1>>}),
    Logic("m", "Merge", <<A("a"), A("b")>>),
    Op("o", "inc", <<A("m")>>)>>
If ==
  LET m(f) == (A("o") :> (IF f["c"] = 0 THEN f["x"] + 2 ELSE 2 * f["x"] + 1))
  IN  Graph(IfRows, <<<<1>>, <<2, 3>>, <<4>>, <<5>>>>, FeedXC, m)

\* while (i < 3) i++, from frame f, reading `from'
LoopRows(p, from, f) ==
  <<EnterAt(p \o "e", <<from>>, f),
    Logic(p \o "m", "Merge", <<A(p \o "e"), A(p \o "n")>>),
    Op(p \o "lt", "lt", <<A(p \o "m")>>),
    Logic(p \o "lc", "LoopCond", <<A(p \o "lt")>>),
    Logic(p \o "s", "Switch", <<A(p \o "m"), A(p \o "lc")>>),
    Under(Op(p \o "i", "id", <<<<p \o "s", 1>>>>), {<<p \o "s", 1>>}),
    Under(Op(p \o "b", "inc", <<A(p \o "i")>>), {<<p \o "s", 1>>}),
    Under(Logic(p \o "n", "NextIteration", <<A(p \o "b")>>), {<<p \o "s", 1>>}),
    Logic(p \o "x", "Exit", <<<<p \o "s", 0>>>>)>>

Max3(x) == IF x < 3 THEN 3 ELSE x

\* Two loops one after the other; the second starts from half way.
LoopsRows == LoopRows("1", X, 1) \o <<Op("k", "id", <<C>>)>> \o LoopRows("2", A("k"), 2)
                \o <<Op("o", "add", <<A("1x"), A("2x")>>)>>
TwoLoops ==
  LET m(f) == (A("o") :> Max3(f["x"]) + Max3(f["c"]))
  IN  Graph(LoopsRows, OnePerLayer(LoopsRows), FeedXC, m)

\* while (i < 3) { acc += i; i++ }
AccRows ==
  <<EnterAt("ei", <<X>>, 1), EnterAt("ea", <<C>>, 1),
    Logic("mi", "Merge", <<A("ei"), A("ni")>>), Logic("ma", "Merge", <<A("ea"), A("na")>>),
    Op("lt", "lt", <<A("mi")>>), Logic("lc", "LoopCond", <<A("lt")>>),
    Logic("si", "Switch", <<A("mi"), A("lc")>>), Logic("sa", "Switch", <<A("ma"), A("lc")>>),
    Under(Op("ii", "id", <<<<"si", 1>>>>), {<<"si", 1>>}),
    Under(Op("ia", "id", <<<<"sa", 1>>>>), {<<"sa", 1>>}),
    Under(Op("bi", "inc", <<A("ii")>>), {<<"si", 1>>}),
    Under(Op("ba", "add", <<A("ia"), A("ii")>>), {<<"si", 1>>, <<"sa", 1>>}),
    Logic("ni", "NextIteration", <<A("bi")>>), Logic("na", "NextIteration", <<A("ba")>>),
    Logic("xi", "Exit", <<<<"si", 0>>>>), Logic("xa", "Exit", <<<<"sa", 0>>>>)>>

SumTo3[i \in 0..12] == IF i < 3 THEN i + SumTo3[i + 1] ELSE 0

Acc(layers) ==
  LET m(f) == (A("xi") :> Max3(f["x"]) @@ A("xa") :> f["c"] + SumTo3[f["x"]])
  IN  Graph(AccRows, layers, FeedXC, m)

AccShared == <<<<1, 2>>, <<3, 4>>, <<5>>, <<6>>, <<7, 8>>, <<9, 10>>, <<11, 12>>, <<13, 14>>, <<15, 16>>>>

\* while (x < 3) x = x, which never ends for x < 3
ForeverRows ==
  [LoopRows("1", X, 1) EXCEPT ![7] = Under(Op("1b", "id", <<A("1i")>>), {<<"1s", 1>>})]
Forever ==
  LET m(f) == (A("1x") :> f["x"])
  IN  [Graph(ForeverRows, OnePerLayer(ForeverRows), FeedX, m)
         EXCEPT !.ends = {f \in FeedX : f["x"] >= 3}]

\* if c then { while (x < 3) x++ }, the bound of the loop entering on its own
BranchLoopRows ==
  <<Logic("s", "Switch", <<X, C>>), EnterAt("k", <<C>>, 1)>>
     \o LoopRows("1", <<"s", 1>>, 1) \o <<Op("o", "inc", <<A("1x")>>)>>
BranchLoop ==
  LET m(f) == IF f["c"] = 0 THEN <<>> ELSE (A("o") :> 4)
  IN  Graph(BranchLoopRows, OnePerLayer(BranchLoopRows), FeedXC, m)

MCGraphs == {Chain, If, TwoLoops, Acc(OnePerLayer(AccRows)), Acc(AccShared), Forever, BranchLoop}

\* The conditional is executed once: its Merge does not survive a second run.
\* Neither do the flags that the exception of an endless loop leaves behind.
MCRuns(h) == IF h \in {If, Forever} THEN 1 ELSE 2

---------------------------------------------------------------------------
(* What the graphs denote *)

Times == 0..4

IdsOf(rows) == {rows[i].id : i \in DOMAIN rows}

\* The loop that a node is part of, from the nodes of loop 1 and of loop 2.
LoopOf(h, one, two) == [v \in NodesOf(h) |-> IF v \in one THEN 1 ELSE IF v \in two THEN 2 ELSE -1]

\* The arrays that a variable may hold: those of the variables whose contents it may
\* get, directly or not.
Passes(h, v) ==
  CASE h.kind[v] = "Op"     -> {}
    [] h.kind[v] = "Switch" -> {h.in[v][1]} \X {A(v), <<v, 1>>}
    [] h.kind[v] = "Merge"  -> {h.in[v][1], h.in[v][2]} \X {A(v)}
    [] OTHER                -> {h.in[v][1]} \X {A(v)}

RECURSIVE Closed(_)
Closed(S) ==
  LET joins == {w \in S \X S : w[1][2] = w[2][1]}
      T     == S \cup {<<w[1][1], w[2][2]>> : w \in joins}
  IN  IF T = S THEN S ELSE Closed(T)

SourcesOf(h) ==
  LET C1 == Closed(UNION {Passes(h, v) : v \in NodesOf(h)})
  IN  [a \in AddressesOf(h) |-> {a} \cup {p[1] : p \in {q \in C1 : q[2] = a}}]

\* Works the equations out: m[v, k] is whether the outputs of v are alive in iteration
\* k, and their value.
RECURSIVE Worked(_, _, _, _)
Worked(h, r, f, m) ==
  LET at(v, k)  == <<v, IF Inner(h, r, v) THEN k ELSE 0>>
      known(a, k) == a[1] \notin NodesOf(h) \/ at(a[1], k) \in DOMAIN m
      alive(a, k) == a[1] \notin NodesOf(h) \/ m[at(a[1], k)].alive[a[2]]
      value(a, k) == IF a[1] \notin NodesOf(h) THEN f[a[1]] ELSE m[at(a[1], k)].value
      in(v)     == h.in[v]
      reads(v, k) ==
        CASE IsLoopMerge(h, v) -> IF k = 0 THEN {<<in(v)[1], 0>>} ELSE {<<in(v)[2], k - 1>>}
          [] h.kind[v] = "Exit" -> {in(v)[1]} \X Times
          [] OTHER -> {<<in(v)[j], k>> : j \in DOMAIN in(v)}
      ready == {q \in NodesOf(h) \X Times :
                  /\ q \notin DOMAIN m /\ q = at(q[1], q[2])
                  /\ \A x \in reads(q[1], q[2]) : known(x[1], x[2])}
      \* The one of these whose value v passes on.
      one(v, k) ==
        CASE IsLoopMerge(h, v) -> CHOOSE x \in reads(v, k) : TRUE
          [] h.kind[v] = "Exit" ->
               <<in(v)[1], CHOOSE t \in Times : /\ alive(in(v)[1], t)
                                                /\ \A u \in Times : u < t => ~alive(in(v)[1], u)>>
          [] h.kind[v] = "Merge" -> <<IF alive(in(v)[1], k) THEN in(v)[1] ELSE in(v)[2], k>>
          [] OTHER -> <<in(v)[1], k>>
      all(v, k) == \A x \in reads(v, k) : alive(x[1], x[2])
      result(v, k) ==
        CASE h.kind[v] = "Op" ->
               [alive |-> [b \in {0} |-> all(v, k)],
                value |-> IF all(v, k) THEN Apply(h.op[v], [j \in DOMAIN in(v) |-> value(in(v)[j], k)])
                          ELSE 0]
          [] h.kind[v] = "Switch" ->
               [alive |-> [b \in {0, 1} |-> all(v, k) /\ (value(in(v)[2], k) = 0 <=> b = 0)],
                value |-> value(in(v)[1], k)]
          [] OTHER -> [alive |-> [b \in {0} |-> h.kind[v] # "NextIteration" \/ all(v, k)],
                       value |-> LET x == one(v, k) IN value(x[1], x[2])]
  IN  IF ready = {} THEN m ELSE Worked(h, r, f, m @@ [q \in ready |-> result(q[1], q[2])])

DenOf(h, r, f) ==
  LET m     == Worked(h, r, f, <<>>)
      trips == [c \in Loops(r) |->
                  LET b == CHOOSE v \in NodesOf(h) : r.loop[v] = c /\ h.kind[v] = "NextIteration"
                  IN  CHOOSE t \in Times : /\ ~m[b, t].alive[0]
                                           /\ \A u \in Times : u < t => m[b, u].alive[0]]
      last(v) == IF Inner(h, r, v) THEN trips[r.loop[v]] ELSE 0
      of(k)   == {q \in DOMAIN m : q[2] = k /\ k <= last(q[1])}
      ext     == {<<x, 0>> : x \in ExtOf(h)}
  IN  [trips |-> trips,
       live |-> [k \in Times |->
                   ext \cup {a \in AddressesOf(h) : \E q \in of(k) :
                               a[1] = q[1] /\ a[2] \in DOMAIN m[q].alive /\ m[q].alive[a[2]]}],
       val |-> [k \in Times |-> [a \in AddressesOf(h) |->
                  IF a \in ext THEN f[a[1]] ELSE IF <<a[1], k>> \in of(k) THEN m[a[1], k].value ELSE 0]]]

Reading(h) ==
  LET one == CASE h = TwoLoops -> IdsOf(LoopRows("1", X, 1))
               [] h = Forever -> IdsOf(ForeverRows)
               [] h \in {Acc(OnePerLayer(AccRows)), Acc(AccShared)} -> IdsOf(AccRows)
               [] OTHER -> {}
      two == IF h = TwoLoops THEN IdsOf(LoopRows("2", X, 1)) ELSE {}
      r   == [loop |-> LoopOf(h, one, two), src |-> SourcesOf(h)]
      fs  == IF h = Forever THEN {} ELSE h.feeds
  IN  [loop |-> r.loop, src |-> r.src, den |-> [f \in fs |-> DenOf(h, r, f)]]

\* The graphs that GraphMeaning gives a meaning to.  A branch around a loop is not
\* structured; an endless loop has its equations for every natural number, which
\* cannot be enumerated.
ASSUME MostAreStructured ==
  \A h \in MCGraphs \ {BranchLoop} : Structured(h, Reading(h))
ASSUME MostDenote ==
  \A h \in MCGraphs \ {BranchLoop, Forever} : Reads(h, Reading(h))
===========================================================================
