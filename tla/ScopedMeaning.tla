--------------------------- MODULE ScopedMeaning ---------------------------
(***************************************************************************)
(* What a graph with While and Conditional denotes, as equations: contents *)
(* of all pairs solve a graph when every op's output is what the op        *)
(* computes of its inputs, a Conditional's is that of the branch its       *)
(* condition selects, and a While's variables are in the first state of    *)
(* its orbit in which its condition is false.  There are no slots, copies  *)
(* or calls here: that ScopedLogic, which has them, leaves a solution is   *)
(* what is proved about it.                                                *)
(***************************************************************************)
EXTENDS ScopedLogic

\* The pair of the input.
X == <<"x", 0>>

\* The nodes that w runs, in its scopes or in those of a Conditional there.
Inside(p, w, u) ==
  \/ Contains(p, w, u)
  \/ \E f \in NodesOf(p) : Contains(p, w, f) /\ Contains(p, f, u)

\* t comes before v in the main graph or in a scope, or is in the condition of v's op.
InTurn(L, t, v) == \E i, j \in DOMAIN L : i < j /\ t = L[i] /\ v = L[j]
Before(p, t, v) ==
  \/ InTurn(p.main, t, v)
  \/ \E w \in NodesOf(p) : /\ p.kind[w] \in {"While", "If"}
                           /\ \E s \in PartsOf(p.kind[w]) :
                                \/ InTurn(p.scopes[w][s], t, v)
                                \/ /\ s # "cond"
                                   /\ \E i \in DOMAIN p.scopes[w]["cond"] : t = p.scopes[w]["cond"][i]
                                   /\ \E j \in DOMAIN p.scopes[w][s] : v = p.scopes[w][s][j]

\* r numbers the nodes in the order in which they finish.  A node reads what finished
\* before it, or the variables of a While it is in.
Ordered(p, r) ==
  /\ r \in [NodesOf(p) -> Nat]
  /\ \A t, v \in NodesOf(p) : Before(p, t, v) =>
       r[t] < r[v] /\ \A u \in NodesOf(p) : Inside(p, v, u) => r[t] < r[u]
  /\ \A u, w \in NodesOf(p) : Inside(p, w, u) => r[u] < r[w]
  /\ \A v \in NodesOf(p) : \A i \in DOMAIN p.in[v] :
       \/ p.in[v][i] = X
       \/ \E z \in NodesOf(p), k \in {0, 1} :
            /\ p.in[v][i] = <<z, k>>
            /\ r[z] < r[v] \/ (p.kind[z] = "While" /\ Inside(p, z, v))

Order(p) == CHOOSE r : Ordered(p, r)

\* What a node leaves to later ones.
Results(p, v) ==
  IF p.kind[v] = "While" THEN {<<v, e - 1>> : e \in DOMAIN p.in[v]} ELSE {<<v, 0>>}

LastOf(L) == L[Len(L)]
IsSimple(p, v) == p.kind[v] \in {"Op", "If"}

\* The condition and the body of a While are ops and Conditionals; a Return of as many
\* values as there are variables ends the body, and a value it assigns later is not a
\* variable it has assigned to before.
GoodWhile(p, w) ==
  LET c == p.scopes[w]["cond"]
      b == p.scopes[w]["body"]
      r == p.in[LastOf(b)]
  IN  /\ \A i \in DOMAIN c : IsSimple(p, c[i])
      /\ p.kind[LastOf(c)] = "Op"
      /\ \A i \in DOMAIN b : i # Len(b) => IsSimple(p, b[i])
      /\ p.kind[LastOf(b)] = "Return"
      /\ Len(r) = Len(p.in[w])
      /\ \A i, j \in DOMAIN r : j < i => r[i] # <<w, j - 1>>

\* A Conditional has no copies of its own and runs ops.
GoodIf(p, f) ==
  /\ p.in[f] = <<>>
  /\ \A s \in PartsOf("If") : \A i \in DOMAIN p.scopes[f][s] : p.kind[p.scopes[f][s][i]] = "Op"

\* Loops are not nested: a While inside a While goes on from where it ended in the
\* iteration before, and so does every While when a graph with one is executed again.
Shaped(p) ==
  /\ \A w \in NodesOf(p) : p.kind[w] = "While" => GoodWhile(p, w) /\ p.runs <= 1
  /\ \A f \in NodesOf(p) : p.kind[f] = "If" => GoodIf(p, f)
  /\ \A m \in DOMAIN p.main : p.kind[p.main[m]] = "While" =>
       \A e \in DOMAIN p.in[p.main[m]] :
         \/ p.in[p.main[m]][e] = X
         \/ \E i \in DOMAIN p.main : i < m /\ p.in[p.main[m]][e] \in Results(p, p.main[i])

Structured(p) == Shaped(p) /\ \E r : Ordered(p, r)

\* env gives every pair a content.  An op's output is what the op computes.
OpHolds(p, env, v) ==
  env[<<v, 0>>] = Apply(p.op[v], [i \in DOMAIN p.in[v] |-> env[p.in[v][i]]])

\* The value of a condition.
Test(p, env, v) == env[<<LastOf(p.scopes[v]["cond"]), 0>>]

\* The output of a Conditional is that of the last node of the branch its condition
\* selects.
IfHolds(p, env, f) ==
  /\ \A i \in DOMAIN p.scopes[f]["cond"] : OpHolds(p, env, p.scopes[f]["cond"][i])
  /\ \E s \in {"true", "false"} :
       /\ Test(p, env, f) = 0 <=> s = "false"
       /\ \A i \in DOMAIN p.scopes[f][s] : OpHolds(p, env, p.scopes[f][s][i])
       /\ env[<<f, 0>>] = env[<<LastOf(p.scopes[f][s]), 0>>]

Holds(p, env, v) == IF p.kind[v] = "If" THEN IfHolds(p, env, v) ELSE OpHolds(p, env, v)

\* The nodes of the scope L before position n hold.
HoldUpTo(p, env, L, n) == \A i \in DOMAIN L : i < n => Holds(p, env, L[i])
Tested(p, env, w) == \A i \in DOMAIN p.scopes[w]["cond"] : Holds(p, env, p.scopes[w]["cond"][i])

\* The variables of w are those after n - 1 iterations on the input x.
InState(p, x, env, w, n) == \A e \in DOMAIN p.in[w] : env[<<w, e - 1>>] = p.orbit[x][w][n][e]

\* What the iterations of w find, and do not change.
Outer(p, w) ==
  {q \in PairsOf(p) :
     q = X \/ \E z \in NodesOf(p), k \in {0, 1} :
                q = <<z, k>> /\ Order(p)[z] < Order(p)[w] /\ ~Inside(p, w, z)}

\* The condition of w was true in state n.
Went(p, x, env, w, n) ==
  \E past : /\ \A q \in Outer(p, w) : past[q] = env[q]
            /\ InState(p, x, past, w, n)
            /\ Tested(p, past, w) /\ Test(p, past, w) # 0

Reached(p, x, env, w, n) ==
  InState(p, x, env, w, n) /\ \A k \in 1..(n - 1) : Went(p, x, env, w, k)

\* w has ended in the first state in which its condition is false.
Ended(p, x, env, w) ==
  \E n \in 1..LoopLimit :
    Reached(p, x, env, w, n) /\ Tested(p, env, w) /\ Test(p, env, w) = 0

Done(p, x, env, v) == IF p.kind[v] = "While" THEN Ended(p, x, env, v) ELSE Holds(p, env, v)

\* env is what the main graph computes of x before position m.
Solves(p, x, env, m) ==
  env[X] = x /\ \A i \in DOMAIN p.main : i < m => Done(p, x, env, p.main[i])

\* A While begins with its inputs.
Begins(p, x, w, env) == \A e \in DOMAIN p.in[w] : p.orbit[x][w][1][e] = env[p.in[w][e]]

\* An iteration takes its variables, all at once, to the values of its body's Return.
Iterates(p, x, w, env) ==
  LET b == p.scopes[w]["body"]
  IN  \A n \in 1..(LoopLimit - 1) :
        (/\ Reached(p, x, env, w, n)
         /\ Tested(p, env, w) /\ Test(p, env, w) # 0
         /\ HoldUpTo(p, env, b, Len(b))) =>
           \A e \in DOMAIN p.in[w] :
             p.orbit[x][w][n + 1][e] = env[p.in[LastOf(b)][e]]

\* A result is what the main graph computes.
Denoted(p, x, env) ==
  \A q \in DOMAIN p.meaning[x] :
    p.meaning[x][q] = env[q] /\ (q = X \/ \E i \in DOMAIN p.main : q \in Results(p, p.main[i]))

\* p.orbit and p.meaning are what p denotes.
Meant(p) ==
  /\ \A env : \A x \in p.feeds, m \in DOMAIN p.main :
       (p.kind[p.main[m]] = "While" /\ Solves(p, x, env, m)) =>
         Begins(p, x, p.main[m], env) /\ Iterates(p, x, p.main[m], env)
  /\ \A env : \A x \in p.feeds :
       Solves(p, x, env, Len(p.main) + 1) => Denoted(p, x, env)
============================================================================
