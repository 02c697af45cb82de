--------------------------- MODULE MCScopedLogic ---------------------------
(***************************************************************************)
(* Programs for ScopedLogic: the shapes of the tests of scopes and         *)
(* conditionals, and combinations of them.                                 *)
(***************************************************************************)
EXTENDS ScopedMeaning, TLC

MCValues == 0..5

MCApply(op, a) ==
  CASE op = "inc" -> (a[1] + 1) % 6
    [] op = "add" -> (a[1] + a[2]) % 6
    [] op = "lt1" -> IF a[1] < 1 THEN 1 ELSE 0
    [] op = "lt3" -> IF a[1] < 3 THEN 1 ELSE 0
    [] op = "zero" -> 0

A(v) == <<v, 0>>
B(v) == <<v, 1>>

Op(op, in)       == [kind |-> "Op", op |-> op, in |-> in, out |-> ""]
Logic(kind, in)  == [kind |-> kind, op |-> "", in |-> in, out |-> ""]
Ret(in, to)      == [kind |-> "Return", op |-> "", in |-> in, out |-> to]

Program(nodes, main, scopes, feeds, meaning(_), orbit(_), ends, n, mayFail) ==
  LET Col(c(_)) == [v \in DOMAIN nodes |-> c(nodes[v])]
      k(r) == r.kind  o(r) == r.op  i(r) == r.in  t(r) == r.out
  IN  [kind |-> Col(k), op |-> Col(o), in |-> Col(i), out |-> Col(t),
       main |-> main, scopes |-> scopes, feeds |-> feeds,
       meaning |-> [x \in feeds |-> meaning(x)],
       orbit |-> [x \in feeds \cup {Nil} |-> IF x = Nil THEN <<>> ELSE orbit(x)],
       ends |-> ends, runs |-> n, mayFail |-> mayFail]

NoOrbit(x) == <<>>
Upto3(x)   == [i \in 1..6 |-> <<x + i - 1>>]

\* while (w < 3) w = w + 1;  then o = w + 1
Count ==
  LET m(x) == A("w") :> (IF x < 3 THEN 3 ELSE x) @@ A("o") :> (IF x < 3 THEN 4 ELSE x + 1)
      orb(x) == "w" :> Upto3(x)
  IN  Program("c" :> Op("lt3", <<A("w")>>) @@ "b" :> Op("inc", <<A("w")>>)
                @@ "r" :> Ret(<<A("b")>>, "w") @@ "w" :> Logic("While", <<X>>)
                @@ "o" :> Op("inc", <<A("w")>>),
              <<"w", "o">>, "w" :> [cond |-> <<"c">>, body |-> <<"b", "r">>],
              0..3, m, orb, 0..3, 1, TRUE)

\* All loops over two variables, started from x and x + 1, whose body computes
\* b = inc(i) and d = add(j, k) and returns r1 and r2, while c < 3.  A Return
\* assigns in order, so that its second value may not be the first variable.
WVars    == {A("w"), B("w")}
Family   == [c : WVars, i : WVars, j : WVars \cup {A("b")}, k : WVars,
             r1 : WVars \cup {A("b"), A("d")}, r2 : {B("w"), A("b"), A("d")}]

\* The reference: one iteration as a function of both variables at once.
Iterate(l, s) ==
  LET w == A("w") :> s[1] @@ B("w") :> s[2]
      b == w @@ A("b") :> MCApply("inc", <<w[l.i]>>)
      d == b @@ A("d") :> MCApply("add", <<b[l.j], b[l.k]>>)
  IN  <<d[l.r1], d[l.r2]>>
States(l, x) ==
  LET st[n \in 1..LoopLimit] ==
        IF n = 1 THEN <<x, MCApply("inc", <<x>>)>> ELSE Iterate(l, st[n - 1])
  IN  st
Stops(l, s) == (IF l.c = A("w") THEN s[1] ELSE s[2]) >= 3

Loop(l) ==
  LET fin(x) == {n \in 1..LoopLimit : Stops(l, States(l, x)[n])}
      end(x) == States(l, x)[CHOOSE n \in fin(x) : \A k \in fin(x) : n <= k]
      m(x) == IF fin(x) = {} THEN <<>> ELSE A("w") :> end(x)[1] @@ B("w") :> end(x)[2]
      orb(x) == "w" :> States(l, x)
  IN  Program("n" :> Op("inc", <<X>>) @@ "c" :> Op("lt3", <<l.c>>)
                @@ "b" :> Op("inc", <<l.i>>) @@ "d" :> Op("add", <<l.j, l.k>>)
                @@ "r" :> Ret(<<l.r1, l.r2>>, "w")
                @@ "w" :> Logic("While", <<X, A("n")>>),
              <<"n", "w">>, "w" :> [cond |-> <<"c">>, body |-> <<"b", "d", "r">>],
              0..2, m, orb, {x \in 0..2 : fin(x) # {}}, 1, TRUE)

\* o = (if x < 1 then x + x else x + 1) + 1
Conditional(n, fails) ==
  LET m(x) == A("f") :> (IF x < 1 THEN x + x ELSE x + 1)
              @@ A("o") :> (IF x < 1 THEN x + x ELSE x + 1) + 1
  IN  Program("c" :> Op("lt1", <<X>>) @@ "t" :> Op("add", <<X, X>>)
                @@ "u" :> Op("inc", <<X>>) @@ "f" :> Logic("If", <<>>)
                @@ "o" :> Op("inc", <<A("f")>>),
              <<"f", "o">>, "f" :> ("cond" :> <<"c">> @@ "true" :> <<"t">> @@ "false" :> <<"u">>),
              0..2, m, NoOrbit, 0..2, n, fails)

\* The same over a copy of x, with a Return in one branch.
WithReturn ==
  LET m(x) == A("f") :> (IF x < 1 THEN 0 ELSE x + 1)
  IN  Program("c" :> Op("lt1", <<A("f")>>) @@ "t" :> Op("add", <<A("f"), X>>)
                @@ "u" :> Op("inc", <<A("f")>>) @@ "r" :> Ret(<<A("u")>>, "f")
                @@ "f" :> Logic("If", <<X>>),
              <<"f">>, "f" :> ("cond" :> <<"c">> @@ "true" :> <<"t">> @@ "false" :> <<"u", "r">>),
              0..2, m, NoOrbit, 0..2, 1, FALSE)

\* while (w < 3) w = if w < 1 then w + 1 else w + w
IfInLoop(fails) ==
  LET m(x) == A("w") :> (CASE x \in {0, 1, 2} -> 4 [] OTHER -> x)
      orb(x) == "w" :> (CASE x = 0 -> <<<<0>>, <<1>>, <<2>>, <<4>>>>
                          [] x = 1 -> <<<<1>>, <<2>>, <<4>>>>
                          [] x = 2 -> <<<<2>>, <<4>>>>
                          [] OTHER -> <<<<x>>>>)
  IN  Program("c" :> Op("lt3", <<A("w")>>) @@ "k" :> Op("lt1", <<A("w")>>)
                @@ "t" :> Op("inc", <<A("w")>>) @@ "u" :> Op("add", <<A("w"), A("w")>>)
                @@ "f" :> Logic("If", <<>>) @@ "r" :> Ret(<<A("f")>>, "w")
                @@ "w" :> Logic("While", <<X>>),
              <<"w">>,
              "w" :> [cond |-> <<"c">>, body |-> <<"f", "r">>]
                @@ "f" :> ("cond" :> <<"k">> @@ "true" :> <<"t">> @@ "false" :> <<"u">>),
              0..3, m, orb, 0..3, 1, fails)

\* while (w < 1) { v = w; while (v < 3) v = v + 1; w = v }
LoopInLoop(fails) ==
  LET m(x) == A("w") :> (IF x < 1 THEN 3 ELSE x)
      orb(x) == "w" :> <<<<x>>, <<3>>>> @@ "v" :> Upto3(x)
  IN  Program("c" :> Op("lt1", <<A("w")>>) @@ "d" :> Op("lt3", <<A("v")>>)
                @@ "b" :> Op("inc", <<A("v")>>) @@ "q" :> Ret(<<A("b")>>, "v")
                @@ "v" :> Logic("While", <<A("w")>>) @@ "r" :> Ret(<<A("v")>>, "w")
                @@ "w" :> Logic("While", <<X>>),
              <<"w">>,
              "w" :> [cond |-> <<"c">>, body |-> <<"v", "r">>]
                @@ "v" :> [cond |-> <<"d">>, body |-> <<"b", "q">>],
              0..2, m, orb, 0..2, 1, fails)

\* while (w < 1) w = 0, which ends for inputs above 0 only; and a While without
\* variables
Endless ==
  LET m(x) == A("w") :> x
      orb(x) == "w" :> [i \in 1..LoopLimit |-> <<x>>]
  IN  Program("c" :> Op("lt1", <<A("w")>>) @@ "b" :> Op("zero", <<A("w")>>)
                @@ "r" :> Ret(<<A("b")>>, "w") @@ "w" :> Logic("While", <<X>>),
              <<"w">>, "w" :> [cond |-> <<"c">>, body |-> <<"b", "r">>],
              0..2, m, orb, 1..2, 1, FALSE)

NoVariable ==
  LET m(x) == <<>>
  IN  Program("c" :> Op("lt1", <<X>>) @@ "r" :> Ret(<<A("c")>>, "w")
                @@ "w" :> Logic("While", <<>>),
              <<"w">>, "w" :> [cond |-> <<"c">>, body |-> <<"r">>],
              0..1, m, NoOrbit, {}, 1, FALSE)

\* while (w < 1) { a While over in, which is refused without variables and does not end
\* with one; w = w + 1 }
BadLoopInLoop(in) ==
  LET m(x) == A("w") :> (IF x < 1 THEN 1 ELSE x)
      orb(x) == "w" :> (IF x < 1 THEN <<<<0>>, <<1>>>> ELSE <<<<x>>>>)
  IN  Program("c" :> Op("lt1", <<A("w")>>) @@ "d" :> Op("lt1", <<A("w")>>)
                @@ "z" :> Op("zero", <<A("w")>>)
                @@ "q" :> Ret(IF in = <<>> THEN <<>> ELSE <<A("z")>>, "v")
                @@ "v" :> Logic("While", in) @@ "b" :> Op("inc", <<A("w")>>)
                @@ "r" :> Ret(<<A("b")>>, "w") @@ "w" :> Logic("While", <<X>>),
              <<"w">>,
              "w" :> [cond |-> <<"c">>, body |-> <<"v", "b", "r">>]
                @@ "v" :> [cond |-> <<"d">>, body |-> <<"z", "q">>],
              0..2, m, orb, 0..2, 1, FALSE)

\* if x < 1 then a Conditional, which is refused there, else x + 1
IfInIf ==
  LET m(x) == IF x < 1 THEN <<>> ELSE A("f") :> x + 1
  IN  Program("c" :> Op("lt1", <<X>>) @@ "k" :> Op("lt1", <<X>>)
                @@ "t" :> Op("add", <<X, X>>) @@ "s" :> Op("inc", <<X>>)
                @@ "g" :> Logic("If", <<>>) @@ "u" :> Op("inc", <<X>>)
                @@ "f" :> Logic("If", <<>>),
              <<"f">>,
              "f" :> ("cond" :> <<"c">> @@ "true" :> <<"g">> @@ "false" :> <<"u">>)
                @@ "g" :> ("cond" :> <<"k">> @@ "true" :> <<"t">> @@ "false" :> <<"s">>),
              0..2, m, NoOrbit, 0..2, 1, FALSE)

MCFailing  == {Conditional(2, TRUE)}
MCNested   == {BadLoopInLoop(<<>>), BadLoopInLoop(<<X>>), IfInIf,
               LoopInLoop(FALSE), LoopInLoop(TRUE)}
MCPrograms == {Loop(l) : l \in Family} \cup MCFailing \cup MCNested \cup
              {Count, Conditional(2, FALSE), WithReturn, IfInLoop(FALSE), IfInLoop(TRUE),
               Endless, NoVariable}

\* Structured programs, with the order in which their nodes finish.
RankOf == "n" :> 1 @@ "c" :> 2 @@ "k" :> 3 @@ "b" :> 4 @@ "d" :> 5 @@ "t" :> 6 @@ "u" :> 7
            @@ "f" :> 8 @@ "r" :> 9 @@ "w" :> 10 @@ "o" :> 11

ASSUME MostAreStructured ==
  \A p \in MCPrograms \ (MCNested \cup {WithReturn, NoVariable}) :
    Shaped(p) /\ Ordered(p, [v \in NodesOf(p) |-> RankOf[v]])
ASSUME OthersAreNot ==
  \A p \in MCNested \cup {WithReturn, NoVariable} : ~Shaped(p)
===========================================================================
