-------------------------- MODULE MCGraphBuilder ---------------------------
(* Node definitions for TLC: input lists over three ids, the external       *)
(* variable -1 and the external variable 9.                                 *)
EXTENDS GraphBuilder

N(input, kind, paired, scope) ==
  [input |-> input, kind |-> kind, paired |-> paired, scope |-> scope]
Op(input) == N(input, "op", FALSE, 0)
PairedOp(input) == N(input, "op", TRUE, 0)
Logic(input) == N(input, "logic", FALSE, 0)
Scope == N(<<>>, "scope", FALSE, 0)
InScope(input, s) == N(input, "op", FALSE, s)

\* Nodes with up to two inputs: cycles, missing inputs and every order of ids;
\* scopes and nodes inside them.
MCNodeDefs ==
  {Op(in) : in \in {<<1>>, <<2>>, <<3>>, <<-1>>, <<9>>, <<1, 2>>, <<-1, 3>>}}
  \cup {PairedOp(<<2>>), PairedOp(<<-1>>), Logic(<<1, 3>>), Scope, InScope(<<-1>>, 1)}

\* Enough for an unplaced node, and for a node inside a scope.
FewNodeDefs == {Op(<<-1>>), Op(<<2, 3>>), Scope, InScope(<<-1>>, 1)}
===========================================================================
