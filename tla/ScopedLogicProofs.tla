------------------------- MODULE ScopedLogicProofs -------------------------
(***************************************************************************)
(* Errors are lost only where LogicConditional and LogicWhile drop them:   *)
(* every call is made from a scope of the call below it, so that an error  *)
(* which does not end the execution was returned by a node whose place in  *)
(* the scopes says which of the two has dropped it.  The variables of a    *)
(* While are its own: only a Return of its scopes writes to them, because  *)
(* their arrays are found in no other slot.                                *)
(*                                                                         *)
(* What an execution leaves is what the graph denotes (ScopedMeaning), for *)
(* Structured programs: the invariant says that what every call has run    *)
(* holds of the contents that are there, and a step changes only what no   *)
(* call has run yet, or what is run again.                                 *)
(***************************************************************************)
EXTENDS ScopedMeaning, TLAPS

\* The calls of execute, and of a While or Conditional that is in one of its scopes.
Calls ==
  {f \in [node : NodesOf(prog) \cup {"main"},
          part : {"main", "cond", "body", "true", "false"}, pos : Nat \ {0}, breaker : Nat] :
     f.part # "main" => /\ f.node \in NodesOf(prog) /\ Kind(f.node) \in {"While", "If"}
                        /\ f.part \in PartsOf(Kind(f.node))}

\* A stack of calls has execute at its bottom and nowhere else.
Good(s) ==
  /\ s \in Seq(Calls) /\ s # <<>>
  /\ \A k \in DOMAIN s : s[k].part = "main" <=> k = 1

CallInv == prog \in Programs /\ (status = "running" => Good(stack))

\* The calls of s are calls of the same nodes as those of t at the bottom of it.
SameNodes(s, t) == Len(s) <= Len(t) /\ \A k \in 1..Len(s) : s[k].node = t[k].node

---------------------------------------------------------------------------
(* Programs and stacks *)

LEMMA Formed ==
  ASSUME prog \in Programs
  PROVE  /\ "x" \notin NodesOf(prog) /\ prog.main \in Seq(NodesOf(prog))
         /\ \A i \in DOMAIN prog.main : Kind(prog.main[i]) # "Return"
         /\ \A v \in NodesOf(prog) : Kind(v) \in {"Op", "Return", "While", "If"}
         /\ \A v \in NodesOf(prog) : In(v) \in Seq(PairsOf(prog))
         /\ \A v \in NodesOf(prog) : Kind(v) # "Op" => Len(In(v)) <= 2
         /\ \A v \in NodesOf(prog) : Kind(v) \in {"While", "If"} => \A s \in PartsOf(Kind(v)) :
              /\ prog.scopes[v][s] \in Seq(NodesOf(prog)) /\ prog.scopes[v][s] # <<>>
              /\ \A i \in DOMAIN prog.scopes[v][s] :
                   Kind(prog.scopes[v][s][i]) = "Return" => prog.out[prog.scopes[v][s][i]] = v
         /\ \A u, v \in NodesOf(prog) : Contains(prog, v, u) =>
              /\ \A i \in DOMAIN prog.main : prog.main[i] # u
              /\ \A w \in NodesOf(prog) : Contains(prog, w, u) => w = v
         /\ Nil \notin PairsOf(prog)
BY ProgramsAssumption DEF WellFormed, Kind, In

LEMMA CallFields ==
  ASSUME NEW f \in Calls
  PROVE  /\ f.pos \in Nat \ {0} /\ f.breaker \in Nat
         /\ f.part # "main" => /\ f.node \in NodesOf(prog) /\ Kind(f.node) \in {"While", "If"}
                               /\ f.part \in PartsOf(Kind(f.node))
BY DEF Calls

\* What a call is at, and the scope it is in.
LEMMA CallNodes ==
  ASSUME prog \in Programs, NEW f \in Calls
  PROVE  /\ Nodes(f) \in Seq(NodesOf(prog))
         /\ f.part # "main" => /\ Nodes(f) = prog.scopes[f.node][f.part] /\ Nodes(f) # <<>>
                               /\ \A i \in DOMAIN Nodes(f) :
                                    Kind(Nodes(f)[i]) = "Return" => prog.out[Nodes(f)[i]] = f.node
         /\ f.part = "main" => \A i \in DOMAIN Nodes(f) : Kind(Nodes(f)[i]) # "Return"
BY Formed, CallFields DEF Nodes

LEMMA MovedCall ==
  ASSUME NEW f \in Calls, NEW p \in Nat \ {0}
  PROVE  /\ [f EXCEPT !.pos = p] \in Calls /\ [f EXCEPT !.pos = p].part = f.part
         /\ [f EXCEPT !.pos = p].node = f.node
BY DEF Calls

\* The head of a call of a While moves to another of its scopes.
LEMMA TurnedCall ==
  ASSUME NEW f \in Calls, NEW s, f.part # "main", s \in PartsOf(Kind(f.node))
  PROVE  /\ [f EXCEPT !.part = s, !.pos = 1] \in Calls
         /\ [f EXCEPT !.part = s, !.pos = 1].part # "main"
         /\ [f EXCEPT !.part = s, !.pos = 1].node = f.node
<1> DEFINE h == [f EXCEPT !.part = s, !.pos = 1]
<1>1. s \in {"cond", "body", "true", "false"}
  BY DEF PartsOf
<1>2. h.node = f.node /\ h.part = s /\ h.pos = 1 /\ h.breaker = f.breaker
  BY DEF Calls
<1>3. h \in [node : NodesOf(prog) \cup {"main"},
             part : {"main", "cond", "body", "true", "false"}, pos : Nat \ {0}, breaker : Nat]
  <2>1. 1 \in Nat \ {0}
    OBVIOUS
  <2> QED
    BY <1>1, <2>1 DEF Calls
<1> HIDE DEF h
<1>4. h \in Calls
  BY <1>1, <1>2, <1>3, CallFields DEF Calls
<1> QED
  BY <1>1, <1>2, <1>4 DEF h

LEMMA AgainCall ==
  ASSUME NEW f \in Calls, f.part # "main"
  PROVE  /\ NextIteration(f) \in Calls /\ NextIteration(f).part # "main"
         /\ NextIteration(f).node = f.node
<1> DEFINE h == [f EXCEPT !.part = "cond", !.pos = 1, !.breaker = @ + 1]
<1>1. f.breaker + 1 \in Nat
  BY CallFields
<1>2. h.node = f.node /\ h.part = "cond"
  BY DEF Calls
<1>3. h \in [node : NodesOf(prog) \cup {"main"},
             part : {"main", "cond", "body", "true", "false"}, pos : Nat \ {0}, breaker : Nat]
  <2>1. 1 \in Nat \ {0}
    OBVIOUS
  <2> QED
    BY <1>1, <2>1 DEF Calls
<1>4. NextIteration(f) = h
  BY DEF NextIteration
<1> HIDE DEF h
<1>5. h \in Calls
  BY <1>2, <1>3, CallFields DEF Calls, PartsOf
<1> QED
  BY <1>2, <1>4, <1>5

LEMMA GoodTop ==
  ASSUME Good(stack)
  PROVE  /\ Len(stack) \in Nat \ {0} /\ Top \in Calls
         /\ Top.part = "main" <=> Len(stack) = 1
<1>1. stack \in Seq(Calls) /\ stack # <<>>
  BY DEF Good
<1>2. Len(stack) \in Nat \ {0} /\ Len(stack) \in DOMAIN stack
  BY <1>1
<1>3. Top = stack[Len(stack)]
  BY DEF Top
<1>4. Top \in Calls
  BY <1>1, <1>2, <1>3
<1>5. Top.part = "main" <=> Len(stack) = 1
  BY <1>2, <1>3 DEF Good
<1> QED
  BY <1>2, <1>4, <1>5

LEMMA GoodBelow ==
  ASSUME Good(stack), Top.part # "main"
  PROVE  Good(Below) /\ Len(Below) = Len(stack) - 1 /\ SameNodes(Below, stack)
<1>1. stack \in Seq(Calls) /\ Len(stack) \in Nat /\ Len(stack) > 1
  BY GoodTop DEF Good
<1>2. /\ Below \in Seq(Calls) /\ Len(Below) = Len(stack) - 1
      /\ \A k \in 1 .. Len(Below) : Below[k] = stack[k] /\ k \in DOMAIN stack
  BY <1>1 DEF Below
<1>3. Below # <<>>
  BY <1>1, <1>2
<1>4. DOMAIN Below = 1 .. Len(Below)
  BY <1>2
<1> HIDE DEF Below
<1>5. SameNodes(Below, stack)
  BY <1>1, <1>2 DEF SameNodes
<1> QED
  BY <1>2, <1>3, <1>4, <1>5 DEF Good

LEMMA GoodAppend ==
  ASSUME NEW s, Good(s), NEW f \in Calls, f.part # "main"
  PROVE  Good(Append(s, f)) /\ Len(Append(s, f)) = Len(s) + 1
<1>1. s \in Seq(Calls) /\ Len(s) \in Nat \ {0} /\ DOMAIN s = 1 .. Len(s)
  BY DEF Good
<1> DEFINE t == Append(s, f)
<1>2. /\ t \in Seq(Calls) /\ Len(t) = Len(s) + 1 /\ t # <<>> /\ DOMAIN t = 1 .. Len(t)
      /\ t[Len(s) + 1] = f /\ \A k \in 1 .. Len(s) : t[k] = s[k]
  BY <1>1
<1> HIDE DEF t
<1>3. ASSUME NEW k \in DOMAIN t PROVE t[k].part = "main" <=> k = 1
  <2>1. CASE k = Len(s) + 1
    BY <1>1, <1>2, <2>1
  <2>2. CASE k \in 1 .. Len(s)
    BY <1>1, <1>2, <2>2 DEF Good
  <2> QED
    BY <1>1, <1>2, <2>1, <2>2
<1>4. Good(t) /\ Len(t) = Len(s) + 1
  BY <1>2, <1>3 DEF Good
<1> QED
  BY <1>4 DEF t

LEMMA GoodNext1 ==
  ASSUME NEW s, Good(s)
  PROVE  Good(Next1(s)) /\ Len(Next1(s)) = Len(s) /\ SameNodes(Next1(s), s)
<1>1. s \in Seq(Calls) /\ Len(s) \in Nat \ {0} /\ DOMAIN s = 1 .. Len(s)
  BY DEF Good
<1> DEFINE f == s[Len(s)]
           h == [f EXCEPT !.pos = f.pos + 1]
           t == [s EXCEPT ![Len(s)] = h]
<1>2. f \in Calls
  BY <1>1
<1>3. f.pos + 1 \in Nat \ {0}
  BY <1>2, CallFields
<1>4. h \in Calls /\ h.part = f.part /\ h.node = f.node
  BY <1>2, <1>3, MovedCall
<1>5. Next1(s) = t
  BY DEF Next1
<1> HIDE DEF h
<1>6. /\ t \in Seq(Calls) /\ Len(t) = Len(s) /\ DOMAIN t = DOMAIN s
      /\ t[Len(s)] = h /\ \A k \in DOMAIN s : k # Len(s) => t[k] = s[k]
  BY <1>1, <1>4
<1>7. t # <<>>
  BY <1>1, <1>6
<1> HIDE DEF t
<1>8. \A k \in DOMAIN t : t[k].part = "main" <=> k = 1
  BY <1>1, <1>4, <1>6 DEF Good
<1>9. SameNodes(t, s)
  BY <1>1, <1>4, <1>6 DEF SameNodes
<1> QED
  BY <1>5, <1>6, <1>7, <1>8, <1>9 DEF Good

LEMMA GoodSetTop ==
  ASSUME Good(stack), Top.part # "main", NEW f \in Calls, f.part # "main", f.node = Top.node
  PROVE  Good(SetTop(f)) /\ Len(SetTop(f)) = Len(stack) /\ SameNodes(SetTop(f), stack)
<1>1. Good(Below) /\ Len(Below) = Len(stack) - 1 /\ Len(stack) \in Nat
  BY GoodBelow, GoodTop
<1>2. Good(Append(Below, f)) /\ Len(Append(Below, f)) = Len(Below) + 1
  BY <1>1, GoodAppend
<1>3. SameNodes(Below, stack) /\ Below \in Seq(Calls) /\ Top = stack[Len(stack)]
  BY <1>1, GoodBelow DEF Good, Top
<1> DEFINE n == Len(stack)
           t == Append(Below, f)
<1>4. t[n] = f /\ \A k \in 1..(n - 1) : t[k] = Below[k]
  BY <1>1, <1>3
<1> HIDE DEF t
<1>5. Len(t) = n /\ \A k \in 1..n : k = n \/ k \in 1..(n - 1)
  BY <1>1, <1>2 DEF t
<1>6. SameNodes(t, stack)
  BY <1>1, <1>3, <1>4, <1>5 DEF SameNodes
<1> QED
  BY <1>1, <1>2, <1>6 DEF SetTop, t

LEMMA SameNodesOn ==
  ASSUME NEW s, NEW t, NEW u, Good(s), Good(t), Good(u), SameNodes(s, t), SameNodes(t, u)
  PROVE  SameNodes(s, u)
<1>1. Len(s) \in Nat /\ Len(t) \in Nat /\ Len(u) \in Nat
  BY DEF Good
<1>2. \A k \in 1..Len(s) : k \in 1..Len(t)
  BY <1>1 DEF SameNodes
<1> QED
  BY <1>1, <1>2 DEF SameNodes

\* The call at the top returns.
LEMMA CallEnds ==
  ASSUME Good(stack), Top.part # "main"
  PROVE  Good(Next1(Below)) /\ SameNodes(Next1(Below), stack)
BY GoodBelow, GoodNext1, SameNodesOn

---------------------------------------------------------------------------
(* The stack of calls *)

LEMMA UnwindGood ==
  ASSUME NEW s, Good(s), Unwind(s)
  PROVE  \/ stack' = <<>> /\ status' = "error"
         \/ status' = status /\ Len(s) > 1 /\ Good(stack') /\ SameNodes(stack', s)
<1>1. Len(s) \in Nat \ {0}
  BY DEF Good
<1>2. \/ stack' = <<>> /\ status' = "error"
      \/ status' = status /\ Len(s) # 1 /\ stack' = Next1(s)
  BY DEF Unwind
<1>3. Good(Next1(s)) /\ SameNodes(Next1(s), s)
  BY GoodNext1
<1> QED
  BY <1>1, <1>2, <1>3

LEMMA FramesAreCalls ==
  ASSUME NEW v \in NodesOf(prog), Kind(v) \in {"While", "If"}
  PROVE  /\ Frame(v, "cond") \in Calls /\ Frame(v, "cond").part = "cond"
         /\ Frame("main", "main") \in Calls
BY DEF Frame, Calls, PartsOf

LEMMA FirstCall == Good(<<Frame("main", "main")>>)
<1>1. Frame("main", "main") \in Calls /\ Frame("main", "main").part = "main"
  BY DEF Frame, Calls
<1> HIDE DEF Frame
<1> QED
  BY <1>1 DEF Good

\* What a node visited is: it is a node of the scope or of the main graph.
LEMMA AtFacts ==
  ASSUME CallInv, NEW v, At(v)
  PROVE  /\ Good(stack) /\ Top \in Calls
         /\ v \in NodesOf(prog)
         /\ Kind(v) = "Return" => Top.part # "main" /\ prog.out[v] = Top.node
         /\ Top.part # "main" =>
              \E i \in DOMAIN prog.scopes[Top.node][Top.part] :
                v = prog.scopes[Top.node][Top.part][i]
<1>1. Good(stack) /\ Top \in Calls /\ prog \in Programs
  BY GoodTop DEF CallInv, At, Running
<1>2. Nodes(Top) \in Seq(NodesOf(prog)) /\ Top.pos \in Nat \ {0}
  BY <1>1, CallNodes, CallFields
<1>3. Top.pos <= Len(Nodes(Top)) /\ v = Nodes(Top)[Top.pos]
  BY DEF At
<1>4. Top.part # "main" => Nodes(Top) = prog.scopes[Top.node][Top.part]
  BY <1>1, CallNodes
<1>5. Top.pos \in DOMAIN Nodes(Top)
  BY <1>2, <1>3
<1>6. v \in NodesOf(prog)
  BY <1>2, <1>3, <1>5
<1>7. Kind(v) = "Return" => Top.part # "main" /\ prog.out[v] = Top.node
  BY <1>1, <1>3, <1>5, CallNodes
<1> QED
  BY <1>1, <1>3, <1>4, <1>5, <1>6, <1>7

\* What a step does to the calls: it ends the execution, begins one, adds a call for the
\* node that the last call is at, or leaves calls of the same nodes.
Enters(v) == /\ At(v) /\ Kind(v) \in {"While", "If"}
             /\ stack' = Append(stack, Frame(v, "cond"))
Begins1   == stack' = <<Frame("main", "main")>> /\ failed' = {}
GoesOn    == /\ status = "running" /\ Good(stack')
             /\ SameNodes(stack', stack) \/ \E v \in NodesOf(prog) : Enters(v)

LEMMA StepShape ==
  ASSUME CallInv, Next
  PROVE  prog' = prog /\ (status' = "running" => Good(stack') /\ (Begins1 \/ GoesOn))
<1>1. prog' = prog
  BY DEF Next, Step, StartRun, FinishRun, FailNode, ExecuteOp, EnterLogic, Decide, Crash, Return,
         BranchEnd
<1>2. CASE FinishRun
  BY <1>1, <1>2 DEF FinishRun
<1>3. CASE Decide
  <2>1. status = "running" /\ Good(stack) /\ Top.part = "cond"
    BY <1>3 DEF Decide, AtEnd, Running, CallInv
  <2>2. Top \in Calls
    BY <2>1, GoodTop
  <2>3. CASE ById(Last(Top)) = Nil
    BY <1>1, <1>3, <2>3 DEF Decide, Crash
  <2>4. CASE ById(Last(Top)) # Nil
    <3> DEFINE part == ScopeFor(content[ById(Last(Top))])
    <3>1. stack' = IF part = "none" THEN Next1(Below)
                   ELSE SetTop([Top EXCEPT !.part = part, !.pos = 1])
      BY <1>3, <2>4 DEF Decide
    <3>2. part = "none" \/ part \in PartsOf(Kind(Top.node))
      BY <2>1, <2>2, CallFields DEF ScopeFor, Within, PartsOf
    <3> HIDE DEF part
    <3>3. CASE part = "none"
      <4>1. Good(Next1(Below)) /\ SameNodes(Next1(Below), stack)
        BY <2>1, CallEnds
      <4> QED
        BY <1>1, <2>1, <3>1, <3>3, <4>1 DEF GoesOn
    <3>4. CASE part # "none"
      <4> DEFINE f == [Top EXCEPT !.part = part, !.pos = 1]
      <4>1. f \in Calls /\ f.part # "main" /\ f.node = Top.node
        BY <2>1, <2>2, <3>2, <3>4, TurnedCall
      <4>2. stack' = SetTop(f)
        BY <3>1, <3>4
      <4> HIDE DEF f
      <4>3. Good(SetTop(f)) /\ SameNodes(SetTop(f), stack)
        BY <2>1, <4>1, GoodSetTop
      <4> QED
        BY <1>1, <2>1, <4>2, <4>3 DEF GoesOn
    <3> QED
      BY <3>3, <3>4
  <2> QED
    BY <2>3, <2>4
<1>4. CASE BranchEnd
  <2>1. status = "running" /\ Good(stack) /\ Top.part # "main" /\ stack' = Next1(Below)
    BY <1>4 DEF BranchEnd, AtEnd, Running, CallInv
  <2>2. Good(Next1(Below)) /\ SameNodes(Next1(Below), stack)
    BY <2>1, CallEnds
  <2> QED
    BY <1>1, <2>1, <2>2 DEF GoesOn
<1>5. ASSUME NEW v \in NodesOf(prog), FailNode(v), status' = "running"
      PROVE  GoesOn
  <2>1. Good(stack) /\ status = "running"
    BY <1>5, AtFacts DEF FailNode, At, Running
  <2>2. CASE Kind(v) = "Op" /\ Within("While")
    <3>1. Top.part # "main" /\ Unwind(Below)
      BY <1>5, <2>2 DEF FailNode, Within
    <3>2. Good(Below) /\ SameNodes(Below, stack)
      BY <2>1, <3>1, GoodBelow
    <3>3. Good(stack') /\ SameNodes(stack', Below)
      BY <1>5, <3>1, <3>2, UnwindGood
    <3> QED
      BY <2>1, <3>2, <3>3, SameNodesOn DEF GoesOn
  <2>3. CASE ~(Kind(v) = "Op" /\ Within("While"))
    <3>1. Unwind(stack)
      BY <1>5, <2>3 DEF FailNode
    <3> QED
      BY <1>5, <2>1, <3>1, UnwindGood DEF GoesOn
  <2> QED
    BY <2>2, <2>3
<1>6. ASSUME NEW v \in NodesOf(prog), ExecuteOp(v)
      PROVE  GoesOn
  <2>1. At(v) /\ stack' = Next1(stack)
    BY <1>6 DEF ExecuteOp
  <2>2. Good(stack) /\ status = "running"
    BY <2>1, AtFacts DEF At, Running
  <2> QED
    BY <2>1, <2>2, GoodNext1 DEF GoesOn
<1>7. ASSUME NEW v \in NodesOf(prog), EnterLogic(v)
      PROVE  GoesOn
  <2>1. Enters(v)
    BY <1>7 DEF EnterLogic, Enters
  <2>2. Good(stack) /\ status = "running"
    BY <2>1, AtFacts DEF At, Running, Enters
  <2>3. Frame(v, "cond") \in Calls /\ Frame(v, "cond").part # "main"
    BY <2>1, FramesAreCalls DEF Enters
  <2>4. Good(stack')
    BY <2>1, <2>2, <2>3, GoodAppend DEF Enters
  <2> QED
    BY <2>1, <2>2, <2>4 DEF GoesOn
<1>8. ASSUME NEW v \in NodesOf(prog), Return(v), status' = "running"
      PROVE  GoesOn
  <2>1. At(v) /\ Kind(v) = "Return"
    BY <1>8 DEF Return
  <2>2. Good(stack) /\ Top.part # "main" /\ status = "running" /\ Top \in Calls
    BY <2>1, AtFacts DEF At, Running
  <2>3. \/ stack' = Next1(Below)
        \/ stack' = SetTop(NextIteration(Top))
        \/ Unwind(Below)
    BY <1>8 DEF Return, Crash
  <2>4. Good(Next1(Below)) /\ SameNodes(Next1(Below), stack)
    BY <2>2, CallEnds
  <2>5. /\ NextIteration(Top) \in Calls /\ NextIteration(Top).part # "main"
        /\ NextIteration(Top).node = Top.node
    BY <2>2, AgainCall
  <2>6. Good(SetTop(NextIteration(Top))) /\ SameNodes(SetTop(NextIteration(Top)), stack)
    BY <2>2, <2>5, GoodSetTop
  <2>7. CASE Unwind(Below)
    <3>1. Good(Below) /\ SameNodes(Below, stack)
      BY <2>2, GoodBelow
    <3>2. Good(stack') /\ SameNodes(stack', Below)
      BY <1>8, <2>7, <3>1, UnwindGood
    <3> QED
      BY <2>2, <3>1, <3>2, SameNodesOn DEF GoesOn
  <2> QED
    BY <2>2, <2>3, <2>4, <2>6, <2>7 DEF GoesOn
<1>9. ASSUME NEW x, StartRun(x)
      PROVE  Good(stack') /\ Begins1
  BY <1>9, FirstCall DEF StartRun, Begins1
<1> QED
  BY <1>1, <1>2, <1>3, <1>4, <1>5, <1>6, <1>7, <1>8, <1>9 DEF Next, Step, GoesOn

LEMMA StepCalls ==
  ASSUME CallInv, Next \/ UNCHANGED vars
  PROVE  CallInv'
<1>1. prog' = prog /\ prog \in Programs
  BY StepShape DEF CallInv, vars
<1>2. status' = "running" => Good(stack')
  <2>1. CASE Next
    BY <2>1, StepShape
  <2>2. CASE UNCHANGED vars
    BY <2>2 DEF CallInv, vars
  <2> QED
    BY <2>1, <2>2
<1>3. Calls' = Calls
  BY <1>1 DEF Calls, Kind
<1> QED
  BY <1>1, <1>2, <1>3 DEF CallInv, Good

LEMMA InitCalls == Init => CallInv
BY DEF Init, CallInv

---------------------------------------------------------------------------
(* Errors *)

\* Above execute's, each call is for a node of a scope of the call below.
Inner(s) == \A k \in 1..Len(s) : k > 2 => Contains(prog, s[k - 1].node, s[k].node)

ErrorInv ==
  /\ status = "running" => Inner(stack)
  /\ status \in {"running", "ok"} => \A v \in failed : Silent(v)

\* What a node in a scope is part of.
LEMMA AtContained ==
  ASSUME CallInv, NEW v, At(v), Top.part # "main"
  PROVE  /\ v \in NodesOf(prog) /\ Top.node \in NodesOf(prog)
         /\ Kind(Top.node) \in {"While", "If"} /\ Contains(prog, Top.node, v)
<1>1. /\ v \in NodesOf(prog) /\ Top \in Calls
      /\ \E i \in DOMAIN prog.scopes[Top.node][Top.part] :
           v = prog.scopes[Top.node][Top.part][i]
  BY AtFacts
<1>2. /\ Top.node \in NodesOf(prog) /\ Kind(Top.node) \in {"While", "If"}
      /\ Top.part \in PartsOf(Kind(Top.node))
  BY <1>1, CallFields
<1> QED
  BY <1>1, <1>2 DEF Contains, Kind

\* The node of the top call, when that is not made by execute.
LEMMA TopContained ==
  ASSUME CallInv, status = "running", Inner(stack), Top.part # "main", Len(Below) > 1
  PROVE  \E w \in NodesOf(prog) : Contains(prog, w, Top.node)
<1> DEFINE n == Len(stack)
           w == stack[n - 1].node
<1>1. Good(stack) /\ n \in Nat /\ Len(Below) = n - 1 /\ Top = stack[n]
  BY GoodTop, GoodBelow DEF CallInv, Top
<1>2. n > 2 /\ n \in 1..n /\ n - 1 \in DOMAIN stack /\ n - 1 # 1
  BY <1>1 DEF Good
<1>3. Contains(prog, w, Top.node)
  BY <1>1, <1>2 DEF Inner
<1>4. w \in NodesOf(prog)
  <2>1. stack[n - 1] \in Calls /\ stack[n - 1].part # "main"
    BY <1>1, <1>2 DEF Good
  <2> QED
    BY <2>1, CallFields
<1> QED
  BY <1>3, <1>4

\* Calls stay in the scopes of those below.
LEMMA StepInner ==
  ASSUME CallInv, Next, status = "running" => Inner(stack), status' = "running"
  PROVE  \A k \in 1..Len(stack') : k > 2 => Contains(prog, stack'[k - 1].node, stack'[k].node)
<1> SUFFICES ASSUME NEW k \in 1..Len(stack'), k > 2
             PROVE  Contains(prog, stack'[k - 1].node, stack'[k].node)
  OBVIOUS
<1>1. Good(stack') /\ (Begins1 \/ GoesOn)
  BY StepShape
<1>2. Len(stack') \in Nat /\ k \in Nat /\ k - 1 \in 1..Len(stack')
  BY <1>1 DEF Good
<1>3. CASE Begins1
  BY <1>2, <1>3 DEF Begins1
<1>4. CASE GoesOn /\ SameNodes(stack', stack)
  <2>1. Good(stack) /\ Inner(stack) /\ Len(stack) \in Nat
    BY <1>4, GoodTop DEF GoesOn, CallInv
  <2>2. k \in 1..Len(stack) /\ stack'[k].node = stack[k].node
        /\ stack'[k - 1].node = stack[k - 1].node
    BY <1>2, <1>4, <2>1 DEF SameNodes
  <2> QED
    BY <2>1, <2>2 DEF Inner
<1>5. ASSUME GoesOn, NEW v \in NodesOf(prog), Enters(v)
      PROVE  Contains(prog, stack'[k - 1].node, stack'[k].node)
  <2> DEFINE n == Len(stack)
             f == Frame(v, "cond")
  <2>1. Good(stack) /\ Inner(stack) /\ n \in Nat \ {0} /\ stack' = Append(stack, f) /\ f.node = v
    BY <1>5, GoodTop DEF GoesOn, CallInv, Enters, Frame
  <2>2. stack \in Seq(Calls)
    BY <2>1 DEF Good
  <2> HIDE DEF f
  <2>3. Len(stack') = n + 1 /\ stack'[n + 1] = f /\ \A j \in 1..n : stack'[j] = stack[j]
    BY <2>1, <2>2
  <2>4. CASE k = n + 1
    <3>1. Len(stack) # 1 /\ k - 1 = n /\ n \in 1..n
      BY <1>2, <2>1, <2>4
    <3>2. Top.part # "main" /\ Top = stack[n]
      BY <2>1, <3>1, GoodTop DEF Top
    <3>3. Contains(prog, Top.node, v)
      BY <1>5, <3>2, AtContained DEF Enters
    <3> QED
      BY <2>1, <2>3, <2>4, <3>1, <3>2, <3>3
  <2>5. CASE k # n + 1
    <3>1. k \in 1..n /\ k - 1 \in 1..n
      BY <1>2, <2>1, <2>3, <2>5
    <3> QED
      BY <2>1, <2>3, <3>1 DEF Inner
  <2> QED
    BY <2>4, <2>5
<1> QED
  BY <1>1, <1>3, <1>4, <1>5 DEF GoesOn

\* An error that does not end the execution was dropped by one of the two.
LEMMA FailSilent ==
  ASSUME CallInv, status = "running" => Inner(stack), NEW v \in NodesOf(prog), FailNode(v),
         status' # "error"
  PROVE  Silent(v)
<1>1. At(v) /\ status = "running" /\ Good(stack)
  BY AtFacts DEF FailNode, At, Running
<1>2. CASE Kind(v) = "Op" /\ Within("While")
  <2>1. Top.part # "main" /\ Unwind(Below)
    BY <1>2 DEF FailNode, Within
  <2>2. Good(Below)
    BY <1>1, <2>1, GoodBelow
  <2>3. Len(Below) > 1
    BY <2>1, <2>2, UnwindGood
  <2>4. \E w \in NodesOf(prog) : Contains(prog, w, Top.node)
    BY <1>1, <2>1, <2>3, TopContained
  <2> QED
    BY <1>1, <2>1, <2>4, AtContained DEF Silent
<1>3. CASE ~(Kind(v) = "Op" /\ Within("While"))
  <2>1. Unwind(stack)
    BY <1>3 DEF FailNode
  <2>2. Len(stack) # 1
    <3> DEFINE n == Len(stack)
    <3>1. n > 1 /\ n \in Nat
      BY <1>1, <2>1, UnwindGood, GoodTop
    <3> HIDE DEF n
    <3>2. n # 1
      BY <3>1
    <3> QED
      BY <3>2 DEF n
  <2>3. Top.part # "main"
    BY <1>1, <2>2, GoodTop
  <2>4. Kind(v) # "Op" \/ Kind(Top.node) = "If"
    BY <1>1, <1>3, <2>3, AtContained DEF Within
  <2> QED
    BY <1>1, <2>3, <2>4, AtContained DEF Silent
<1> QED
  BY <1>2, <1>3

LEMMA LimitSilent ==
  ASSUME CallInv, status = "running" => Inner(stack), NEW v \in NodesOf(prog), Return(v),
         Unwind(Below), status' # "error"
  PROVE  Silent(Top.node)
<1>1. At(v) /\ status = "running" /\ Good(stack) /\ Top.part # "main"
  BY AtFacts DEF Return, At, Running
<1>2. Top.node \in NodesOf(prog) /\ Kind(Top.node) # "Op"
  BY <1>1, AtContained
<1>3. Good(Below)
  BY <1>1, GoodBelow
<1>4. Len(Below) > 1
  BY <1>3, UnwindGood
<1>5. \E w \in NodesOf(prog) : Contains(prog, w, Top.node)
  BY <1>1, <1>4, TopContained
<1> QED
  BY <1>2, <1>5 DEF Silent

LEMMA StepErrors ==
  ASSUME CallInv, ErrorInv, Next \/ UNCHANGED vars
  PROVE  ErrorInv'
<1>1. prog' = prog
  BY StepShape DEF vars
<1>2. \A v : Silent(v)' <=> Silent(v)
  BY <1>1 DEF Silent, Kind
<1>3. CASE UNCHANGED vars
  BY <1>1, <1>2, <1>3 DEF ErrorInv, Inner, vars
<1>4. CASE Next
  <2>1. status' = "running" => Inner(stack)'
    BY <1>1, <1>4, StepInner DEF ErrorInv, Inner
  <2>2. ASSUME status' \in {"running", "ok"}, NEW v \in failed' PROVE Silent(v)
    <3>1. CASE \E x : StartRun(x)
      BY <2>2, <3>1 DEF StartRun
    <3>2. CASE Step
      <4>1. status = "running"
        BY <3>2 DEF Step, FinishRun, FailNode, ExecuteOp, EnterLogic, Decide, Return, BranchEnd,
           AtEnd, At, Running
      <4>2. CASE v \in failed
        BY <4>1, <4>2 DEF ErrorInv
      <4>3. ASSUME NEW u \in NodesOf(prog), FailNode(u), v \notin failed PROVE Silent(v)
        <5>1. v = u
          BY <2>2, <4>3 DEF FailNode
        <5> QED
          BY <2>2, <4>3, <5>1, FailSilent DEF ErrorInv
      <4>4. ASSUME NEW u \in NodesOf(prog), Return(u), v \notin failed PROVE Silent(v)
        <5>1. v = Top.node /\ Unwind(Below)
          BY <2>2, <4>4 DEF Return, Crash
        <5> QED
          BY <2>2, <4>4, <5>1, LimitSilent DEF ErrorInv
      <4> QED
        BY <2>2, <3>2, <4>2, <4>3, <4>4 DEF Step, FinishRun, ExecuteOp, EnterLogic, Decide,
           Crash, BranchEnd
    <3> QED
      BY <1>4, <3>1, <3>2 DEF Next
  <2> QED
    BY <1>2, <2>1, <2>2 DEF ErrorInv
<1> QED
  BY <1>3, <1>4

\* However scopes are nested and wherever ops fail, an execution that returns OK has
\* lost no error but those of nodes that a Conditional runs, of logic ops that a While
\* runs, and of ops of a While that is itself in a scope: the places where
\* LogicConditional and LogicWhile drop a status.
THEOREM ScopedErrors == Spec => []ErrorsReported
<1> DEFINE Inv == CallInv /\ ErrorInv
<1>1. Init => Inv
  BY InitCalls DEF Init, ErrorInv
<1>2. Inv /\ [Next]_vars => Inv'
  BY StepCalls, StepErrors
<1>3. Inv => ErrorsReported
  BY DEF ErrorInv, ErrorsReported
<1> HIDE DEF Inv
<1> QED
  BY <1>1, <1>2, <1>3, PTL DEF Spec

---------------------------------------------------------------------------
(* Variables *)

\* The arrays nobody else may write to: the caller's, and the copies of a While.
IsKept(q) == q = X \/ \E w \in NodesOf(prog), i \in {0, 1} : q = <<w, i>> /\ Kind(w) = "While"

\* A kept array is in its own slot or in none, and no other array is in that slot.
Own(sl) ==
  /\ sl \in [PairsOf(prog) -> PairsOf(prog) \cup {Nil}]
  /\ \A q \in PairsOf(prog) : IsKept(sl[q]) => sl[q] = q
  /\ \A q \in PairsOf(prog) : IsKept(q) => sl[q] \in {Nil, q}

\* A While in a branch of a Conditional is never entered.
Unentered(sl) ==
  \A u, f \in NodesOf(prog) : Kind(u) = "While" /\ Kind(f) = "If" /\ Contains(prog, f, u) =>
    sl[<<u, 0>>] = Nil

OwnInv == Own(slot) /\ Unentered(slot) /\ DOMAIN content = PairsOf(prog)

\* A step that keeps q keeps the array in its slot and what the array contains.
Keeps(q) == slot[q] # Nil => slot'[q] = slot[q] /\ content'[q] = content[q]

\* No step but a Return of its own scopes changes a variable of a While.
KeepsVariables ==
  \A w \in NodesOf(prog), i \in {0, 1} : Kind(w) = "While" =>
    Keeps(<<w, i>>) \/ (Top.node = w /\ \E v \in NodesOf(prog) : Return(v))

FedInv == runs > 0 => slot[X] = X /\ content[X] = feed

LEMMA PairFacts ==
  ASSUME prog \in Programs
  PROVE  /\ X \in PairsOf(prog) /\ X # Nil
         /\ \A v \in NodesOf(prog), i \in {0, 1} :
              <<v, i>> \in PairsOf(prog) /\ <<v, i>> # X /\ <<v, i>> # Nil
         /\ \A q \in PairsOf(prog) : q = X \/ \E v \in NodesOf(prog), i \in {0, 1} : q = <<v, i>>
         /\ ~IsKept(Nil)
         /\ \A v \in NodesOf(prog), i \in {0, 1} : IsKept(<<v, i>>) => Kind(v) = "While"
<1>1. "x" \notin NodesOf(prog) /\ Nil \notin PairsOf(prog)
  BY Formed
<1>2. /\ X \in PairsOf(prog)
      /\ \A v \in NodesOf(prog), i \in {0, 1} : <<v, i>> \in PairsOf(prog) /\ <<v, i>> # X
      /\ \A q \in PairsOf(prog) : q = X \/ \E v \in NodesOf(prog), i \in {0, 1} : q = <<v, i>>
  BY <1>1 DEF PairsOf, X
<1>3. \A q : IsKept(q) => q \in PairsOf(prog)
  BY <1>2 DEF IsKept
<1>4. \A v \in NodesOf(prog), i \in {0, 1} : IsKept(<<v, i>>) => Kind(v) = "While"
  BY <1>2 DEF IsKept
<1> HIDE DEF X, IsKept
<1> QED
  BY <1>1, <1>2, <1>3, <1>4

\* The assignments of a Return, one after the other.
FirstAssigned(v) == [content EXCEPT ![slot[<<prog.out[v], 0>>]] = content[slot[In(v)[1]]]]

LEMMA AssignedSteps ==
  ASSUME NEW v, In(v) \in Seq(PairsOf(prog)), Len(In(v)) <= 2
  PROVE  /\ Len(In(v)) \in {0, 1, 2}
         /\ Len(In(v)) = 0 => Assigned(v) = content
         /\ Len(In(v)) = 1 => Assigned(v) = FirstAssigned(v)
         /\ Len(In(v)) = 2 => Assigned(v) =
              [FirstAssigned(v) EXCEPT ![slot[<<prog.out[v], 1>>]] = FirstAssigned(v)[slot[In(v)[2]]]]
<1> DEFINE n == Len(In(v))
           S(e, f) == [f EXCEPT ![slot[<<prog.out[v], e - 1>>]] = f[slot[In(v)[e]]]]
           P(f) == f = [e \in 0..n |-> IF e = 0 THEN content ELSE S(e, f[e - 1])]
           H(e) == IF e = 0 THEN content
                   ELSE IF e = 1 THEN S(1, content) ELSE S(2, S(1, content))
           h == [e \in 0..n |-> H(e)]
<1>1. n \in Nat /\ n <= 2
  OBVIOUS
<1>2. n = 0 \/ n = 1 \/ n = 2
  <2> HIDE DEF n
  <2> QED
    BY <1>1
<1>3. Assigned(v) = (CHOOSE f : P(f))[n]
  BY DEF Assigned
<1> HIDE DEF n
<1>4. P(h)
  <2> HIDE DEF S
  <2>1. \A e \in 0..n : e = 0 \/ (e = 1 /\ 0 \in 0..n) \/ (e = 2 /\ 1 \in 0..n)
    BY <1>2
  <2>2. \A e \in 0..n : H(e) = IF e = 0 THEN content ELSE S(e, h[e - 1])
    <3> SUFFICES ASSUME NEW e \in 0..n
                 PROVE  H(e) = IF e = 0 THEN content ELSE S(e, h[e - 1])
      OBVIOUS
    <3>1. CASE e = 0
      BY <3>1
    <3>2. CASE e = 1 /\ 0 \in 0..n
      <4>1. h[e - 1] = content
        BY <3>2
      <4> HIDE DEF h
      <4> QED
        BY <3>2, <4>1
    <3>3. CASE e = 2 /\ 1 \in 0..n
      <4>1. h[e - 1] = S(1, content)
        BY <3>3
      <4> HIDE DEF h
      <4> QED
        BY <3>3, <4>1
    <3> QED
      BY <2>1, <3>1, <3>2, <3>3
  <2> QED
    BY <2>2
<1> DEFINE k == CHOOSE f : P(f)
<1>5. P(k)
  BY <1>4
<1>6. Assigned(v) = k[n]
  BY <1>3
<1> HIDE DEF k, h
<1>7. k[0] = content
  BY <1>1, <1>5
<1>8. n >= 1 => k[1] = S(1, k[0])
  <2>1. n >= 1 => 1 \in 0..n
    BY <1>1
  <2>2. \A e \in 0..n : e # 0 => k[e] = S(e, k[e - 1])
    <3> HIDE DEF S
    <3> QED
      BY <1>5
  <2>3. 1 - 1 = 0 /\ 1 # 0
    OBVIOUS
  <2> HIDE DEF S
  <2> QED
    BY <2>1, <2>2, <2>3
<1>9. n >= 2 => k[2] = S(2, k[1])
  <2>1. n >= 2 => 2 \in 0..n
    BY <1>1
  <2>2. \A e \in 0..n : e # 0 => k[e] = S(e, k[e - 1])
    <3> HIDE DEF S
    <3> QED
      BY <1>5
  <2>3. 2 - 1 = 1 /\ 2 # 0
    OBVIOUS
  <2> HIDE DEF S
  <2> QED
    BY <2>1, <2>2, <2>3
<1>10. S(1, content) = FirstAssigned(v)
  BY DEF FirstAssigned
<1>11. S(2, FirstAssigned(v)) =
         [FirstAssigned(v) EXCEPT ![slot[<<prog.out[v], 1>>]] = FirstAssigned(v)[slot[In(v)[2]]]]
  OBVIOUS
<1> HIDE DEF S, P
<1>12. n = 0 => Assigned(v) = content
  BY <1>6, <1>7
<1>13. n = 1 => Assigned(v) = FirstAssigned(v)
  BY <1>6, <1>7, <1>8, <1>10
<1>14. n = 2 => Assigned(v) = S(2, FirstAssigned(v))
  <2> SUFFICES ASSUME n = 2 PROVE Assigned(v) = S(2, FirstAssigned(v))
    OBVIOUS
  <2>1. n >= 1 /\ n >= 2
    OBVIOUS
  <2> QED
    BY <1>6, <1>7, <1>8, <1>9, <1>10, <2>1
<1> QED
  BY <1>2, <1>11, <1>12, <1>13, <1>14 DEF n

\* They write to the arrays of the outputs and to no other.
LEMMA AssignedFacts ==
  ASSUME NEW v, In(v) \in Seq(PairsOf(prog)), Len(In(v)) <= 2
  PROVE  /\ DOMAIN Assigned(v) = DOMAIN content
         /\ \A q \in DOMAIN content :
              (\A i \in {0, 1} : q # slot[<<prog.out[v], i>>]) => Assigned(v)[q] = content[q]
<1>1. /\ Len(In(v)) \in {0, 1, 2}
      /\ Len(In(v)) = 0 => Assigned(v) = content
      /\ Len(In(v)) = 1 => Assigned(v) = FirstAssigned(v)
      /\ Len(In(v)) = 2 => Assigned(v) =
           [FirstAssigned(v) EXCEPT ![slot[<<prog.out[v], 1>>]] = FirstAssigned(v)[slot[In(v)[2]]]]
  BY AssignedSteps
<1>2. /\ DOMAIN FirstAssigned(v) = DOMAIN content
      /\ \A q \in DOMAIN content :
           q # slot[<<prog.out[v], 0>>] => FirstAssigned(v)[q] = content[q]
  BY DEF FirstAssigned
<1> QED
  BY <1>1, <1>2

\* What every step is shown to do: prog is that of the run, so the primed invariant
\* is the invariant of the primed slots.
Kept1 == Own(slot') /\ Unentered(slot') /\ DOMAIN content' = PairsOf(prog)

LEMMA KeepSame ==
  ASSUME OwnInv, slot' = slot, content' = content
  PROVE  Kept1 /\ \A q \in PairsOf(prog) : Keeps(q)
BY DEF OwnInv, Kept1, Keeps

LEMMA KeepOp ==
  ASSUME CallInv, OwnInv, NEW v \in NodesOf(prog), ExecuteOp(v)
  PROVE  Kept1 /\ \A q \in PairsOf(prog) : IsKept(q) => Keeps(q)
<1> DEFINE b == <<v, 0>>
           a == IF slot[b] = Nil THEN b ELSE slot[b]
<1>1. /\ Kind(v) = "Op" /\ slot' = [slot EXCEPT ![b] = a]
      /\ \E y : content' = [content EXCEPT ![a] = y]
  BY DEF ExecuteOp
<1>2. /\ slot \in [PairsOf(prog) -> PairsOf(prog) \cup {Nil}] /\ DOMAIN content = PairsOf(prog)
      /\ prog \in Programs
  BY DEF OwnInv, Own, CallInv
<1>3. b \in PairsOf(prog) /\ b # Nil /\ ~IsKept(b)
  BY <1>1, <1>2, PairFacts
<1>4. a \in PairsOf(prog) /\ ~IsKept(a)
  BY <1>2, <1>3 DEF OwnInv, Own
<1> HIDE DEF a
<1>5. /\ slot' \in [PairsOf(prog) -> PairsOf(prog) \cup {Nil}] /\ slot'[b] = a
      /\ \A q \in PairsOf(prog) : q # b => slot'[q] = slot[q]
  BY <1>1, <1>2, <1>3, <1>4
<1>6. /\ DOMAIN content' = PairsOf(prog)
      /\ \A q \in PairsOf(prog) : q # a => content'[q] = content[q]
  BY <1>1, <1>2
<1>7. Own(slot')
  BY <1>3, <1>4, <1>5 DEF OwnInv, Own
<1>8. Unentered(slot')
  <2> SUFFICES ASSUME NEW u \in NodesOf(prog), NEW f \in NodesOf(prog), Kind(u) = "While",
                      Kind(f) = "If", Contains(prog, f, u)
               PROVE  slot'[<<u, 0>>] = Nil
    BY DEF Unentered
  <2>1. <<u, 0>> \in PairsOf(prog) /\ <<u, 0>> # b /\ slot[<<u, 0>>] = Nil
    BY <1>1, <1>2, PairFacts DEF OwnInv, Unentered
  <2> QED
    BY <1>5, <2>1
<1> HIDE DEF b
<1>9. \A q \in PairsOf(prog) : IsKept(q) => Keeps(q)
  BY <1>3, <1>4, <1>5, <1>6 DEF Keeps
<1> QED
  BY <1>6, <1>7, <1>8, <1>9 DEF Kept1

LEMMA KeepEnter ==
  ASSUME CallInv, OwnInv, NEW v \in NodesOf(prog), EnterLogic(v)
  PROVE  Kept1 /\ \A q \in PairsOf(prog) : Keeps(q)
<1> DEFINE Copied(q) == \E e \in ToCopy(v) : q = <<v, e - 1>>
<1>1. /\ At(v) /\ Kind(v) \in {"While", "If"} /\ ~Refused(v)
      /\ slot' = [q \in DOMAIN slot |-> IF Copied(q) THEN q ELSE slot[q]]
      /\ \E y : content' = [q \in DOMAIN content |-> IF Copied(q) THEN y[q] ELSE content[q]]
  <2>1. At(v) /\ Kind(v) \in {"While", "If"} /\ ~Refused(v) /\ CopyInputs(v)
    BY DEF EnterLogic
  <2>2. slot' = [q \in DOMAIN slot |-> IF Copied(q) THEN q ELSE slot[q]]
    BY <2>1 DEF CopyInputs
  <2>3. content' = [q \in DOMAIN content |->
                      IF Copied(q) THEN content[slot[In(v)[q[2] + 1]]] ELSE content[q]]
    BY <2>1 DEF CopyInputs
  <2> DEFINE y == [q \in DOMAIN content |-> content[slot[In(v)[q[2] + 1]]]]
  <2>4. \A q \in DOMAIN content : y[q] = content[slot[In(v)[q[2] + 1]]]
    OBVIOUS
  <2> HIDE DEF y, Copied
  <2>5. content' = [q \in DOMAIN content |-> IF Copied(q) THEN y[q] ELSE content[q]]
    BY <2>3, <2>4
  <2> QED
    BY <2>1, <2>2, <2>5
<1>2. /\ slot \in [PairsOf(prog) -> PairsOf(prog) \cup {Nil}] /\ DOMAIN content = PairsOf(prog)
      /\ prog \in Programs
  BY DEF OwnInv, Own, CallInv
<1>3. \A q : Copied(q) => slot[q] = Nil
  BY DEF ToCopy
<1>4. \A u \in NodesOf(prog), i \in {0, 1} : Copied(<<u, i>>) => u = v
  OBVIOUS
<1> HIDE DEF Copied
<1>5. /\ slot' \in [PairsOf(prog) -> PairsOf(prog) \cup {Nil}]
      /\ \A q \in PairsOf(prog) : slot'[q] = IF Copied(q) THEN q ELSE slot[q]
  BY <1>1, <1>2
<1>6. /\ DOMAIN content' = PairsOf(prog)
      /\ \A q \in PairsOf(prog) : ~Copied(q) => content'[q] = content[q]
  BY <1>1, <1>2
<1>7. Own(slot')
  BY <1>5 DEF OwnInv, Own
<1>8. Unentered(slot')
  <2> SUFFICES ASSUME NEW u \in NodesOf(prog), NEW f \in NodesOf(prog), Kind(u) = "While",
                      Kind(f) = "If", Contains(prog, f, u)
               PROVE  slot'[<<u, 0>>] = Nil
    BY DEF Unentered
  <2>1. <<u, 0>> \in PairsOf(prog) /\ slot[<<u, 0>>] = Nil
    BY <1>2, PairFacts DEF OwnInv, Unentered
  <2>2. u # v
    <3> SUFFICES ASSUME u = v PROVE FALSE
      OBVIOUS
    <3>1. ~Within("If")
      BY <1>1 DEF Refused
    <3>2. Top \in Calls
      BY <1>1, AtFacts
    <3>3. CASE Top.part # "main"
      <4>1. /\ Top.node \in NodesOf(prog) /\ Kind(Top.node) = "While"
            /\ Top.part \in PartsOf(Kind(Top.node))
        BY <3>1, <3>2, <3>3, CallFields DEF Within
      <4>2. Contains(prog, Top.node, u)
        BY <1>1, <3>3, <4>1, AtFacts DEF Contains, Kind
      <4> QED
        BY <1>2, <4>1, <4>2, Formed
    <3>4. CASE Top.part = "main"
      <4>1. Nodes(Top) = prog.main /\ Top.pos \in Nat \ {0}
        BY <3>2, <3>4, CallFields DEF Nodes
      <4>2. Top.pos <= Len(prog.main) /\ v = prog.main[Top.pos]
        BY <1>1, <4>1 DEF At
      <4>3. Top.pos \in DOMAIN prog.main
        BY <1>2, <4>1, <4>2, Formed
      <4> QED
        BY <1>2, <4>2, <4>3, Formed
    <3> QED
      BY <3>3, <3>4
  <2>3. ~Copied(<<u, 0>>)
    BY <1>4, <2>2
  <2> QED
    BY <1>5, <2>1, <2>3
<1>9. \A q \in PairsOf(prog) : Keeps(q)
  BY <1>3, <1>5, <1>6 DEF Keeps
<1> QED
  BY <1>6, <1>7, <1>8, <1>9 DEF Kept1

LEMMA KeepBranch ==
  ASSUME CallInv, OwnInv, BranchEnd
  PROVE  Kept1 /\ \A q \in PairsOf(prog) : IsKept(q) => Keeps(q)
<1> DEFINE b == <<Top.node, 0>>
           a == slot[<<Last(Top), 0>>]
<1>1. Top.part \in {"true", "false"} /\ slot' = [slot EXCEPT ![b] = a] /\ content' = content
  BY DEF BranchEnd, Transferred
<1>2. /\ slot \in [PairsOf(prog) -> PairsOf(prog) \cup {Nil}] /\ DOMAIN content = PairsOf(prog)
      /\ prog \in Programs
  BY DEF OwnInv, Own, CallInv
<1>3. Top \in Calls
  BY GoodTop DEF BranchEnd, AtEnd, Running, CallInv
<1>4. Top.node \in NodesOf(prog) /\ Kind(Top.node) = "If" /\ Top.part \in PartsOf("If")
  BY <1>1, <1>3, CallFields DEF PartsOf
<1>5. /\ Nodes(Top) \in Seq(NodesOf(prog)) /\ Nodes(Top) # <<>>
      /\ Nodes(Top) = prog.scopes[Top.node][Top.part]
  BY <1>1, <1>2, <1>3, CallNodes
<1>6. Len(Nodes(Top)) \in DOMAIN Nodes(Top)
  BY <1>5
<1>7. Last(Top) \in NodesOf(prog) /\ Contains(prog, Top.node, Last(Top))
  BY <1>4, <1>5, <1>6 DEF Last, Contains, Kind
<1>8. b \in PairsOf(prog) /\ ~IsKept(b)
  BY <1>2, <1>4, PairFacts
<1>9. a \in PairsOf(prog) \cup {Nil} /\ ~IsKept(a)
  <2>1. <<Last(Top), 0>> \in PairsOf(prog)
    BY <1>2, <1>7, PairFacts
  <2>2. CASE Kind(Last(Top)) = "While"
    <3>1. a = Nil
      BY <1>4, <1>7, <2>2 DEF OwnInv, Unentered
    <3> QED
      BY <1>2, <3>1, PairFacts
  <2>3. CASE Kind(Last(Top)) # "While"
    <3>1. ~IsKept(<<Last(Top), 0>>)
      BY <1>2, <1>7, <2>3, PairFacts
    <3> QED
      BY <1>2, <2>1, <3>1 DEF OwnInv, Own
  <2> QED
    BY <2>2, <2>3
<1> HIDE DEF a
<1>10. /\ slot' \in [PairsOf(prog) -> PairsOf(prog) \cup {Nil}] /\ slot'[b] = a
       /\ \A q \in PairsOf(prog) : q # b => slot'[q] = slot[q]
  BY <1>1, <1>2, <1>8, <1>9
<1>11. Own(slot')
  BY <1>8, <1>9, <1>10 DEF OwnInv, Own
<1>12. Unentered(slot')
  <2> SUFFICES ASSUME NEW u \in NodesOf(prog), NEW f \in NodesOf(prog), Kind(u) = "While",
                      Kind(f) = "If", Contains(prog, f, u)
               PROVE  slot'[<<u, 0>>] = Nil
    BY DEF Unentered
  <2>1. <<u, 0>> \in PairsOf(prog) /\ <<u, 0>> # b /\ slot[<<u, 0>>] = Nil
    BY <1>2, <1>4, PairFacts DEF OwnInv, Unentered
  <2> QED
    BY <1>10, <2>1
<1> HIDE DEF b
<1>13. \A q \in PairsOf(prog) : IsKept(q) => Keeps(q)
  BY <1>1, <1>8, <1>10 DEF Keeps
<1> QED
  BY <1>1, <1>2, <1>11, <1>12, <1>13 DEF Kept1

LEMMA KeepReturn ==
  ASSUME CallInv, OwnInv, NEW v \in NodesOf(prog), Return(v)
  PROVE  /\ Kept1
         /\ \A q \in PairsOf(prog) :
              IsKept(q) /\ (\A i \in {0, 1} : q # <<Top.node, i>>) => Keeps(q)
<1>1. CASE slot' = slot /\ content' = content
  BY <1>1, KeepSame
<1>2. CASE slot' = slot /\ content' = Assigned(v)
  <2>1. prog \in Programs /\ DOMAIN content = PairsOf(prog) /\ Own(slot)
    BY DEF OwnInv, CallInv
  <2>2. At(v) /\ Kind(v) = "Return"
    BY DEF Return
  <2>3. Top \in Calls /\ Top.part # "main" /\ prog.out[v] = Top.node
    BY <2>2, AtFacts
  <2>4. Top.node \in NodesOf(prog)
    BY <2>3, CallFields
  <2>5. In(v) \in Seq(PairsOf(prog)) /\ Len(In(v)) <= 2
    BY <2>1, <2>2, Formed
  <2>6. /\ DOMAIN content' = PairsOf(prog)
        /\ \A q \in PairsOf(prog) :
             (\A i \in {0, 1} : q # slot[<<Top.node, i>>]) => content'[q] = content[q]
    BY <1>2, <2>1, <2>3, <2>5, AssignedFacts
  <2>7. ASSUME NEW q \in PairsOf(prog), IsKept(q), \A i \in {0, 1} : q # <<Top.node, i>>
        PROVE  Keeps(q)
    <3>1. ASSUME NEW i \in {0, 1} PROVE q # slot[<<Top.node, i>>]
      <4>1. <<Top.node, i>> \in PairsOf(prog)
        BY <2>1, <2>4, PairFacts
      <4> QED
        BY <2>1, <2>7, <4>1 DEF Own
    <3> QED
      BY <1>2, <2>6, <3>1 DEF Keeps
  <2>8. Kept1
    BY <1>2, <2>6 DEF OwnInv, Kept1
  <2> QED
    BY <2>7, <2>8
<1> QED
  BY <1>1, <1>2 DEF Return, Crash

LEMMA KeepStart ==
  ASSUME CallInv, OwnInv, NEW x, StartRun(x)
  PROVE  /\ Kept1
         /\ \A q \in PairsOf(prog) : q # X => Keeps(q)
         /\ slot'[X] = X /\ content'[X] = x
<1>1. slot' = [slot EXCEPT ![X] = X] /\ content' = [content EXCEPT ![X] = x]
  BY DEF StartRun, X
<1>2. /\ slot \in [PairsOf(prog) -> PairsOf(prog) \cup {Nil}] /\ DOMAIN content = PairsOf(prog)
      /\ prog \in Programs
  BY DEF OwnInv, Own, CallInv
<1>3. X \in PairsOf(prog) /\ \A u \in NodesOf(prog), i \in {0, 1} :
                                <<u, i>> # X /\ <<u, i>> \in PairsOf(prog)
  BY <1>2, PairFacts
<1> HIDE DEF X
<1>4. /\ slot' \in [PairsOf(prog) -> PairsOf(prog) \cup {Nil}] /\ slot'[X] = X
      /\ \A q \in PairsOf(prog) : q # X => slot'[q] = slot[q]
  BY <1>1, <1>2, <1>3
<1>5. /\ DOMAIN content' = PairsOf(prog) /\ content'[X] = x
      /\ \A q \in PairsOf(prog) : q # X => content'[q] = content[q]
  BY <1>1, <1>2, <1>3
<1>6. Own(slot')
  BY <1>3, <1>4 DEF OwnInv, Own
<1>7. Unentered(slot')
  BY <1>3, <1>4 DEF OwnInv, Unentered
<1>8. \A q \in PairsOf(prog) : q # X => Keeps(q)
  BY <1>4, <1>5 DEF Keeps
<1> QED
  BY <1>4, <1>5, <1>6, <1>7, <1>8 DEF Kept1

LEMMA InitOwn == Init => OwnInv /\ FedInv
<1> SUFFICES ASSUME Init PROVE OwnInv /\ FedInv
  OBVIOUS
<1>1. /\ prog \in Programs /\ runs = 0 /\ DOMAIN content = PairsOf(prog)
      /\ slot = [q \in PairsOf(prog) |-> Nil]
  BY DEF Init
<1>2. ~IsKept(Nil) /\ \A u \in NodesOf(prog) : <<u, 0>> \in PairsOf(prog)
  BY <1>1, PairFacts
<1>3. Own(slot) /\ Unentered(slot)
  BY <1>1, <1>2 DEF Own, Unentered
<1> QED
  BY <1>1, <1>3 DEF OwnInv, FedInv

\* A step keeps the variables of the Whiles, except that a Return assigns to those
\* of its op, and it keeps the input, except that a new execution has its own.
LEMMA StepKeeps ==
  ASSUME CallInv, OwnInv, Next \/ UNCHANGED vars
  PROVE  /\ Kept1 /\ KeepsVariables
         /\ \/ Keeps(X) /\ runs' = runs /\ feed' = feed
            \/ slot'[X] = X /\ content'[X] = feed'
<1> DEFINE Input == \/ Keeps(X) /\ runs' = runs /\ feed' = feed
                    \/ slot'[X] = X /\ content'[X] = feed'
<1>1. prog \in Programs
  BY DEF CallInv
<1>2. X \in PairsOf(prog) /\ IsKept(X)
  BY <1>1, PairFacts DEF IsKept
<1>3. \A w \in NodesOf(prog), i \in {0, 1} :
        /\ <<w, i>> \in PairsOf(prog) /\ <<w, i>> # X
        /\ Kind(w) = "While" => IsKept(<<w, i>>)
  BY <1>1, PairFacts DEF IsKept
<1> HIDE DEF X
<1>4. ASSUME Kept1, \A q \in PairsOf(prog) : IsKept(q) => Keeps(q), runs' = runs, feed' = feed
      PROVE  Kept1 /\ KeepsVariables /\ Input
  BY <1>2, <1>3, <1>4 DEF KeepsVariables
<1>5. CASE UNCHANGED vars
  BY <1>4, <1>5, KeepSame DEF vars
<1>6. CASE FinishRun
  BY <1>4, <1>6, KeepSame DEF FinishRun
<1>7. CASE Decide
  <2>1. slot' = slot /\ content' = content /\ runs' = runs /\ feed' = feed
    BY <1>7 DEF Decide, Crash
  <2> QED
    BY <1>4, <2>1, KeepSame
<1>8. CASE BranchEnd
  <2>1. runs' = runs /\ feed' = feed
    BY <1>8 DEF BranchEnd
  <2> QED
    BY <1>4, <1>8, <2>1, KeepBranch
<1>9. ASSUME NEW v \in NodesOf(prog), FailNode(v) PROVE Kept1 /\ KeepsVariables /\ Input
  <2>1. slot' = slot /\ content' = content /\ runs' = runs /\ feed' = feed
    BY <1>9 DEF FailNode
  <2> QED
    BY <1>4, <2>1, KeepSame
<1>10. ASSUME NEW v \in NodesOf(prog), ExecuteOp(v) PROVE Kept1 /\ KeepsVariables /\ Input
  <2>1. runs' = runs /\ feed' = feed
    BY <1>10 DEF ExecuteOp
  <2> QED
    BY <1>4, <1>10, <2>1, KeepOp
<1>11. ASSUME NEW v \in NodesOf(prog), EnterLogic(v) PROVE Kept1 /\ KeepsVariables /\ Input
  <2>1. runs' = runs /\ feed' = feed
    BY <1>11 DEF EnterLogic
  <2> QED
    BY <1>4, <1>11, <2>1, KeepEnter
<1>12. ASSUME NEW v \in NodesOf(prog), Return(v) PROVE Kept1 /\ KeepsVariables /\ Input
  <2>1. runs' = runs /\ feed' = feed
    BY <1>12 DEF Return, Crash
  <2>2. /\ Kept1
        /\ \A q \in PairsOf(prog) :
             IsKept(q) /\ (\A i \in {0, 1} : q # <<Top.node, i>>) => Keeps(q)
    BY <1>12, KeepReturn
  <2>3. Top.node \in NodesOf(prog)
    BY <1>12, AtFacts, CallFields DEF Return
  <2>4. Keeps(X)
    BY <1>2, <1>3, <2>2, <2>3
  <2>5. ASSUME NEW w \in NodesOf(prog), NEW i \in {0, 1}, Kind(w) = "While", w # Top.node
        PROVE  Keeps(<<w, i>>)
    BY <1>3, <2>2, <2>5
  <2>6. KeepsVariables
    BY <1>12, <2>5 DEF KeepsVariables
  <2> QED
    BY <2>1, <2>2, <2>4, <2>6
<1>13. ASSUME NEW x, StartRun(x) PROVE Kept1 /\ KeepsVariables /\ Input
  <2>1. feed' = x
    BY <1>13 DEF StartRun
  <2>2. /\ Kept1 /\ \A q \in PairsOf(prog) : q # X => Keeps(q)
        /\ slot'[X] = X /\ content'[X] = x
    BY <1>13, KeepStart
  <2> QED
    BY <1>3, <2>1, <2>2 DEF KeepsVariables
<1> QED
  BY <1>5, <1>6, <1>7, <1>8, <1>9, <1>10, <1>11, <1>12, <1>13 DEF Next, Step

\* The primed invariant is that of the primed slots, for the program stays.
LEMMA PrimedOwn ==
  ASSUME prog' = prog, Kept1
  PROVE  OwnInv'
<1>1. PairsOf(prog)' = PairsOf(prog) /\ NodesOf(prog)' = NodesOf(prog)
  BY DEF PairsOf, NodesOf
<1>2. \A q : IsKept(q)' <=> IsKept(q)
  BY DEF IsKept, Kind, NodesOf
<1>3. Own(slot)'
  BY <1>1, <1>2 DEF Kept1, Own
<1>4. Unentered(slot)'
  BY <1>1 DEF Kept1, Unentered, Kind, Contains
<1> QED
  BY <1>1, <1>3, <1>4 DEF Kept1, OwnInv

LEMMA StepOwn ==
  ASSUME CallInv, OwnInv, FedInv, Next \/ UNCHANGED vars
  PROVE  OwnInv' /\ FedInv'
<1>1. prog' = prog
  BY StepShape DEF vars
<1>2. OwnInv'
  BY <1>1, StepKeeps, PrimedOwn
<1>3. CASE Keeps(X) /\ runs' = runs /\ feed' = feed
  <2>1. X # Nil
    BY PairFacts DEF CallInv
  <2>2. runs > 0 => slot[X] = X /\ content[X] = feed
    BY DEF FedInv
  <2>3. slot[X] # Nil => slot'[X] = slot[X] /\ content'[X] = content[X]
    BY <1>3 DEF Keeps
  <2>4. runs' > 0 => slot'[X] = X /\ content'[X] = feed'
    <3> HIDE DEF X
    <3> QED
      BY <1>3, <2>1, <2>2, <2>3
  <2> QED
    BY <1>2, <2>4 DEF FedInv, X
<1>4. CASE slot'[X] = X /\ content'[X] = feed'
  BY <1>2, <1>4 DEF FedInv, X
<1> QED
  BY <1>2, <1>3, <1>4, StepKeeps

\* The array the caller fed is never written to by the execution: While and
\* Conditional work on copies, and Return, the only op that writes to an array it
\* did not make, assigns to the outputs of its own op.
THEOREM ScopedFedKept == Spec => []FedKept
<1> DEFINE Inv == CallInv /\ OwnInv /\ FedInv
<1>1. Init => Inv
  BY InitCalls, InitOwn
<1>2. Inv /\ [Next]_vars => Inv'
  <2> SUFFICES ASSUME CallInv, OwnInv, FedInv, Next \/ UNCHANGED vars PROVE Inv'
    OBVIOUS
  <2> QED
    BY StepCalls, StepOwn
<1>3. Inv => FedKept
  BY DEF FedInv, FedKept, X
<1> HIDE DEF Inv
<1> QED
  BY <1>1, <1>2, <1>3, PTL DEF Spec

\* The variables of a While, once made, keep their arrays, and no step but a Return
\* of its own scopes changes what they contain: neither the ops of the scopes, nor
\* another loop, nor a Conditional that hands its branch's array on.
THEOREM ScopedVariablesKept == Spec => [][KeepsVariables]_vars
<1> DEFINE Inv == CallInv /\ OwnInv /\ FedInv
<1>1. Init => Inv
  BY InitCalls, InitOwn
<1>2. Inv /\ [Next]_vars => Inv'
  <2> SUFFICES ASSUME CallInv, OwnInv, FedInv, Next \/ UNCHANGED vars PROVE Inv'
    OBVIOUS
  <2> QED
    BY StepCalls, StepOwn
<1>3. Inv /\ [Next]_vars => [KeepsVariables]_vars
  <2> SUFFICES ASSUME CallInv, OwnInv, FedInv, Next \/ UNCHANGED vars PROVE KeepsVariables
    OBVIOUS
  <2> QED
    BY StepKeeps
<1> HIDE DEF Inv
<1> QED
  BY <1>1, <1>2, <1>3, PTL DEF Spec

---------------------------------------------------------------------------
(* The invariant *)

\* What the slots sl and the contents ct of the arrays give every pair.
ValOf(p, sl, ct) == [q \in PairsOf(p) |-> IF sl[q] = Nil THEN Nil ELSE ct[sl[q]]]

\* Only a While has copies, and a Conditional has the array of one of its ops.
SlotsOK(p, sl) ==
  \A v \in NodesOf(p), k \in {0, 1} :
    \/ sl[<<v, k>>] = Nil
    \/ p.kind[v] = "While"
    \/ k = 0 /\ p.kind[v] = "Op" /\ sl[<<v, k>>] = <<v, 0>>
    \/ /\ k = 0 /\ p.kind[v] = "If"
       /\ \E u \in NodesOf(p) : Contains(p, v, u) /\ sl[<<v, k>>] = <<u, 0>>

\* The arrays of v exist.
Has(p, sl, v) == \A q \in Results(p, v) : sl[q] # Nil

\* The nodes a call is to run, and those it has run in its current iteration.
NodesIn(p, f) == IF f.part = "main" THEN p.main ELSE p.scopes[f.node][f.part]
RunBy(p, f, v) ==
  \/ \E i \in DOMAIN NodesIn(p, f) : i < f.pos /\ v = NodesIn(p, f)[i]
  \/ /\ f.part \in {"body", "true", "false"}
     /\ \E i \in DOMAIN p.scopes[f.node]["cond"] : v = p.scopes[f.node]["cond"][i]

\* Each call is made by the node that the call below is at.
Nested(p, st) ==
  \A k \in DOMAIN st : k > 1 =>
    /\ st[k - 1].pos \in DOMAIN NodesIn(p, st[k - 1])
    /\ st[k].node = NodesIn(p, st[k - 1])[st[k - 1].pos]

\* What a call has run holds, and so does its place in the loop.
FrameOK(p, x, env, f) ==
  /\ \A v \in NodesOf(p) : RunBy(p, f, v) => Done(p, x, env, v)
  /\ f.part \in {"body", "true", "false"} => (Test(p, env, f.node) = 0 <=> f.part = "false")
  /\ (f.part # "main" /\ p.kind[f.node] = "While") =>
       f.breaker + 1 \in 1..LoopLimit /\ Reached(p, x, env, f.node, f.breaker + 1)

FrameHas(p, sl, f) ==
  /\ \A v \in NodesOf(p) : RunBy(p, f, v) => Has(p, sl, v)
  /\ (f.part # "main" /\ p.kind[f.node] = "While") => Has(p, sl, f.node)

\* No While that is still to come has been entered.
Untried(p, st, sl) ==
  \A j \in DOMAIN p.main :
    (p.kind[p.main[j]] = "While" /\ (j > st[1].pos \/ (j = st[1].pos /\ Len(st) = 1))) =>
      \A k \in {0, 1} : sl[<<p.main[j], k>>] = Nil

CallsOK(p, x, st, sl, ct) ==
  /\ Nested(p, st) /\ Untried(p, st, sl)
  /\ \A k \in DOMAIN st : FrameOK(p, x, ValOf(p, sl, ct), st[k]) /\ FrameHas(p, sl, st[k])

\* The graph has been executed.
ResultOK(p, x, sl, ct) ==
  /\ Solves(p, x, ValOf(p, sl, ct), Len(p.main) + 1)
  /\ \A i \in DOMAIN p.main : Has(p, sl, p.main[i])

Alive(s) == s \in {"running", "crashed"}

\* What executions begin with, and the stack they have.
RunsOK ==
  /\ runs \in Nat /\ (runs = 0 => \A q \in PairsOf(prog) : slot[q] = Nil)
  /\ runs > 0 => feed \in prog.feeds
  /\ Alive(status) \/ status = "ok" => runs > 0
  /\ ~Alive(status) => stack = <<>>
  /\ Alive(status) => Good(stack)

MeaningInv ==
  /\ RunsOK /\ SlotsOK(prog, slot)
  /\ (Alive(status) /\ failed = {}) => CallsOK(prog, feed, stack, slot, content)
  /\ (status = "ok" /\ failed = {}) => ResultOK(prog, feed, slot, content)

---------------------------------------------------------------------------
(* Structured programs *)

LEMMA OrderExists ==
  ASSUME NEW p, Structured(p)
  PROVE  Ordered(p, Order(p))
BY DEF Structured, Shaped, Order

LEMMA ScopeNodes ==
  ASSUME prog \in Programs, NEW w \in NodesOf(prog), Kind(w) \in {"While", "If"},
         NEW s \in PartsOf(Kind(w))
  PROVE  /\ prog.scopes[w][s] \in Seq(NodesOf(prog)) /\ prog.scopes[w][s] # <<>>
         /\ Len(prog.scopes[w][s]) \in DOMAIN prog.scopes[w][s]
         /\ \A i \in DOMAIN prog.scopes[w][s] :
              prog.scopes[w][s][i] \in NodesOf(prog) /\ Contains(prog, w, prog.scopes[w][s][i])
<1>1. prog.scopes[w][s] \in Seq(NodesOf(prog)) /\ prog.scopes[w][s] # <<>>
  BY Formed
<1> DEFINE L == prog.scopes[w][s]
<1>2. \A i \in DOMAIN L : Contains(prog, w, L[i])
  BY DEF Contains, Kind
<1> HIDE DEF L
<1>3. L \in Seq(NodesOf(prog)) /\ L # <<>>
  BY <1>1 DEF L
<1>4. Len(L) \in DOMAIN L /\ \A i \in DOMAIN L : L[i] \in NodesOf(prog)
  BY <1>3
<1> QED
  BY <1>2, <1>3, <1>4 DEF L

\* What a scope contains.
LEMMA Containing ==
  ASSUME prog \in Programs, Structured(prog), NEW w \in NodesOf(prog), NEW u,
         Contains(prog, w, u)
  PROVE  /\ u \in NodesOf(prog) /\ Kind(w) \in {"While", "If"} /\ Kind(u) # "While"
         /\ Kind(w) = "If" => Kind(u) = "Op"
         /\ \A i \in DOMAIN prog.main : prog.main[i] # u
         /\ \A z \in NodesOf(prog) : Contains(prog, z, u) => z = w
<1>1. Kind(w) \in {"While", "If"}
  BY DEF Contains, Kind
<1>2. PICK s \in PartsOf(Kind(w)) : \E i \in DOMAIN prog.scopes[w][s] : prog.scopes[w][s][i] = u
  BY DEF Contains, Kind
<1>3. PICK i \in DOMAIN prog.scopes[w][s] : prog.scopes[w][s][i] = u
  BY <1>2
<1>4. u \in NodesOf(prog)
  BY <1>1, <1>3, ScopeNodes
<1>5. /\ \A j \in DOMAIN prog.main : prog.main[j] # u
      /\ \A z \in NodesOf(prog) : Contains(prog, z, u) => z = w
  BY <1>4, Formed
<1>6. Kind(w) = "If" => Kind(u) = "Op"
  <2> SUFFICES ASSUME Kind(w) = "If" PROVE Kind(u) = "Op"
    OBVIOUS
  <2>1. GoodIf(prog, w) /\ s \in PartsOf("If")
    BY DEF Structured, Shaped, Kind
  <2> QED
    BY <1>3, <2>1 DEF GoodIf, Kind
<1>7. Kind(w) = "While" => Kind(u) # "While"
  <2> SUFFICES ASSUME Kind(w) = "While" PROVE Kind(u) # "While"
    OBVIOUS
  <2>1. GoodWhile(prog, w) /\ s \in {"cond", "body"}
    BY DEF Structured, Shaped, Kind, PartsOf
  <2>2. CASE s = "cond"
    BY <1>3, <2>1, <2>2 DEF GoodWhile, IsSimple, Kind
  <2>3. CASE s = "body"
    <3>1. Kind(prog.scopes[w]["body"][i]) = "Return" \/ IsSimple(prog, prog.scopes[w]["body"][i])
      BY <1>3, <2>1, <2>3 DEF GoodWhile, Kind, LastOf
    <3> QED
      BY <1>3, <2>3, <3>1 DEF IsSimple, Kind
  <2> QED
    BY <2>1, <2>2, <2>3
<1> QED
  BY <1>1, <1>4, <1>5, <1>6, <1>7

\* A node is inside one While at most.
LEMMA InsideOne ==
  ASSUME prog \in Programs, Structured(prog), NEW w \in NodesOf(prog), NEW u,
         Inside(prog, w, u)
  PROVE  /\ u \in NodesOf(prog) /\ Kind(u) # "While"
         /\ \A i \in DOMAIN prog.main : prog.main[i] # u
         /\ Kind(w) = "While" => \A z \in NodesOf(prog) :
              Kind(z) = "While" /\ Inside(prog, z, u) => z = w
<1>1. /\ u \in NodesOf(prog) /\ Kind(u) # "While"
      /\ \A i \in DOMAIN prog.main : prog.main[i] # u
  BY Containing DEF Inside
<1>2. ASSUME NEW z \in NodesOf(prog), Kind(z) = "While", Kind(w) = "While", Inside(prog, z, u)
      PROVE  z = w
  <2>1. CASE Contains(prog, w, u) /\ Contains(prog, z, u)
    BY <2>1, Containing
  <2>2. ASSUME NEW f \in NodesOf(prog), Contains(prog, w, f), Contains(prog, f, u),
               Contains(prog, z, u)
        PROVE  FALSE
    BY <1>2, <2>2, Containing
  <2>3. ASSUME NEW f \in NodesOf(prog), Contains(prog, z, f), Contains(prog, f, u),
               Contains(prog, w, u)
        PROVE  FALSE
    BY <1>2, <2>3, Containing
  <2>4. ASSUME NEW f \in NodesOf(prog), Contains(prog, z, f), Contains(prog, f, u),
               NEW g \in NodesOf(prog), Contains(prog, w, g), Contains(prog, g, u)
        PROVE  z = w
    <3>1. f = g
      BY <2>4, Containing
    <3> QED
      BY <2>4, <3>1, Containing
  <2> QED
    BY <1>2, <2>1, <2>2, <2>3, <2>4 DEF Inside
<1> QED
  BY <1>1, <1>2

\* The pairs that decide whether v holds.
Sees(v, q) ==
  \/ q = X
  \/ \E z \in NodesOf(prog), k \in {0, 1} :
       /\ q = <<z, k>>
       /\ Order(prog)[z] <= Order(prog)[v] \/ (Kind(z) = "While" /\ Inside(prog, z, v))

LEMMA Ranks ==
  ASSUME prog \in Programs, Structured(prog)
  PROVE  /\ \A v \in NodesOf(prog) : Order(prog)[v] \in Nat
         /\ \A t, v \in NodesOf(prog) : Before(prog, t, v) =>
              /\ Order(prog)[t] < Order(prog)[v]
              /\ \A u \in NodesOf(prog) : Inside(prog, v, u) => Order(prog)[t] < Order(prog)[u]
         /\ \A u, w \in NodesOf(prog) : Inside(prog, w, u) => Order(prog)[u] < Order(prog)[w]
<1>1. Ordered(prog, Order(prog))
  BY OrderExists
<1> QED
  BY <1>1 DEF Ordered

\* A node sees its own output and all that it reads.
LEMMA SeesInputs ==
  ASSUME prog \in Programs, Structured(prog), NEW v \in NodesOf(prog)
  PROVE  /\ Sees(v, <<v, 0>>) /\ <<v, 0>> \in PairsOf(prog)
         /\ \A i \in DOMAIN In(v) : In(v)[i] \in PairsOf(prog) /\ Sees(v, In(v)[i])
<1>1. Ordered(prog, Order(prog))
  BY OrderExists
<1>2. Order(prog)[v] \in Nat /\ \A z \in NodesOf(prog) : Order(prog)[z] \in Nat
  BY Ranks
<1>3. Sees(v, <<v, 0>>) /\ <<v, 0>> \in PairsOf(prog)
  <2>1. 0 \in {0, 1} /\ Order(prog)[v] <= Order(prog)[v]
    BY <1>2
  <2> QED
    BY <2>1, PairFacts DEF Sees
<1>4. In(v) \in Seq(PairsOf(prog))
  BY Formed
<1>5. \A i \in DOMAIN In(v) : In(v)[i] \in PairsOf(prog)
  BY <1>4
<1>6. ASSUME NEW i \in DOMAIN In(v) PROVE Sees(v, In(v)[i])
  <2>1. CASE In(v)[i] = X
    BY <2>1 DEF Sees
  <2>2. ASSUME NEW z \in NodesOf(prog), NEW k \in {0, 1}, In(v)[i] = <<z, k>>,
               Order(prog)[z] < Order(prog)[v] \/ (Kind(z) = "While" /\ Inside(prog, z, v))
        PROVE  Sees(v, In(v)[i])
    <3>1. Order(prog)[z] <= Order(prog)[v] \/ (Kind(z) = "While" /\ Inside(prog, z, v))
      BY <1>2, <2>2
    <3> QED
      BY <2>2, <3>1 DEF Sees
  <2> QED
    BY <1>1, <2>1, <2>2 DEF Ordered, In, Kind
<1> QED
  BY <1>3, <1>5, <1>6

\* What a node of a Conditional sees, the Conditional sees.
LEMMA SeesWithin ==
  ASSUME prog \in Programs, Structured(prog), NEW f \in NodesOf(prog), NEW u,
         Contains(prog, f, u), NEW q, Sees(u, q)
  PROVE  Sees(f, q)
<1>1. u \in NodesOf(prog) /\ Inside(prog, f, u)
  BY Containing DEF Inside
<1>2. Order(prog)[u] \in Nat /\ Order(prog)[f] \in Nat /\ Order(prog)[u] < Order(prog)[f]
  BY <1>1, Ranks
<1>3. ASSUME NEW z \in NodesOf(prog), NEW k \in {0, 1}, q = <<z, k>>,
             Order(prog)[z] <= Order(prog)[u]
      PROVE  Sees(f, q)
  <2>1. Order(prog)[z] \in Nat
    BY Ranks
  <2>2. Order(prog)[z] <= Order(prog)[f]
    BY <1>2, <1>3, <2>1
  <2> QED
    BY <1>3, <2>2 DEF Sees
<1>4. ASSUME NEW z \in NodesOf(prog), NEW k \in {0, 1}, q = <<z, k>>,
             Kind(z) = "While", Inside(prog, z, u)
      PROVE  Sees(f, q)
  <2>1. CASE Contains(prog, z, u)
    <3>1. z = f
      BY <2>1, Containing
    <3>2. Order(prog)[z] <= Order(prog)[f]
      BY <1>2, <3>1
    <3> QED
      BY <1>4, <3>2 DEF Sees
  <2>2. ASSUME NEW g \in NodesOf(prog), Contains(prog, z, g), Contains(prog, g, u)
        PROVE  Sees(f, q)
    <3>1. g = f
      BY <2>2, Containing
    <3>2. Inside(prog, z, f)
      BY <2>2, <3>1 DEF Inside
    <3> QED
      BY <1>4, <3>2 DEF Sees
  <2> QED
    BY <1>4, <2>1, <2>2 DEF Inside
<1> QED
  BY <1>3, <1>4 DEF Sees

\* An op or a Conditional holds in all environments that agree on what it sees.
LEMMA OpHoldsSame ==
  ASSUME prog \in Programs, Structured(prog), NEW v \in NodesOf(prog), NEW a, NEW b,
         \A q \in PairsOf(prog) : Sees(v, q) => a[q] = b[q],
         OpHolds(prog, a, v)
  PROVE  OpHolds(prog, b, v)
<1>1. a[<<v, 0>>] = b[<<v, 0>>]
  BY SeesInputs
<1>2. \A i \in DOMAIN In(v) : a[In(v)[i]] = b[In(v)[i]]
  BY SeesInputs
<1>3. [i \in DOMAIN prog.in[v] |-> a[prog.in[v][i]]] = [i \in DOMAIN prog.in[v] |-> b[prog.in[v][i]]]
  BY <1>2 DEF In
<1> QED
  BY <1>1, <1>3 DEF OpHolds

LEMMA HoldsSame ==
  ASSUME prog \in Programs, Structured(prog), NEW v \in NodesOf(prog), NEW a, NEW b,
         \A q \in PairsOf(prog) : Sees(v, q) => a[q] = b[q],
         Holds(prog, a, v)
  PROVE  Holds(prog, b, v)
<1>1. CASE Kind(v) # "If"
  BY <1>1, OpHoldsSame DEF Holds, Kind
<1>2. CASE Kind(v) = "If"
  <2>1. IfHolds(prog, a, v)
    BY <1>2 DEF Holds, Kind
  <2>2. \A s \in {"cond", "true", "false"} : s \in PartsOf(Kind(v))
    BY <1>2 DEF PartsOf
  <2>3. ASSUME NEW s \in {"cond", "true", "false"}, NEW i \in DOMAIN prog.scopes[v][s]
        PROVE  /\ prog.scopes[v][s][i] \in NodesOf(prog)
               /\ Contains(prog, v, prog.scopes[v][s][i])
               /\ Len(prog.scopes[v][s]) \in DOMAIN prog.scopes[v][s]
    BY <1>2, <2>2, ScopeNodes
  <2>4. ASSUME NEW s \in {"cond", "true", "false"}
        PROVE  Len(prog.scopes[v][s]) \in DOMAIN prog.scopes[v][s]
    BY <1>2, <2>2, ScopeNodes
  <2>5. ASSUME NEW u \in NodesOf(prog), Contains(prog, v, u)
        PROVE  /\ OpHolds(prog, a, u) => OpHolds(prog, b, u)
               /\ a[<<u, 0>>] = b[<<u, 0>>]
    <3>1. \A q \in PairsOf(prog) : Sees(u, q) => a[q] = b[q]
      BY <2>5, SeesWithin
    <3>2. a[<<u, 0>>] = b[<<u, 0>>]
      BY <3>1, SeesInputs
    <3> QED
      BY <3>1, <3>2, OpHoldsSame
  <2>6. ASSUME NEW s \in {"cond", "true", "false"}
        PROVE  a[<<LastOf(prog.scopes[v][s]), 0>>] = b[<<LastOf(prog.scopes[v][s]), 0>>]
    BY <2>3, <2>4, <2>5 DEF LastOf
  <2>7. Test(prog, a, v) = Test(prog, b, v)
    BY <2>6 DEF Test
  <2>8. a[<<v, 0>>] = b[<<v, 0>>]
    BY SeesInputs
  <2>9. \A i \in DOMAIN prog.scopes[v]["cond"] : OpHolds(prog, b, prog.scopes[v]["cond"][i])
    BY <2>1, <2>3, <2>5 DEF IfHolds
  <2>10. PICK s \in {"true", "false"} :
           /\ Test(prog, a, v) = 0 <=> s = "false"
           /\ \A i \in DOMAIN prog.scopes[v][s] : OpHolds(prog, a, prog.scopes[v][s][i])
           /\ a[<<v, 0>>] = a[<<LastOf(prog.scopes[v][s]), 0>>]
    BY <2>1 DEF IfHolds
  <2>11. \A i \in DOMAIN prog.scopes[v][s] : OpHolds(prog, b, prog.scopes[v][s][i])
    BY <2>3, <2>5, <2>10
  <2>12. b[<<v, 0>>] = b[<<LastOf(prog.scopes[v][s]), 0>>]
    BY <2>6, <2>8, <2>10
  <2>13. IfHolds(prog, b, v)
    BY <2>7, <2>9, <2>10, <2>11, <2>12 DEF IfHolds
  <2> QED
    BY <1>2, <2>13 DEF Holds, Kind
<1> QED
  BY <1>1, <1>2

\* Whether a While has ended is decided by what has finished when it has.
LEMMA SeesLoop ==
  ASSUME prog \in Programs, Structured(prog), NEW w \in NodesOf(prog), Kind(w) = "While",
         NEW u, Inside(prog, w, u) \/ u = w, NEW q, Sees(u, q)
  PROVE  q = X \/ \E z \in NodesOf(prog), k \in {0, 1} :
                    q = <<z, k>> /\ Order(prog)[z] <= Order(prog)[w]
<1>1. ~\E z \in NodesOf(prog) : Inside(prog, z, w)
  BY InsideOne
<1>2. u \in NodesOf(prog) /\ Order(prog)[u] <= Order(prog)[w]
  <2>1. CASE u = w
    BY <2>1, Ranks
  <2>2. CASE Inside(prog, w, u)
    <3>1. u \in NodesOf(prog)
      BY <2>2, InsideOne
    <3> QED
      BY <2>2, <3>1, Ranks
  <2> QED
    BY <2>1, <2>2
<1>3. ASSUME NEW z \in NodesOf(prog), NEW k \in {0, 1}, q = <<z, k>>,
             Order(prog)[z] <= Order(prog)[u]
      PROVE  q = <<z, k>> /\ Order(prog)[z] <= Order(prog)[w]
  <2>1. Order(prog)[z] \in Nat /\ Order(prog)[u] \in Nat /\ Order(prog)[w] \in Nat
    BY <1>2, Ranks
  <2> QED
    BY <1>2, <1>3, <2>1
<1>4. ASSUME NEW z \in NodesOf(prog), NEW k \in {0, 1}, q = <<z, k>>,
             Kind(z) = "While", Inside(prog, z, u)
      PROVE  q = <<z, k>> /\ Order(prog)[z] <= Order(prog)[w]
  <2>1. z = w
    BY <1>1, <1>4, InsideOne
  <2>2. Order(prog)[w] \in Nat
    BY Ranks
  <2> QED
    BY <1>4, <2>1, <2>2
<1> QED
  BY <1>3, <1>4 DEF Sees

LEMMA WentSame ==
  ASSUME NEW x, NEW w, NEW n, NEW a, NEW b, \A q \in Outer(prog, w) : a[q] = b[q],
         Went(prog, x, a, w, n)
  PROVE  Went(prog, x, b, w, n)
<1>1. PICK past : /\ \A q \in Outer(prog, w) : past[q] = a[q]
                  /\ InState(prog, x, past, w, n)
                  /\ Tested(prog, past, w) /\ Test(prog, past, w) # 0
  BY DEF Went
<1>2. \A q \in Outer(prog, w) : past[q] = b[q]
  BY <1>1
<1> QED
  BY <1>1, <1>2 DEF Went

\* The variables of a While are pairs.
LEMMA Variables ==
  ASSUME prog \in Programs, NEW w \in NodesOf(prog), Kind(w) = "While",
         NEW e \in DOMAIN In(w)
  PROVE  e - 1 \in {0, 1} /\ <<w, e - 1>> \in PairsOf(prog) /\ In(w)[e] \in PairsOf(prog)
<1>1. In(w) \in Seq(PairsOf(prog)) /\ Len(In(w)) <= 2
  BY Formed
<1>2. e \in 1 .. Len(In(w)) /\ Len(In(w)) \in Nat /\ In(w)[e] \in PairsOf(prog)
  BY <1>1
<1>3. e - 1 \in {0, 1}
  BY <1>1, <1>2
<1> QED
  BY <1>2, <1>3, PairFacts

LEMMA ReachedSame ==
  ASSUME prog \in Programs, NEW x, NEW w \in NodesOf(prog), Kind(w) = "While", NEW n,
         NEW a, NEW b, \A q \in Outer(prog, w) : a[q] = b[q],
         \A k \in {0, 1} : a[<<w, k>>] = b[<<w, k>>],
         Reached(prog, x, a, w, n)
  PROVE  Reached(prog, x, b, w, n)
<1>1. \A e \in DOMAIN In(w) : a[<<w, e - 1>>] = b[<<w, e - 1>>]
  BY Variables
<1>2. InState(prog, x, b, w, n)
  BY <1>1 DEF Reached, InState, In
<1>3. \A k \in 1 .. (n - 1) : Went(prog, x, b, w, k)
  BY WentSame DEF Reached
<1> QED
  BY <1>2, <1>3 DEF Reached

LEMMA TestedSame ==
  ASSUME prog \in Programs, Structured(prog), NEW w \in NodesOf(prog),
         Kind(w) \in {"While", "If"}, NEW a, NEW b,
         \A u \in NodesOf(prog), q \in PairsOf(prog) :
           Contains(prog, w, u) /\ Sees(u, q) => a[q] = b[q]
  PROVE  /\ Tested(prog, a, w) => Tested(prog, b, w)
         /\ Test(prog, a, w) = Test(prog, b, w)
<1>1. "cond" \in PartsOf(Kind(w))
  BY DEF PartsOf
<1> DEFINE c == prog.scopes[w]["cond"]
<1>2. /\ \A i \in DOMAIN c : c[i] \in NodesOf(prog) /\ Contains(prog, w, c[i])
      /\ Len(c) \in DOMAIN c
  BY <1>1, ScopeNodes
<1>3. ASSUME NEW i \in DOMAIN c PROVE Holds(prog, a, c[i]) => Holds(prog, b, c[i])
  <2>1. \A q \in PairsOf(prog) : Sees(c[i], q) => a[q] = b[q]
    BY <1>2
  <2> QED
    BY <1>2, <2>1, HoldsSame
<1>4. a[<<LastOf(c), 0>>] = b[<<LastOf(c), 0>>]
  <2>1. LastOf(c) \in NodesOf(prog) /\ Contains(prog, w, LastOf(c))
    BY <1>2 DEF LastOf
  <2> QED
    BY <2>1, SeesInputs
<1> QED
  BY <1>3, <1>4 DEF Tested, Test

LEMMA EndedSame ==
  ASSUME prog \in Programs, Structured(prog), NEW x, NEW w \in NodesOf(prog),
         Kind(w) = "While", NEW a, NEW b, \A q \in PairsOf(prog) : Sees(w, q) => a[q] = b[q],
         Ended(prog, x, a, w)
  PROVE  Ended(prog, x, b, w)
<1>1. ASSUME NEW z \in NodesOf(prog), NEW k \in {0, 1}, Order(prog)[z] <= Order(prog)[w]
      PROVE  a[<<z, k>>] = b[<<z, k>>]
  BY <1>1, PairFacts DEF Sees
<1>2. a[X] = b[X]
  BY PairFacts DEF Sees
<1>3. Order(prog)[w] \in Nat /\ \A z \in NodesOf(prog) : Order(prog)[z] \in Nat
  BY Ranks
<1>4. \A q \in Outer(prog, w) : a[q] = b[q]
  <2> SUFFICES ASSUME NEW z \in NodesOf(prog), NEW k \in {0, 1}, Order(prog)[z] < Order(prog)[w]
               PROVE  a[<<z, k>>] = b[<<z, k>>]
    BY <1>2 DEF Outer
  <2>1. Order(prog)[z] <= Order(prog)[w]
    BY <1>3
  <2> QED
    BY <1>1, <2>1
<1>5. \A k \in {0, 1} : a[<<w, k>>] = b[<<w, k>>]
  <2>1. Order(prog)[w] <= Order(prog)[w]
    BY <1>3
  <2> QED
    BY <1>1, <2>1
<1>6. ASSUME NEW u \in NodesOf(prog), NEW q \in PairsOf(prog), Contains(prog, w, u), Sees(u, q)
      PROVE  a[q] = b[q]
  <2>1. Inside(prog, w, u)
    BY <1>6 DEF Inside
  <2>2. q = X \/ \E z \in NodesOf(prog), k \in {0, 1} :
                    q = <<z, k>> /\ Order(prog)[z] <= Order(prog)[w]
    BY <1>6, <2>1, SeesLoop
  <2> QED
    BY <1>1, <1>2, <2>2
<1>7. PICK n \in 1..LoopLimit :
        Reached(prog, x, a, w, n) /\ Tested(prog, a, w) /\ Test(prog, a, w) = 0
  BY DEF Ended
<1>8. Reached(prog, x, b, w, n)
  BY <1>4, <1>5, <1>7, ReachedSame
<1>9. Tested(prog, b, w) /\ Test(prog, b, w) = 0
  BY <1>6, <1>7, TestedSame
<1> QED
  BY <1>8, <1>9 DEF Ended

LEMMA DoneSame ==
  ASSUME prog \in Programs, Structured(prog), NEW x, NEW v \in NodesOf(prog), NEW a, NEW b,
         \A q \in PairsOf(prog) : Sees(v, q) => a[q] = b[q],
         Done(prog, x, a, v)
  PROVE  Done(prog, x, b, v)
<1>1. CASE Kind(v) = "While"
  BY <1>1, EndedSame DEF Done, Kind
<1>2. CASE Kind(v) # "While"
  BY <1>2, HoldsSame DEF Done, Kind
<1> QED
  BY <1>1, <1>2

---------------------------------------------------------------------------
(* What a step changes *)

\* From a to b only the outputs of c change, and those of a Conditional that has the
\* array of c.
Changed(a, b, c) ==
  /\ a[X] = b[X]
  /\ \A z \in NodesOf(prog), k \in {0, 1} : a[<<z, k>>] # b[<<z, k>>] =>
       (z = c \/ Contains(prog, z, c)) /\ (Kind(z) = "While" => z = c)

\* t has finished before c begins.
Ahead(t, c) == Order(prog)[t] < Order(prog)[c] /\ (Kind(c) = "While" => ~Inside(prog, c, t))

LEMMA DoneKept ==
  ASSUME prog \in Programs, Structured(prog), NEW c \in NodesOf(prog), NEW t \in NodesOf(prog),
         Ahead(t, c), NEW a, NEW b, Changed(a, b, c), NEW x, Done(prog, x, a, t)
  PROVE  Done(prog, x, b, t)
<1>1. ASSUME NEW q \in PairsOf(prog), Sees(t, q) PROVE a[q] = b[q]
  <2>1. CASE q = X
    BY <2>1 DEF Changed
  <2>2. ASSUME NEW z \in NodesOf(prog), NEW k \in {0, 1}, q = <<z, k>>,
               Order(prog)[z] <= Order(prog)[t]
        PROVE  a[q] = b[q]
    <3>1. /\ Order(prog)[z] \in Nat /\ Order(prog)[t] \in Nat /\ Order(prog)[c] \in Nat
          /\ Contains(prog, z, c) => Order(prog)[c] < Order(prog)[z]
      BY Ranks DEF Inside
    <3>2. z # c /\ ~Contains(prog, z, c)
      BY <2>2, <3>1 DEF Ahead
    <3> QED
      BY <2>2, <3>2 DEF Changed
  <2>3. ASSUME NEW z \in NodesOf(prog), NEW k \in {0, 1}, q = <<z, k>>,
               Kind(z) = "While", Inside(prog, z, t)
        PROVE  a[q] = b[q]
    <3>1. z # c
      BY <2>3 DEF Ahead
    <3> QED
      BY <2>3, <3>1 DEF Changed
  <2> QED
    BY <1>1, <2>1, <2>2, <2>3 DEF Sees
<1> QED
  BY <1>1, DoneSame

\* A loop does not lose count while it runs the nodes inside it.
LEMMA LoopKept ==
  ASSUME prog \in Programs, Structured(prog), NEW c \in NodesOf(prog), NEW w \in NodesOf(prog),
         Kind(w) = "While", Inside(prog, w, c) \/ w = c, NEW a, NEW b, Changed(a, b, c)
  PROVE  /\ \A q \in Outer(prog, w) : a[q] = b[q]
         /\ w # c => \A x, n : Reached(prog, x, a, w, n) => Reached(prog, x, b, w, n)
<1>1. ASSUME NEW z \in NodesOf(prog), NEW k \in {0, 1}, Order(prog)[z] < Order(prog)[w],
             ~Inside(prog, w, z)
      PROVE  a[<<z, k>>] = b[<<z, k>>]
  <2>1. Order(prog)[w] \in Nat
    BY Ranks
  <2>2. z # w
    BY <1>1, <2>1
  <2>3. z # c
    BY <1>1, <2>2
  <2>4. ~Contains(prog, z, c)
    <3>1. SUFFICES ASSUME Contains(prog, z, c) PROVE FALSE
      OBVIOUS
    <3>2. CASE w = c
      BY <3>1, <3>2, Containing
    <3>3. CASE Contains(prog, w, c)
      BY <2>2, <3>1, <3>3, Containing
    <3>4. ASSUME NEW f \in NodesOf(prog), Contains(prog, w, f), Contains(prog, f, c)
          PROVE  FALSE
      <4>1. z = f
        BY <3>1, <3>4, Containing
      <4> QED
        BY <1>1, <3>4, <4>1 DEF Inside
    <3> QED
      BY <3>2, <3>3, <3>4 DEF Inside
  <2> QED
    BY <2>3, <2>4 DEF Changed
<1>2. \A q \in Outer(prog, w) : a[q] = b[q]
  BY <1>1 DEF Outer, Changed
<1>3. w # c => \A k \in {0, 1} : a[<<w, k>>] = b[<<w, k>>]
  BY DEF Changed
<1> QED
  BY <1>2, <1>3, ReachedSame

LEMMA FrameKept ==
  ASSUME prog \in Programs, Structured(prog), NEW c \in NodesOf(prog), NEW f \in Calls,
         \A t \in NodesOf(prog) : RunBy(prog, f, t) => Ahead(t, c),
         (f.part # "main" /\ Kind(f.node) = "While") => Inside(prog, f.node, c),
         NEW a, NEW b, Changed(a, b, c), NEW x, FrameOK(prog, x, a, f)
  PROVE  FrameOK(prog, x, b, f)
<1>1. \A t \in NodesOf(prog) : RunBy(prog, f, t) => Done(prog, x, b, t)
  BY DoneKept DEF FrameOK
<1>2. f.part \in {"body", "true", "false"} => Test(prog, b, f.node) = Test(prog, a, f.node)
  <2> SUFFICES ASSUME f.part \in {"body", "true", "false"}
               PROVE  Test(prog, b, f.node) = Test(prog, a, f.node)
    OBVIOUS
  <2>1. f.node \in NodesOf(prog) /\ Kind(f.node) \in {"While", "If"}
    BY CallFields
  <2>2. "cond" \in PartsOf(Kind(f.node))
    BY <2>1 DEF PartsOf
  <2> DEFINE s == prog.scopes[f.node]["cond"]
  <2>3. Len(s) \in DOMAIN s /\ s[Len(s)] \in NodesOf(prog)
    BY <2>1, <2>2, ScopeNodes
  <2>4. RunBy(prog, f, LastOf(s))
    BY <2>3 DEF RunBy, LastOf
  <2>5. LastOf(s) \in NodesOf(prog)
    BY <2>3 DEF LastOf
  <2> HIDE DEF s
  <2>6. Ahead(LastOf(s), c)
    BY <2>4, <2>5
  <2>7. Order(prog)[LastOf(s)] \in Nat /\ Order(prog)[c] \in Nat
    BY <2>5, Ranks
  <2>8. LastOf(s) # c /\ (Contains(prog, LastOf(s), c) => Order(prog)[c] < Order(prog)[LastOf(s)])
    BY <2>5, <2>6, <2>7, Ranks DEF Ahead, Inside
  <2>9. ~Contains(prog, LastOf(s), c)
    BY <2>6, <2>7, <2>8 DEF Ahead
  <2>10. a[<<LastOf(s), 0>>] = b[<<LastOf(s), 0>>]
    BY <2>5, <2>8, <2>9 DEF Changed
  <2> QED
    BY <2>10 DEF Test, s
<1>3. ASSUME f.part # "main", Kind(f.node) = "While",
             Reached(prog, x, a, f.node, f.breaker + 1)
      PROVE  Reached(prog, x, b, f.node, f.breaker + 1)
  <2>1. f.node \in NodesOf(prog) /\ Inside(prog, f.node, c)
    BY <1>3, CallFields
  <2>2. f.node # c
    BY <1>3, <2>1, InsideOne
  <2> QED
    BY <1>3, <2>1, <2>2, LoopKept
<1> QED
  BY <1>1, <1>2, <1>3 DEF FrameOK, Kind

---------------------------------------------------------------------------
(* Which calls are on the stack *)

LEMMA CallIsIn ==
  ASSUME prog \in Programs, NEW f \in Calls
  PROVE  /\ NodesIn(prog, f) = Nodes(f) /\ NodesIn(prog, f) \in Seq(NodesOf(prog))
         /\ \A i \in DOMAIN NodesIn(prog, f) :
              /\ NodesIn(prog, f)[i] \in NodesOf(prog)
              /\ f.part # "main" => Contains(prog, f.node, NodesIn(prog, f)[i])
<1>1. NodesIn(prog, f) = Nodes(f)
  BY DEF NodesIn, Nodes
<1>2. Nodes(f) \in Seq(NodesOf(prog))
  BY CallNodes
<1>3. \A i \in DOMAIN Nodes(f) : Nodes(f)[i] \in NodesOf(prog)
  BY <1>2
<1>4. f.part # "main" => \A i \in DOMAIN Nodes(f) : Contains(prog, f.node, Nodes(f)[i])
  <2> SUFFICES ASSUME f.part # "main", NEW i \in DOMAIN Nodes(f)
               PROVE  Contains(prog, f.node, Nodes(f)[i])
    OBVIOUS
  <2>1. /\ f.node \in NodesOf(prog) /\ Kind(f.node) \in {"While", "If"}
        /\ f.part \in PartsOf(Kind(f.node)) /\ Nodes(f) = prog.scopes[f.node][f.part]
    BY CallFields, CallNodes
  <2> QED
    BY <2>1, ScopeNodes
<1> QED
  BY <1>1, <1>2, <1>3, <1>4

\* What a call has run comes before the node it is at.
LEMMA RunBefore ==
  ASSUME prog \in Programs, NEW f \in Calls, f.pos \in DOMAIN NodesIn(prog, f),
         NEW t \in NodesOf(prog), RunBy(prog, f, t)
  PROVE  Before(prog, t, NodesIn(prog, f)[f.pos])
<1>1. f.part # "main" => /\ f.node \in NodesOf(prog) /\ Kind(f.node) \in {"While", "If"}
                         /\ f.part \in PartsOf(Kind(f.node))
  BY CallFields
<1>2. ASSUME NEW i \in DOMAIN NodesIn(prog, f), i < f.pos, t = NodesIn(prog, f)[i]
      PROVE  Before(prog, t, NodesIn(prog, f)[f.pos])
  <2>1. InTurn(NodesIn(prog, f), t, NodesIn(prog, f)[f.pos])
    BY <1>2 DEF InTurn
  <2>2. CASE f.part = "main"
    BY <2>1, <2>2 DEF Before, NodesIn
  <2>3. CASE f.part # "main"
    <3>1. InTurn(prog.scopes[f.node][f.part], t, NodesIn(prog, f)[f.pos])
      BY <2>1, <2>3 DEF NodesIn
    <3> QED
      BY <1>1, <2>3, <3>1 DEF Before, Kind
  <2> QED
    BY <2>2, <2>3
<1>3. ASSUME f.part \in {"body", "true", "false"}, NEW i \in DOMAIN prog.scopes[f.node]["cond"],
             t = prog.scopes[f.node]["cond"][i]
      PROVE  Before(prog, t, NodesIn(prog, f)[f.pos])
  <2>1. NodesIn(prog, f) = prog.scopes[f.node][f.part]
    BY <1>3 DEF NodesIn
  <2> QED
    BY <1>1, <1>3, <2>1 DEF Before, Kind
<1> QED
  BY <1>2, <1>3 DEF RunBy

LEMMA BeforeAhead ==
  ASSUME prog \in Programs, Structured(prog), NEW t \in NodesOf(prog), NEW n \in NodesOf(prog),
         Before(prog, t, n), NEW c \in NodesOf(prog), c = n \/ Inside(prog, n, c)
  PROVE  Ahead(t, c)
<1>1. Order(prog)[t] \in Nat /\ Order(prog)[t] < Order(prog)[c]
  BY Ranks
<1>2. CASE c = n
  <2>1. ~Inside(prog, n, t)
    <3>1. Inside(prog, n, t) => Order(prog)[t] < Order(prog)[t]
      BY Ranks
    <3> QED
      BY <1>1, <3>1
  <2> QED
    BY <1>1, <1>2, <2>1 DEF Ahead
<1>3. CASE Inside(prog, n, c)
  BY <1>1, <1>3, InsideOne DEF Ahead
<1> QED
  BY <1>2, <1>3

\* execute, a While or Conditional of the main graph, and a Conditional in a While.
LEMMA Depth ==
  ASSUME prog \in Programs, Structured(prog), Good(stack), Nested(prog, stack)
  PROVE  /\ Len(stack) \in 1..3 /\ DOMAIN stack = 1..Len(stack)
         /\ \A k \in 1..Len(stack) : stack[k] \in Calls /\ (stack[k].part = "main" <=> k = 1)
         /\ \A k \in 2..Len(stack) :
              /\ stack[k].node \in NodesOf(prog) /\ Kind(stack[k].node) \in {"While", "If"}
              /\ stack[k - 1].pos \in DOMAIN NodesIn(prog, stack[k - 1])
              /\ stack[k].node = NodesIn(prog, stack[k - 1])[stack[k - 1].pos]
         /\ Len(stack) = 3 => /\ Contains(prog, stack[2].node, stack[3].node)
                              /\ Kind(stack[2].node) = "While" /\ Kind(stack[3].node) = "If"
<1>1. /\ stack \in Seq(Calls) /\ stack # <<>> /\ Len(stack) \in Nat \ {0}
      /\ DOMAIN stack = 1..Len(stack)
  BY DEF Good
<1>2. \A k \in 1..Len(stack) : stack[k] \in Calls /\ (stack[k].part = "main" <=> k = 1)
  BY <1>1 DEF Good
<1>3. ASSUME NEW k \in 2..Len(stack)
      PROVE  /\ stack[k].node \in NodesOf(prog) /\ Kind(stack[k].node) \in {"While", "If"}
             /\ stack[k - 1].pos \in DOMAIN NodesIn(prog, stack[k - 1])
             /\ stack[k].node = NodesIn(prog, stack[k - 1])[stack[k - 1].pos]
  <2>1. k \in 1..Len(stack) /\ k > 1
    BY <1>1
  <2>2. stack[k] \in Calls /\ stack[k].part # "main"
    BY <1>2, <2>1
  <2>3. k \in DOMAIN stack
    BY <1>1, <2>1
  <2> QED
    BY <2>1, <2>2, <2>3, CallFields DEF Nested
<1>4. ASSUME NEW k \in 3..Len(stack)
      PROVE  /\ Contains(prog, stack[k - 1].node, stack[k].node)
             /\ Kind(stack[k - 1].node) = "While" /\ Kind(stack[k].node) = "If"
  <2>1. k \in 2..Len(stack) /\ k - 1 \in 2..Len(stack) /\ k - 1 \in 1..Len(stack) /\ k - 1 # 1
    BY <1>1
  <2>2. stack[k - 1] \in Calls /\ stack[k - 1].part # "main"
    BY <1>2, <2>1
  <2>3. /\ stack[k - 1].pos \in DOMAIN NodesIn(prog, stack[k - 1])
        /\ stack[k].node = NodesIn(prog, stack[k - 1])[stack[k - 1].pos]
        /\ Kind(stack[k].node) \in {"While", "If"}
    BY <1>3, <2>1
  <2>4. Contains(prog, stack[k - 1].node, stack[k].node)
    BY <2>2, <2>3, CallIsIn
  <2>5. stack[k - 1].node \in NodesOf(prog) /\ Kind(stack[k - 1].node) \in {"While", "If"}
    BY <1>3, <2>1
  <2> QED
    BY <2>3, <2>4, <2>5, Containing
<1>5. Len(stack) <= 3
  <2>1. SUFFICES ASSUME Len(stack) > 3 PROVE FALSE
    BY <1>1
  <2>2. 3 \in 3..Len(stack) /\ 4 \in 3..Len(stack) /\ 4 - 1 = 3
    BY <1>1, <2>1
  <2> QED
    BY <1>4, <2>2
<1>6. Len(stack) = 3 => /\ Contains(prog, stack[2].node, stack[3].node)
                        /\ Kind(stack[2].node) = "While" /\ Kind(stack[3].node) = "If"
  <2> SUFFICES ASSUME Len(stack) = 3
               PROVE  /\ Contains(prog, stack[2].node, stack[3].node)
                      /\ Kind(stack[2].node) = "While" /\ Kind(stack[3].node) = "If"
    OBVIOUS
  <2>1. 3 \in 3..Len(stack) /\ 3 - 1 = 2
    OBVIOUS
  <2> QED
    BY <1>4, <2>1
<1> QED
  BY <1>1, <1>2, <1>3, <1>5, <1>6

\* All that the calls have run is ahead of the node at the top, which is inside the
\* loop that a call of a While runs.
LEMMA AheadOf ==
  ASSUME prog \in Programs, Structured(prog), Good(stack), Nested(prog, stack),
         Top.pos \in DOMAIN NodesIn(prog, Top), NEW k \in DOMAIN stack
  PROVE  /\ \A t \in NodesOf(prog) : RunBy(prog, stack[k], t) =>
              Ahead(t, NodesIn(prog, Top)[Top.pos])
         /\ stack[k].part # "main" => Inside(prog, stack[k].node, NodesIn(prog, Top)[Top.pos])
<1> DEFINE c == NodesIn(prog, Top)[Top.pos]
           n == Len(stack)
<1>1. /\ n \in 1..3 /\ DOMAIN stack = 1..n
      /\ \A j \in 1..n : stack[j] \in Calls /\ (stack[j].part = "main" <=> j = 1)
      /\ \A j \in 2..n :
              /\ stack[j].node \in NodesOf(prog)
              /\ stack[j - 1].pos \in DOMAIN NodesIn(prog, stack[j - 1])
              /\ stack[j].node = NodesIn(prog, stack[j - 1])[stack[j - 1].pos]
      /\ n = 3 => Contains(prog, stack[2].node, stack[3].node)
  BY Depth
<1>2. Top = stack[n] /\ n \in 1..n /\ Top \in Calls
  BY <1>1 DEF Top
<1>3. c \in NodesOf(prog) /\ (n # 1 => Contains(prog, stack[n].node, c))
  BY <1>1, <1>2, CallIsIn
<1>4. \A j \in 2..n : Inside(prog, stack[j].node, c)
  <2> SUFFICES ASSUME NEW j \in 2..n PROVE Inside(prog, stack[j].node, c)
    OBVIOUS
  <2>1. (n = 2 /\ j = 2) \/ (n = 3 /\ j = 3) \/ (n = 3 /\ j = 2)
    <3>1. n \in 1..3
      BY <1>1
    <3> HIDE DEF n
    <3> QED
      BY <3>1
  <2>2. CASE j = n
    <3>1. n # 1
      BY <2>1
    <3> QED
      BY <1>3, <2>2, <3>1 DEF Inside
  <2>3. CASE j # n
    <3>1. j = 2 /\ n = 3
      <4> HIDE DEF n
      <4> QED
        BY <2>1, <2>3
    <3>2. Contains(prog, stack[2].node, stack[3].node) /\ Contains(prog, stack[3].node, c)
      BY <1>1, <1>3, <3>1
    <3>3. stack[3].node \in NodesOf(prog)
      BY <1>1, <3>1
    <3> QED
      BY <3>1, <3>2, <3>3 DEF Inside
  <2> QED
    BY <2>2, <2>3
<1>5. ASSUME NEW t \in NodesOf(prog), RunBy(prog, stack[k], t)
      PROVE  Ahead(t, c)
  <2>1. CASE k = n
    <3>1. Before(prog, t, c)
      BY <1>2, <1>5, <2>1, RunBefore
    <3> QED
      BY <1>3, <3>1, BeforeAhead
  <2>2. CASE k # n
    <3>1. k \in 1..n /\ k + 1 \in 2..n /\ (k + 1) - 1 = k
      BY <1>1, <2>2
    <3>2. /\ stack[k] \in Calls /\ stack[k].pos \in DOMAIN NodesIn(prog, stack[k])
          /\ stack[k + 1].node = NodesIn(prog, stack[k])[stack[k].pos]
          /\ stack[k + 1].node \in NodesOf(prog)
      BY <1>1, <3>1
    <3>3. Before(prog, t, stack[k + 1].node)
      BY <1>5, <3>2, RunBefore
    <3> QED
      BY <1>3, <1>4, <3>1, <3>2, <3>3, BeforeAhead
  <2> QED
    BY <2>1, <2>2
<1>6. stack[k].part # "main" => Inside(prog, stack[k].node, c)
  BY <1>1, <1>4
<1> QED
  BY <1>5, <1>6

\* The same of the op whose scope is run at the top, and the calls below it.
LEMMA AheadTop ==
  ASSUME prog \in Programs, Structured(prog), Good(stack), Nested(prog, stack),
         NEW k \in DOMAIN stack, k # Len(stack)
  PROVE  /\ Top.node \in NodesOf(prog)
         /\ \A t \in NodesOf(prog) : RunBy(prog, stack[k], t) => Ahead(t, Top.node)
         /\ stack[k].part # "main" => Inside(prog, stack[k].node, Top.node)
<1> DEFINE n == Len(stack)
<1>1. /\ n \in 1..3 /\ DOMAIN stack = 1..n
      /\ \A j \in 1..n : stack[j] \in Calls /\ (stack[j].part = "main" <=> j = 1)
      /\ \A j \in 2..n :
              /\ stack[j].node \in NodesOf(prog)
              /\ stack[j - 1].pos \in DOMAIN NodesIn(prog, stack[j - 1])
              /\ stack[j].node = NodesIn(prog, stack[j - 1])[stack[j - 1].pos]
      /\ n = 3 => Contains(prog, stack[2].node, stack[3].node)
  BY Depth
<1>2. Top = stack[n]
  BY DEF Top
<1>3. k \in 1..n /\ k + 1 \in 2..n /\ n \in 2..n /\ (k + 1) - 1 = k
  BY <1>1
<1>4. stack[k] \in Calls /\ Top.node \in NodesOf(prog) /\ stack[k + 1].node \in NodesOf(prog)
  BY <1>1, <1>2, <1>3
<1>5. k + 1 = n \/ (k = 1 /\ n = 3)
  BY <1>1, <1>3
<1>6. Top.node = stack[k + 1].node \/ Inside(prog, stack[k + 1].node, Top.node)
  BY <1>1, <1>2, <1>5 DEF Inside
<1>7. ASSUME NEW t \in NodesOf(prog), RunBy(prog, stack[k], t)
      PROVE  Ahead(t, Top.node)
  <2>1. Before(prog, t, stack[k + 1].node)
    BY <1>1, <1>3, <1>4, <1>7, RunBefore
  <2> QED
    BY <1>4, <1>6, <2>1, BeforeAhead
<1>8. stack[k].part # "main" => Inside(prog, stack[k].node, Top.node)
  <2> SUFFICES ASSUME stack[k].part # "main" PROVE Inside(prog, stack[k].node, Top.node)
    OBVIOUS
  <2>1. k # 1
    BY <1>1, <1>3
  <2>2. k = 2 /\ n = 3
    BY <1>1, <1>3, <2>1
  <2> QED
    BY <1>1, <1>2, <2>2 DEF Inside
<1> QED
  BY <1>4, <1>7, <1>8

---------------------------------------------------------------------------
(* The values that the steps give the pairs *)

LEMMA Values1 ==
  ASSUME NEW sl, NEW ct, NEW q \in PairsOf(prog)
  PROVE  ValOf(prog, sl, ct)[q] = IF sl[q] = Nil THEN Nil ELSE ct[sl[q]]
BY DEF ValOf

\* What a node reads does not change while it is executed.
LEMMA InputsKept ==
  ASSUME prog \in Programs, Structured(prog), NEW c \in NodesOf(prog), Kind(c) # "While",
         NEW a, NEW b, Changed(a, b, c), NEW i \in DOMAIN In(c)
  PROVE  a[In(c)[i]] = b[In(c)[i]]
<1>1. Ordered(prog, Order(prog))
  BY OrderExists
<1>2. CASE In(c)[i] = X
  BY <1>2 DEF Changed
<1>3. ASSUME NEW z \in NodesOf(prog), NEW k \in {0, 1}, In(c)[i] = <<z, k>>,
             Order(prog)[z] < Order(prog)[c]
      PROVE  a[In(c)[i]] = b[In(c)[i]]
  <2>1. /\ Order(prog)[z] \in Nat /\ Order(prog)[c] \in Nat
        /\ Contains(prog, z, c) => Order(prog)[c] < Order(prog)[z]
    BY Ranks DEF Inside
  <2>2. z # c /\ ~Contains(prog, z, c)
    BY <1>3, <2>1
  <2>3. a[<<z, k>>] = b[<<z, k>>]
    BY <2>2 DEF Changed
  <2> QED
    BY <1>3, <2>3
<1>4. ASSUME NEW z \in NodesOf(prog), NEW k \in {0, 1}, In(c)[i] = <<z, k>>, Kind(z) = "While"
      PROVE  a[In(c)[i]] = b[In(c)[i]]
  <2>1. z # c
    BY <1>4
  <2>2. a[<<z, k>>] = b[<<z, k>>]
    BY <1>4, <2>1 DEF Changed
  <2> QED
    BY <1>4, <2>2
<1> QED
  BY <1>1, <1>2, <1>3, <1>4 DEF Ordered, In, Kind

\* An op's array is in its own slot and in that of a Conditional it is in.
LEMMA SlotOfOp ==
  ASSUME CallInv, OwnInv, SlotsOK(prog, slot), NEW v \in NodesOf(prog), Kind(v) = "Op"
  PROVE  /\ slot[<<v, 0>>] \in {Nil, <<v, 0>>}
         /\ \A z \in NodesOf(prog), k \in {0, 1} : slot[<<z, k>>] = <<v, 0>> =>
              (z = v /\ k = 0) \/ (Contains(prog, z, v) /\ Kind(z) = "If")
         /\ slot[X] \in {Nil, X}
<1>1. prog \in Programs /\ Own(slot)
  BY DEF CallInv, OwnInv
<1>2. /\ \A z \in NodesOf(prog), k \in {0, 1} : <<z, k>> \in PairsOf(prog) /\ <<z, k>> # Nil
      /\ X \in PairsOf(prog) /\ IsKept(X)
  BY <1>1, PairFacts DEF IsKept
<1>3. slot[<<v, 0>>] \in {Nil, <<v, 0>>}
  BY DEF SlotsOK, Kind
<1>4. ASSUME NEW z \in NodesOf(prog), NEW k \in {0, 1}, slot[<<z, k>>] = <<v, 0>>
      PROVE  (z = v /\ k = 0) \/ (Contains(prog, z, v) /\ Kind(z) = "If")
  <2>1. CASE Kind(z) = "While"
    <3>1. IsKept(<<z, k>>) /\ <<z, k>> \in PairsOf(prog)
      BY <1>2, <2>1 DEF IsKept
    <3>2. <<z, k>> = <<v, 0>>
      BY <1>1, <1>2, <1>4, <3>1 DEF Own
    <3> QED
      BY <2>1, <3>2
  <2>2. CASE k = 0 /\ Kind(z) = "Op" /\ slot[<<z, k>>] = <<z, 0>>
    BY <1>4, <2>2
  <2>3. CASE Kind(z) = "If" /\ \E u \in NodesOf(prog) : Contains(prog, z, u) /\ slot[<<z, k>>] = <<u, 0>>
    BY <1>4, <2>3
  <2>4. slot[<<z, k>>] # Nil
    BY <1>2, <1>4
  <2>5. \/ slot[<<z, k>>] = Nil
        \/ Kind(z) = "While"
        \/ k = 0 /\ Kind(z) = "Op" /\ slot[<<z, k>>] = <<z, 0>>
        \/ /\ k = 0 /\ Kind(z) = "If"
           /\ \E u \in NodesOf(prog) : Contains(prog, z, u) /\ slot[<<z, k>>] = <<u, 0>>
    <3>1. \/ slot[<<z, k>>] = Nil
          \/ Kind(z) = "While"
          \/ k = 0 /\ Kind(z) = "Op" /\ slot[<<z, k>>] = <<z, k>>
          \/ /\ k = 0 /\ Kind(z) = "If"
             /\ \E u \in NodesOf(prog) : Contains(prog, z, u) /\ slot[<<z, k>>] = <<u, 0>>
      BY DEF SlotsOK, Kind
    <3> QED
      BY <3>1
  <2> QED
    BY <2>1, <2>2, <2>3, <2>4, <2>5
<1>5. slot[X] \in {Nil, X}
  BY <1>1, <1>2 DEF Own
<1> QED
  BY <1>3, <1>4, <1>5

\* Only a While has its variables in its slots.
LEMMA SlotOfVariable ==
  ASSUME CallInv, OwnInv, NEW w \in NodesOf(prog), Kind(w) = "While", NEW i \in {0, 1}
  PROVE  /\ slot[<<w, i>>] \in {Nil, <<w, i>>}
         /\ \A q \in PairsOf(prog) : slot[q] = <<w, i>> => q = <<w, i>>
<1>1. prog \in Programs /\ Own(slot)
  BY DEF CallInv, OwnInv
<1>2. <<w, i>> \in PairsOf(prog) /\ IsKept(<<w, i>>)
  BY <1>1, PairFacts DEF IsKept
<1> QED
  BY <1>1, <1>2 DEF Own

LEMMA OpEffect ==
  ASSUME CallInv, OwnInv, SlotsOK(prog, slot), Structured(prog), NEW v \in NodesOf(prog),
         ExecuteOp(v)
  PROVE  /\ Changed(ValOf(prog, slot, content), ValOf(prog, slot', content'), v)
         /\ OpHolds(prog, ValOf(prog, slot', content'), v)
         /\ SlotsOK(prog, slot') /\ slot'[<<v, 0>>] # Nil
         /\ \A q \in PairsOf(prog) : q # <<v, 0>> => slot'[q] = slot[q]
<1> DEFINE b == <<v, 0>>
           old == ValOf(prog, slot, content)
           new == ValOf(prog, slot', content')
           args == [i \in DOMAIN In(v) |-> content[slot[In(v)[i]]]]
<1>1. /\ Kind(v) = "Op" /\ At(v)
      /\ slot' = [slot EXCEPT ![b] = IF slot[b] = Nil THEN b ELSE slot[b]]
      /\ content' = [content EXCEPT ![IF slot[b] = Nil THEN b ELSE slot[b]] = Apply(prog.op[v], args)]
      /\ \A i \in DOMAIN In(v) : slot[In(v)[i]] # Nil
  BY DEF ExecuteOp
<1>2. /\ slot \in [PairsOf(prog) -> PairsOf(prog) \cup {Nil}] /\ DOMAIN content = PairsOf(prog)
      /\ prog \in Programs
  BY DEF OwnInv, Own, CallInv
<1>3. /\ b \in PairsOf(prog) /\ b # Nil /\ X \in PairsOf(prog) /\ X # b /\ X # Nil
      /\ \A z \in NodesOf(prog), k \in {0, 1} : <<z, k>> \in PairsOf(prog)
  BY <1>2, PairFacts
<1>4. (IF slot[b] = Nil THEN b ELSE slot[b]) = b
  BY <1>1, SlotOfOp
<1>5. slot' = [slot EXCEPT ![b] = b] /\ content' = [content EXCEPT ![b] = Apply(prog.op[v], args)]
  BY <1>1, <1>4
<1> HIDE DEF args
<1>6. slot'[b] = b /\ \A q \in PairsOf(prog) : q # b => slot'[q] = slot[q]
  BY <1>2, <1>3, <1>5
<1>7. /\ content'[b] = Apply(prog.op[v], args)
      /\ \A q \in PairsOf(prog) : q # b => content'[q] = content[q]
  BY <1>2, <1>3, <1>5
<1>8. ASSUME NEW q \in PairsOf(prog), q # b, slot[q] # b PROVE old[q] = new[q]
  <2>1. slot'[q] = slot[q]
    BY <1>6, <1>8
  <2>2. slot[q] # Nil => content'[slot[q]] = content[slot[q]]
    BY <1>2, <1>7, <1>8
  <2> QED
    BY <2>1, <2>2, Values1
<1>9. new[b] = Apply(prog.op[v], args)
  BY <1>3, <1>6, <1>7, Values1
<1>10. Changed(old, new, v)
  <2>1. old[X] = new[X]
    <3>1. slot[X] # b
      BY <1>1, <1>3, SlotOfOp
    <3> QED
      BY <1>3, <1>8, <3>1
  <2>2. ASSUME NEW z \in NodesOf(prog), NEW k \in {0, 1}, old[<<z, k>>] # new[<<z, k>>]
        PROVE  (z = v \/ Contains(prog, z, v)) /\ (Kind(z) = "While" => z = v)
    <3>1. <<z, k>> = b \/ slot[<<z, k>>] = b
      BY <1>3, <1>8, <2>2
    <3>2. CASE <<z, k>> = b
      BY <3>2
    <3>3. CASE slot[<<z, k>>] = b
      BY <1>1, <3>3, SlotOfOp
    <3> QED
      BY <3>1, <3>2, <3>3
  <2> HIDE DEF old, new
  <2> QED
    BY <2>1, <2>2 DEF Changed
<1>11. OpHolds(prog, new, v)
  <2>1. ASSUME NEW i \in DOMAIN In(v) PROVE content[slot[In(v)[i]]] = new[In(v)[i]]
    <3>1. old[In(v)[i]] = new[In(v)[i]]
      BY <1>1, <1>2, <1>10, InputsKept
    <3>2. In(v)[i] \in PairsOf(prog)
      BY <1>2, SeesInputs
    <3>3. old[In(v)[i]] = content[slot[In(v)[i]]]
      BY <1>1, <3>2, Values1
    <3> QED
      BY <3>1, <3>3
  <2> HIDE DEF new, old
  <2>2. args = [i \in DOMAIN prog.in[v] |-> new[prog.in[v][i]]]
    BY <2>1 DEF args, In
  <2> QED
    BY <1>9, <2>2 DEF OpHolds
<1>12. SlotsOK(prog, slot')
  <2> SUFFICES ASSUME NEW z \in NodesOf(prog), NEW k \in {0, 1}
               PROVE  \/ slot'[<<z, k>>] = Nil
                      \/ prog.kind[z] = "While"
                      \/ k = 0 /\ prog.kind[z] = "Op" /\ slot'[<<z, k>>] = <<z, k>>
                      \/ /\ k = 0 /\ prog.kind[z] = "If"
                         /\ \E u \in NodesOf(prog) :
                              Contains(prog, z, u) /\ slot'[<<z, k>>] = <<u, 0>>
    BY DEF SlotsOK
  <2>1. CASE <<z, k>> = b
    BY <1>1, <1>6, <2>1 DEF Kind
  <2>2. CASE <<z, k>> # b
    <3>1. slot'[<<z, k>>] = slot[<<z, k>>]
      BY <1>3, <1>6, <2>2
    <3>2. \/ slot[<<z, k>>] = Nil
          \/ prog.kind[z] = "While"
          \/ k = 0 /\ prog.kind[z] = "Op" /\ slot[<<z, k>>] = <<z, k>>
          \/ /\ k = 0 /\ prog.kind[z] = "If"
             /\ \E u \in NodesOf(prog) : Contains(prog, z, u) /\ slot[<<z, k>>] = <<u, 0>>
      BY DEF SlotsOK
    <3> QED
      BY <3>1, <3>2
  <2> QED
    BY <2>1, <2>2
<1> QED
  BY <1>3, <1>6, <1>10, <1>11, <1>12

LEMMA EnterEffect ==
  ASSUME CallInv, OwnInv, SlotsOK(prog, slot), NEW w \in NodesOf(prog), Kind(w) = "While",
         EnterLogic(w), \A k \in {0, 1} : slot[<<w, k>>] = Nil,
         \A e \in DOMAIN In(w) : slot[In(w)[e]] # Nil
  PROVE  /\ Changed(ValOf(prog, slot, content), ValOf(prog, slot', content'), w)
         /\ \A e \in DOMAIN In(w) :
              /\ ValOf(prog, slot', content')[<<w, e - 1>>] = ValOf(prog, slot, content)[In(w)[e]]
              /\ slot'[<<w, e - 1>>] # Nil
         /\ SlotsOK(prog, slot')
         /\ \A z \in NodesOf(prog), k \in {0, 1} : z # w => slot'[<<z, k>>] = slot[<<z, k>>]
         /\ slot'[X] = slot[X]
<1> DEFINE Copied(q) == \E e \in ToCopy(w) : q = <<w, e - 1>>
           old == ValOf(prog, slot, content)
           new == ValOf(prog, slot', content')
           y(q) == content[slot[In(w)[q[2] + 1]]]
<1>1. /\ slot' = [q \in DOMAIN slot |-> IF Copied(q) THEN q ELSE slot[q]]
      /\ content' = [q \in DOMAIN content |-> IF Copied(q) THEN y(q) ELSE content[q]]
  BY DEF EnterLogic, CopyInputs
<1>2. /\ slot \in [PairsOf(prog) -> PairsOf(prog) \cup {Nil}] /\ DOMAIN content = PairsOf(prog)
      /\ prog \in Programs
  BY DEF OwnInv, Own, CallInv
<1>3. /\ \A z \in NodesOf(prog), k \in {0, 1} :
           <<z, k>> \in PairsOf(prog) /\ <<z, k>> # Nil /\ <<z, k>> # X
      /\ X \in PairsOf(prog) /\ X # Nil
  BY <1>2, PairFacts
<1>4. \A e \in DOMAIN In(w) :
        e - 1 \in {0, 1} /\ <<w, e - 1>> \in PairsOf(prog) /\ In(w)[e] \in PairsOf(prog)
  BY <1>2, Variables
<1>5. ToCopy(w) = DOMAIN In(w)
  BY <1>4 DEF ToCopy
<1>6. \A q : Copied(q) <=> \E e \in DOMAIN In(w) : q = <<w, e - 1>>
  BY <1>5
<1>7. \A e \in DOMAIN In(w) : y(<<w, e - 1>>) = content[slot[In(w)[e]]]
  <2>1. In(w) \in Seq(PairsOf(prog))
    BY <1>2, Formed
  <2>2. \A e \in DOMAIN In(w) : (e - 1) + 1 = e
    BY <2>1
  <2> QED
    BY <2>2
<1> HIDE DEF Copied, y
<1>8. /\ \A q \in PairsOf(prog) : slot'[q] = IF Copied(q) THEN q ELSE slot[q]
      /\ \A q \in PairsOf(prog) : content'[q] = IF Copied(q) THEN y(q) ELSE content[q]
  BY <1>1, <1>2
<1>9. ASSUME NEW e \in DOMAIN In(w)
      PROVE  new[<<w, e - 1>>] = old[In(w)[e]] /\ slot'[<<w, e - 1>>] # Nil
  <2> DEFINE q == <<w, e - 1>>
  <2>1. Copied(q) /\ q \in PairsOf(prog) /\ q # Nil
    BY <1>3, <1>4, <1>6, <1>9
  <2>2. slot'[q] = q /\ content'[q] = content[slot[In(w)[e]]]
    BY <1>7, <1>8, <2>1
  <2>3. new[q] = content[slot[In(w)[e]]]
    BY <2>1, <2>2, Values1
  <2>4. old[In(w)[e]] = content[slot[In(w)[e]]]
    <3>1. In(w)[e] \in PairsOf(prog) /\ slot[In(w)[e]] # Nil
      BY <1>4
    <3> QED
      BY <3>1 DEF ValOf
  <2> QED
    BY <2>1, <2>2, <2>3, <2>4
<1>10. ASSUME NEW q \in PairsOf(prog), ~Copied(q) PROVE slot'[q] = slot[q] /\ old[q] = new[q]
  <2>1. slot'[q] = slot[q]
    BY <1>8, <1>10
  <2>2. slot[q] # Nil => ~Copied(slot[q])
    <3>1. ASSUME NEW e \in DOMAIN In(w), slot[q] = <<w, e - 1>> PROVE FALSE
      <4>1. q = <<w, e - 1>>
        BY <1>4, <3>1, SlotOfVariable
      <4> QED
        BY <1>6, <1>10, <4>1
    <3> QED
      BY <1>6, <3>1
  <2>3. slot[q] # Nil => content'[slot[q]] = content[slot[q]]
    BY <1>2, <1>8, <2>2
  <2> QED
    BY <2>1, <2>3, Values1
<1>11. ~Copied(X) /\ \A z \in NodesOf(prog), k \in {0, 1} : z # w => ~Copied(<<z, k>>)
  BY <1>3, <1>4, <1>6
<1>12. Changed(old, new, w)
  BY <1>3, <1>10, <1>11 DEF Changed
<1>13. SlotsOK(prog, slot')
  <2> SUFFICES ASSUME NEW z \in NodesOf(prog), NEW k \in {0, 1}, prog.kind[z] # "While"
               PROVE  \/ slot'[<<z, k>>] = Nil
                      \/ prog.kind[z] = "While"
                      \/ k = 0 /\ prog.kind[z] = "Op" /\ slot'[<<z, k>>] = <<z, k>>
                      \/ /\ k = 0 /\ prog.kind[z] = "If"
                         /\ \E u \in NodesOf(prog) :
                              Contains(prog, z, u) /\ slot'[<<z, k>>] = <<u, 0>>
    BY DEF SlotsOK
  <2>1. slot'[<<z, k>>] = slot[<<z, k>>]
    BY <1>3, <1>10, <1>11 DEF Kind
  <2>2. \/ slot[<<z, k>>] = Nil
        \/ prog.kind[z] = "While"
        \/ k = 0 /\ prog.kind[z] = "Op" /\ slot[<<z, k>>] = <<z, k>>
        \/ /\ k = 0 /\ prog.kind[z] = "If"
           /\ \E u \in NodesOf(prog) : Contains(prog, z, u) /\ slot[<<z, k>>] = <<u, 0>>
    BY DEF SlotsOK
  <2> QED
    BY <2>1, <2>2
<1> HIDE DEF old, new
<1>14. /\ \A z \in NodesOf(prog), k \in {0, 1} : z # w => slot'[<<z, k>>] = slot[<<z, k>>]
       /\ slot'[X] = slot[X]
  BY <1>3, <1>10, <1>11
<1> QED
  BY <1>9, <1>12, <1>13, <1>14 DEF old, new

\* A Conditional without inputs copies nothing.
LEMMA EnterIfEffect ==
  ASSUME CallInv, OwnInv, NEW f \in NodesOf(prog), In(f) = <<>>, EnterLogic(f)
  PROVE  /\ ValOf(prog, slot', content') = ValOf(prog, slot, content)
         /\ \A q \in PairsOf(prog) : slot'[q] = slot[q]
<1> DEFINE Copied(q) == \E e \in ToCopy(f) : q = <<f, e - 1>>
<1>1. /\ slot' = [q \in DOMAIN slot |-> IF Copied(q) THEN q ELSE slot[q]]
      /\ content' = [q \in DOMAIN content |->
                       IF Copied(q) THEN content[slot[In(f)[q[2] + 1]]] ELSE content[q]]
  BY DEF EnterLogic, CopyInputs
<1>2. /\ slot \in [PairsOf(prog) -> PairsOf(prog) \cup {Nil}] /\ DOMAIN content = PairsOf(prog)
  BY DEF OwnInv, Own
<1>3. DOMAIN In(f) = {}
  OBVIOUS
<1>4. \A q : ~Copied(q)
  BY <1>3 DEF ToCopy
<1> HIDE DEF Copied
<1>5. \A q \in PairsOf(prog) : slot'[q] = slot[q] /\ content'[q] = content[q]
  BY <1>1, <1>2, <1>4
<1>6. ASSUME NEW q \in PairsOf(prog)
      PROVE  (IF slot'[q] = Nil THEN Nil ELSE content'[slot'[q]])
               = (IF slot[q] = Nil THEN Nil ELSE content[slot[q]])
  BY <1>2, <1>5
<1> QED
  BY <1>5, <1>6 DEF ValOf

LEMMA BranchEffect ==
  ASSUME CallInv, OwnInv, SlotsOK(prog, slot), Structured(prog), BranchEnd
  PROVE  /\ Kind(Top.node) = "If" /\ Top.node \in NodesOf(prog)
         /\ Changed(ValOf(prog, slot, content), ValOf(prog, slot', content'), Top.node)
         /\ ValOf(prog, slot', content')[<<Top.node, 0>>]
              = ValOf(prog, slot, content)[<<Last(Top), 0>>]
         /\ Last(Top) \in NodesOf(prog) /\ Kind(Last(Top)) = "Op"
         /\ Contains(prog, Top.node, Last(Top)) /\ Len(Nodes(Top)) \in DOMAIN Nodes(Top)
         /\ SlotsOK(prog, slot') /\ slot'[<<Top.node, 0>>] = slot[<<Last(Top), 0>>]
         /\ \A q \in PairsOf(prog) : q # <<Top.node, 0>> => slot'[q] = slot[q]
<1> DEFINE b == <<Top.node, 0>>
           u == Last(Top)
           old == ValOf(prog, slot, content)
           new == ValOf(prog, slot', content')
<1>1. /\ Top.part \in {"true", "false"} /\ slot' = [slot EXCEPT ![b] = slot[<<u, 0>>]]
      /\ content' = content
  BY DEF BranchEnd, Transferred
<1>2. /\ slot \in [PairsOf(prog) -> PairsOf(prog) \cup {Nil}] /\ DOMAIN content = PairsOf(prog)
      /\ prog \in Programs
  BY DEF OwnInv, Own, CallInv
<1>3. Top \in Calls
  BY GoodTop DEF BranchEnd, AtEnd, Running, CallInv
<1>4. Top.node \in NodesOf(prog) /\ Kind(Top.node) = "If" /\ Top.part \in PartsOf("If")
  BY <1>1, <1>3, CallFields DEF PartsOf
<1>5. Nodes(Top) = prog.scopes[Top.node][Top.part]
  BY <1>1, <1>2, <1>3, CallNodes
<1>6. /\ Len(Nodes(Top)) \in DOMAIN Nodes(Top)
      /\ u \in NodesOf(prog) /\ Contains(prog, Top.node, u)
  BY <1>2, <1>4, <1>5, ScopeNodes DEF Last
<1>7. Kind(u) = "Op"
  BY <1>2, <1>4, <1>6, Containing
<1>8. /\ \A z \in NodesOf(prog), k \in {0, 1} : <<z, k>> \in PairsOf(prog) /\ <<z, k>> # X
      /\ X \in PairsOf(prog)
  BY <1>2, PairFacts
<1> HIDE DEF u
<1>9. /\ slot'[b] = slot[<<u, 0>>] /\ <<u, 0>> \in PairsOf(prog) /\ b \in PairsOf(prog)
      /\ \A q \in PairsOf(prog) : q # b => slot'[q] = slot[q]
  BY <1>1, <1>2, <1>4, <1>6, <1>8
<1>10. /\ \A q \in PairsOf(prog) : new[q] = IF slot'[q] = Nil THEN Nil ELSE content[slot'[q]]
       /\ \A q \in PairsOf(prog) : old[q] = IF slot[q] = Nil THEN Nil ELSE content[slot[q]]
  BY <1>1 DEF ValOf
<1> HIDE DEF old, new
<1>11. new[b] = old[<<u, 0>>] /\ \A q \in PairsOf(prog) : q # b => new[q] = old[q]
  BY <1>9, <1>10
<1>12. Changed(old, new, Top.node)
  <2>1. b # X
    BY <1>4, <1>8
  <2> QED
    BY <1>8, <1>11, <2>1 DEF Changed
<1>13. SlotsOK(prog, slot')
  <2> SUFFICES ASSUME NEW z \in NodesOf(prog), NEW k \in {0, 1}
               PROVE  \/ slot'[<<z, k>>] = Nil
                      \/ prog.kind[z] = "While"
                      \/ k = 0 /\ prog.kind[z] = "Op" /\ slot'[<<z, k>>] = <<z, k>>
                      \/ /\ k = 0 /\ prog.kind[z] = "If"
                         /\ \E y \in NodesOf(prog) :
                              Contains(prog, z, y) /\ slot'[<<z, k>>] = <<y, 0>>
    BY DEF SlotsOK
  <2>1. CASE <<z, k>> = b
    <3>1. slot[<<u, 0>>] \in {Nil, <<u, 0>>}
      BY <1>6, <1>7, SlotOfOp
    <3>2. z = Top.node /\ k = 0 /\ slot'[<<z, k>>] = slot[<<u, 0>>]
      BY <1>9, <2>1
    <3> QED
      BY <1>4, <1>6, <3>1, <3>2 DEF Kind
  <2>2. CASE <<z, k>> # b
    <3>1. slot'[<<z, k>>] = slot[<<z, k>>]
      BY <1>8, <1>9, <2>2
    <3>2. \/ slot[<<z, k>>] = Nil
          \/ prog.kind[z] = "While"
          \/ k = 0 /\ prog.kind[z] = "Op" /\ slot[<<z, k>>] = <<z, k>>
          \/ /\ k = 0 /\ prog.kind[z] = "If"
             /\ \E y \in NodesOf(prog) : Contains(prog, z, y) /\ slot[<<z, k>>] = <<y, 0>>
      BY DEF SlotsOK
    <3> QED
      BY <3>1, <3>2
  <2> QED
    BY <2>1, <2>2
<1> QED
  BY <1>4, <1>6, <1>7, <1>9, <1>11, <1>12, <1>13 DEF u, old, new

---------------------------------------------------------------------------
(* Return *)

\* A Return assigns all its values at once if none that is assigned later is a variable
\* that has been assigned to.
LEMMA ReturnEffect ==
  ASSUME CallInv, OwnInv, NEW v \in NodesOf(prog), Kind(v) = "Return",
         NEW w \in NodesOf(prog), Kind(w) = "While", prog.out[v] = w,
         Len(In(v)) = Len(In(w)),
         \A i, j \in DOMAIN In(v) : j < i => In(v)[i] # <<w, j - 1>>,
         \A e \in DOMAIN In(v) : slot[In(v)[e]] # Nil /\ slot[<<w, e - 1>>] # Nil,
         slot' = slot, content' = Assigned(v)
  PROVE  /\ Changed(ValOf(prog, slot, content), ValOf(prog, slot', content'), w)
         /\ \A e \in DOMAIN In(w) :
              ValOf(prog, slot', content')[<<w, e - 1>>] = ValOf(prog, slot, content)[In(v)[e]]
<1> DEFINE old == ValOf(prog, slot, content)
           new == ValOf(prog, slot', content')
           n == Len(In(v))
<1>1. /\ slot \in [PairsOf(prog) -> PairsOf(prog) \cup {Nil}] /\ DOMAIN content = PairsOf(prog)
      /\ prog \in Programs
  BY DEF OwnInv, Own, CallInv
<1>2. /\ \A z \in NodesOf(prog), k \in {0, 1} :
           <<z, k>> \in PairsOf(prog) /\ <<z, k>> # Nil /\ <<z, k>> # X
      /\ X \in PairsOf(prog) /\ X # Nil
  BY <1>1, PairFacts
<1>3. In(v) \in Seq(PairsOf(prog)) /\ Len(In(v)) <= 2 /\ In(w) \in Seq(PairsOf(prog))
  BY <1>1, Formed
<1>4. DOMAIN In(v) = 1..n /\ DOMAIN In(w) = 1..n /\ n \in {0, 1, 2}
  BY <1>3, AssignedSteps
<1>5. \A e \in 1..n : In(v)[e] \in PairsOf(prog) /\ slot[In(v)[e]] \in PairsOf(prog)
  <2> SUFFICES ASSUME NEW e \in 1..n
               PROVE  In(v)[e] \in PairsOf(prog) /\ slot[In(v)[e]] \in PairsOf(prog)
    OBVIOUS
  <2>1. In(v)[e] \in PairsOf(prog)
    BY <1>3
  <2>2. slot[In(v)[e]] # Nil
    BY <1>4
  <2> QED
    BY <1>1, <2>1, <2>2
<1>6. \A k \in {0, 1} : slot[<<w, k>>] \in {Nil, <<w, k>>}
  BY SlotOfVariable
<1>7. \A e \in 1..n : slot[<<w, e - 1>>] # Nil
  BY <1>4
<1>8. /\ n = 1 => slot[<<w, 0>>] = <<w, 0>>
      /\ n = 2 => slot[<<w, 0>>] = <<w, 0>> /\ slot[<<w, 1>>] = <<w, 1>>
  <2>1. n = 1 => slot[<<w, 0>>] # Nil
    <3>1. n = 1 => 1 \in 1..n /\ 1 - 1 = 0
      OBVIOUS
    <3> HIDE DEF n
    <3> QED
      BY <1>7, <3>1
  <2>2. n = 2 => slot[<<w, 0>>] # Nil /\ slot[<<w, 1>>] # Nil
    <3>1. n = 2 => 1 \in 1..n /\ 1 - 1 = 0 /\ 2 \in 1..n /\ 2 - 1 = 1
      OBVIOUS
    <3> HIDE DEF n
    <3> QED
      BY <1>7, <3>1
  <2> QED
    BY <1>6, <2>1, <2>2
<1>9. n = 2 => slot[In(v)[2]] # <<w, 0>>
  <2> SUFFICES ASSUME n = 2 PROVE slot[In(v)[2]] # <<w, 0>>
    OBVIOUS
  <2>1. 1 \in DOMAIN In(v) /\ 2 \in DOMAIN In(v) /\ 1 < 2 /\ 1 - 1 = 0
    BY <1>4
  <2>2. In(v)[2] # <<w, 0>>
    BY <2>1
  <2>3. In(v)[2] \in PairsOf(prog)
    BY <1>4, <1>5, <2>1
  <2> QED
    BY <2>2, <2>3, SlotOfVariable
<1>10. n = 1 => /\ Assigned(v)[<<w, 0>>] = content[slot[In(v)[1]]]
  <2> SUFFICES ASSUME n = 1 PROVE Assigned(v)[<<w, 0>>] = content[slot[In(v)[1]]]
    OBVIOUS
  <2>1. Assigned(v) = [content EXCEPT ![<<w, 0>>] = content[slot[In(v)[1]]]]
    BY <1>3, <1>8, AssignedSteps DEF FirstAssigned
  <2>2. <<w, 0>> \in DOMAIN content
    BY <1>1, <1>2
  <2> QED
    BY <2>1, <2>2
<1>11. n = 2 => /\ Assigned(v)[<<w, 0>>] = content[slot[In(v)[1]]]
                /\ Assigned(v)[<<w, 1>>] = content[slot[In(v)[2]]]
  <2> SUFFICES ASSUME n = 2
               PROVE  /\ Assigned(v)[<<w, 0>>] = content[slot[In(v)[1]]]
                      /\ Assigned(v)[<<w, 1>>] = content[slot[In(v)[2]]]
    OBVIOUS
  <2> DEFINE f == FirstAssigned(v)
  <2>1. f = [content EXCEPT ![<<w, 0>>] = content[slot[In(v)[1]]]]
    BY <1>8 DEF FirstAssigned
  <2>2. Assigned(v) = [f EXCEPT ![<<w, 1>>] = f[slot[In(v)[2]]]]
    BY <1>3, <1>8, AssignedSteps
  <2>3. <<w, 0>> \in PairsOf(prog) /\ <<w, 1>> \in PairsOf(prog) /\ <<w, 0>> # <<w, 1>>
    BY <1>2
  <2>4. slot[In(v)[2]] \in PairsOf(prog)
    <3>1. 2 \in 1..n
      OBVIOUS
    <3> HIDE DEF n
    <3> QED
      BY <1>5, <3>1
  <2> HIDE DEF f
  <2>5. /\ DOMAIN f = PairsOf(prog) /\ f[<<w, 0>>] = content[slot[In(v)[1]]]
        /\ \A q \in PairsOf(prog) : q # <<w, 0>> => f[q] = content[q]
    BY <1>1, <2>1, <2>3
  <2>6. f[slot[In(v)[2]]] = content[slot[In(v)[2]]]
    BY <1>9, <2>4, <2>5
  <2> QED
    BY <2>2, <2>3, <2>5, <2>6
<1>12. ASSUME NEW e \in DOMAIN In(w)
       PROVE  content'[<<w, e - 1>>] = content[slot[In(v)[e]]] /\ slot[<<w, e - 1>>] = <<w, e - 1>>
  <2>1. (n = 1 /\ e = 1) \/ (n = 2 /\ e = 1) \/ (n = 2 /\ e = 2)
    <3> HIDE DEF n
    <3> QED
      BY <1>4
  <2>2. 1 - 1 = 0 /\ 2 - 1 = 1
    OBVIOUS
  <2> QED
    BY <1>8, <1>10, <1>11, <2>1, <2>2
<1>13. ASSUME NEW e \in DOMAIN In(w) PROVE new[<<w, e - 1>>] = old[In(v)[e]]
  <2>1. <<w, e - 1>> \in PairsOf(prog) /\ <<w, e - 1>> # Nil
    BY <1>1, <1>2, Variables
  <2>2. In(v)[e] \in PairsOf(prog) /\ slot[In(v)[e]] # Nil
    BY <1>4, <1>5
  <2>3. old[In(v)[e]] = content[slot[In(v)[e]]]
    BY <2>2 DEF ValOf
  <2>4. new[<<w, e - 1>>] = content'[slot'[<<w, e - 1>>]]
    BY <1>12, <2>1 DEF ValOf
  <2> QED
    BY <1>12, <2>3, <2>4
<1>14. ASSUME NEW q \in PairsOf(prog), \A k \in {0, 1} : q # <<w, k>>
       PROVE  old[q] = new[q]
  <2>1. CASE slot[q] = Nil
    BY <2>1 DEF ValOf
  <2>2. CASE slot[q] # Nil
    <3>1. slot[q] \in DOMAIN content
      BY <1>1, <2>2
    <3>2. ASSUME NEW i \in {0, 1} PROVE slot[q] # slot[<<w, i>>]
      BY <1>6, <1>14, <2>2, SlotOfVariable
    <3>3. content'[slot[q]] = content[slot[q]]
      BY <1>3, <3>1, <3>2, AssignedFacts
    <3> QED
      BY <3>3 DEF ValOf
  <2> QED
    BY <2>1, <2>2
<1> HIDE DEF old, new
<1>15. Changed(old, new, w)
  <2>1. old[X] = new[X]
    BY <1>2, <1>14
  <2>2. \A z \in NodesOf(prog), k \in {0, 1} : z # w => old[<<z, k>>] = new[<<z, k>>]
    BY <1>2, <1>14
  <2> QED
    BY <2>1, <2>2 DEF Changed
<1> QED
  BY <1>13, <1>15 DEF old, new

---------------------------------------------------------------------------
(* Calls that go on *)

Moved(f) == [f EXCEPT !.pos = @ + 1]

LEMMA MovedFields ==
  ASSUME NEW f \in Calls
  PROVE  /\ Moved(f) \in Calls /\ Moved(f).node = f.node /\ Moved(f).part = f.part
         /\ Moved(f).breaker = f.breaker /\ Moved(f).pos = f.pos + 1
         /\ NodesIn(prog, Moved(f)) = NodesIn(prog, f)
<1>1. f.pos + 1 \in Nat \ {0}
  BY CallFields
<1>2. [f EXCEPT !.pos = f.pos + 1] \in Calls
  BY <1>1, MovedCall
<1>3. Moved(f) = [f EXCEPT !.pos = f.pos + 1]
  BY DEF Moved
<1>4. /\ Moved(f).node = f.node /\ Moved(f).part = f.part
      /\ Moved(f).breaker = f.breaker /\ Moved(f).pos = f.pos + 1
  BY <1>3 DEF Calls
<1> QED
  BY <1>2, <1>3, <1>4 DEF NodesIn

LEMMA Next1Fields ==
  ASSUME NEW s, Good(s)
  PROVE  /\ Len(s) \in Nat \ {0} /\ DOMAIN s = 1..Len(s)
         /\ Len(Next1(s)) = Len(s) /\ DOMAIN Next1(s) = 1..Len(s)
         /\ Next1(s)[Len(s)] = Moved(s[Len(s)])
         /\ \A k \in 1..Len(s) : k # Len(s) => Next1(s)[k] = s[k]
<1>1. s \in Seq(Calls) /\ Len(s) \in Nat \ {0} /\ DOMAIN s = 1 .. Len(s)
  BY DEF Good
<1>2. Next1(s) = [s EXCEPT ![Len(s)] = Moved(s[Len(s)])]
  BY DEF Next1, Moved
<1>3. s[Len(s)] \in Calls /\ Moved(s[Len(s)]) \in Calls
  BY <1>1, MovedFields
<1> QED
  BY <1>1, <1>2, <1>3

LEMMA RunByMoved ==
  ASSUME prog \in Programs, NEW f \in Calls, NEW t, RunBy(prog, Moved(f), t)
  PROVE  RunBy(prog, f, t) \/ (f.pos \in DOMAIN NodesIn(prog, f) /\ t = NodesIn(prog, f)[f.pos])
<1>1. /\ Moved(f).node = f.node /\ Moved(f).part = f.part /\ Moved(f).pos = f.pos + 1
      /\ NodesIn(prog, Moved(f)) = NodesIn(prog, f) /\ f.pos \in Nat
  BY MovedFields, CallFields
<1>2. ASSUME NEW i \in DOMAIN NodesIn(prog, f), i < f.pos + 1, t = NodesIn(prog, f)[i]
      PROVE  RunBy(prog, f, t) \/ (f.pos \in DOMAIN NodesIn(prog, f) /\ t = NodesIn(prog, f)[f.pos])
  <2>1. NodesIn(prog, f) \in Seq(NodesOf(prog))
    BY CallIsIn
  <2>2. i \in Nat
    BY <2>1
  <2>3. i = f.pos \/ i < f.pos
    BY <1>1, <1>2, <2>2
  <2> QED
    BY <1>2, <2>3 DEF RunBy
<1> QED
  BY <1>1, <1>2 DEF RunBy

\* A call whose node has been executed goes on to the next.
LEMMA FrameMoved ==
  ASSUME prog \in Programs, NEW f \in Calls, NEW x, NEW env, FrameOK(prog, x, env, f),
         NEW sl, FrameHas(prog, sl, f),
         f.pos \in DOMAIN NodesIn(prog, f) =>
           /\ Done(prog, x, env, NodesIn(prog, f)[f.pos])
           /\ Has(prog, sl, NodesIn(prog, f)[f.pos])
  PROVE  FrameOK(prog, x, env, Moved(f)) /\ FrameHas(prog, sl, Moved(f))
<1>1. /\ Moved(f).node = f.node /\ Moved(f).part = f.part /\ Moved(f).breaker = f.breaker
  BY MovedFields
<1>2. ASSUME NEW t \in NodesOf(prog), RunBy(prog, Moved(f), t)
      PROVE  Done(prog, x, env, t) /\ Has(prog, sl, t)
  <2>1. CASE RunBy(prog, f, t)
    BY <2>1 DEF FrameOK, FrameHas
  <2>2. CASE f.pos \in DOMAIN NodesIn(prog, f) /\ t = NodesIn(prog, f)[f.pos]
    BY <2>2
  <2> QED
    BY <1>2, <2>1, <2>2, RunByMoved
<1>3. FrameOK(prog, x, env, Moved(f))
  BY <1>1, <1>2 DEF FrameOK
<1>4. FrameHas(prog, sl, Moved(f))
  BY <1>1, <1>2 DEF FrameHas
<1> QED
  BY <1>3, <1>4

LEMMA ResultPairs ==
  ASSUME prog \in Programs, NEW v \in NodesOf(prog)
  PROVE  Results(prog, v) \subseteq PairsOf(prog)
<1>1. CASE Kind(v) = "While"
  BY <1>1, Variables DEF Results, Kind, In
<1>2. CASE Kind(v) # "While"
  BY <1>2, PairFacts DEF Results, Kind
<1> QED
  BY <1>1, <1>2

LEMMA HasKept ==
  ASSUME prog \in Programs, NEW sl, NEW new,
         \A q \in PairsOf(prog) : sl[q] # Nil => new[q] # Nil
  PROVE  /\ \A v \in NodesOf(prog) : Has(prog, sl, v) => Has(prog, new, v)
         /\ \A f \in Calls : FrameHas(prog, sl, f) => FrameHas(prog, new, f)
<1>1. \A v \in NodesOf(prog) : Has(prog, sl, v) => Has(prog, new, v)
  BY ResultPairs DEF Has
<1>2. \A f \in Calls : f.part # "main" => f.node \in NodesOf(prog)
  BY CallFields
<1> QED
  BY <1>1, <1>2 DEF FrameHas

\* The slots of a While may hold anything.
LEMMA SlotsSame ==
  ASSUME NEW sl, NEW sn, SlotsOK(prog, sl),
         \A z \in NodesOf(prog), k \in {0, 1} : sn[<<z, k>>] = sl[<<z, k>>] \/ Kind(z) = "While"
  PROVE  SlotsOK(prog, sn)
<1> SUFFICES ASSUME NEW z \in NodesOf(prog), NEW k \in {0, 1}
             PROVE  \/ sn[<<z, k>>] = Nil
                    \/ prog.kind[z] = "While"
                    \/ k = 0 /\ prog.kind[z] = "Op" /\ sn[<<z, k>>] = <<z, 0>>
                    \/ /\ k = 0 /\ prog.kind[z] = "If"
                       /\ \E u \in NodesOf(prog) : Contains(prog, z, u) /\ sn[<<z, k>>] = <<u, 0>>
  BY DEF SlotsOK
<1>1. \/ sl[<<z, k>>] = Nil
      \/ prog.kind[z] = "While"
      \/ k = 0 /\ prog.kind[z] = "Op" /\ sl[<<z, k>>] = <<z, 0>>
      \/ /\ k = 0 /\ prog.kind[z] = "If"
         /\ \E u \in NodesOf(prog) : Contains(prog, z, u) /\ sl[<<z, k>>] = <<u, 0>>
  BY DEF SlotsOK
<1>2. sn[<<z, k>>] = sl[<<z, k>>] \/ prog.kind[z] = "While"
  BY DEF Kind
<1> QED
  BY <1>1, <1>2

\* Nodes of the main graph that are further on are others.
LEMMA LaterDiffers ==
  ASSUME prog \in Programs, Structured(prog), NEW i \in DOMAIN prog.main,
         NEW j \in DOMAIN prog.main, i < j
  PROVE  prog.main[i] # prog.main[j]
<1>1. prog.main[i] \in NodesOf(prog) /\ prog.main[j] \in NodesOf(prog)
  <2>1. prog.main \in Seq(NodesOf(prog))
    BY Formed
  <2> QED
    BY <2>1
<1>2. Before(prog, prog.main[i], prog.main[j])
  BY DEF Before, InTurn
<1>3. Order(prog)[prog.main[i]] \in Nat /\ Order(prog)[prog.main[i]] < Order(prog)[prog.main[j]]
  BY <1>1, <1>2, Ranks
<1> QED
  BY <1>3

LEMMA StackMoved ==
  ASSUME NEW s, Good(s), Nested(prog, s)
  PROVE  Nested(prog, Next1(s))
<1> DEFINE n == Len(s)
           t == Next1(s)
<1>1. /\ n \in Nat \ {0} /\ DOMAIN s = 1..n /\ DOMAIN t = 1..n /\ t[n] = Moved(s[n])
      /\ \A k \in 1..n : k # n => t[k] = s[k]
  BY Next1Fields
<1>2. s[n] \in Calls
  <2>1. s \in Seq(Calls) /\ s # <<>>
    BY DEF Good
  <2> QED
    BY <2>1
<1> HIDE DEF n, t
<1>3. \A k \in 1..n : t[k].node = s[k].node
  BY <1>1, <1>2, MovedFields
<1>4. ASSUME NEW k \in 1..n, k > 1
      PROVE  /\ t[k - 1].pos \in DOMAIN NodesIn(prog, t[k - 1])
             /\ t[k].node = NodesIn(prog, t[k - 1])[t[k - 1].pos]
  <2>1. k - 1 \in 1..n /\ k - 1 # n
    BY <1>1, <1>4
  <2>2. t[k - 1] = s[k - 1]
    BY <1>1, <2>1
  <2>3. /\ s[k - 1].pos \in DOMAIN NodesIn(prog, s[k - 1])
        /\ s[k].node = NodesIn(prog, s[k - 1])[s[k - 1].pos]
    BY <1>1, <1>4 DEF Nested
  <2> QED
    BY <1>3, <2>2, <2>3
<1>5. Nested(prog, t)
  BY <1>1, <1>4 DEF Nested
<1> QED
  BY <1>5 DEF t

\* The calls below the top.
LEMMA BelowFields ==
  ASSUME Good(stack), Top.part # "main"
  PROVE  /\ Good(Below) /\ Len(stack) \in Nat /\ Len(stack) > 1 /\ Len(Below) = Len(stack) - 1
         /\ DOMAIN stack = 1..Len(stack) /\ DOMAIN Below = 1..(Len(stack) - 1)
         /\ \A k \in 1..(Len(stack) - 1) : Below[k] = stack[k]
         /\ Nested(prog, stack) => Nested(prog, Below)
<1>1. stack \in Seq(Calls) /\ Len(stack) \in Nat /\ Len(stack) > 1 /\ DOMAIN stack = 1..Len(stack)
  <2>1. stack \in Seq(Calls)
    BY DEF Good
  <2> DEFINE n == Len(stack)
  <2>2. n \in Nat \ {0} /\ n # 1
    BY GoodTop
  <2>3. DOMAIN stack = 1..n
    BY <2>1
  <2> HIDE DEF n
  <2>4. n \in Nat /\ n > 1
    BY <2>2
  <2> QED
    BY <2>1, <2>3, <2>4 DEF n
<1>2. Good(Below) /\ Len(Below) = Len(stack) - 1
  BY GoodBelow
<1>3. DOMAIN Below = 1..(Len(stack) - 1) /\ \A k \in 1..(Len(stack) - 1) : Below[k] = stack[k]
  BY <1>1 DEF Below
<1>4. Nested(prog, stack) => Nested(prog, Below)
  BY <1>1, <1>3 DEF Nested
<1> QED
  BY <1>1, <1>2, <1>3, <1>4

\* The stack with another call f of the same op at the top.
LEMMA SetTopFields ==
  ASSUME Good(stack), Top.part # "main", NEW f \in Calls, f.part # "main", f.node = Top.node
  PROVE  /\ Len(SetTop(f)) = Len(stack) /\ DOMAIN SetTop(f) = 1..Len(stack)
         /\ SetTop(f)[Len(stack)] = f
         /\ \A k \in 1..(Len(stack) - 1) : SetTop(f)[k] = stack[k]
         /\ Nested(prog, stack) => Nested(prog, SetTop(f))
<1> DEFINE n == Len(stack)
<1>1. /\ Good(Below) /\ n \in Nat /\ n > 1 /\ Len(Below) = n - 1
      /\ DOMAIN stack = 1..n /\ \A k \in 1..(n - 1) : Below[k] = stack[k]
  BY BelowFields
<1>2. Below \in Seq(Calls)
  BY <1>1 DEF Good
<1> HIDE DEF Below
<1>3. /\ Len(SetTop(f)) = n /\ DOMAIN SetTop(f) = 1..n /\ SetTop(f)[n] = f
      /\ \A k \in 1..(n - 1) : SetTop(f)[k] = stack[k]
  BY <1>1, <1>2 DEF SetTop
<1>4. \A k \in 1..n : SetTop(f)[k].node = stack[k].node
  <2>1. \A k \in 1..n : k = n \/ k \in 1..(n - 1)
    BY <1>1
  <2>2. Top = stack[n]
    BY DEF Top
  <2> QED
    BY <1>3, <2>1, <2>2
<1>5. Nested(prog, stack) => Nested(prog, SetTop(f))
  <2> SUFFICES ASSUME Nested(prog, stack), NEW k \in 1..n, k > 1
               PROVE  /\ SetTop(f)[k - 1].pos \in DOMAIN NodesIn(prog, SetTop(f)[k - 1])
                      /\ SetTop(f)[k].node
                           = NodesIn(prog, SetTop(f)[k - 1])[SetTop(f)[k - 1].pos]
    BY <1>3 DEF Nested
  <2>1. k - 1 \in 1..(n - 1)
    BY <1>1
  <2>2. SetTop(f)[k - 1] = stack[k - 1]
    BY <1>3, <2>1
  <2>3. /\ stack[k - 1].pos \in DOMAIN NodesIn(prog, stack[k - 1])
        /\ stack[k].node = NodesIn(prog, stack[k - 1])[stack[k - 1].pos]
    BY <1>1 DEF Nested
  <2> QED
    BY <1>4, <2>2, <2>3
<1> QED
  BY <1>3, <1>5

---------------------------------------------------------------------------
(* Steps of the calls *)

\* From the slots sl to sn and the contents ct to cn, only what c leaves has changed.
Moves(sl, ct, sn, cn, c) ==
  /\ Changed(ValOf(prog, sl, ct), ValOf(prog, sn, cn), c)
  /\ \A q \in PairsOf(prog) : sl[q] # Nil => sn[q] # Nil
  /\ \A z \in NodesOf(prog), k \in {0, 1} : z # c => sn[<<z, k>>] = sl[<<z, k>>]

LEMMA MovesNot ==
  ASSUME NEW sl, NEW ct, NEW sn, NEW cn, NEW c, ValOf(prog, sn, cn) = ValOf(prog, sl, ct),
         \A q \in PairsOf(prog) : sn[q] = sl[q],
         prog \in Programs
  PROVE  Moves(sl, ct, sn, cn, c)
BY PairFacts DEF Moves, Changed

\* The calls are in good order.
Ready == /\ CallInv /\ OwnInv /\ FedInv /\ SlotsOK(prog, slot) /\ Structured(prog)
         /\ Running /\ runs \in Nat /\ runs > 0
         /\ CallsOK(prog, feed, stack, slot, content)

LEMMA ReadyFacts ==
  ASSUME Ready
  PROVE  /\ prog \in Programs /\ Good(stack) /\ Nested(prog, stack) /\ Untried(prog, stack, slot)
         /\ Top \in Calls /\ Top = stack[Len(stack)] /\ Len(stack) \in DOMAIN stack
         /\ \A k \in DOMAIN stack : /\ stack[k] \in Calls
                                    /\ FrameOK(prog, feed, ValOf(prog, slot, content), stack[k])
                                    /\ FrameHas(prog, slot, stack[k])
         /\ ValOf(prog, slot, content)[X] = feed /\ slot[X] # Nil
<1>1. /\ prog \in Programs /\ Good(stack) /\ Nested(prog, stack) /\ Untried(prog, stack, slot)
      /\ \A k \in DOMAIN stack : /\ FrameOK(prog, feed, ValOf(prog, slot, content), stack[k])
                                 /\ FrameHas(prog, slot, stack[k])
  BY DEF Ready, CallInv, Running, CallsOK
<1>2. \A k \in DOMAIN stack : stack[k] \in Calls
  BY <1>1 DEF Good
<1>3. Top \in Calls /\ Top = stack[Len(stack)]
  BY <1>1, GoodTop DEF Top
<1>4. Len(stack) \in DOMAIN stack
  <2>1. stack \in Seq(Calls) /\ stack # <<>>
    BY <1>1 DEF Good
  <2> QED
    BY <2>1
<1>5. slot[X] = X /\ content[X] = feed /\ X \in PairsOf(prog) /\ X # Nil
  BY <1>1, PairFacts DEF Ready, FedInv
<1>6. ValOf(prog, slot, content)[X] = feed
  BY <1>5, Values1
<1> QED
  BY <1>1, <1>2, <1>3, <1>4, <1>5, <1>6

\* The calls whose node c goes on, and those below it.
LEMMA FramesKept ==
  ASSUME Ready, NEW c \in NodesOf(prog), NEW sn, NEW cn, Moves(slot, content, sn, cn, c),
         NEW k \in DOMAIN stack,
         \A t \in NodesOf(prog) : RunBy(prog, stack[k], t) => Ahead(t, c),
         stack[k].part # "main" => Inside(prog, stack[k].node, c)
  PROVE  FrameOK(prog, feed, ValOf(prog, sn, cn), stack[k]) /\ FrameHas(prog, sn, stack[k])
<1> DEFINE old == ValOf(prog, slot, content)
           new == ValOf(prog, sn, cn)
<1>1. /\ prog \in Programs /\ Structured(prog) /\ stack[k] \in Calls
      /\ FrameOK(prog, feed, old, stack[k]) /\ FrameHas(prog, slot, stack[k])
  BY ReadyFacts DEF Ready
<1>2. Changed(old, new, c) /\ \A q \in PairsOf(prog) : slot[q] # Nil => sn[q] # Nil
  BY DEF Moves
<1> HIDE DEF old, new
<1>3. FrameOK(prog, feed, new, stack[k])
  BY <1>1, <1>2, FrameKept
<1>4. FrameHas(prog, sn, stack[k])
  BY <1>1, <1>2, HasKept
<1> QED
  BY <1>3, <1>4 DEF new

\* The call at the top has a node to execute.
LEMMA NodeAt ==
  ASSUME Ready, NEW c, At(c)
  PROVE  /\ c \in NodesOf(prog) /\ Top.pos \in DOMAIN NodesIn(prog, Top)
         /\ c = NodesIn(prog, Top)[Top.pos]
         /\ Top.part # "main" => Contains(prog, Top.node, c)
<1>1. prog \in Programs /\ Top \in Calls /\ Structured(prog)
  BY ReadyFacts DEF Ready
<1>2. NodesIn(prog, Top) = Nodes(Top) /\ NodesIn(prog, Top) \in Seq(NodesOf(prog))
  BY <1>1, CallIsIn
<1>3. Top.pos <= Len(Nodes(Top)) /\ Nodes(Top)[Top.pos] = c /\ Top.pos \in Nat \ {0}
  BY <1>1, CallFields DEF At
<1>4. Top.pos \in DOMAIN NodesIn(prog, Top)
  BY <1>2, <1>3
<1> QED
  BY <1>1, <1>2, <1>3, <1>4, CallIsIn

\* Where in the main graph the stack is.
LEMMA TopPlace ==
  ASSUME Ready, NEW j \in DOMAIN prog.main
  PROVE  /\ stack[1] \in Calls /\ stack[1].part = "main" /\ stack[1].pos \in Nat
         /\ \A c : At(c) /\ c = prog.main[j] => j <= stack[1].pos
         /\ Top.part # "main" /\ Top.node = prog.main[j] => j <= stack[1].pos
<1> DEFINE n == Len(stack)
<1>1. /\ prog \in Programs /\ Structured(prog) /\ Good(stack) /\ Nested(prog, stack)
      /\ Top \in Calls /\ Top = stack[n]
  BY ReadyFacts DEF Ready
<1>2. /\ n \in 1..3 /\ DOMAIN stack = 1..n
      /\ \A k \in 1..n : stack[k] \in Calls /\ (stack[k].part = "main" <=> k = 1)
      /\ \A k \in 2..n :
              /\ stack[k].node \in NodesOf(prog)
              /\ stack[k - 1].pos \in DOMAIN NodesIn(prog, stack[k - 1])
              /\ stack[k].node = NodesIn(prog, stack[k - 1])[stack[k - 1].pos]
      /\ n = 3 => Contains(prog, stack[2].node, stack[3].node)
  BY <1>1, Depth
<1> HIDE DEF n
<1>3. stack[1] \in Calls /\ stack[1].part = "main" /\ NodesIn(prog, stack[1]) = prog.main
  BY <1>2 DEF NodesIn
<1>4. stack[1].pos \in Nat /\ j \in Nat
  <2>1. prog.main \in Seq(NodesOf(prog))
    BY <1>1, Formed
  <2> QED
    BY <1>3, <2>1, CallFields
<1>5. ASSUME NEW c, stack[1].pos \in DOMAIN prog.main, c = prog.main[stack[1].pos],
             c = prog.main[j]
      PROVE  j <= stack[1].pos
  <2>1. ~(stack[1].pos < j)
    BY <1>1, <1>5, LaterDiffers
  <2> QED
    BY <1>4, <2>1
<1>6. ASSUME NEW c, At(c), c = prog.main[j] PROVE j <= stack[1].pos
  <2>1. /\ Top.pos \in DOMAIN NodesIn(prog, Top) /\ c = NodesIn(prog, Top)[Top.pos]
        /\ Top.part # "main" => Contains(prog, Top.node, c)
    BY <1>6, NodeAt
  <2>2. CASE Top.part = "main"
    <3>1. n = 1
      BY <1>1, <1>2, <2>2
    <3> QED
      BY <1>1, <1>3, <1>5, <1>6, <2>1, <3>1
  <2>3. CASE Top.part # "main"
    <3>1. Top.node \in NodesOf(prog)
      BY <1>1, <2>3, CallFields
    <3> QED
      BY <1>1, <1>6, <2>1, <2>3, <3>1, Containing
  <2> QED
    BY <2>2, <2>3
<1>7. ASSUME Top.part # "main", Top.node = prog.main[j] PROVE j <= stack[1].pos
  <2>1. n \in 2..3
    BY <1>1, <1>2, <1>3, <1>7
  <2>2. CASE n = 2
    <3>1. n - 1 = 1 /\ n \in 2..n
      BY <2>2
    <3>2. /\ stack[1].pos \in DOMAIN NodesIn(prog, stack[1])
          /\ stack[n].node = NodesIn(prog, stack[1])[stack[1].pos]
      BY <1>2, <3>1
    <3> QED
      BY <1>1, <1>3, <1>5, <1>7, <3>2
  <2>3. CASE n = 3
    <3>1. Contains(prog, stack[2].node, Top.node) /\ stack[2].node \in NodesOf(prog)
      BY <1>1, <1>2, <2>3
    <3> QED
      BY <1>1, <1>7, <3>1, Containing
  <2> QED
    BY <2>1, <2>2, <2>3
<1> QED
  BY <1>3, <1>4, <1>6, <1>7

LEMMA UntriedOn ==
  ASSUME Ready, NEW c \in NodesOf(prog), NEW sn, NEW cn, Moves(slot, content, sn, cn, c),
         \A j \in DOMAIN prog.main : c = prog.main[j] => j <= stack[1].pos,
         NEW new, new[1].pos \in Nat, new[1].pos >= stack[1].pos,
         new[1].pos = stack[1].pos => Len(new) # 1
  PROVE  Untried(prog, new, sn)
<1>1. prog \in Programs /\ Untried(prog, stack, slot)
  BY ReadyFacts
<1>2. prog.main \in Seq(NodesOf(prog))
  BY <1>1, Formed
<1> SUFFICES ASSUME NEW j \in DOMAIN prog.main, Kind(prog.main[j]) = "While",
                    j > new[1].pos \/ (j = new[1].pos /\ Len(new) = 1), NEW k \in {0, 1}
             PROVE  sn[<<prog.main[j], k>>] = Nil
  BY DEF Untried, Kind
<1>3. j \in Nat /\ prog.main[j] \in NodesOf(prog)
  BY <1>2
<1>4. stack[1].pos \in Nat
  BY TopPlace
<1>5. j > stack[1].pos
  BY <1>3, <1>4
<1>6. c # prog.main[j]
  BY <1>3, <1>4, <1>5
<1>7. sn[<<prog.main[j], k>>] = slot[<<prog.main[j], k>>]
  BY <1>3, <1>6 DEF Moves
<1>8. slot[<<prog.main[j], k>>] = Nil
  BY <1>1, <1>5 DEF Untried, Kind
<1> QED
  BY <1>7, <1>8

\* The node at the top is done, and its call goes on.
LEMMA TopGoesOn ==
  ASSUME Ready, NEW c, At(c), NEW sn, NEW cn, Moves(slot, content, sn, cn, c),
         Done(prog, feed, ValOf(prog, sn, cn), c), Has(prog, sn, c)
  PROVE  CallsOK(prog, feed, Next1(stack), sn, cn)
<1> DEFINE n == Len(stack)
           t == Next1(stack)
           env == ValOf(prog, sn, cn)
<1>1. /\ prog \in Programs /\ Structured(prog) /\ Good(stack) /\ Nested(prog, stack)
      /\ \A k \in DOMAIN stack : stack[k] \in Calls
  BY ReadyFacts DEF Ready
<1>2. /\ c \in NodesOf(prog) /\ Top.pos \in DOMAIN NodesIn(prog, Top)
      /\ c = NodesIn(prog, Top)[Top.pos] /\ Top = stack[n]
  BY NodeAt, ReadyFacts
<1>3. /\ n \in Nat \ {0} /\ DOMAIN stack = 1..n /\ Len(t) = n /\ DOMAIN t = 1..n
      /\ t[n] = Moved(stack[n]) /\ \A k \in 1..n : k # n => t[k] = stack[k]
  BY <1>1, Next1Fields
<1>4. Nested(prog, t)
  BY <1>1, StackMoved
<1> HIDE DEF t, env, n
<1>5. ASSUME NEW k \in 1..n
      PROVE  FrameOK(prog, feed, env, stack[k]) /\ FrameHas(prog, sn, stack[k])
  <2>1. k \in DOMAIN stack
    BY <1>3
  <2>2. /\ \A u \in NodesOf(prog) : RunBy(prog, stack[k], u) => Ahead(u, c)
        /\ stack[k].part # "main" => Inside(prog, stack[k].node, c)
    BY <1>1, <1>2, <2>1, AheadOf
  <2> QED
    BY <1>2, <2>1, <2>2, FramesKept DEF env
<1>6. FrameOK(prog, feed, env, t[n]) /\ FrameHas(prog, sn, t[n])
  <2>1. FrameOK(prog, feed, env, stack[n]) /\ FrameHas(prog, sn, stack[n]) /\ stack[n] \in Calls
    BY <1>1, <1>3, <1>5
  <2>2. /\ Done(prog, feed, env, NodesIn(prog, stack[n])[stack[n].pos])
        /\ Has(prog, sn, NodesIn(prog, stack[n])[stack[n].pos])
    BY <1>2 DEF env
  <2> QED
    BY <1>1, <1>3, <2>1, <2>2, FrameMoved
<1>7. \A k \in DOMAIN t : FrameOK(prog, feed, env, t[k]) /\ FrameHas(prog, sn, t[k])
  BY <1>3, <1>5, <1>6
<1>8. Untried(prog, t, sn)
  <2>1. \A j \in DOMAIN prog.main : c = prog.main[j] => j <= stack[1].pos
    BY TopPlace
  <2>2. stack[1] \in Calls /\ stack[1].pos \in Nat
    <3>1. 1 \in DOMAIN stack
      BY <1>3
    <3> QED
      BY <1>1, <3>1, CallFields
  <2>3. t[1].pos \in Nat /\ t[1].pos >= stack[1].pos /\ (t[1].pos = stack[1].pos => Len(t) # 1)
    <3>1. CASE n = 1
      <4>1. t[1].pos = stack[1].pos + 1
        BY <1>3, <2>2, <3>1, MovedFields
      <4> QED
        BY <2>2, <4>1
    <3>2. CASE n # 1
      <4>1. t[1] = stack[1]
        BY <1>3, <3>2
      <4> QED
        BY <1>3, <2>2, <3>2, <4>1
    <3> QED
      BY <3>1, <3>2
  <2> QED
    BY <1>2, <2>1, <2>3, UntriedOn
<1> QED
  BY <1>4, <1>7, <1>8 DEF CallsOK, t, env

\* The call at the top is over, and that below it goes on.
LEMMA BelowGoesOn ==
  ASSUME Ready, Top.part # "main", NEW sn, NEW cn, Moves(slot, content, sn, cn, Top.node),
         Done(prog, feed, ValOf(prog, sn, cn), Top.node), Has(prog, sn, Top.node)
  PROVE  CallsOK(prog, feed, Next1(Below), sn, cn)
<1> DEFINE m == Len(stack) - 1
           s == Below
           t == Next1(Below)
           env == ValOf(prog, sn, cn)
<1>1. /\ prog \in Programs /\ Structured(prog) /\ Good(stack) /\ Nested(prog, stack)
      /\ Top = stack[Len(stack)] /\ \A k \in DOMAIN stack : stack[k] \in Calls
  BY ReadyFacts DEF Ready
<1>2. /\ Good(s) /\ Len(stack) \in Nat /\ Len(stack) > 1 /\ Len(s) = m
      /\ DOMAIN stack = 1..Len(stack) /\ DOMAIN s = 1..m
      /\ \A k \in 1..m : s[k] = stack[k]
      /\ Nested(prog, s)
  BY <1>1, BelowFields
<1>3. /\ Len(t) = m /\ DOMAIN t = 1..m
      /\ t[m] = Moved(s[m]) /\ \A k \in 1..m : k # m => t[k] = s[k]
  BY <1>2, Next1Fields
<1>4. Nested(prog, t)
  BY <1>2, StackMoved
<1>5. m \in Nat \ {0} /\ Len(stack) = m + 1
  BY <1>2
<1> HIDE DEF s, t, env, m
<1>6. /\ Top.node \in NodesOf(prog) /\ stack[m].pos \in DOMAIN NodesIn(prog, stack[m])
      /\ Top.node = NodesIn(prog, stack[m])[stack[m].pos]
  <2>1. m + 1 \in DOMAIN stack /\ m + 1 > 1 /\ (m + 1) - 1 = m
    BY <1>2, <1>5
  <2>2. /\ stack[m].pos \in DOMAIN NodesIn(prog, stack[m])
        /\ stack[m + 1].node = NodesIn(prog, stack[m])[stack[m].pos]
    BY <1>1, <2>1 DEF Nested
  <2>3. Top.node \in NodesOf(prog)
    BY ReadyFacts, CallFields
  <2> QED
    BY <1>1, <1>5, <2>2, <2>3
<1>7. ASSUME NEW k \in 1..m
      PROVE  FrameOK(prog, feed, env, stack[k]) /\ FrameHas(prog, sn, stack[k])
  <2>1. k \in DOMAIN stack /\ k # Len(stack)
    BY <1>2, <1>5
  <2>2. /\ \A u \in NodesOf(prog) : RunBy(prog, stack[k], u) => Ahead(u, Top.node)
        /\ stack[k].part # "main" => Inside(prog, stack[k].node, Top.node)
    BY <1>1, <2>1, AheadTop
  <2> QED
    BY <1>6, <2>1, <2>2, FramesKept DEF env
<1>8. FrameOK(prog, feed, env, t[m]) /\ FrameHas(prog, sn, t[m])
  <2>1. m \in 1..m /\ s[m] = stack[m] /\ m \in DOMAIN stack
    BY <1>2, <1>5
  <2>2. FrameOK(prog, feed, env, stack[m]) /\ FrameHas(prog, sn, stack[m]) /\ stack[m] \in Calls
    BY <1>1, <1>7, <2>1
  <2>3. /\ Done(prog, feed, env, NodesIn(prog, stack[m])[stack[m].pos])
        /\ Has(prog, sn, NodesIn(prog, stack[m])[stack[m].pos])
    BY <1>6 DEF env
  <2> QED
    BY <1>1, <1>3, <2>1, <2>2, <2>3, FrameMoved
<1>9. \A k \in DOMAIN t : FrameOK(prog, feed, env, t[k]) /\ FrameHas(prog, sn, t[k])
  BY <1>2, <1>3, <1>7, <1>8
<1>10. Untried(prog, t, sn)
  <2>1. \A j \in DOMAIN prog.main : Top.node = prog.main[j] => j <= stack[1].pos
    BY TopPlace
  <2>2. stack[1] \in Calls /\ stack[1].pos \in Nat /\ s[1] = stack[1] /\ 1 \in 1..m
    <3>1. 1 \in DOMAIN stack /\ 1 \in 1..m
      BY <1>2, <1>5
    <3> QED
      BY <1>1, <1>2, <3>1, CallFields
  <2>3. t[1].pos \in Nat /\ t[1].pos >= stack[1].pos /\ (t[1].pos = stack[1].pos => Len(t) # 1)
    <3>1. CASE m = 1
      <4>1. t[1].pos = stack[1].pos + 1
        BY <1>3, <2>2, <3>1, MovedFields
      <4> QED
        BY <2>2, <4>1
    <3>2. CASE m # 1
      <4>1. t[1] = stack[1]
        BY <1>3, <2>2, <3>2
      <4> QED
        BY <1>3, <2>2, <3>2, <4>1
    <3> QED
      BY <3>1, <3>2
  <2> QED
    BY <1>6, <2>1, <2>3, UntriedOn
<1> QED
  BY <1>4, <1>9, <1>10 DEF CallsOK, t, env

\* The call at the top goes to another scope of its op.
LEMMA TopTurns ==
  ASSUME Ready, Top.part # "main", NEW sn, NEW cn, Moves(slot, content, sn, cn, Top.node),
         NEW f \in Calls, f.part # "main", f.node = Top.node,
         FrameOK(prog, feed, ValOf(prog, sn, cn), f), FrameHas(prog, sn, f)
  PROVE  CallsOK(prog, feed, SetTop(f), sn, cn)
<1> DEFINE n == Len(stack)
           t == SetTop(f)
           env == ValOf(prog, sn, cn)
<1>1. /\ prog \in Programs /\ Structured(prog) /\ Good(stack) /\ Nested(prog, stack)
      /\ \A k \in DOMAIN stack : stack[k] \in Calls
  BY ReadyFacts DEF Ready
<1>2. /\ n \in Nat /\ n > 1 /\ DOMAIN stack = 1..n
  BY <1>1, BelowFields
<1>3. /\ Len(t) = n /\ DOMAIN t = 1..n /\ t[n] = f /\ \A k \in 1..(n - 1) : t[k] = stack[k]
      /\ Nested(prog, t)
  BY <1>1, SetTopFields
<1>4. Top.node \in NodesOf(prog)
  BY ReadyFacts, CallFields
<1> HIDE DEF t, env, n
<1>5. ASSUME NEW k \in 1..(n - 1)
      PROVE  FrameOK(prog, feed, env, t[k]) /\ FrameHas(prog, sn, t[k])
  <2>1. k \in DOMAIN stack /\ k # n
    BY <1>2
  <2>2. k # Len(stack)
    BY <2>1 DEF n
  <2>3. /\ \A u \in NodesOf(prog) : RunBy(prog, stack[k], u) => Ahead(u, Top.node)
        /\ stack[k].part # "main" => Inside(prog, stack[k].node, Top.node)
    BY <1>1, <2>1, <2>2, AheadTop
  <2>4. FrameOK(prog, feed, env, stack[k]) /\ FrameHas(prog, sn, stack[k])
    BY <1>4, <2>1, <2>3, FramesKept DEF env
  <2> QED
    BY <1>3, <2>4
<1>6. \A k \in 1..n : k = n \/ k \in 1..(n - 1)
  BY <1>2
<1>7. FrameOK(prog, feed, env, t[n]) /\ FrameHas(prog, sn, t[n])
  BY <1>3 DEF env
<1>8. \A k \in DOMAIN t : FrameOK(prog, feed, env, t[k]) /\ FrameHas(prog, sn, t[k])
  BY <1>3, <1>5, <1>6, <1>7
<1>9. Untried(prog, t, sn)
  <2>1. \A j \in DOMAIN prog.main : Top.node = prog.main[j] => j <= stack[1].pos
    BY TopPlace
  <2>2. 1 \in DOMAIN stack /\ 1 \in 1..(n - 1) /\ n # 1
    BY <1>2
  <2>3. stack[1].pos \in Nat /\ t[1] = stack[1]
    BY <1>1, <1>3, <2>2, CallFields
  <2>4. t[1].pos \in Nat /\ t[1].pos >= stack[1].pos /\ Len(t) # 1
    BY <1>3, <2>2, <2>3
  <2> QED
    BY <1>4, <2>1, <2>4, UntriedOn
<1> QED
  BY <1>3, <1>8, <1>9 DEF CallsOK, t, env

\* The node at the top makes a call.
LEMMA TopCalls ==
  ASSUME Ready, NEW c, At(c), NEW sn, NEW cn, Moves(slot, content, sn, cn, c),
         NEW f \in Calls, f.node = c,
         FrameOK(prog, feed, ValOf(prog, sn, cn), f), FrameHas(prog, sn, f)
  PROVE  CallsOK(prog, feed, Append(stack, f), sn, cn)
<1> DEFINE n == Len(stack)
           t == Append(stack, f)
           env == ValOf(prog, sn, cn)
<1>1. /\ prog \in Programs /\ Structured(prog) /\ Good(stack) /\ Nested(prog, stack)
      /\ \A k \in DOMAIN stack : stack[k] \in Calls
  BY ReadyFacts DEF Ready
<1>2. /\ c \in NodesOf(prog) /\ Top.pos \in DOMAIN NodesIn(prog, Top)
      /\ c = NodesIn(prog, Top)[Top.pos] /\ Top = stack[n]
  BY NodeAt, ReadyFacts
<1>3. stack \in Seq(Calls) /\ stack # <<>>
  BY <1>1 DEF Good
<1>4. /\ n \in Nat \ {0} /\ DOMAIN stack = 1..n /\ Len(t) = n + 1 /\ DOMAIN t = 1..(n + 1)
      /\ t[n + 1] = f /\ \A k \in 1..n : t[k] = stack[k]
  BY <1>3
<1> HIDE DEF t, env, n
<1>5. ASSUME NEW k \in 1..n
      PROVE  FrameOK(prog, feed, env, t[k]) /\ FrameHas(prog, sn, t[k])
  <2>1. k \in DOMAIN stack
    BY <1>4
  <2>2. /\ \A u \in NodesOf(prog) : RunBy(prog, stack[k], u) => Ahead(u, c)
        /\ stack[k].part # "main" => Inside(prog, stack[k].node, c)
    BY <1>1, <1>2, <2>1, AheadOf
  <2>3. FrameOK(prog, feed, env, stack[k]) /\ FrameHas(prog, sn, stack[k])
    BY <1>2, <2>1, <2>2, FramesKept DEF env
  <2> QED
    BY <1>4, <2>3
<1>6. \A k \in 1..(n + 1) : k = n + 1 \/ k \in 1..n
  BY <1>4
<1>7. FrameOK(prog, feed, env, t[n + 1]) /\ FrameHas(prog, sn, t[n + 1])
  BY <1>4 DEF env
<1>8. \A k \in DOMAIN t : FrameOK(prog, feed, env, t[k]) /\ FrameHas(prog, sn, t[k])
  BY <1>4, <1>5, <1>6, <1>7
<1>9. Nested(prog, t)
  <2> SUFFICES ASSUME NEW k \in 1..(n + 1), k > 1
               PROVE  /\ t[k - 1].pos \in DOMAIN NodesIn(prog, t[k - 1])
                      /\ t[k].node = NodesIn(prog, t[k - 1])[t[k - 1].pos]
    BY <1>4 DEF Nested
  <2>1. k - 1 \in 1..n
    BY <1>4
  <2>2. t[k - 1] = stack[k - 1]
    BY <1>4, <2>1
  <2>3. CASE k = n + 1
    <3>1. k - 1 = n
      BY <1>4, <2>3
    <3>2. t[k].node = c
      BY <1>4, <2>3
    <3> QED
      BY <1>2, <2>2, <3>1, <3>2
  <2>4. CASE k # n + 1
    <3>1. k \in 1..n
      BY <1>4, <2>4
    <3>2. /\ stack[k - 1].pos \in DOMAIN NodesIn(prog, stack[k - 1])
          /\ stack[k].node = NodesIn(prog, stack[k - 1])[stack[k - 1].pos]
      BY <1>1, <1>4, <3>1 DEF Nested
    <3>3. t[k] = stack[k]
      BY <1>4, <3>1
    <3> QED
      BY <2>2, <3>2, <3>3
  <2> QED
    BY <2>3, <2>4
<1>10. Untried(prog, t, sn)
  <2>1. \A j \in DOMAIN prog.main : c = prog.main[j] => j <= stack[1].pos
    BY TopPlace
  <2>2. 1 \in DOMAIN stack /\ 1 \in 1..n /\ n + 1 # 1
    BY <1>4
  <2>3. stack[1].pos \in Nat /\ t[1] = stack[1]
    BY <1>1, <1>4, <2>2, CallFields
  <2>4. t[1].pos \in Nat /\ t[1].pos >= stack[1].pos /\ Len(t) # 1
    BY <1>4, <2>2, <2>3
  <2> QED
    BY <1>2, <2>1, <2>4, UntriedOn
<1> QED
  BY <1>8, <1>9, <1>10 DEF CallsOK, t, env

---------------------------------------------------------------------------
(* The meaning, action by action *)

LEMMA MeaningOp ==
  ASSUME Ready, NEW v \in NodesOf(prog), ExecuteOp(v)
  PROVE  SlotsOK(prog, slot') /\ CallsOK(prog, feed, stack', slot', content')
<1>1. Kind(v) = "Op" /\ At(v) /\ stack' = Next1(stack)
  BY DEF ExecuteOp
<1>2. /\ Changed(ValOf(prog, slot, content), ValOf(prog, slot', content'), v)
      /\ OpHolds(prog, ValOf(prog, slot', content'), v)
      /\ SlotsOK(prog, slot') /\ slot'[<<v, 0>>] # Nil
      /\ \A q \in PairsOf(prog) : q # <<v, 0>> => slot'[q] = slot[q]
  BY OpEffect DEF Ready
<1>3. prog \in Programs
  BY ReadyFacts
<1>4. /\ \A q \in PairsOf(prog) : slot[q] # Nil => slot'[q] # Nil
      /\ \A z \in NodesOf(prog), k \in {0, 1} : z # v => slot'[<<z, k>>] = slot[<<z, k>>]
  BY <1>2, <1>3, PairFacts
<1>5. Moves(slot, content, slot', content', v)
  BY <1>2, <1>4 DEF Moves
<1>6. Done(prog, feed, ValOf(prog, slot', content'), v) /\ Has(prog, slot', v)
  BY <1>1, <1>2 DEF Done, Holds, Has, Results, Kind
<1> QED
  BY <1>1, <1>2, <1>5, <1>6, TopGoesOn

\* A new call has run nothing.
LEMMA NewCall ==
  ASSUME NEW v \in NodesOf(prog), Kind(v) \in {"While", "If"}
  PROVE  /\ Frame(v, "cond") \in Calls /\ Frame(v, "cond").node = v
         /\ Frame(v, "cond").part = "cond" /\ Frame(v, "cond").breaker = 0
         /\ prog \in Programs => \A t : ~RunBy(prog, Frame(v, "cond"), t)
<1>1. /\ Frame(v, "cond") \in Calls /\ Frame(v, "cond").node = v
      /\ Frame(v, "cond").part = "cond" /\ Frame(v, "cond").breaker = 0
      /\ Frame(v, "cond").pos = 1
  BY FramesAreCalls DEF Frame
<1> HIDE DEF Frame
<1>2. ASSUME prog \in Programs, NEW t, RunBy(prog, Frame(v, "cond"), t) PROVE FALSE
  <2>1. NodesIn(prog, Frame(v, "cond")) \in Seq(NodesOf(prog))
    BY <1>1, <1>2, CallIsIn
  <2>2. PICK i \in DOMAIN NodesIn(prog, Frame(v, "cond")) : i < 1
    BY <1>1, <1>2 DEF RunBy
  <2> QED
    BY <2>1, <2>2
<1> QED
  BY <1>1, <1>2

LEMMA MeaningIf ==
  ASSUME Ready, NEW v \in NodesOf(prog), Kind(v) = "If", EnterLogic(v)
  PROVE  SlotsOK(prog, slot') /\ CallsOK(prog, feed, stack', slot', content')
<1>1. At(v) /\ stack' = Append(stack, Frame(v, "cond"))
  BY DEF EnterLogic
<1>2. prog \in Programs /\ In(v) = <<>> /\ CallInv /\ OwnInv /\ SlotsOK(prog, slot)
  BY ReadyFacts DEF Ready, Structured, Shaped, GoodIf, Kind, In
<1>3. /\ ValOf(prog, slot', content') = ValOf(prog, slot, content)
      /\ \A q \in PairsOf(prog) : slot'[q] = slot[q]
  BY <1>2, EnterIfEffect
<1>4. Moves(slot, content, slot', content', v)
  BY <1>2, <1>3, MovesNot
<1>5. SlotsOK(prog, slot')
  <2>1. \A z \in NodesOf(prog), k \in {0, 1} : slot'[<<z, k>>] = slot[<<z, k>>]
    BY <1>2, <1>3, PairFacts
  <2> QED
    BY <1>2, <2>1, SlotsSame
<1>6. /\ Frame(v, "cond") \in Calls /\ Frame(v, "cond").node = v
      /\ Frame(v, "cond").part = "cond" /\ \A t : ~RunBy(prog, Frame(v, "cond"), t)
  BY <1>2, NewCall
<1> HIDE DEF Frame
<1>7. FrameOK(prog, feed, ValOf(prog, slot', content'), Frame(v, "cond"))
  BY <1>6 DEF FrameOK, Kind
<1>8. FrameHas(prog, slot', Frame(v, "cond"))
  BY <1>6 DEF FrameHas, Kind
<1> QED
  BY <1>1, <1>4, <1>5, <1>6, <1>7, <1>8, TopCalls

\* A While is in the main graph: what is before it has been run.
LEMMA MainWhile ==
  ASSUME Ready, NEW w \in NodesOf(prog), Kind(w) = "While",
         At(w) \/ (Top.part # "main" /\ Top.node = w)
  PROVE  \E m \in DOMAIN prog.main :
           /\ m = stack[1].pos /\ prog.main[m] = w /\ 1 \in DOMAIN stack
           /\ Solves(prog, feed, ValOf(prog, slot, content), m)
           /\ \A i \in DOMAIN prog.main : i < m => Has(prog, slot, prog.main[i])
           /\ At(w) => Len(stack) = 1
<1> DEFINE n == Len(stack)
           old == ValOf(prog, slot, content)
           m == stack[1].pos
<1>1. /\ prog \in Programs /\ Structured(prog) /\ Good(stack) /\ Nested(prog, stack)
      /\ Top = stack[n] /\ Top \in Calls /\ old[X] = feed
  BY ReadyFacts DEF Ready
<1>2. /\ n \in 1..3 /\ DOMAIN stack = 1..n
      /\ \A k \in 1..n : stack[k] \in Calls /\ (stack[k].part = "main" <=> k = 1)
      /\ \A k \in 2..n :
              /\ stack[k - 1].pos \in DOMAIN NodesIn(prog, stack[k - 1])
              /\ stack[k].node = NodesIn(prog, stack[k - 1])[stack[k - 1].pos]
      /\ n = 3 => Kind(stack[3].node) = "If"
  BY <1>1, Depth
<1>3. /\ 1 \in DOMAIN stack
      /\ FrameOK(prog, feed, old, stack[1]) /\ FrameHas(prog, slot, stack[1])
  BY <1>2, ReadyFacts
<1> HIDE DEF n, old
<1>4. NodesIn(prog, stack[1]) = prog.main
  BY <1>2, <1>3 DEF NodesIn
<1>5. m \in DOMAIN prog.main /\ prog.main[m] = w /\ (At(w) => n = 1)
  <2>1. CASE At(w)
    <3>1. /\ Top.pos \in DOMAIN NodesIn(prog, Top) /\ w = NodesIn(prog, Top)[Top.pos]
          /\ Top.part # "main" => Contains(prog, Top.node, w)
      BY <2>1, NodeAt
    <3>2. Top.part = "main"
      <4> SUFFICES ASSUME Top.part # "main" PROVE FALSE
        OBVIOUS
      <4>1. Top.node \in NodesOf(prog)
        BY <1>1, CallFields
      <4> QED
        BY <1>1, <3>1, <4>1, Containing
    <3>3. n \in 1..n
      BY <1>2
    <3>4. n = 1
      BY <1>1, <1>2, <3>2, <3>3
    <3> QED
      BY <1>1, <1>4, <3>1, <3>4
  <2>2. CASE Top.part # "main" /\ Top.node = w /\ ~At(w)
    <3>1. n = 2
      <4>1. n # 1
        BY <1>1, <1>2, <1>3, <2>2
      <4>2. n # 3
        BY <1>1, <1>2, <2>2
      <4> QED
        BY <1>2, <4>1, <4>2
    <3>2. n \in 2..n /\ n - 1 = 1
      BY <3>1
    <3>3. stack[1].pos \in DOMAIN NodesIn(prog, stack[1]) /\ stack[n].node = NodesIn(prog, stack[1])[stack[1].pos]
      BY <1>2, <3>2
    <3> QED
      BY <1>1, <1>4, <2>2, <3>3
  <2> QED
    BY <2>1, <2>2
<1>6. ASSUME NEW i \in DOMAIN prog.main, i < m
      PROVE  Done(prog, feed, old, prog.main[i]) /\ Has(prog, slot, prog.main[i])
  <2>1. prog.main[i] \in NodesOf(prog)
    <3>1. prog.main \in Seq(NodesOf(prog))
      BY <1>1, Formed
    <3> QED
      BY <3>1
  <2>2. RunBy(prog, stack[1], prog.main[i])
    BY <1>4, <1>6 DEF RunBy
  <2> QED
    BY <1>3, <2>1, <2>2 DEF FrameOK, FrameHas
<1>7. Solves(prog, feed, old, m)
  BY <1>1, <1>6 DEF Solves
<1> QED
  BY <1>3, <1>5, <1>6, <1>7 DEF n, old

\* A While begins with what its inputs have.
LEMMA MeaningWhile ==
  ASSUME Ready, Meant(prog), feed \in prog.feeds, NEW w \in NodesOf(prog), Kind(w) = "While",
         EnterLogic(w)
  PROVE  SlotsOK(prog, slot') /\ CallsOK(prog, feed, stack', slot', content')
<1> DEFINE old == ValOf(prog, slot, content)
           new == ValOf(prog, slot', content')
           f == Frame(w, "cond")
<1>1. At(w) /\ stack' = Append(stack, f)
  BY DEF EnterLogic
<1>2. /\ prog \in Programs /\ Structured(prog) /\ CallInv /\ OwnInv /\ SlotsOK(prog, slot)
      /\ Untried(prog, stack, slot) /\ slot[X] # Nil
  BY ReadyFacts DEF Ready
<1>3. PICK m \in DOMAIN prog.main :
           /\ m = stack[1].pos /\ prog.main[m] = w
           /\ Solves(prog, feed, old, m)
           /\ \A i \in DOMAIN prog.main : i < m => Has(prog, slot, prog.main[i])
           /\ Len(stack) = 1
  BY <1>1, MainWhile
<1>4. \A k \in {0, 1} : slot[<<w, k>>] = Nil
  BY <1>2, <1>3 DEF Untried, Kind
<1>5. ASSUME NEW e \in DOMAIN In(w) PROVE slot[In(w)[e]] # Nil
  <2>1. \/ In(w)[e] = X
        \/ \E i \in DOMAIN prog.main : i < m /\ In(w)[e] \in Results(prog, prog.main[i])
    BY <1>2, <1>3, <1>5 DEF Structured, Shaped, In, Kind
  <2> QED
    BY <1>2, <1>3, <2>1 DEF Has
<1> HIDE DEF f
<1>6. /\ Changed(old, new, w)
      /\ \A e \in DOMAIN In(w) : /\ new[<<w, e - 1>>] = old[In(w)[e]]
                                 /\ slot'[<<w, e - 1>>] # Nil
      /\ SlotsOK(prog, slot')
      /\ \A z \in NodesOf(prog), k \in {0, 1} : z # w => slot'[<<z, k>>] = slot[<<z, k>>]
      /\ slot'[X] = slot[X]
  BY <1>2, <1>4, <1>5, EnterEffect
<1> HIDE DEF old, new
<1>7. Moves(slot, content, slot', content', w)
  <2>1. ASSUME NEW q \in PairsOf(prog), slot[q] # Nil PROVE slot'[q] # Nil
    <3>1. CASE q = X
      BY <1>6, <2>1, <3>1
    <3>2. CASE q # X
      <4>1. PICK z \in NodesOf(prog), k \in {0, 1} : q = <<z, k>>
        BY <1>2, <3>2, PairFacts
      <4>2. z # w
        BY <1>4, <2>1, <4>1
      <4> QED
        BY <1>6, <2>1, <4>1, <4>2
    <3> QED
      BY <3>1, <3>2
  <2> QED
    BY <1>6, <2>1 DEF Moves, old, new
<1>8. InState(prog, feed, new, w, 1)
  <2>1. \A e \in DOMAIN In(w) : prog.orbit[feed][w][1][e] = old[In(w)[e]]
    <3>1. Begins(prog, feed, w, old)
      BY <1>3 DEF Meant, Kind
    <3> QED
      BY <3>1 DEF Begins, In
  <2> QED
    BY <1>6, <2>1 DEF InState, In
<1>9. Reached(prog, feed, new, w, 1) /\ 1 \in 1..LoopLimit
  BY <1>8, ScopedLogicAssumption DEF Reached
<1>10. /\ f \in Calls /\ f.node = w /\ f.part = "cond" /\ f.breaker = 0
       /\ \A t : ~RunBy(prog, f, t)
  BY <1>2, NewCall DEF f
<1>11. FrameOK(prog, feed, new, f)
  BY <1>9, <1>10 DEF FrameOK
<1>12. FrameHas(prog, slot', f)
  <2>1. Has(prog, slot', w)
    BY <1>6 DEF Has, Results, Kind, In
  <2> QED
    BY <1>10, <2>1 DEF FrameHas
<1> QED
  BY <1>1, <1>6, <1>7, <1>10, <1>11, <1>12, TopCalls DEF new

\* What a call that is over has run.
LEMMA RunAll ==
  ASSUME Ready, AtEnd
  PROVE  /\ \A i \in DOMAIN NodesIn(prog, Top) : RunBy(prog, Top, NodesIn(prog, Top)[i])
         /\ \A v \in NodesOf(prog) : RunBy(prog, Top, v) =>
              /\ Done(prog, feed, ValOf(prog, slot, content), v)
              /\ Has(prog, slot, v)
<1>1. /\ prog \in Programs /\ Top \in Calls /\ Top = stack[Len(stack)] /\ Len(stack) \in DOMAIN stack
  BY ReadyFacts
<1>2. /\ FrameOK(prog, feed, ValOf(prog, slot, content), Top) /\ FrameHas(prog, slot, Top)
  BY <1>1, ReadyFacts
<1>3. /\ NodesIn(prog, Top) = Nodes(Top) /\ NodesIn(prog, Top) \in Seq(NodesOf(prog))
      /\ Top.pos \in Nat /\ Top.pos > Len(Nodes(Top))
  BY <1>1, CallIsIn, CallFields DEF AtEnd
<1>4. ASSUME NEW i \in DOMAIN NodesIn(prog, Top) PROVE i < Top.pos
  BY <1>3
<1> QED
  BY <1>2, <1>4 DEF RunBy, FrameOK, FrameHas

\* A condition has no loops, and its last node is an op.
LEMMA Conditions ==
  ASSUME prog \in Programs, Structured(prog), NEW w \in NodesOf(prog), Kind(w) \in {"While", "If"}
  PROVE  /\ \A i \in DOMAIN prog.scopes[w]["cond"] :
              /\ prog.scopes[w]["cond"][i] \in NodesOf(prog)
              /\ Kind(prog.scopes[w]["cond"][i]) \in {"Op", "If"}
              /\ Kind(w) = "If" => Kind(prog.scopes[w]["cond"][i]) = "Op"
         /\ LastOf(prog.scopes[w]["cond"]) \in NodesOf(prog)
         /\ Kind(LastOf(prog.scopes[w]["cond"])) = "Op"
         /\ \E i \in DOMAIN prog.scopes[w]["cond"] :
              prog.scopes[w]["cond"][i] = LastOf(prog.scopes[w]["cond"])
<1>1. "cond" \in PartsOf(Kind(w))
  BY DEF PartsOf
<1>2. /\ Len(prog.scopes[w]["cond"]) \in DOMAIN prog.scopes[w]["cond"]
      /\ \A i \in DOMAIN prog.scopes[w]["cond"] : prog.scopes[w]["cond"][i] \in NodesOf(prog)
  BY <1>1, ScopeNodes
<1>3. CASE Kind(w) = "While"
  BY <1>2, <1>3 DEF Structured, Shaped, GoodWhile, IsSimple, LastOf, Kind
<1>4. CASE Kind(w) = "If"
  <2>1. "cond" \in PartsOf("If") /\ Kind(w) # "While"
    BY <1>4 DEF PartsOf
  <2>2. \A i \in DOMAIN prog.scopes[w]["cond"] : Kind(prog.scopes[w]["cond"][i]) = "Op"
    BY <1>4, <2>1 DEF Structured, Shaped, GoodIf, Kind
  <2> QED
    BY <1>2, <2>2 DEF LastOf
<1> QED
  BY <1>3, <1>4

\* What the condition of w, whose scope is run at the top, has decided.
LEMMA Decided ==
  ASSUME Ready, AtEnd, Top.part = "cond", ById(Last(Top)) # Nil
  PROVE  /\ Tested(prog, ValOf(prog, slot, content), Top.node)
         /\ content[ById(Last(Top))] = Test(prog, ValOf(prog, slot, content), Top.node)
         /\ Top.node \in NodesOf(prog) /\ Kind(Top.node) \in {"While", "If"}
<1> DEFINE old == ValOf(prog, slot, content)
           w == Top.node
           c == prog.scopes[w]["cond"]
<1>1. prog \in Programs /\ Structured(prog) /\ Top \in Calls /\ CallInv /\ OwnInv /\ SlotsOK(prog, slot)
  BY ReadyFacts DEF Ready
<1>2. w \in NodesOf(prog) /\ Kind(w) \in {"While", "If"}
  BY <1>1, CallFields
<1>3. NodesIn(prog, Top) = c /\ Nodes(Top) = c
  BY <1>1, CallIsIn DEF NodesIn
<1>4. Tested(prog, old, w)
  <2> SUFFICES ASSUME NEW i \in DOMAIN c PROVE Holds(prog, old, c[i])
    BY DEF Tested
  <2>1. c[i] \in NodesOf(prog) /\ Kind(c[i]) \in {"Op", "If"}
    BY <1>1, <1>2, Conditions
  <2>2. Done(prog, feed, old, c[i])
    BY <1>3, <2>1, RunAll
  <2> QED
    BY <2>1, <2>2 DEF Done, Kind
<1>5. Last(Top) = LastOf(c)
  BY <1>3 DEF Last, LastOf
<1>6. LastOf(c) \in NodesOf(prog) /\ Kind(LastOf(c)) = "Op"
  BY <1>1, <1>2, Conditions
<1>7. ById(LastOf(c)) = <<LastOf(c), 0>> /\ slot[<<LastOf(c), 0>>] = <<LastOf(c), 0>>
  BY <1>1, <1>5, <1>6, SlotOfOp DEF ById
<1>8. <<LastOf(c), 0>> \in PairsOf(prog) /\ <<LastOf(c), 0>> # Nil
  BY <1>1, <1>6, PairFacts
<1>9. old[<<LastOf(c), 0>>] = content[<<LastOf(c), 0>>]
  BY <1>7, <1>8, Values1
<1> QED
  BY <1>2, <1>4, <1>5, <1>7, <1>9 DEF Test

\* A condition selects a branch, or lets the loop go on or end.
LEMMA MeaningDecide ==
  ASSUME Ready, Decide, Running'
  PROVE  SlotsOK(prog, slot') /\ CallsOK(prog, feed, stack', slot', content')
<1> DEFINE old == ValOf(prog, slot, content)
           w == Top.node
           part == ScopeFor(content[ById(Last(Top))])
           f == [Top EXCEPT !.part = part, !.pos = 1]
<1>1. /\ prog \in Programs /\ Structured(prog) /\ Top \in Calls /\ SlotsOK(prog, slot)
      /\ Len(stack) \in DOMAIN stack /\ Top = stack[Len(stack)]
  BY ReadyFacts DEF Ready
<1>2. AtEnd /\ Top.part = "cond" /\ ById(Last(Top)) # Nil
  BY DEF Decide, Crash, Running
<1>3. /\ stack' = IF part = "none" THEN Next1(Below) ELSE SetTop(f)
      /\ slot' = slot /\ content' = content
  BY <1>2 DEF Decide
<1>4. /\ Tested(prog, old, w) /\ content[ById(Last(Top))] = Test(prog, old, w)
      /\ w \in NodesOf(prog) /\ Kind(w) \in {"While", "If"}
  BY <1>2, Decided
<1>5. FrameOK(prog, feed, old, Top) /\ FrameHas(prog, slot, Top)
  BY <1>1, ReadyFacts
<1>6. Moves(slot, content, slot', content', w)
  BY <1>1, <1>3, MovesNot
<1>7. part = IF Kind(w) = "While" THEN IF Test(prog, old, w) = 0 THEN "none" ELSE "body"
             ELSE IF Test(prog, old, w) = 0 THEN "false" ELSE "true"
  BY <1>2, <1>4 DEF ScopeFor, Within
<1> HIDE DEF part, old
<1>8. CASE part = "none"
  <2>1. Kind(w) = "While" /\ Test(prog, old, w) = 0
    BY <1>7, <1>8
  <2>2. /\ Top.breaker + 1 \in 1..LoopLimit /\ Reached(prog, feed, old, w, Top.breaker + 1)
    BY <1>2, <1>5, <2>1 DEF FrameOK, Kind
  <2>3. Done(prog, feed, old, w)
    BY <1>4, <2>1, <2>2 DEF Done, Ended, Kind
  <2>4. Has(prog, slot, w)
    BY <1>2, <1>5, <2>1 DEF FrameHas, Kind
  <2>5. CallsOK(prog, feed, Next1(Below), slot', content')
    BY <1>2, <1>3, <1>6, <2>3, <2>4, BelowGoesOn DEF old
  <2> QED
    BY <1>1, <1>3, <1>8, <2>5
<1>9. CASE part # "none"
  <2>1. part \in PartsOf(Kind(w)) /\ part # "main" /\ part \in {"body", "true", "false"}
    BY <1>4, <1>7, <1>9 DEF PartsOf
  <2>2. f \in Calls /\ f.part # "main"
    BY <1>1, <1>2, <2>1, TurnedCall
  <2>3. f.node = w /\ f.part = part /\ f.pos = 1 /\ f.breaker = Top.breaker
    BY <1>1 DEF Calls
  <2> HIDE DEF f
  <2>4. \A t : RunBy(prog, f, t) => RunBy(prog, Top, t)
    <3> SUFFICES ASSUME NEW t, RunBy(prog, f, t) PROVE RunBy(prog, Top, t)
      OBVIOUS
    <3>1. NodesIn(prog, f) \in Seq(NodesOf(prog))
      BY <1>1, <2>2, CallIsIn
    <3>2. ~\E i \in DOMAIN NodesIn(prog, f) : i < 1
      BY <3>1
    <3>3. \E i \in DOMAIN prog.scopes[w]["cond"] : t = prog.scopes[w]["cond"][i]
      BY <2>3, <3>2 DEF RunBy
    <3>4. NodesIn(prog, Top) = prog.scopes[w]["cond"]
      BY <1>2 DEF NodesIn
    <3> QED
      BY <1>2, <3>3, <3>4, RunAll
  <2>5. Test(prog, old, w) = 0 <=> part = "false"
    BY <1>4, <1>7, <1>9
  <2>6. FrameOK(prog, feed, old, f)
    BY <1>2, <1>5, <2>3, <2>4, <2>5 DEF FrameOK
  <2>7. FrameHas(prog, slot, f)
    BY <1>2, <1>5, <2>3, <2>4 DEF FrameHas
  <2>8. CallsOK(prog, feed, SetTop(f), slot', content')
    BY <1>2, <1>3, <1>6, <2>2, <2>3, <2>6, <2>7, TopTurns DEF old
  <2> QED
    BY <1>1, <1>3, <1>9, <2>8
<1> QED
  BY <1>8, <1>9

\* A Conditional has what the selected branch left.
LEMMA MeaningBranch ==
  ASSUME Ready, BranchEnd
  PROVE  SlotsOK(prog, slot') /\ CallsOK(prog, feed, stack', slot', content')
<1> DEFINE old == ValOf(prog, slot, content)
           new == ValOf(prog, slot', content')
           f == Top.node
           s == Top.part
           b == prog.scopes[f][s]
           c == prog.scopes[f]["cond"]
<1>1. /\ prog \in Programs /\ Structured(prog) /\ Top \in Calls /\ SlotsOK(prog, slot)
      /\ CallInv /\ OwnInv /\ Len(stack) \in DOMAIN stack /\ Top = stack[Len(stack)]
  BY ReadyFacts DEF Ready
<1>2. AtEnd /\ s \in {"true", "false"} /\ s # "main" /\ stack' = Next1(Below)
  BY DEF BranchEnd
<1>3. /\ Kind(f) = "If" /\ f \in NodesOf(prog)
      /\ Changed(old, new, f) /\ new[<<f, 0>>] = old[<<Last(Top), 0>>]
      /\ Last(Top) \in NodesOf(prog) /\ Kind(Last(Top)) = "Op"
      /\ Contains(prog, f, Last(Top)) /\ Len(Nodes(Top)) \in DOMAIN Nodes(Top)
      /\ SlotsOK(prog, slot') /\ slot'[<<f, 0>>] = slot[<<Last(Top), 0>>]
      /\ \A q \in PairsOf(prog) : q # <<f, 0>> => slot'[q] = slot[q]
  BY <1>1, BranchEffect
<1>4. FrameOK(prog, feed, old, Top) /\ FrameHas(prog, slot, Top)
  BY <1>1, ReadyFacts
<1>5. NodesIn(prog, Top) = b /\ Nodes(Top) = b
  BY <1>1, <1>2, CallIsIn DEF NodesIn
<1> HIDE DEF old, new
<1>6. ASSUME NEW u \in NodesOf(prog), Kind(u) = "Op" PROVE old[<<u, 0>>] = new[<<u, 0>>]
  <2>1. u # f /\ ~Contains(prog, u, f)
    BY <1>3, <1>6 DEF Contains, Kind
  <2> QED
    BY <1>3, <2>1 DEF Changed
<1>7. ASSUME NEW u \in NodesOf(prog), RunBy(prog, Top, u), Contains(prog, f, u)
      PROVE  OpHolds(prog, new, u) /\ Kind(u) = "Op"
  <2>1. Kind(u) = "Op"
    BY <1>1, <1>3, <1>7, Containing
  <2>2. Done(prog, feed, old, u)
    BY <1>4, <1>7 DEF FrameOK
  <2>3. Ahead(u, f)
    <3>1. Inside(prog, f, u)
      BY <1>7 DEF Inside
    <3> QED
      BY <1>1, <1>3, <1>7, <3>1, Ranks DEF Ahead
  <2>4. Done(prog, feed, new, u)
    BY <1>1, <1>3, <1>7, <2>2, <2>3, DoneKept
  <2> QED
    BY <2>1, <2>4 DEF Done, Holds, Kind
<1>8. /\ \A i \in DOMAIN c : OpHolds(prog, new, c[i])
      /\ \A i \in DOMAIN b : OpHolds(prog, new, b[i])
  <2>1. "cond" \in PartsOf(Kind(f)) /\ s \in PartsOf(Kind(f))
    BY <1>2, <1>3 DEF PartsOf
  <2>2. ASSUME NEW i \in DOMAIN c PROVE OpHolds(prog, new, c[i])
    <3>1. c[i] \in NodesOf(prog) /\ Contains(prog, f, c[i])
      BY <1>1, <1>3, <2>1, ScopeNodes
    <3>2. RunBy(prog, Top, c[i])
      BY <1>2, <2>2 DEF RunBy
    <3> QED
      BY <1>7, <3>1, <3>2
  <2>3. ASSUME NEW i \in DOMAIN b PROVE OpHolds(prog, new, b[i])
    <3>1. b[i] \in NodesOf(prog) /\ Contains(prog, f, b[i])
      BY <1>1, <1>3, <2>1, ScopeNodes
    <3>2. RunBy(prog, Top, b[i])
      BY <1>2, <1>5, RunAll
    <3> QED
      BY <1>7, <3>1, <3>2
  <2> QED
    BY <2>2, <2>3
<1>9. Test(prog, new, f) = 0 <=> s = "false"
  <2>1. Test(prog, old, f) = 0 <=> s = "false"
    BY <1>2, <1>4 DEF FrameOK
  <2>2. LastOf(c) \in NodesOf(prog) /\ Kind(LastOf(c)) = "Op"
    BY <1>1, <1>3, Conditions
  <2>3. Test(prog, new, f) = Test(prog, old, f)
    BY <1>6, <2>2 DEF Test
  <2> QED
    BY <2>1, <2>3
<1>10. Last(Top) = LastOf(b)
  BY <1>5 DEF Last, LastOf
<1>11. new[<<f, 0>>] = new[<<LastOf(b), 0>>]
  BY <1>3, <1>6, <1>10
<1>12. Done(prog, feed, new, f)
  <2>1. IfHolds(prog, new, f)
    BY <1>2, <1>8, <1>9, <1>11 DEF IfHolds
  <2> QED
    BY <1>3, <2>1 DEF Done, Holds, Kind
<1>13. slot'[<<f, 0>>] # Nil
  <2>1. RunBy(prog, Top, Last(Top))
    <3>1. Last(Top) = NodesIn(prog, Top)[Len(Nodes(Top))] /\ Len(Nodes(Top)) \in DOMAIN NodesIn(prog, Top)
      BY <1>3, <1>5 DEF Last
    <3> QED
      BY <1>2, <3>1, RunAll
  <2>2. Has(prog, slot, Last(Top))
    BY <1>3, <1>4, <2>1 DEF FrameHas
  <2>3. slot[<<Last(Top), 0>>] # Nil
    BY <1>3, <2>2 DEF Has, Results, Kind
  <2> QED
    BY <1>3, <2>3
<1>14. Has(prog, slot', f)
  BY <1>3, <1>13 DEF Has, Results, Kind
<1>15. Moves(slot, content, slot', content', f)
  <2>1. \A q \in PairsOf(prog) : slot[q] # Nil => slot'[q] # Nil
    BY <1>3, <1>13
  <2>2. \A z \in NodesOf(prog), k \in {0, 1} : z # f => slot'[<<z, k>>] = slot[<<z, k>>]
    BY <1>1, <1>3, PairFacts
  <2> QED
    BY <1>3, <2>1, <2>2 DEF Moves, old, new
<1> QED
  BY <1>2, <1>3, <1>12, <1>14, <1>15, BelowGoesOn DEF new

\* An iteration takes the variables from one state to the next.
LEMMA MeaningReturn ==
  ASSUME Ready, Meant(prog), feed \in prog.feeds, NEW v \in NodesOf(prog), Return(v),
         Running', failed' = {}
  PROVE  SlotsOK(prog, slot') /\ CallsOK(prog, feed, stack', slot', content')
<1> DEFINE old == ValOf(prog, slot, content)
           new == ValOf(prog, slot', content')
           w == Top.node
           b == prog.scopes[w]["body"]
           f == NextIteration(Top)
           n == Top.breaker + 1
<1>1. /\ prog \in Programs /\ Structured(prog) /\ Top \in Calls /\ SlotsOK(prog, slot)
      /\ CallInv /\ OwnInv /\ Len(stack) \in DOMAIN stack /\ Top = stack[Len(stack)]
  BY ReadyFacts DEF Ready
<1>2. /\ At(v) /\ Kind(v) = "Return" /\ slot' = slot /\ content' = Assigned(v)
      /\ \A e \in DOMAIN In(v) : slot[In(v)[e]] # Nil /\ slot[<<prog.out[v], e - 1>>] # Nil
      /\ \/ Within("If")
         \/ LoopAgain(Top) /\ stack' = SetTop(f)
  BY DEF Return, Crash, Running
<1>3. /\ Top.part # "main" /\ prog.out[v] = w
  BY <1>1, <1>2, AtFacts
<1>4. /\ w \in NodesOf(prog) /\ Kind(w) \in {"While", "If"} /\ Top.part \in PartsOf(Kind(w))
  BY <1>1, <1>3, CallFields
<1>5. /\ NodesIn(prog, Top) = prog.scopes[w][Top.part]
      /\ Top.pos \in DOMAIN prog.scopes[w][Top.part] /\ v = prog.scopes[w][Top.part][Top.pos]
  BY <1>2, <1>3, NodeAt DEF NodesIn
<1>6. Kind(w) = "While"
  BY <1>1, <1>2, <1>4, <1>5 DEF Structured, Shaped, GoodIf, Kind
<1>7. /\ Top.part = "body" /\ Top.pos = Len(b) /\ v = LastOf(b)
  <2>1. GoodWhile(prog, w)
    BY <1>1, <1>4, <1>6 DEF Structured, Shaped, Kind
  <2>2. Top.part \in {"cond", "body"}
    BY <1>4, <1>6 DEF PartsOf
  <2>3. Top.part # "cond"
    BY <1>2, <1>5, <2>1 DEF GoodWhile, IsSimple, Kind
  <2>4. Top.part = "body"
    BY <2>2, <2>3
  <2>5. Top.pos = Len(b)
    BY <1>2, <1>5, <2>1, <2>4 DEF GoodWhile, IsSimple, Kind
  <2> QED
    BY <1>5, <2>4, <2>5 DEF LastOf
<1>8. /\ Len(In(v)) = Len(In(w)) /\ \A i, j \in DOMAIN In(v) : j < i => In(v)[i] # <<w, j - 1>>
  BY <1>1, <1>4, <1>6, <1>7 DEF Structured, Shaped, GoodWhile, Kind, In
<1>9. /\ Changed(old, new, w)
      /\ \A e \in DOMAIN In(w) : new[<<w, e - 1>>] = old[In(v)[e]]
  BY <1>1, <1>2, <1>3, <1>4, <1>6, <1>8, ReturnEffect
<1>10. FrameOK(prog, feed, old, Top) /\ FrameHas(prog, slot, Top)
  BY <1>1, ReadyFacts
<1>11. /\ n \in 1..LoopLimit /\ Reached(prog, feed, old, w, n) /\ Test(prog, old, w) # 0
       /\ Has(prog, slot, w)
  BY <1>3, <1>6, <1>7, <1>10 DEF FrameOK, FrameHas, Kind
<1>12. LoopAgain(Top) /\ stack' = SetTop(f)
  BY <1>2, <1>6 DEF Within
<1>13. n \in 1..(LoopLimit - 1) /\ n + 1 \in 1..LoopLimit /\ n \in Nat
  BY <1>11, <1>12, ScopedLogicAssumption DEF LoopAgain
<1>14. PICK m \in DOMAIN prog.main : prog.main[m] = w /\ Solves(prog, feed, old, m)
  BY <1>3, <1>4, <1>6, MainWhile
<1> HIDE DEF old, new, n, f
<1>15. Tested(prog, old, w)
  <2> SUFFICES ASSUME NEW i \in DOMAIN prog.scopes[w]["cond"]
               PROVE  Holds(prog, old, prog.scopes[w]["cond"][i])
    BY DEF Tested
  <2>1. prog.scopes[w]["cond"][i] \in NodesOf(prog) /\ Kind(prog.scopes[w]["cond"][i]) \in {"Op", "If"}
    BY <1>1, <1>4, Conditions
  <2>2. RunBy(prog, Top, prog.scopes[w]["cond"][i])
    BY <1>7 DEF RunBy
  <2>3. Done(prog, feed, old, prog.scopes[w]["cond"][i])
    BY <1>10, <2>1, <2>2 DEF FrameOK
  <2> QED
    BY <2>1, <2>3 DEF Done, Kind
<1>16. HoldUpTo(prog, old, b, Len(b))
  <2> SUFFICES ASSUME NEW i \in DOMAIN b, i < Len(b) PROVE Holds(prog, old, b[i])
    BY DEF HoldUpTo
  <2>1. b \in Seq(NodesOf(prog)) /\ b[i] \in NodesOf(prog)
    <3>1. "body" \in PartsOf(Kind(w))
      BY <1>6 DEF PartsOf
    <3> QED
      BY <1>1, <1>4, <3>1, ScopeNodes
  <2>2. Kind(b[i]) \in {"Op", "If"}
    <3>1. i # Len(b)
      BY <2>1
    <3> QED
      BY <1>1, <1>4, <1>6, <3>1 DEF Structured, Shaped, GoodWhile, IsSimple, Kind
  <2>3. RunBy(prog, Top, b[i])
    BY <1>5, <1>7 DEF RunBy
  <2>4. Done(prog, feed, old, b[i])
    BY <1>10, <2>1, <2>3 DEF FrameOK
  <2> QED
    BY <2>2, <2>4 DEF Done, Kind
<1>17. InState(prog, feed, new, w, n + 1)
  <2>1. Iterates(prog, feed, w, old)
    BY <1>6, <1>14 DEF Meant, Kind
  <2>2. InState(prog, feed, old, w, n)
    BY <1>11 DEF Reached
  <2>3. \A e \in DOMAIN prog.in[w] : prog.orbit[feed][w][n + 1][e] = old[prog.in[LastOf(b)][e]]
    BY <1>11, <1>13, <1>15, <1>16, <2>1, <2>2 DEF Iterates
  <2> QED
    BY <1>7, <1>9, <2>3 DEF InState, In
<1>18. ASSUME NEW k \in 1..n PROVE Went(prog, feed, new, w, k)
  <2>1. \A q \in Outer(prog, w) : old[q] = new[q]
    BY <1>1, <1>4, <1>6, <1>9, LoopKept
  <2>2. Went(prog, feed, old, w, k)
    <3>1. CASE k = n
      BY <1>11, <1>15, <3>1 DEF Went, Reached
    <3>2. CASE k # n
      <4>1. k \in 1..(n - 1)
        BY <1>13, <3>2
      <4> QED
        BY <1>11, <4>1 DEF Reached
    <3> QED
      BY <3>1, <3>2
  <2> QED
    BY <2>1, <2>2, WentSame
<1>19. Reached(prog, feed, new, w, n + 1)
  <2>1. \A k \in 1..((n + 1) - 1) : k \in 1..n
    BY <1>13
  <2> QED
    BY <1>17, <1>18, <2>1 DEF Reached
<1>20. f \in Calls /\ f.part = "cond" /\ f.node = w /\ f.pos = 1 /\ f.breaker = n
  <2>1. f \in Calls
    BY <1>1, <1>3, AgainCall DEF f
  <2>2. f.part = "cond" /\ f.node = w /\ f.pos = 1 /\ f.breaker = n
    BY <1>1 DEF f, n, NextIteration, Calls
  <2> QED
    BY <2>1, <2>2
<1>21. \A t : ~RunBy(prog, f, t)
  <2> SUFFICES ASSUME NEW t, RunBy(prog, f, t) PROVE FALSE
    OBVIOUS
  <2>1. NodesIn(prog, f) \in Seq(NodesOf(prog))
    BY <1>1, <1>20, CallIsIn
  <2>2. PICK i \in DOMAIN NodesIn(prog, f) : i < 1
    BY <1>20 DEF RunBy
  <2> QED
    BY <2>1, <2>2
<1>22. FrameOK(prog, feed, new, f) /\ FrameHas(prog, slot', f)
  BY <1>2, <1>11, <1>13, <1>19, <1>20, <1>21 DEF FrameOK, FrameHas
<1>23. Moves(slot, content, slot', content', w)
  BY <1>2, <1>9 DEF Moves, old, new
<1>24. CallsOK(prog, feed, SetTop(f), slot', content')
  BY <1>3, <1>20, <1>22, <1>23, TopTurns DEF new
<1> QED
  BY <1>1, <1>2, <1>12, <1>24

\* The graph has been run.
LEMMA MeaningFinish ==
  ASSUME Ready, FinishRun
  PROVE  ResultOK(prog, feed, slot, content)
<1> DEFINE old == ValOf(prog, slot, content)
<1>1. prog \in Programs /\ old[X] = feed
  BY ReadyFacts
<1>2. NodesIn(prog, Top) = prog.main /\ AtEnd
  BY DEF FinishRun, NodesIn
<1>3. ASSUME NEW i \in DOMAIN prog.main
      PROVE  Done(prog, feed, old, prog.main[i]) /\ Has(prog, slot, prog.main[i])
  <2>1. prog.main[i] \in NodesOf(prog)
    <3>1. prog.main \in Seq(NodesOf(prog))
      BY <1>1, Formed
    <3> QED
      BY <3>1
  <2> QED
    BY <1>2, <2>1, RunAll
<1> QED
  BY <1>1, <1>3 DEF ResultOK, Solves

\* An execution begins.
LEMMA MeaningStart ==
  ASSUME CallInv, OwnInv, SlotsOK(prog, slot), Structured(prog), runs \in Nat,
         runs = 0 => \A q \in PairsOf(prog) : slot[q] = Nil,
         NEW x, StartRun(x)
  PROVE  SlotsOK(prog, slot') /\ CallsOK(prog, x, stack', slot', content')
<1> DEFINE f == Frame("main", "main")
           env == ValOf(prog, slot', content')
<1>1. prog \in Programs /\ slot \in [PairsOf(prog) -> PairsOf(prog) \cup {Nil}]
  BY DEF CallInv, OwnInv, Own
<1>2. stack' = <<f>> /\ slot' = [slot EXCEPT ![X] = X] /\ runs < prog.runs
  BY DEF StartRun, X
<1>3. f \in Calls /\ f.part = "main" /\ f.pos = 1
  BY DEF Frame, Calls
<1> HIDE DEF f, env
<1>4. \A z \in NodesOf(prog), k \in {0, 1} : slot'[<<z, k>>] = slot[<<z, k>>]
  BY <1>1, <1>2, PairFacts
<1>5. SlotsOK(prog, slot')
  BY <1>4, SlotsSame
<1>6. \A t : ~RunBy(prog, f, t)
  <2> SUFFICES ASSUME NEW t, RunBy(prog, f, t) PROVE FALSE
    OBVIOUS
  <2>1. NodesIn(prog, f) \in Seq(NodesOf(prog))
    BY <1>1, <1>3, CallIsIn
  <2>2. PICK i \in DOMAIN NodesIn(prog, f) : i < 1
    BY <1>3 DEF RunBy
  <2> QED
    BY <2>1, <2>2
<1>7. FrameOK(prog, x, env, f) /\ FrameHas(prog, slot', f)
  BY <1>3, <1>6 DEF FrameOK, FrameHas
<1>8. Len(stack') = 1 /\ DOMAIN stack' = {1} /\ stack'[1] = f
  BY <1>2
<1>9. Nested(prog, stack')
  <2> SUFFICES ASSUME NEW k \in DOMAIN stack', k > 1 PROVE FALSE
    BY DEF Nested
  <2> QED
    BY <1>8
<1>10. Untried(prog, stack', slot')
  <2> SUFFICES ASSUME NEW j \in DOMAIN prog.main, Kind(prog.main[j]) = "While", NEW k \in {0, 1}
               PROVE  slot'[<<prog.main[j], k>>] = Nil
    BY DEF Untried, Kind
  <2>1. prog.main[j] \in NodesOf(prog)
    <3>1. prog.main \in Seq(NodesOf(prog))
      BY <1>1, Formed
    <3> QED
      BY <3>1
  <2>2. prog.runs <= 1 /\ prog.runs \in Nat
    BY <1>1, <2>1, ScopedLogicAssumption DEF Structured, Shaped, Kind
  <2>3. runs = 0
    BY <1>2, <2>2
  <2>4. <<prog.main[j], k>> \in PairsOf(prog)
    BY <1>1, <2>1, PairFacts
  <2> QED
    BY <1>4, <2>1, <2>3, <2>4
<1> QED
  BY <1>5, <1>7, <1>8, <1>9, <1>10 DEF CallsOK, env

---------------------------------------------------------------------------
(* The invariant is kept *)

LEMMA StepRuns ==
  ASSUME CallInv, OwnInv, RunsOK, Next \/ UNCHANGED vars
  PROVE  RunsOK'
<1>1. prog' = prog /\ prog \in Programs /\ CallInv'
  BY StepShape, StepCalls DEF CallInv, vars
<1>2. Calls' = Calls
  BY <1>1 DEF Calls, Kind
<1>4. CASE UNCHANGED vars
  BY <1>1, <1>2, <1>4 DEF RunsOK, vars, Good
<1>5. ASSUME NEW x \in prog.feeds, StartRun(x) PROVE RunsOK'
  <2>1. feed' = x /\ runs' = runs + 1 /\ status' = "running"
    BY <1>5 DEF StartRun
  <2>2. Good(stack)'
    BY <1>1, <2>1 DEF CallInv
  <2>3. runs' \in Nat /\ runs' > 0
    BY <2>1 DEF RunsOK
  <2> QED
    BY <1>1, <1>5, <2>1, <2>2, <2>3 DEF RunsOK, Alive
<1>6. CASE Step
  <2>1. status = "running" /\ feed' = feed /\ runs' = runs
    BY <1>6 DEF Step, FinishRun, FailNode, ExecuteOp, EnterLogic, Decide, Crash, Return,
       BranchEnd, AtEnd, At, Running
  <2>2. \/ status' = "running"
        \/ status' = "crashed" /\ stack' = stack
        \/ status' \in {"ok", "error"} /\ stack' = <<>>
    BY <1>6, <2>1 DEF Step, FinishRun, FailNode, ExecuteOp, EnterLogic, Decide, Crash, Return,
       BranchEnd, Unwind
  <2>3. runs' \in Nat /\ runs' > 0 /\ feed' \in prog.feeds
    BY <2>1 DEF RunsOK, Alive
  <2>4. Alive(status') => Good(stack)'
    <3>1. CASE status' = "running"
      BY <1>1, <3>1 DEF CallInv
    <3>2. CASE status' = "crashed" /\ stack' = stack
      <4>1. Good(stack)
        BY <2>1 DEF CallInv
      <4> QED
        BY <1>2, <3>2, <4>1 DEF Good
    <3> QED
      BY <2>2, <3>1, <3>2 DEF Alive
  <2>5. ~Alive(status') => stack' = <<>>
    BY <2>2 DEF Alive
  <2> QED
    BY <1>1, <2>3, <2>4, <2>5 DEF RunsOK, Alive
<1> QED
  BY <1>4, <1>5, <1>6 DEF Next

\* Only its own slots are set by a While or Conditional that is entered.
LEMMA EnterSlots ==
  ASSUME CallInv, OwnInv, NEW v \in NodesOf(prog), EnterLogic(v), NEW z \in NodesOf(prog),
         NEW k \in {0, 1}, z # v
  PROVE  slot'[<<z, k>>] = slot[<<z, k>>]
<1>1. <<z, k>> \in PairsOf(prog) /\ DOMAIN slot = PairsOf(prog)
  BY PairFacts DEF CallInv, OwnInv, Own
<1>2. \A e : <<v, e - 1>> # <<z, k>>
  OBVIOUS
<1>3. slot' = [q \in DOMAIN slot |-> IF \E e \in ToCopy(v) : q = <<v, e - 1>> THEN q ELSE slot[q]]
  BY DEF EnterLogic, CopyInputs
<1> QED
  BY <1>1, <1>2, <1>3

LEMMA StepSlots ==
  ASSUME CallInv, OwnInv, RunsOK, SlotsOK(prog, slot), Structured(prog), Next \/ UNCHANGED vars
  PROVE  SlotsOK(prog, slot')
<1>1. CASE slot' = slot
  BY <1>1
<1>2. ASSUME NEW x \in prog.feeds, StartRun(x) PROVE SlotsOK(prog, slot')
  BY <1>2, MeaningStart DEF RunsOK
<1>3. CASE BranchEnd
  BY <1>3, BranchEffect
<1>4. ASSUME NEW v \in NodesOf(prog), ExecuteOp(v) PROVE SlotsOK(prog, slot')
  BY <1>4, OpEffect
<1>5. ASSUME NEW v \in NodesOf(prog), EnterLogic(v) PROVE SlotsOK(prog, slot')
  <2>1. CASE Kind(v) = "If"
    <3>1. In(v) = <<>>
      BY <2>1 DEF Structured, Shaped, GoodIf, Kind, In
    <3>2. prog \in Programs /\ \A q \in PairsOf(prog) : slot'[q] = slot[q]
      BY <1>5, <3>1, EnterIfEffect DEF CallInv
    <3>3. \A z \in NodesOf(prog), k \in {0, 1} : slot'[<<z, k>>] = slot[<<z, k>>]
      BY <3>2, PairFacts
    <3> QED
      BY <3>3, SlotsSame
  <2>2. CASE Kind(v) = "While"
    <3>1. \A z \in NodesOf(prog), k \in {0, 1} :
            slot'[<<z, k>>] = slot[<<z, k>>] \/ Kind(z) = "While"
      BY <1>5, <2>2, EnterSlots
    <3> QED
      BY <3>1, SlotsSame
  <2> QED
    BY <1>5, <2>1, <2>2 DEF EnterLogic
<1>6. CASE UNCHANGED vars
  BY <1>1, <1>6 DEF vars
<1>7. FinishRun \/ Decide \/ (\E v \in NodesOf(prog) : FailNode(v) \/ Return(v)) => slot' = slot
  BY DEF FinishRun, Decide, FailNode, Return, Crash
<1> QED
  BY <1>1, <1>2, <1>3, <1>4, <1>5, <1>6, <1>7 DEF Next, Step

LEMMA StepMeaning ==
  ASSUME CallInv, OwnInv, FedInv, Structured(prog), Meant(prog), MeaningInv,
         Next \/ UNCHANGED vars
  PROVE  MeaningInv'
<1>1. prog' = prog /\ prog \in Programs
  BY StepShape DEF CallInv, vars
<1>2. RunsOK' /\ SlotsOK(prog, slot')
  BY StepRuns, StepSlots DEF MeaningInv
<1> SUFFICES /\ (Alive(status') /\ failed' = {}) => CallsOK(prog, feed', stack', slot', content')
             /\ (status' = "ok" /\ failed' = {}) => ResultOK(prog, feed', slot', content')
  BY <1>1, <1>2 DEF MeaningInv
<1>3. CASE UNCHANGED vars
  BY <1>3 DEF MeaningInv, vars
<1>4. ASSUME NEW x \in prog.feeds, StartRun(x)
      PROVE  CallsOK(prog, feed', stack', slot', content') /\ status' = "running"
  <2>1. CallsOK(prog, x, stack', slot', content')
    BY <1>4, MeaningStart DEF MeaningInv, RunsOK
  <2> QED
    BY <1>4, <2>1 DEF StartRun
<1>5. CASE Step /\ failed' = {}
  <2>1. Running /\ feed' = feed
    BY <1>5 DEF Step, FinishRun, FailNode, ExecuteOp, EnterLogic, Decide, Crash, Return,
       BranchEnd, AtEnd, At, Running
  <2>2. failed = {}
    BY <1>5 DEF Step, FinishRun, FailNode, ExecuteOp, EnterLogic, Decide, Crash, Return,
       BranchEnd
  <2>3. Ready /\ feed \in prog.feeds
    BY <2>1, <2>2 DEF Ready, MeaningInv, RunsOK, Alive, Running
  <2>4. CASE FinishRun
    <3>1. status' = "ok" /\ slot' = slot /\ content' = content
      BY <2>4 DEF FinishRun
    <3> QED
      BY <2>1, <2>3, <2>4, <3>1, MeaningFinish DEF Alive
  <2>5. CASE Crash
    BY <2>1, <2>2, <2>5 DEF Crash, MeaningInv, Alive, Running
  <2>6. CASE Decide /\ ~Crash
    <3>1. Running'
      BY <2>1, <2>6 DEF Decide, Running
    <3> QED
      BY <2>1, <2>3, <2>6, <3>1, MeaningDecide DEF Running
  <2>7. CASE BranchEnd
    <3>1. Running'
      BY <2>1, <2>7 DEF BranchEnd, Running
    <3> QED
      BY <2>1, <2>3, <2>7, <3>1, MeaningBranch DEF Running
  <2>8. ASSUME NEW v \in NodesOf(prog), ExecuteOp(v)
        PROVE  CallsOK(prog, feed', stack', slot', content') /\ status' = "running"
    BY <2>1, <2>3, <2>8, MeaningOp DEF ExecuteOp, Running
  <2>9. ASSUME NEW v \in NodesOf(prog), EnterLogic(v)
        PROVE  CallsOK(prog, feed', stack', slot', content') /\ status' = "running"
    <3>1. Kind(v) \in {"While", "If"} /\ status' = status
      BY <2>9 DEF EnterLogic
    <3>2. CASE Kind(v) = "While"
      BY <2>1, <2>3, <2>9, <3>1, <3>2, MeaningWhile DEF Running
    <3>3. CASE Kind(v) = "If"
      BY <2>1, <2>3, <2>9, <3>1, <3>3, MeaningIf DEF Running
    <3> QED
      BY <3>1, <3>2, <3>3
  <2>10. ASSUME NEW v \in NodesOf(prog), Return(v), ~Crash
        PROVE  CallsOK(prog, feed', stack', slot', content') /\ status' = "running"
    <3>1. Running'
      BY <1>5, <2>1, <2>10 DEF Return, Running
    <3> QED
      BY <1>5, <2>1, <2>3, <2>10, <3>1, MeaningReturn DEF Running
  <2>11. ASSUME NEW v \in NodesOf(prog), FailNode(v) PROVE FALSE
    BY <1>5, <2>11 DEF FailNode
  <2> QED
    BY <1>5, <2>4, <2>5, <2>6, <2>7, <2>8, <2>9, <2>10, <2>11 DEF Step
<1> QED
  BY <1>3, <1>4, <1>5 DEF Next

LEMMA InitMeaning == Init => MeaningInv
<1> SUFFICES ASSUME Init PROVE MeaningInv
  OBVIOUS
<1>1. /\ prog \in Programs /\ runs = 0 /\ status = "idle" /\ stack = <<>>
      /\ \A q \in PairsOf(prog) : slot[q] = Nil
  BY DEF Init
<1>2. RunsOK
  BY <1>1 DEF RunsOK, Alive
<1>3. SlotsOK(prog, slot)
  BY <1>1, PairFacts DEF SlotsOK
<1> QED
  BY <1>1, <1>2, <1>3 DEF MeaningInv, Alive

\* In programs whose loops are not nested, an iteration of a While moves all of its
\* variables together: when the condition is evaluated they are those that the completed
\* iterations lead to, and the input is as it was fed.
LEMMA MeantIterations ==
  ASSUME CallInv, FedInv, MeaningInv, Structured(prog), Meant(prog)
  PROVE  IterationsWhole
<1>1. ASSUME NEW k \in DOMAIN stack, stack[k].part = "cond", failed = {},
             NEW e \in DOMAIN In(stack[k].node)
      PROVE  content[slot[<<stack[k].node, e - 1>>]]
               = prog.orbit[feed][stack[k].node][stack[k].breaker + 1][e]
  <2> DEFINE w == stack[k].node
             env == ValOf(prog, slot, content)
  <2>1. Alive(status) /\ Good(stack)
    BY <1>1 DEF MeaningInv, RunsOK
  <2>2. FrameOK(prog, feed, env, stack[k]) /\ FrameHas(prog, slot, stack[k]) /\ stack[k] \in Calls
    BY <1>1, <2>1 DEF MeaningInv, CallsOK, Good
  <2>3. w \in NodesOf(prog) /\ Kind(w) \in {"While", "If"} /\ prog \in Programs
    BY <1>1, <2>2, CallFields DEF CallInv
  <2>4. Kind(w) = "While"
    <3>1. Kind(w) = "If" => In(w) = <<>>
      BY <2>3 DEF Structured, Shaped, GoodIf, Kind, In
    <3> QED
      BY <1>1, <2>3, <3>1
  <2> HIDE DEF env
  <2>5. Reached(prog, feed, env, w, stack[k].breaker + 1) /\ Has(prog, slot, w)
    BY <1>1, <2>2, <2>4 DEF FrameOK, FrameHas, Kind
  <2>6. env[<<w, e - 1>>] = prog.orbit[feed][w][stack[k].breaker + 1][e]
    BY <1>1, <2>5 DEF Reached, InState, In
  <2>7. slot[<<w, e - 1>>] # Nil
    BY <1>1, <2>4, <2>5 DEF Has, Results, Kind, In
  <2>8. <<w, e - 1>> \in PairsOf(prog)
    BY <1>1, <2>3, <2>4, Variables
  <2>9. env[<<w, e - 1>>] = content[slot[<<w, e - 1>>]]
    BY <2>7, <2>8, Values1 DEF env
  <2> QED
    BY <2>6, <2>9
<1>2. LoopsWhole
  BY <1>1 DEF LoopsWhole
<1>3. FedKept
  BY DEF FedKept, FedInv, X
<1> QED
  BY <1>2, <1>3 DEF IterationsWhole

LEMMA MeantResults ==
  ASSUME CallInv, FedInv, MeaningInv, Structured(prog), Meant(prog)
  PROVE  ResultsCorrect
<1> SUFFICES ASSUME status = "ok", failed = {}, NEW q \in DOMAIN prog.meaning[feed]
             PROVE  slot[q] # Nil /\ content[slot[q]] = prog.meaning[feed][q]
  BY DEF ResultsCorrect
<1> DEFINE env == ValOf(prog, slot, content)
<1>1. prog \in Programs /\ runs > 0 /\ feed \in prog.feeds /\ ResultOK(prog, feed, slot, content)
  BY DEF CallInv, MeaningInv, RunsOK
<1>2. Solves(prog, feed, env, Len(prog.main) + 1)
  BY <1>1 DEF ResultOK
<1> HIDE DEF env
<1>3. Denoted(prog, feed, env)
  BY <1>1, <1>2 DEF Meant
<1>4. /\ prog.meaning[feed][q] = env[q]
      /\ q = X \/ \E i \in DOMAIN prog.main : q \in Results(prog, prog.main[i])
  BY <1>3 DEF Denoted
<1>5. q \in PairsOf(prog) /\ slot[q] # Nil
  <2>1. CASE q = X
    BY <1>1, <2>1, PairFacts DEF FedInv
  <2>2. ASSUME NEW i \in DOMAIN prog.main, q \in Results(prog, prog.main[i])
        PROVE  q \in PairsOf(prog) /\ slot[q] # Nil
    <3>1. prog.main[i] \in NodesOf(prog)
      <4>1. prog.main \in Seq(NodesOf(prog))
        BY <1>1, Formed
      <4> QED
        BY <4>1
    <3>2. Has(prog, slot, prog.main[i])
      BY <1>1 DEF ResultOK
    <3> QED
      BY <1>1, <2>2, <3>1, <3>2, ResultPairs DEF Has
  <2> QED
    BY <1>4, <2>1, <2>2
<1>6. env[q] = content[slot[q]]
  BY <1>5, Values1 DEF env
<1> QED
  BY <1>4, <1>5, <1>6

LEMMA MeantAlways ==
  Spec => [](CallInv /\ FedInv /\ (Structured(prog) /\ Meant(prog) => MeaningInv))
<1> DEFINE Inv == /\ CallInv /\ OwnInv /\ FedInv
                  /\ Structured(prog) /\ Meant(prog) => MeaningInv
<1>1. Init => Inv
  BY InitCalls, InitOwn, InitMeaning
<1>2. Inv /\ [Next]_vars => Inv'
  <2> SUFFICES ASSUME Inv, Next \/ UNCHANGED vars PROVE Inv'
    OBVIOUS
  <2>1. CallInv' /\ OwnInv' /\ FedInv'
    BY StepCalls, StepOwn
  <2>2. prog' = prog
    BY StepShape DEF vars
  <2>3. Structured(prog') /\ Meant(prog') => MeaningInv'
    BY <2>2, StepMeaning
  <2> QED
    BY <2>1, <2>3
<1>3. Inv => CallInv /\ FedInv /\ (Structured(prog) /\ Meant(prog) => MeaningInv)
  OBVIOUS
<1> HIDE DEF Inv
<1> QED
  BY <1>1, <1>2, <1>3, PTL DEF Spec

\* In programs whose loops are not nested, whenever a While evaluates its condition its
\* variables are together in the state that the completed iterations lead to: Return
\* moves all of them, one after the other, and nothing else writes to them.  The input
\* is as it was fed.
THEOREM ScopedIterations == Spec => [](Structured(prog) /\ Meant(prog) => IterationsWhole)
<1> DEFINE Inv == CallInv /\ FedInv /\ (Structured(prog) /\ Meant(prog) => MeaningInv)
           Goal == Structured(prog) /\ Meant(prog) => IterationsWhole
<1>1. Inv => Goal
  BY MeantIterations
<1>2. Spec => []Inv
  BY MeantAlways
<1> HIDE DEF Inv, Goal
<1>3. Spec => []Goal
  BY <1>1, <1>2, PTL
<1> QED
  BY <1>3 DEF Goal

\* An execution of such a program that returns OK, and in which no op failed, leaves
\* what the program denotes, however its loops and Conditionals share the variable
\* space: the nodes run hold of what is there, and what has been run stays so.
THEOREM ScopedResults == Spec => [](Structured(prog) /\ Meant(prog) => ResultsCorrect)
<1> DEFINE Inv == CallInv /\ FedInv /\ (Structured(prog) /\ Meant(prog) => MeaningInv)
           Goal == Structured(prog) /\ Meant(prog) => ResultsCorrect
<1>1. Inv => Goal
  BY MeantResults
<1>2. Spec => []Inv
  BY MeantAlways
<1> HIDE DEF Inv, Goal
<1>3. Spec => []Goal
  BY <1>1, <1>2, PTL
<1> QED
  BY <1>3 DEF Goal
=============================================================================
