---------------------------- MODULE ScopedLogic ----------------------------
(***************************************************************************)
(* The logic ops of libnd4j's own graph format: While and Conditional run  *)
(* the nodes of scopes, Return hands values from a scope to its op.  The   *)
(* calls processNode and executeFlatNode make one another are a stack of   *)
(* frames; every action is one node executed, or one step of a While or    *)
(* Conditional between its scopes.                                         *)
(*                                                                         *)
(* A pair (node, output) has a slot in the variable space, which holds an  *)
(* array, named by the pair it was made for; arrays have contents.         *)
(***************************************************************************)
EXTENDS Integers, Sequences

CONSTANTS
  Programs,     \* graphs with their inputs and their meaning, see below
  Apply(_, _),  \* what a custom op computes of its inputs (external)
  Values,       \* contents of an array
  LoopLimit,    \* 10000000 in the code
  Nil           \* no array, no content

(* A program p has p.main and, for a While or Conditional v, p.scopes[v]:  *)
(* the nodes of its scopes in order, under "cond" and "body" or "cond",    *)
(* "true" and "false".  p.kind[v], p.op[v], p.in[v] and p.out[v] (the node *)
(* a Return assigns to) describe a node.  The input is at <<"x", 0>>;      *)
(* p.runs executions follow one another on one variable space.  Its ops    *)
(* may fail if p.mayFail holds; p.ends are the inputs it ends for.         *)
ASSUME ScopedLogicAssumption ==
  /\ Nil \notin Values /\ LoopLimit \in Nat \ {0}
  /\ \A p \in Programs : p.runs \in Nat /\ p.mayFail \in BOOLEAN

NodesOf(p) == DOMAIN p.kind
PairsOf(p) == {<<"x", 0>>} \cup (NodesOf(p) \X {0, 1})

PartsOf(kind) == IF kind = "While" THEN {"cond", "body"} ELSE {"cond", "true", "false"}

\* The While or Conditional v of p has u in one of its scopes.
Contains(p, v, u) ==
  /\ p.kind[v] \in {"While", "If"}
  /\ \E s \in PartsOf(p.kind[v]) : \E i \in DOMAIN p.scopes[v][s] : p.scopes[v][s][i] = u

\* A node is in one scope or in the main graph; a scope has nodes.  A Return ends the
\* body of a While, and may end a branch of a Conditional: it assigns to the outputs of
\* that op.
WellFormed(p) ==
  /\ "x" \notin NodesOf(p)
  /\ p.main \in Seq(NodesOf(p))
  /\ \A i \in DOMAIN p.main : p.kind[p.main[i]] # "Return"
  /\ \A v \in NodesOf(p) : p.kind[v] \in {"Op", "Return", "While", "If"}
  /\ \A v \in NodesOf(p) : p.in[v] \in Seq(PairsOf(p))
  /\ \A v \in NodesOf(p) : p.kind[v] # "Op" => Len(p.in[v]) <= 2
  /\ \A v \in NodesOf(p) : p.kind[v] \in {"While", "If"} => \A s \in PartsOf(p.kind[v]) :
       /\ p.scopes[v][s] \in Seq(NodesOf(p)) /\ p.scopes[v][s] # <<>>
       /\ \A i \in DOMAIN p.scopes[v][s] : p.kind[p.scopes[v][s][i]] = "Return" =>
            p.out[p.scopes[v][s][i]] = v /\ s # "cond" /\ i = Len(p.scopes[v][s])
       /\ s = "body" => p.kind[p.scopes[v][s][Len(p.scopes[v][s])]] = "Return"
  /\ \A u, v \in NodesOf(p) : Contains(p, v, u) =>
       /\ \A i \in DOMAIN p.main : p.main[i] # u
       /\ \A w \in NodesOf(p) : Contains(p, w, u) => w = v

ASSUME ProgramsAssumption ==
  /\ \A p \in Programs : WellFormed(p)
  /\ \A p \in Programs : Nil \notin PairsOf(p)

VARIABLES
  prog,     \* the graph
  feed,     \* its input
  runs,     \* executions so far
  stack,    \* the calls, outermost first
  slot,     \* the array of each pair
  content,  \* the content of each array, Nil if it was never made
  status,   \* "idle", "running", "ok", "error", "crashed"
  failed    \* ghost: the nodes that have returned an error in this execution

vars == <<prog, feed, runs, stack, slot, content, status, failed>>

Kind(v) == prog.kind[v]
In(v)   == prog.in[v]

\* A call: of execute (part "main"), or of a While or Conditional that is at
\* node number pos of one of its scopes.
Frame(v, part) == [node |-> v, part |-> part, pos |-> 1, breaker |-> 0]

Top      == stack[Len(stack)]
Below    == SubSeq(stack, 1, Len(stack) - 1)
Nodes(f) == IF f.part = "main" THEN prog.main ELSE prog.scopes[f.node][f.part]
Last(f)  == Nodes(f)[Len(Nodes(f))]

Running == status = "running"
At(v)   == Running /\ Top.pos <= Len(Nodes(Top)) /\ Nodes(Top)[Top.pos] = v
AtEnd   == Running /\ Top.pos > Len(Nodes(Top))

Within(kind) == Top.part # "main" /\ Kind(Top.node) = kind

\* The stack s with its top call moved to the next node.
Next1(s) == [s EXCEPT ![Len(s)].pos = @ + 1]
SetTop(f) == Append(Below, f)

Init ==
  /\ prog \in Programs
  /\ feed = Nil /\ runs = 0 /\ stack = <<>> /\ status = "idle" /\ failed = {}
  /\ slot = [q \in PairsOf(prog) |-> Nil]
  /\ content = [q \in PairsOf(prog) |-> Nil]

\* execute on inputs of the caller, which are put into the variable space.
StartRun(x) ==
  /\ status \in {"idle", "ok", "error"} /\ runs < prog.runs
  /\ feed' = x /\ runs' = runs + 1 /\ failed' = {}
  /\ status' = "running"
  /\ stack' = <<Frame("main", "main")>>
  /\ slot' = [slot EXCEPT ![<<"x", 0>>] = <<"x", 0>>]
  /\ content' = [content EXCEPT ![<<"x", 0>>] = x]
  /\ UNCHANGED prog

FinishRun ==
  /\ AtEnd /\ Top.part = "main"
  /\ status' = "ok" /\ stack' = <<>>
  /\ UNCHANGED <<prog, feed, runs, slot, content, failed>>

---------------------------------------------------------------------------
(* Errors *)

\* Mutant: a While goes on after an error of an op in one of its scopes.
Unwind_ignored(calls) ==
  IF Len(stack) = 1 THEN stack' = <<>> /\ status' = "error"
                    ELSE stack' = Next1(stack) /\ UNCHANGED status

\* What becomes of an error that the node returns which the last of the calls is at:
\* execute returns it, a While or a Conditional drops it and goes on.
Unwind(calls) ==
  IF Len(calls) = 1 THEN stack' = <<>> /\ status' = "error"
                    ELSE stack' = Next1(calls) /\ UNCHANGED status

Crash == status' = "crashed" /\ UNCHANGED <<prog, feed, runs, stack, slot, content, failed>>

\* An op fails by itself or lacks an input; a While without loop variables is
\* refused; a Conditional runs nodes with executeFlatNode, which refuses logic ops.
Refused(v) ==
  \/ Kind(v) = "Op" /\ (prog.mayFail \/ \E i \in DOMAIN In(v) : slot[In(v)[i]] = Nil)
  \/ Kind(v) = "While" /\ In(v) = <<>>
  \/ Kind(v) \in {"While", "If"} /\ Within("If")

\* A While returns the error of an op in its scopes, and that of no other node.
FailNode(v) ==
  /\ At(v) /\ Refused(v)
  /\ Unwind(IF Kind(v) = "Op" /\ Within("While") THEN Below ELSE stack)
  /\ failed' = failed \cup {v}
  /\ UNCHANGED <<prog, feed, runs, slot, content>>

---------------------------------------------------------------------------
(* Nodes *)

\* executeFlatNode: prepareOutputs makes the array once and reuses it.
ExecuteOp(v) ==
  LET a == IF slot[<<v, 0>>] = Nil THEN <<v, 0>> ELSE slot[<<v, 0>>]
      args == [i \in DOMAIN In(v) |-> content[slot[In(v)[i]]]]
  IN  /\ At(v) /\ Kind(v) = "Op"
      /\ \A i \in DOMAIN In(v) : slot[In(v)[i]] # Nil
      /\ slot' = [slot EXCEPT ![<<v, 0>>] = a]
      /\ content' = [content EXCEPT ![a] = Apply(prog.op[v], args)]
      /\ stack' = Next1(stack)
      /\ UNCHANGED <<prog, feed, runs, status, failed>>

\* The inputs of a While or Conditional v are copied to the outputs of v that
\* have no array yet.
ToCopy(v) == {e \in DOMAIN In(v) : slot[<<v, e - 1>>] = Nil /\ slot[In(v)[e]] # Nil}

CopyInputs(v) ==
  LET Copied(q) == \E e \in ToCopy(v) : q = <<v, e - 1>>
  IN  /\ slot' = [q \in DOMAIN slot |-> IF Copied(q) THEN q ELSE slot[q]]
      /\ content' = [q \in DOMAIN content |->
                       IF Copied(q) THEN content[slot[In(v)[q[2] + 1]]] ELSE content[q]]

\* processNode of a While or a Conditional, up to its first scope.
EnterLogic(v) ==
  /\ At(v) /\ Kind(v) \in {"While", "If"} /\ ~Refused(v)
  /\ CopyInputs(v)
  /\ stack' = Append(stack, Frame(v, "cond"))
  /\ UNCHANGED <<prog, feed, runs, status, failed>>

\* The variable found under the id of a node: that of the pair for an op, and for
\* a logic op the state addNode made, which only a Conditional's copy reaches.
ById(v) == CASE Kind(v) = "Op" -> slot[<<v, 0>>]
             [] Kind(v) = "If" /\ content[<<v, 0>>] # Nil -> <<v, 0>>
             [] OTHER -> Nil

\* The scope to run for a value of the condition; "none" ends the loop.
ScopeFor(x) ==
  IF Within("While") THEN IF x = 0 THEN "none" ELSE "body"
  ELSE IF x = 0 THEN "false" ELSE "true"

\* The condition scope has run: its last node decides.
Decide ==
  /\ AtEnd /\ Top.part = "cond"
  /\ IF ById(Last(Top)) = Nil THEN Crash
     ELSE LET part == ScopeFor(content[ById(Last(Top))])
          IN  /\ stack' = IF part = "none" THEN Next1(Below)
                          ELSE SetTop([Top EXCEPT !.part = part, !.pos = 1])
              /\ UNCHANGED <<prog, feed, runs, slot, content, status, failed>>

\* Mutant: the last value is not assigned.
Assigned_short(v) ==
  LET after[e \in 0..Len(In(v))] ==
        IF e = 0 THEN content
        ELSE [after[e - 1] EXCEPT ![slot[<<prog.out[v], e - 1>>]] = after[e - 1][slot[In(v)[e]]]]
  IN  after[IF Len(In(v)) > 1 THEN Len(In(v)) - 1 ELSE Len(In(v))]

\* The contents after the assignments of a Return, one after the other.
Assigned(v) ==
  LET after[e \in 0..Len(In(v))] ==
        IF e = 0 THEN content
        ELSE [after[e - 1] EXCEPT ![slot[<<prog.out[v], e - 1>>]] = after[e - 1][slot[In(v)[e]]]]
  IN  after[Len(In(v))]

\* Mutant: an iteration too few.
LoopAgain_early(f) == f.breaker + 2 < LoopLimit

LoopAgain(f) == f.breaker + 1 < LoopLimit

NextIteration(f) == [f EXCEPT !.part = "cond", !.pos = 1, !.breaker = @ + 1]

\* Return ends an iteration of a While, which evaluates its condition again
\* unless the limit is reached, or a Conditional.
Return(v) ==
  /\ At(v) /\ Kind(v) = "Return"
  /\ IF \E e \in DOMAIN In(v) : slot[In(v)[e]] = Nil \/ slot[<<prog.out[v], e - 1>>] = Nil
     THEN Crash
     ELSE /\ content' = Assigned(v)
          /\ IF Within("If") THEN stack' = Next1(Below) /\ UNCHANGED <<status, failed>>
             ELSE IF LoopAgain(Top)
             THEN stack' = SetTop(NextIteration(Top)) /\ UNCHANGED <<status, failed>>
             ELSE Unwind(Below) /\ failed' = failed \cup {Top.node}
          /\ UNCHANGED <<prog, feed, runs, slot>>

\* Mutant: the Conditional keeps the value it has.
Transferred_once(v, last) ==
  IF slot[<<v, 0>>] = Nil THEN [slot EXCEPT ![<<v, 0>>] = slot[<<last, 0>>]] ELSE slot

\* The outputs of the last node of the branch become those of the Conditional.
Transferred(v, last) == [slot EXCEPT ![<<v, 0>>] = slot[<<last, 0>>]]

\* A branch without a Return.
BranchEnd ==
  /\ AtEnd /\ Top.part \in {"true", "false"}
  /\ slot' = Transferred(Top.node, Last(Top))
  /\ stack' = Next1(Below)
  /\ UNCHANGED <<prog, feed, runs, content, status, failed>>

Step ==
  \/ FinishRun \/ Decide \/ BranchEnd
  \/ \E v \in NodesOf(prog) : FailNode(v) \/ ExecuteOp(v) \/ EnterLogic(v) \/ Return(v)

Next == Step \/ \E x \in prog.feeds : StartRun(x)

Spec == Init /\ [][Next]_vars

\* The executing thread goes on until execute returns.
FairSpec == Spec /\ WF_vars(Step)

---------------------------------------------------------------------------
(* Properties *)

\* An execution that returns OK, and in which no node failed, leaves the value the
\* program denotes in every result (p.meaning gives it for each input).
ResultsCorrect ==
  (status = "ok" /\ failed = {}) =>
    \A q \in DOMAIN prog.meaning[feed] :
      slot[q] # Nil /\ content[slot[q]] = prog.meaning[feed][q]

\* Whenever a While evaluates its condition, its variables are together in the
\* state that the completed iterations lead to (p.orbit): Return moves all of
\* them, and nothing in the scopes writes to one of them.
LoopsWhole ==
  \A k \in DOMAIN stack :
    (stack[k].part = "cond" /\ stack[k].node \in DOMAIN prog.orbit[feed] /\ failed = {}) =>
      \A e \in DOMAIN In(stack[k].node) :
        content[slot[<<stack[k].node, e - 1>>]]
          = prog.orbit[feed][stack[k].node][stack[k].breaker + 1][e]

\* The array the caller fed stays as it was.
FedKept == runs > 0 => content[<<"x", 0>>] = feed

\* A While works on copies, which move together: its variables are in the state of
\* the completed iterations when it evaluates its condition, and the input is kept.
IterationsWhole == LoopsWhole /\ FedKept

\* The status of v is dropped on its way to execute: by a Conditional, which drops that
\* of every node it runs, or by a While, which drops that of the logic ops it runs.
Silent(v) ==
  \E u \in NodesOf(prog) :
    /\ Contains(prog, u, v)
    /\ \/ Kind(u) = "If"
       \/ Kind(v) # "Op"
       \/ \E w \in NodesOf(prog) : Contains(prog, w, u)

\* An execution that returns OK has lost no error but those that LogicConditional and
\* LogicWhile drop: an op of the main graph, an op in a While of the main graph, a
\* refused logic op or a loop at its limit there make execute return an error, however
\* many calls there have been before and between.
ErrorsReported == status = "ok" => \A v \in failed : Silent(v)

\* An execution in which a node returned an error does not return OK.
NoErrorLost == status = "ok" => failed = {}

\* Every execution returns.  It returns an error only if ops may fail, or if the program
\* has no end for this input (p.ends): a loop that would end is not given up before,
\* and a logic op refused inside a While does not stop it.  It crashes only if ops may
\* fail, whose arrays a condition or a Return then lacks.
RunEnds ==
  (status = "running") ~>
    \/ status = "ok"
    \/ status = "error" /\ (prog.mayFail \/ feed \notin prog.ends)
    \/ status = "crashed" /\ prog.mayFail
===========================================================================
