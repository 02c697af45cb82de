--------------------------- MODULE GraphExecutor ---------------------------
(***************************************************************************)
(* GraphExecutioner::execute: the interpreter of a built graph.  It walks  *)
(* the layers of the onion, skips the nodes whose inputs a Switch has      *)
(* disabled, opens a frame at Enter, plans a rewind at NextIteration, jumps *)
(* back at Exit and closes the frame at the first node after it.  FlowPath *)
(* keeps what it decided; the logic ops (LogicEnter, LogicMerge,           *)
(* LogicSwitch, ...) move array pointers between variables, so that        *)
(* several variables alias one array.                                      *)
(*                                                                         *)
(* The graph is built and its variable space has no workspace.             *)
(*                                                                         *)
(* A graph g is a record: g.layers (the onion), g.kind, g.in (addresses    *)
(* <<id, index>>), g.frame (the frame id, -1 when not set), g.under (the   *)
(* Switch outputs a node depends on), g.meaning (what its results are) and *)
(* g.ends (the feeds for which all its loops end).                         *)
(* A variable holds the name of an array or Nil; an op's array is named    *)
(* after the op's output, since an op allocates once and reuses it.        *)
(***************************************************************************)
EXTENDS Integers, Sequences, SequencesExt

CONSTANTS
  Graphs,       \* the graphs to execute
  Values,       \* contents of an array
  Apply(_, _),  \* Apply(op, arguments): what a custom op computes
  ExecLimit,    \* 10000 in the code: node visits before "Early termination hit"
  MaxRuns(_),   \* bound: calls of execute on a graph
  OpsMayFail,   \* TRUE: a custom op may return a status other than OK
  OwnFlowPath   \* TRUE: the caller has called setFlowPath

\* The layers in which h has node v, and a node all of whose layers are lower.
LayersWith(h, v) == {i \in DOMAIN h.layers : \E j \in DOMAIN h.layers[i] : h.layers[i][j] = v}
IsLower(h, u, v) == \A i \in LayersWith(h, u), k \in LayersWith(h, v) : i < k

\* A Switch output that v depends on is an input of v, or one that an input of v
\* depends on; what a Merge or an Exit passes on depends on none.
DependsOn(h, v, a) ==
  /\ a[1] \in DOMAIN h.kind /\ h.kind[a[1]] = "Switch" /\ IsLower(h, a[1], v)
  /\ h.kind[v] \notin {"Merge", "Exit"}
  /\ \E i \in DOMAIN h.in[v] :
       \/ h.in[v][i] = a
       \/ LET w == h.in[v][i][1]
          IN  w \in DOMAIN h.kind /\ IsLower(h, w, v) /\ a \in h.under[w]

\* What a built graph is: every node lies in one place of the onion, an Enter has a
\* frame, and the NextIteration that closes a loop lies above the loop's Merge.
WellLaid(h) ==
  LET nodes == DOMAIN h.kind
  IN  /\ h.layers \in Seq(Seq(nodes))
      /\ \A v \in nodes : LayersWith(h, v) # {}
      /\ \A i, k \in DOMAIN h.layers : \A j \in DOMAIN h.layers[i], m \in DOMAIN h.layers[k] :
           h.layers[i][j] = h.layers[k][m] => i = k /\ j = m
      /\ h.frame \in [nodes -> Nat \cup {-1}]
      /\ \A v \in nodes : h.kind[v] = "Enter" => h.frame[v] # -1
      /\ \A v, w \in nodes : h.kind[v] = "Merge" /\ h.kind[w] = "NextIteration" /\ w = h.in[v][2][1] =>
           IsLower(h, v, w)
      /\ \A f \in h.feeds : DOMAIN f \cap nodes = {}
      /\ \A v \in nodes : \A a \in h.under[v] : DependsOn(h, v, a)

ASSUME GraphsAssumption == \A h \in Graphs : WellLaid(h)

VARIABLES
  g,          \* the graph
  status,     \* "idle", "running", "ok", "error", "thrown" or "crashed"
  runs,       \* calls of execute so far
  feed,       \* values of the external variables in this run
  l, n,       \* position: layer and index within it
  counter,    \* exec_counter
  frames,     \* the deque of open frames
  leftFrame,  \* leftFrame
  flowPtr,    \* VariableSpace::_flow: "null", "user", "temp" or "freed"
  flow,       \* the FlowPath: inactive and executed nodes, branches, frames
  frameOf,    \* Node::_frameId
  rewindTo,   \* Node::_rewindLayer of NextIteration nodes
  slot,       \* the array each variable holds
  content,    \* what each array contains
  freed       \* arrays that have been deleted

position == <<l, n, counter>>
framing  == <<frames, leftFrame, frameOf, rewindTo>>
memory   == <<slot, content, freed>>
vars     == <<g, status, runs, feed, position, framing, flowPtr, flow, memory>>

Nil     == <<>>
Nodes   == DOMAIN g.kind
Frames  == {g.frame[v] : v \in Nodes} \ {-1}
Ext     == DOMAIN feed
Kind(v) == IF v \in Nodes THEN g.kind[v] ELSE "External"
In(v)   == g.in[v]
Out(v)  == <<v, 0>>

Addresses  == {<<x, i>> : x \in Nodes \cup Ext, i \in {0, 1}}
FreshFrame == [activated |-> FALSE, rewindPlanned |-> FALSE, rewindPosition |-> -1]
FreshFlow  == [inactive |-> {}, executed |-> {}, branch |-> [v \in Nodes |-> 0],
               frame |-> [f \in Frames |-> FreshFrame]]

Init ==
  /\ g \in Graphs
  /\ feed \in g.feeds
  /\ status = "idle" /\ runs = 0
  /\ l = 0 /\ n = 0 /\ counter = 0
  /\ frames = <<>> /\ leftFrame = FALSE
  /\ flowPtr = IF OwnFlowPath THEN "user" ELSE "null"
  /\ flow = FreshFlow
  /\ frameOf = g.frame
  /\ rewindTo = [v \in Nodes |-> 0]
  /\ slot = [a \in Addresses |-> IF a[1] \in Ext /\ a[2] = 0 THEN a ELSE Nil]
  /\ content = [a \in Addresses |-> IF a[1] \in Ext THEN feed[a[1]] ELSE 0]
  /\ freed = {}

---------------------------------------------------------------------------
(* FlowPath *)

IsNodeActive(fl, v)    == v \notin fl.inactive
MarkActive(fl, v)      == [fl EXCEPT !.inactive = @ \ {v}]
MarkInactive(fl, v)    == [fl EXCEPT !.inactive = @ \cup {v}]
MarkExecuted(fl, v)    == [fl EXCEPT !.executed = @ \cup {v}]

\* Mutant: the Merge does not take the flag back.
MarkNotExecuted_kept(fl, v) == fl

MarkNotExecuted(fl, v) == [fl EXCEPT !.executed = @ \ {v}]
MarkBranch(fl, v, b)   == [fl EXCEPT !.branch[v] = b]
ForgetFrame(fl, f)     == [fl EXCEPT !.frame[f] = FreshFrame]
ActivateFrame(fl, f)   == [fl EXCEPT !.frame[f].activated = TRUE]

\* planRewind(true) and setRewindPositionOnce
PlanRewind(fl, f, pos) ==
  [fl EXCEPT !.frame[f].rewindPlanned = TRUE,
             !.frame[f].rewindPosition = IF @ < 0 THEN pos ELSE @]

\* Mutant: planRewind(frame_id, false) is missing.
CancelRewind_kept(fl, f) == [fl EXCEPT !.frame[f].rewindPosition = -1]

CancelRewind(fl, f) ==
  [fl EXCEPT !.frame[f].rewindPlanned = FALSE, !.frame[f].rewindPosition = -1]

---------------------------------------------------------------------------
(* The start of a node's visit *)

Layer == g.layers[l + 1]
At(v) == /\ status = "running" /\ counter < ExecLimit
         /\ l < Len(g.layers) /\ n < Len(Layer) /\ v = Layer[n + 1]

\* The first node after a loop that is not an Exit closes the loop's frame.
Leaves(v)  == leftFrame /\ Kind(v) # "Exit"
Frames1(v) == IF Leaves(v) THEN Front(frames) ELSE frames
Flow1(v)   == IF Leaves(v) THEN ForgetFrame(flow, Last(frames)) ELSE flow
Left1(v)   == IF Leaves(v) THEN FALSE ELSE leftFrame

\* Mutant: the branch a Switch took is not looked at.
Blocked_anyBranch(v, a) == a[1] \notin Ext /\ ~IsNodeActive(Flow1(v), a[1])

\* Inputs the walk has disabled: inactive nodes, and the output of a Switch
\* that was not taken.
Blocked(v, a) ==
  /\ a[1] \notin Ext
  /\ \/ ~IsNodeActive(Flow1(v), a[1])
     \/ Kind(a[1]) = "Switch" /\ Flow1(v).branch[a[1]] # a[2]

\* A Merge is skipped when both inputs are inactive, an Exit never.
ShouldSkip(v) ==
  CASE Kind(v) = "Exit"  -> FALSE
    [] Kind(v) = "Merge" -> \A i \in {1, 2} : ~IsNodeActive(Flow1(v), In(v)[i][1])
    [] OTHER             -> \E i \in DOMAIN In(v) : Blocked(v, In(v)[i])

\* The FlowPath and the frame id once the node is known to be visited.
Live(v)     == MarkActive(Flow1(v), v)
FrameId(v)  == IF Frames1(v) # <<>> /\ frameOf[v] < 0 THEN Last(Frames1(v)) ELSE frameOf[v]
SetFrame(v) == frameOf' = [frameOf EXCEPT ![v] = FrameId(v)]

\* The next node of the layer.
Advance == n' = n + 1 /\ l' = l

Count == counter' = counter + 1

\* A visit that ends the execution: a status, an exception, or a crash.
Stop(v, how) ==
  /\ status' = how
  /\ flow' = Live(v) /\ frames' = Frames1(v) /\ leftFrame' = Left1(v)
  /\ SetFrame(v) /\ Count
  /\ UNCHANGED <<g, runs, feed, l, n, rewindTo, flowPtr, memory>>

\* A visit that goes on with the next node, FlowPath fl and frames fs.
Go(v, fl, fs) ==
  /\ flow' = fl /\ frames' = fs /\ SetFrame(v) /\ Count /\ Advance
  /\ UNCHANGED <<g, status, runs, feed, flowPtr>>

Usable(a)     == slot[a] # Nil /\ slot[a] \notin freed
Alias(to, a)  == slot' = [slot EXCEPT ![to] = slot[a]]

---------------------------------------------------------------------------
(* One action per outcome of a visit *)

\* A skipped node is marked inactive; a skipped Merge is not.
Skip(v) ==
  /\ At(v) /\ ShouldSkip(v)
  /\ flow' = IF Kind(v) = "Merge" THEN Flow1(v) ELSE MarkInactive(Flow1(v), v)
  /\ frames' = Frames1(v) /\ leftFrame' = Left1(v)
  /\ Count /\ Advance
  /\ UNCHANGED <<g, status, runs, feed, frameOf, rewindTo, flowPtr, memory>>

\* LogicEnter: the first input that has an array, under the node's frame.
Enter(v) ==
  LET have  == {i \in DOMAIN In(v) : slot[In(v)[i]] # Nil}
      first == CHOOSE i \in have : \A j \in have : i <= j
      opens == Frames1(v) = <<>> \/ Last(Frames1(v)) # FrameId(v)
  IN  /\ At(v) /\ Kind(v) = "Enter" /\ ~ShouldSkip(v)
      /\ Go(v, MarkExecuted(Live(v), v),
            IF opens THEN Append(Frames1(v), FrameId(v)) ELSE Frames1(v))
      /\ IF have = {} THEN UNCHANGED slot ELSE Alias(Out(v), In(v)[first])
      /\ leftFrame' = Left1(v)
      /\ UNCHANGED <<rewindTo, content, freed>>

\* LogicMerge when the second input is a NextIteration: it tells it where to
\* rewind to, activates the frame, and takes the second input if that node
\* has run since the last time.
MergeLoop(v) ==
  LET back  == In(v)[2][1]
      again == back \in Flow1(v).executed
      fl    == IF FrameId(v) >= 0 THEN ActivateFrame(Live(v), FrameId(v)) ELSE Live(v)
  IN  /\ At(v) /\ Kind(v) = "Merge" /\ Kind(back) = "NextIteration" /\ ~ShouldSkip(v)
      /\ again => Usable(In(v)[2])
      /\ Go(v, MarkExecuted(IF again THEN MarkNotExecuted(fl, back) ELSE fl, v), Frames1(v))
      /\ Alias(Out(v), IF again THEN In(v)[2] ELSE In(v)[1])
      /\ rewindTo' = [rewindTo EXCEPT ![back] = l]
      /\ leftFrame' = Left1(v)
      /\ UNCHANGED <<content, freed>>

\* LogicMerge otherwise: the first input that has an array; the array the
\* variable held before is deleted.
Merge(v) ==
  LET have  == {i \in DOMAIN In(v) : slot[In(v)[i]] # Nil}
      first == CHOOSE i \in have : \A j \in have : i <= j
  IN  /\ At(v) /\ Kind(v) = "Merge" /\ Kind(In(v)[2][1]) # "NextIteration" /\ ~ShouldSkip(v)
      /\ Go(v, MarkExecuted(Live(v), v), Frames1(v))
      /\ IF have = {} THEN UNCHANGED slot ELSE Alias(Out(v), In(v)[first])
      /\ freed' = IF have # {} /\ slot[Out(v)] # Nil THEN freed \cup {slot[Out(v)]} ELSE freed
      /\ leftFrame' = Left1(v)
      /\ UNCHANGED <<rewindTo, content>>

\* LogicSwitch in the two-input format: the input goes to the output the
\* boolean selects.
Switch(v) ==
  LET b == IF content[slot[In(v)[2]]] = 0 THEN 0 ELSE 1
  IN  /\ At(v) /\ Kind(v) = "Switch" /\ ~ShouldSkip(v)
      /\ Usable(In(v)[1]) /\ Usable(In(v)[2])
      /\ Go(v, MarkExecuted(MarkBranch(Live(v), v, b), v), Frames1(v))
      /\ Alias(<<v, b>>, In(v)[1])
      /\ leftFrame' = Left1(v)
      /\ UNCHANGED <<rewindTo, content, freed>>

\* LogicLoopCond: passes its input on.
LoopCond(v) ==
  /\ At(v) /\ Kind(v) = "LoopCond" /\ ~ShouldSkip(v) /\ Usable(In(v)[1])
  /\ Go(v, MarkExecuted(Live(v), v), Frames1(v))
  /\ Alias(Out(v), In(v)[1])
  /\ leftFrame' = Left1(v)
  /\ UNCHANGED <<rewindTo, content, freed>>

\* Mutant: the rewind goes to the layer of the Merge's successor.
NextIteration_late(v) ==
  LET f  == Last(Frames1(v))
      fl == MarkExecuted(Live(v), v)
  IN  /\ At(v) /\ Kind(v) = "NextIteration" /\ ~ShouldSkip(v) /\ Frames1(v) # <<>>
      /\ Go(v, IF fl.frame[f].rewindPlanned THEN fl ELSE PlanRewind(fl, f, rewindTo[v]), Frames1(v))
      /\ Alias(Out(v), In(v)[1])
      /\ leftFrame' = Left1(v)
      /\ UNCHANGED <<rewindTo, content, freed>>

\* NextIteration plans the rewind of its frame, unless one is planned.
NextIteration(v) ==
  LET f  == Last(Frames1(v))
      fl == MarkExecuted(Live(v), v)
  IN  /\ At(v) /\ Kind(v) = "NextIteration" /\ ~ShouldSkip(v) /\ Frames1(v) # <<>>
      /\ Go(v, IF fl.frame[f].rewindPlanned THEN fl ELSE PlanRewind(fl, f, rewindTo[v] - 1),
            Frames1(v))
      /\ Alias(Out(v), In(v)[1])
      /\ leftFrame' = Left1(v)
      /\ UNCHANGED <<rewindTo, content, freed>>

\* An Exit whose frame no Merge has activated: the loop is left untouched.
ExitInactive(v) ==
  /\ At(v) /\ Kind(v) = "Exit" /\ frames # <<>>
  /\ ~flow.frame[Last(frames)].activated
  /\ Go(v, MarkInactive(Live(v), v), frames)
  /\ leftFrame' = TRUE
  /\ UNCHANGED <<rewindTo, memory>>

\* An Exit with a rewind planned: back to the layer after the position.
ExitRewind(v) ==
  LET f == Last(frames)
  IN  /\ At(v) /\ Kind(v) = "Exit" /\ frames # <<>>
      /\ flow.frame[f].activated /\ flow.frame[f].rewindPlanned
      /\ l' = flow.frame[f].rewindPosition + 1 /\ n' = 0
      /\ flow' = CancelRewind(Live(v), f)
      /\ SetFrame(v) /\ Count
      /\ UNCHANGED <<g, status, runs, feed, flowPtr, frames, leftFrame, rewindTo, memory>>

\* LogicExit: the loop is done, its value leaves the frame.
ExitLoop(v) ==
  /\ At(v) /\ Kind(v) = "Exit" /\ frames # <<>>
  /\ flow.frame[Last(frames)].activated /\ ~flow.frame[Last(frames)].rewindPlanned
  /\ Go(v, MarkExecuted(Live(v), v), frames)
  /\ Alias(Out(v), In(v)[1])
  /\ leftFrame' = TRUE
  /\ UNCHANGED <<rewindTo, content, freed>>

Args(v) == [i \in DOMAIN In(v) |-> content[slot[In(v)[i]]]]

\* DeclarableOp::prepareOutputs: the array the output variable has, or a new one.
PreparedOutput(v) == IF slot[Out(v)] = Nil THEN Out(v) ELSE slot[Out(v)]

\* executeFlatNode: the op computes into its output array.
ExecuteOp(v) ==
  /\ At(v) /\ Kind(v) = "Op" /\ ~ShouldSkip(v)
  /\ \A i \in DOMAIN In(v) : Usable(In(v)[i])
  /\ Go(v, MarkExecuted(Live(v), v), Frames1(v))
  /\ slot' = [slot EXCEPT ![Out(v)] = PreparedOutput(v)]
  /\ content' = [content EXCEPT ![PreparedOutput(v)] = Apply(g.op[v], Args(v))]
  /\ leftFrame' = Left1(v)
  /\ UNCHANGED <<rewindTo, freed>>

\* The op returns an error: no input array (validateNonEmptyInput), or a
\* failure of its own.
OpError(v) ==
  /\ Kind(v) = "Op"
  /\ OpsMayFail \/ \E i \in DOMAIN In(v) : slot[In(v)[i]] = Nil

\* Undefined behaviour: a logic op dereferences a null array, any op reads a
\* deleted one, or the frame of a loop is taken from an empty deque.
Crash(v) ==
  \/ /\ Kind(v) = "Op"
     /\ \A i \in DOMAIN In(v) : slot[In(v)[i]] # Nil
     /\ \E i \in DOMAIN In(v) : slot[In(v)[i]] \in freed
  \/ Kind(v) = "Switch" /\ \E i \in {1, 2} : ~Usable(In(v)[i])
  \/ Kind(v) = "LoopCond" /\ ~Usable(In(v)[1])
  \/ /\ Kind(v) = "Merge" /\ Kind(In(v)[2][1]) = "NextIteration"
     /\ In(v)[2][1] \in Flow1(v).executed /\ ~Usable(In(v)[2])
  \/ Kind(v) \in {"NextIteration", "Exit"} /\ Frames1(v) = <<>>

Fail(v) ==
  /\ At(v) /\ ~ShouldSkip(v)
  /\ \E how \in (IF OpError(v) THEN {"error"} ELSE {})
                  \cup (IF Crash(v) THEN {"crashed"} ELSE {}) : Stop(v, how)

---------------------------------------------------------------------------
(* The walk itself *)

\* The call of execute: a FlowPath is allocated when the variable space has
\* none, and a deleted one is used when a former run has left its pointer.
\* The caller has put new values into the external variables.
Execute(f) ==
  /\ status \in {"idle", "ok", "error", "thrown"} /\ runs < MaxRuns(g)
  /\ status' = IF flowPtr = "freed" THEN "crashed" ELSE "running"
  /\ runs' = runs + 1
  /\ feed' = f
  /\ content' = [a \in Addresses |-> IF a[1] \in Ext THEN f[a[1]] ELSE content[a]]
  /\ flowPtr' = IF flowPtr = "null" THEN "temp" ELSE flowPtr
  /\ flow' = IF flowPtr = "null" THEN FreshFlow ELSE flow
  /\ l' = 0 /\ n' = 0 /\ counter' = 0
  /\ frames' = <<>> /\ leftFrame' = FALSE
  /\ UNCHANGED <<g, frameOf, rewindTo, slot, freed>>

NextLayer ==
  /\ status = "running" /\ l < Len(g.layers) /\ n = Len(Layer)
  /\ l' = l + 1 /\ n' = 0
  /\ UNCHANGED <<g, status, runs, feed, counter, framing, flowPtr, flow, memory>>

\* A temporary FlowPath is deleted; the variable space keeps the pointer.
Finish ==
  /\ status = "running" /\ l = Len(g.layers)
  /\ status' = "ok"
  /\ flowPtr' = IF flowPtr = "temp" /\ runs = 1 THEN "freed" ELSE flowPtr
  /\ UNCHANGED <<g, runs, feed, position, framing, flow, memory>>

EarlyTermination ==
  /\ status = "running" /\ counter = ExecLimit
  /\ l < Len(g.layers) /\ n < Len(Layer)
  /\ status' = "thrown"
  /\ UNCHANGED <<g, runs, feed, position, framing, flowPtr, flow, memory>>

Visit(v) ==
  \/ Skip(v)
  \/ Enter(v) \/ MergeLoop(v) \/ Merge(v) \/ Switch(v) \/ LoopCond(v)
  \/ NextIteration(v) \/ ExitInactive(v) \/ ExitRewind(v) \/ ExitLoop(v)
  \/ ExecuteOp(v) \/ Fail(v)

Walk == (\E v \in Nodes : Visit(v)) \/ NextLayer \/ Finish \/ EarlyTermination

\* The caller does something else.
Rest == status # "running" /\ UNCHANGED vars

Next == Walk \/ (\E f \in g.feeds : Execute(f)) \/ Rest

Spec     == Init /\ [][Next]_vars
\* execute is a sequential loop: once called it runs to its end.
FairSpec == Spec /\ WF_vars(Walk)

---------------------------------------------------------------------------
(* Properties *)

\* A run that returns OK has computed what the graph means: branches not taken,
\* frames and rewinds included, whatever earlier runs left behind, and has closed
\* every loop: no frame is open but the one an Exit in the last layer has just left,
\* and no rewind is pending.
ResultsCorrect ==
  status = "ok" =>
     /\ \A o \in DOMAIN g.meaning[feed] :
          slot[o] # Nil /\ content[slot[o]] = g.meaning[feed][o]
     /\ Len(frames) = IF leftFrame THEN 1 ELSE 0
     /\ \A f \in Frames : ~flow.frame[f].rewindPlanned

\* A node inside a branch that was not taken is never executed, however deep
\* in the branch it lies.
BranchDisabled ==
  \A v \in Nodes : At(v) /\ ~ShouldSkip(v) =>
     \A a \in g.under[v] : a[1] \in flow.executed /\ flow.branch[a[1]] = a[2]

LayerOf(v) == CHOOSE i \in 0..Len(g.layers) - 1 : \E j \in DOMAIN g.layers[i + 1] :
                 g.layers[i + 1][j] = v

\* A layer is left for a higher one only when all its nodes have been visited.
PassesNone == status = "running" /\ l' > l => n = Len(Layer) /\ l' = l + 1

\* The walk goes back only when a loop iterates, and then to a layer from
\* which all Merge nodes of the loop are visited again, and no Enter is; it never
\* passes over a node on its way up, however old the rewind position it jumps to.
RewindRestartsLoop ==
  [][/\ PassesNone
     /\ status = "running" /\ l' < l =>
          \A v \in Nodes : frameOf[v] = Last(frames) =>
             /\ Kind(v) = "Merge" => LayerOf(v) >= l'
             /\ Kind(v) = "Enter" => LayerOf(v) < l']_vars

\* Every call of execute comes back: a graph whose loops end is executed to its
\* end, and only one whose condition never becomes false runs into the limit.  It
\* does not crash on the way: no frames.back() of an empty deque, no missing array
\* dereferenced, no deleted one read.
RunEnds ==
  (status = "running") ~> \/ status \in {"ok", "error"}
                          \/ status = "thrown" /\ feed \notin g.ends

===========================================================================
