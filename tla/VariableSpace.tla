--------------------------- MODULE VariableSpace ---------------------------
(***************************************************************************)
(* nd4j::graph::VariableSpace: where a graph keeps its variables.  One     *)
(* variable is found under a pair (node, output), under the node's id and  *)
(* under a name; _handles owns it, and a variable marked removable owns    *)
(* its array.  executeStoredGraph clones the graph's own space, feeds the  *)
(* inputs to the clone, executes the graph on it and deletes it.           *)
(*                                                                         *)
(* The actions are the calls that the graph, its ops and the stored-graph  *)
(* entry points make.  A Variable is named by the space and the pair it    *)
(* was created for, and by whether it was created late (without a name);   *)
(* an array by the variable it was created for and a number.               *)
(*                                                                         *)
(* Nodes are custom ops or a While.  A Conditional of the scoped format is *)
(* not among them: after every execution it puts, under its pairs, new     *)
(* variables over the arrays of its branch's last node                     *)
(* (LogicConditional.cpp:107-115).                                         *)
(***************************************************************************)
EXTENDS Integers

CONSTANTS
  Spaces,     \* the graph's own space and its clones
  Own,        \* the graph's own space
  ExtIds,     \* ids of external variables, negative
  NodeIds,    \* ids of nodes
  Input,      \* the (node, output) each node reads
  NameOf,     \* the name of a variable or node, or NoName
  NoName,
  None,       \* no variable (a null pointer)
  NoArr,      \* no array
  Kinds,      \* the kinds each node may have, see below
  MaxArrays   \* bound: arrays made for one variable

\* "single": one output;   "double": two, known to the op's descriptor;
\* "dynamic": two, unknown to the descriptor;   "while": a While, one variable
AllKinds == {"single", "double", "dynamic", "while"}

Ids    == ExtIds \cup NodeIds
Pairs  == (ExtIds \X {0}) \cup (NodeIds \X {0, 1})
Names  == {NameOf[i] : i \in Ids} \ {NoName}

Objs   == [space : Spaces, pair : Pairs, late : BOOLEAN]
Arrays == Objs \X (1..MaxArrays)

ASSUME VariableSpaceAssumption ==
  /\ Own \in Spaces
  /\ ExtIds \subseteq Int /\ \A i \in ExtIds : i < 0
  /\ NodeIds \subseteq Nat \ {0}
  /\ Input \in [NodeIds -> Pairs]
  /\ \A i, j \in Ids : NameOf[i] = NameOf[j] => i = j \/ NameOf[i] = NoName
  /\ Kinds \in [NodeIds -> SUBSET AllKinds]
  /\ MaxArrays \in Nat \ {0}
  /\ None \notin Objs /\ NoArr \notin Arrays

VARIABLES
  status,    \* of each space: "none", "feeding", "running", "deleted";
             \* the graph's own one is "reading" while the graph is built
  space,     \* the indexes and the handles of each space
  var,       \* the variables: live, arr (its array), removable
  made,      \* ghost: how many arrays have been made for a variable
  freed,     \* ghost: the arrays that have been deleted
  node,      \* the kind of each node, "none" before it is added
  inplace,   \* nodes that compute in place
  done,      \* the nodes a space's current run has executed
  corrupted  \* ghost: something has been deleted twice

heap == <<var, made, freed, corrupted>>
vars == <<status, space, heap, node, inplace, done>>

Obj(s, p, l) == [space |-> s, pair |-> p, late |-> l]
Name(o) == IF o.late \/ o.pair[2] # 0 THEN NoName ELSE NameOf[o.pair[1]]

Variable(a, r) == [live |-> TRUE, arr |-> a, removable |-> r]
Blank == [live |-> FALSE, arr |-> NoArr, removable |-> TRUE]

\* _paired, _variables and _temporary together, _symbolic, and how often a
\* variable is in _handles.
EmptySpace == [paired   |-> [p \in Pairs |-> None],
               byId     |-> [i \in Ids |-> None],
               symbolic |-> [n \in Names |-> None],
               handles  |-> [o \in Objs |-> 0]]

Init ==
  /\ status = [s \in Spaces |-> IF s = Own THEN "reading" ELSE "none"]
  /\ space = [s \in Spaces |-> EmptySpace]
  /\ var = [o \in Objs |-> Blank]
  /\ made = [o \in Objs |-> 0]
  /\ freed = {}
  /\ node = [i \in NodeIds |-> "none"] /\ inplace = {}
  /\ done = [s \in Spaces |-> {}]
  /\ corrupted = FALSE

---------------------------------------------------------------------------
(* Lookups and puts; S is the record of one space *)

HasPair(S, p) == S.paired[p] # None
HasId(S, i)   == S.byId[i] # None

\* getVariable(pair): external variables are looked up by id alone.
GetVariable(S, p) ==
  IF p[1] < 0 \/ (~HasPair(S, p) /\ p[2] = 0) THEN S.byId[p[1]] ELSE S.paired[p]

\* putVariable(id, o): the first variable of an id stays; the pair too.  (That
\* one would take over o's array if it had none; no caller puts an array so.)
PutId(S, i, o) ==
  IF HasId(S, i) THEN S
  ELSE [paired   |-> IF HasPair(S, <<i, 0>>) THEN S.paired
                     ELSE [S.paired EXCEPT ![<<i, 0>>] = o],
        byId     |-> [S.byId EXCEPT ![i] = o],
        symbolic |-> [n \in Names |-> IF n = Name(o) THEN o ELSE S.symbolic[n]],
        handles  |-> [S.handles EXCEPT ![o] = @ + 1]]

\* Mutant: the copy under the node's id is forgotten.
PutPair_pairOnly(S, p, o) ==
  [S EXCEPT !.paired[p] = o,
            !.symbolic = [n \in Names |-> IF n = Name(o) THEN o ELSE @[n]],
            !.handles[o] = @ + 1]

\* Mutant: the put by id adds a handle, and so does the put by pair.
PutPair_twice(S, p, o) ==
  LET P == [S EXCEPT !.paired[p] = o,
                     !.handles[o] = @ + 1]
  IN  IF p[2] = 0 /\ ~HasId(S, p[1]) THEN PutId(P, p[1], o) ELSE P

\* putVariable(pair, o): the pair is overwritten, the id only if it is new.
PutPair(S, p, o) ==
  LET P == [S EXCEPT !.paired[p] = o]
  IN  IF p[2] = 0 /\ ~HasId(S, p[1])
      THEN PutId(P, p[1], o)
      ELSE [P EXCEPT !.symbolic = [n \in Names |-> IF n = Name(o) THEN o ELSE @[n]],
                     !.handles[o] = @ + 1]

---------------------------------------------------------------------------
(* Building the graph *)

\* The constructor reads a variable of the file, which comes with its array.
ReadVariable(p) ==
  LET o == Obj(Own, p, FALSE)
  IN  /\ status[Own] = "reading" /\ \A i \in NodeIds : node[i] = "none"
      /\ ~HasPair(space[Own], p)
      /\ space' = [space EXCEPT ![Own] = PutPair(@, p, o)]
      /\ var' = [var EXCEPT ![o] = Variable(<<o, 1>>, TRUE)]
      /\ made' = [made EXCEPT ![o] = 1]
      /\ UNCHANGED <<status, freed, corrupted, node, inplace, done>>

\* The variables the graph creates ahead for outputs beyond the node's state.
Deep(i, k) == CASE k = "double" -> {Obj(Own, <<i, 1>>, TRUE)}
                [] k = "while"  -> {Obj(Own, <<i, 0>>, TRUE)}
                [] OTHER        -> {}

PutDeep(S, i, k) ==
  IF Deep(i, k) = {} THEN S
  ELSE LET d == CHOOSE d \in Deep(i, k) : TRUE IN PutPair(S, d.pair, d)

\* addNode: the state of the node is never removable (the condition on in-place
\* nodes guards an empty statement); it takes the array of the external variable
\* `to` the node propagates to, when its op has no further outputs.  If the file
\* has a variable of this id, the new state is dropped.
AddNode(i, k, inp, to) ==
  LET S == space[Own]
      o == Obj(Own, <<i, 0>>, FALSE)
      shared == IF to \in ExtIds /\ k # "double" THEN var[S.byId[to]].arr ELSE NoArr
  IN  /\ status[Own] = "reading" /\ node[i] = "none"
      /\ to \in ExtIds => HasId(S, to)
      /\ inp => k = "single"
      /\ node' = [node EXCEPT ![i] = k]
      /\ inplace' = IF inp THEN inplace \cup {i} ELSE inplace
      /\ space' = [space EXCEPT ![Own] = PutDeep(PutId(@, i, o), i, k)]
      /\ var' = [x \in Objs |->
                   IF x = o /\ ~HasId(S, i) THEN Variable(shared, FALSE)
                   ELSE IF x \in Deep(i, k) THEN Variable(NoArr, ~inp)
                   ELSE var[x]]
      /\ UNCHANGED <<status, made, freed, corrupted, done>>

\* The graph is registered, and may be executed on its own space too.
Built ==
  /\ status[Own] = "reading"
  /\ status' = [status EXCEPT ![Own] = "running"]
  /\ UNCHANGED <<space, heap, node, inplace, done>>

---------------------------------------------------------------------------
(* Executing a node on a space *)

Outputs(i) == {<<i, e>> : e \in IF node[i] = "single" THEN {0} ELSE {0, 1}}

\* ensureVariable, for every output: the variable of an output nobody put yet.
Missing(s, i)  == {p \in Outputs(i) : ~HasPair(space[s], p)}
Ensured(s, i)  ==
  IF Missing(s, i) = {} THEN space[s]
  ELSE LET p == CHOOSE p \in Missing(s, i) : TRUE
       IN  PutPair(space[s], p, Obj(s, p, TRUE))
Target(s, i, p) == Ensured(s, i).paired[p]

\* prepareOutputs makes an array for every output that has none.  An op that
\* computes its results in an array of its own hands it over with overwriteResult:
\* the variable's array is deleted if it is removable, and replaced.
Execute(s, i, over) ==
  LET T == {Target(s, i, p) : p \in Outputs(i)}
      Prepared(o) == IF var[o].arr = NoArr THEN 1 ELSE 0
      Total(o) == made[o] + Prepared(o) + IF over THEN 1 ELSE 0
      Old == {IF var[o].arr = NoArr THEN <<o, made[o] + 1>> ELSE var[o].arr :
                o \in {x \in T : over /\ (var[x].arr = NoArr \/ var[x].removable)}}
  IN  /\ \A o \in T : Total(o) <= MaxArrays
      /\ space' = [space EXCEPT ![s] = Ensured(s, i)]
      /\ var' = [o \in Objs |-> IF o \in T /\ (over \/ var[o].arr = NoArr)
                                THEN Variable(<<o, Total(o)>>, TRUE) ELSE var[o]]
      /\ made' = [o \in Objs |-> IF o \in T THEN Total(o) ELSE made[o]]
      /\ freed' = freed \cup Old
      /\ corrupted' = (corrupted \/ Old \cap freed # {})

\* Mutant: the variable keeps the mark it had.
ExecuteInplace_removable(s, i) ==
  LET o == Target(s, i, <<i, 0>>)
      z == var[GetVariable(space[s], Input[i])].arr
  IN  /\ space' = [space EXCEPT ![s] = Ensured(s, i)]
      /\ var' = [var EXCEPT ![o] = Variable(z, TRUE)]
      /\ UNCHANGED <<made, freed, corrupted>>

\* An in-place op takes its input's array for its own (getZ).
ExecuteInplace(s, i) ==
  LET o == Target(s, i, <<i, 0>>)
      z == var[GetVariable(space[s], Input[i])].arr
  IN  /\ space' = [space EXCEPT ![s] = Ensured(s, i)]
      /\ var' = [var EXCEPT ![o] = Variable(z, FALSE)]
      /\ UNCHANGED <<made, freed, corrupted>>

\* The node's input has been computed in this run, or is external.
InputReady(s, i) ==
  LET q == Input[i] IN
  /\ q[1] \in NodeIds => q[1] \in done[s]
  /\ HasPair(space[s], q)
  /\ var[GetVariable(space[s], q)].arr # NoArr

ExecuteNode(s, i, over) ==
  /\ status[s] \in {"running", "feeding"} /\ node[i] \notin {"none", "while"}
  /\ i \notin done[s] /\ InputReady(s, i)
  /\ IF i \in inplace THEN ~over /\ ExecuteInplace(s, i) ELSE Execute(s, i, over)
  /\ done' = [done EXCEPT ![s] = @ \cup {i}]
  /\ status' = [status EXCEPT ![s] = "running"]
  /\ UNCHANGED <<node, inplace>>

Nodes == {i \in NodeIds : node[i] # "none"}

\* The next run on the same space.
NextRun(s) ==
  /\ status[s] = "running" /\ done[s] = Nodes /\ Nodes # {}
  /\ done' = [done EXCEPT ![s] = {}]
  /\ UNCHANGED <<status, space, heap, node, inplace>>

---------------------------------------------------------------------------
(* Executing a stored graph *)

Twin(c, o) == IF o = None THEN None ELSE [o EXCEPT !.space = c]

\* Mutant: the copies are put with silentPutVariable, which fills _paired alone.
CloneOf_silent(c) ==
  LET P == [p \in Pairs |-> Twin(c, space[Own].paired[p])]
  IN  [EmptySpace EXCEPT !.paired = P,
         !.handles = [o \in Objs |-> IF o.space = c /\ P[o.pair] = o THEN 1 ELSE 0]]

\* clone and injectVariable: every index is rebuilt from _paired.
CloneOf(c) ==
  LET P == [p \in Pairs |-> Twin(c, space[Own].paired[p])]
  IN  [paired   |-> P,
       byId     |-> [i \in Ids |-> P[<<i, 0>>]],
       symbolic |-> [n \in Names |->
                       LET N == {p \in Pairs : P[p] # None /\ Name(P[p]) = n}
                       IN  IF N = {} THEN None ELSE P[CHOOSE p \in N : TRUE]],
       handles  |-> [o \in Objs |-> IF o.space = c /\ P[o.pair] = o THEN 1 ELSE 0]]

\* Mutant: the pointer is set before the array it points to is made.
Dup_early(o) == [live |-> TRUE, removable |-> TRUE,
                 arr |-> IF var[Twin(Own, o)].arr = NoArr THEN NoArr ELSE <<o, made[o]>>]

\* Variable::clone: a removable variable with an array of its own.
Dup(o) == [live |-> TRUE, removable |-> TRUE,
           arr |-> IF var[Twin(Own, o)].arr = NoArr THEN NoArr ELSE <<o, 1>>]

Cloned(c) == {o \in Objs : o.space = c /\ space[Own].paired[o.pair] = Twin(Own, o)}

\* The graph is cloned between its runs.
Clone(c) ==
  /\ status[Own] = "running" /\ done[Own] \in {{}, Nodes} /\ status[c] = "none"
  /\ status' = [status EXCEPT ![c] = "feeding"]
  /\ space' = [space EXCEPT ![c] = CloneOf(c)]
  /\ var' = [o \in Objs |-> IF o \in Cloned(c) THEN Dup(o) ELSE var[o]]
  /\ made' = [o \in Objs |-> IF o \in Cloned(c) /\ Dup(o).arr # NoArr THEN 1 ELSE made[o]]
  /\ UNCHANGED <<freed, corrupted, node, inplace, done>>

\* The caller's input replaces the array of variable i, or makes the variable.
\* An array that is there is deleted, removable or not.
Feed(c, i) ==
  LET S == space[c]
      o == IF HasId(S, i) THEN S.byId[i] ELSE Obj(c, <<i, 0>>, TRUE)
      old == IF HasId(S, i) /\ var[o].arr # NoArr THEN {var[o].arr} ELSE {}
  IN  /\ status[c] = "feeding" /\ made[o] < MaxArrays
      /\ space' = [space EXCEPT ![c] = PutId(@, i, o)]
      /\ var' = [var EXCEPT ![o] = [live |-> TRUE, arr |-> <<o, made[o] + 1>>,
                                    removable |-> @.removable]]
      /\ made' = [made EXCEPT ![o] = @ + 1]
      /\ freed' = freed \cup old
      /\ corrupted' = (corrupted \/ old \cap freed # {})
      /\ UNCHANGED <<status, node, inplace, done>>

Held(s) == {o \in Objs : space[s].handles[o] > 0}

\* Mutant: only variables that are found by id own an array.
Owner_byId(s) ==
  {o \in Held(s) : \E i \in Ids : space[s].byId[i] = o /\ var[o].arr # NoArr}

\* ~Variable deletes the array of a removable variable.
Owner(s) == {o \in Held(s) : var[o].removable /\ var[o].arr # NoArr}

\* ~VariableSpace: every handle is deleted, with the array of a removable one.
Destroy(s) ==
  /\ status[s] \in {"feeding", "running"}
  /\ status' = [status EXCEPT ![s] = "deleted"]
  /\ var' = [o \in Objs |-> IF o \in Held(s) THEN Blank ELSE var[o]]
  /\ freed' = freed \cup {var[o].arr : o \in Owner(s)}
  /\ corrupted' = \/ corrupted
                  \/ \E o \in Owner(s) : var[o].arr \in freed
                  \/ \E o \in Held(s) : space[s].handles[o] > 1
                  \/ \E o, x \in Owner(s) : o # x /\ var[o].arr = var[x].arr
  /\ space' = [space EXCEPT ![s] = EmptySpace]
  /\ done' = [done EXCEPT ![s] = {}]
  /\ UNCHANGED <<made, node, inplace>>

---------------------------------------------------------------------------
Next ==
  \/ \E p \in Pairs : ReadVariable(p)
  \/ \E i \in NodeIds, inp \in BOOLEAN, to \in ExtIds \cup {0} :
       \E k \in Kinds[i] : AddNode(i, k, inp, to)
  \/ Built
  \/ \E s \in Spaces, i \in NodeIds, over \in BOOLEAN : ExecuteNode(s, i, over)
  \/ \E s \in Spaces : NextRun(s) \/ Destroy(s)
  \/ \E c \in Spaces \ {Own} : Clone(c) \/ \E i \in Ids : Feed(c, i)

Spec == Init /\ [][Next]_vars

---------------------------------------------------------------------------
(* Properties *)

\* The indexes hold variables or nothing, and an array is named by a variable it was
\* made for: Variable::clone never points to an array that does not exist yet.
TypeOK ==
  /\ status \in [Spaces -> {"none", "reading", "feeding", "running", "deleted"}]
  /\ space \in [Spaces -> [paired : [Pairs -> Objs \cup {None}],
                           byId : [Ids -> Objs \cup {None}],
                           symbolic : [Names -> Objs \cup {None}],
                           handles : [Objs -> Nat]]]
  /\ var \in [Objs -> [live : BOOLEAN, arr : Arrays \cup {NoArr}, removable : BOOLEAN]]
  /\ made \in [Objs -> 0..MaxArrays]
  /\ freed \subseteq Arrays
  /\ node \in [NodeIds -> AllKinds \cup {"none"}] /\ inplace \subseteq NodeIds
  /\ done \in [Spaces -> SUBSET NodeIds]
  /\ corrupted \in BOOLEAN

\* A variable is the same whichever way it is looked up: by id, by the pair
\* (id, 0), and by the name it carries (putVariable copies "for compatibility";
\* fetchOutputs looks up by id what the ops store by pair).  So it is for custom ops.
LookupsAgree ==
  \A s \in Spaces, i \in Ids :
    /\ space[s].byId[i] = space[s].paired[<<i, 0>>]
    /\ NameOf[i] # NoName =>
         space[s].symbolic[NameOf[i]] \in {None, space[s].byId[i]}

\* Whatever a lookup can return is a live variable that the destructor of this
\* very space will delete, once.
OwnedOnce ==
  \A s \in Spaces, o \in Objs :
    (\/ \E p \in Pairs : space[s].paired[p] = o
     \/ \E i \in Ids : space[s].byId[i] = o
     \/ \E n \in Names : space[s].symbolic[n] = o)
      => o.space = s /\ var[o].live /\ space[s].handles[o] = 1

\* Nothing is deleted twice, in any order of feeds, runs and destructions: the
\* array of an in-place node is also its input's, that of a propagating node also
\* an external variable's.
FreedOnce == ~corrupted

\* What a run has computed stays readable for the nodes after it: no array of a
\* node executed in the current run, nor of an external variable, has been freed.
ResultsReadable ==
  \A s \in Spaces : status[s] \in {"feeding", "running"} =>
    \A p \in Pairs :
      (p[1] \in ExtIds \cup done[s] /\ GetVariable(space[s], p) # None)
        => var[GetVariable(space[s], p)].arr \notin freed

\* No variable of one space holds an array of another: a run on a clone cannot
\* be seen through the graph or through other clones.
NoSharing ==
  \A o \in Objs : var[o].arr # NoArr => var[o].arr[1].space = o.space

\* The arrays behind the variables are memory-safe across all spaces.
ArraysSound == FreedOnce /\ ResultsReadable /\ NoSharing

\* When a space has been deleted, so have all arrays made for its variables, but
\* for variables of in-place nodes (getZ drops the array such a variable has).
NoLeak ==
  \A o \in Objs : (status[o.space] = "deleted" /\ o.pair[1] \notin inplace)
    => \A k \in 1..made[o] : <<o, k>> \in freed

\* A clone answers every lookup as the graph's own space did when it was cloned.
CloneFaithful ==
  [][\A c \in Spaces : (status[c] = "none" /\ status'[c] = "feeding") =>
       /\ \A i \in Ids : space'[c].byId[i] = Twin(c, space[Own].byId[i])
       /\ \A n \in Names : space'[c].symbolic[n] = Twin(c, space[Own].symbolic[n])
       /\ \A p \in Pairs : space'[c].paired[p] = Twin(c, space[Own].paired[p])]_vars
===========================================================================
