---------------------------- MODULE GraphBuilder ----------------------------
(***************************************************************************)
(* nd4j::graph::Graph: how nodes get their place in the onion, the layered *)
(* order GraphExecutioner walks from layer 0 up.                           *)
(*                                                                         *)
(* Nodes arrive one by one through addNode, which places what it can and   *)
(* leaves the rest in _unmapped for buildGraph, or from a FlatGraph, whose *)
(* constructor gives each node its position in the file as layer.          *)
(* buildGraph passes over _unmapped in the order of ids until it is empty, *)
(* or gives up after twice as many passes as there were nodes.             *)
(***************************************************************************)
EXTENDS Integers, Sequences, FiniteSets

CONSTANTS
  Ids,       \* node ids
  Vars,      \* ids of external variables
  NodeDefs,  \* what a node may look like: see Node
  Ways,      \* how the graph comes to be: subset of {"api", "file"}
  Copies     \* copies the caller takes: subset of {"clone", "asT"}

\* The part of a Node the builder looks at.  paired: its inputs were given as
\* (id, output) pairs, and pickInput(pair) leaves both input flags FALSE.
Node == [input : Seq(Int), kind : {"op", "logic", "scope"},
         paired : BOOLEAN, scope : Ids \cup {0}]

ASSUME GraphBuilderAssumption ==
  /\ Ids \subseteq Nat \ {0}
  /\ IsFiniteSet(Ids)
  /\ Vars \subseteq Int
  /\ Vars \cap Ids = {}
  /\ NodeDefs \subseteq Node
  /\ Ways \subseteq {"api", "file"}
  /\ Copies \subseteq {"clone", "asT"}

VARIABLES
  def,       \* the nodes themselves
  nodes,     \* _nodes: ids in the order of addNode
  loaded,    \* those of them that came from the file
  layer,     \* node->getLayer()
  mapped,    \* keys of _mapped
  onion,     \* _onion: layer number -> sequence of ids
  unmapped,  \* keys of _unmapped
  listed,    \* size of _unmappedMap
  built,     \* _built
  status,    \* what the graph's owner sees: idle, in a call, or an exception
  todo,      \* buildGraph: nodes the current pass has not reached
  queue,     \* buildGraph: nodes placed in the current pass
  passes,    \* buildCnt
  limit,     \* buildLimit
  left       \* nodes that were not placed yet when the graph was copied

building  == <<todo, queue, passes, limit>>
structure == <<layer, mapped, onion>>
vars == <<def, nodes, loaded, structure, unmapped, listed, built, status,
          building, left>>

Added == {nodes[i] : i \in DOMAIN nodes}
Inputs(n) == {def[n].input[i] : i \in DOMAIN def[n].input}
Scopes == {n \in Added : def[n].kind = "scope"}
IsScoped(n) == def[n].scope # 0

HasExternalInputs(n) == ~def[n].paired /\ \E i \in Inputs(n) : i < 0
HasInternalInputs(n) == ~def[n].paired /\ \E i \in Inputs(n) : i >= 0
SingleInput(n) == Len(def[n].input) = 1
FirstInput(n) == def[n].input[1]

Init ==
  /\ def \in [Ids -> NodeDefs]
  /\ nodes = <<>>
  /\ loaded = {}
  /\ layer = [n \in Ids |-> -1]
  /\ mapped = {}
  /\ onion = [l \in {0} |-> <<>>]
  /\ unmapped = {}
  /\ listed = 0
  /\ built \in BOOLEAN  \* no constructor sets it
  /\ status \in {IF w = "api" THEN "open" ELSE "loading" : w \in Ways}
  /\ todo = {}
  /\ queue = {}
  /\ passes = 0
  /\ limit = 0
  /\ left = {}

-----------------------------------------------------------------------------
(* expandOnion and injectNode. *)

Expand(o, l) ==
  IF l \in DOMAIN o THEN o
  ELSE [k \in DOMAIN o \cup {l} |-> IF k = l THEN <<>> ELSE o[k]]

Inject(o, l, n) == [o EXCEPT ![l] = Append(@, n)]

Place_noExpand(n, l) ==
  /\ layer' = [layer EXCEPT ![n] = l]
  /\ mapped' = mapped \cup {n}
  /\ onion' = Inject(onion, l, n)

Place(n, l) ==
  /\ layer' = [layer EXCEPT ![n] = l]
  /\ mapped' = mapped \cup {n}
  /\ onion' = Inject(Expand(onion, l), l, n)

-----------------------------------------------------------------------------
(* addNode *)

\* The layer addNode gives at once: the set is empty when it gives none.
Immediate(n) ==
  IF HasExternalInputs(n) /\ ~HasInternalInputs(n) THEN {0}
  ELSE IF HasInternalInputs(n) /\ ~HasExternalInputs(n) /\ SingleInput(n)
          /\ FirstInput(n) \in mapped
       THEN {layer[FirstInput(n)] + 1} ELSE {}

Idle == status \in {"open", "unable"}

AddUnknownScope(n) ==
  /\ IsScoped(n) /\ def[n].scope \notin Scopes
  /\ status' = "unknown scope"
  /\ UNCHANGED <<structure, unmapped, listed>>

AddScoped(n) ==
  /\ IsScoped(n) /\ def[n].scope \in Scopes
  /\ status' = "open"
  /\ UNCHANGED <<structure, unmapped, listed>>

AddPlaced(n) ==
  /\ ~IsScoped(n)
  /\ \E l \in Immediate(n) : Place(n, l)
  /\ status' = "open"
  /\ UNCHANGED <<unmapped, listed>>

AddUnmapped_unlisted(n) ==
  /\ ~IsScoped(n) /\ Immediate(n) = {}
  /\ unmapped' = unmapped \cup {n}
  /\ status' = "open"
  /\ UNCHANGED <<structure, listed>>

AddUnmapped(n) ==
  /\ ~IsScoped(n) /\ Immediate(n) = {}
  /\ unmapped' = unmapped \cup {n}
  /\ listed' = listed + 1
  /\ status' = "open"
  /\ UNCHANGED structure

AddNode(n) ==
  /\ Idle
  /\ n \notin Added
  /\ nodes' = Append(nodes, n)
  /\ built' = FALSE
  /\ AddUnknownScope(n) \/ AddScoped(n) \/ AddPlaced(n) \/ AddUnmapped(n)
  /\ UNCHANGED <<def, left, loaded, building>>

-----------------------------------------------------------------------------
(* The FlatGraph constructor *)

\* The layer a node of the file ends in: addNode's, if it placed the node (the
\* injectNode that follows then returns at once), its own position otherwise.
\* A scoped node is in its scope by now and is injected all the same.
FileLayer(n) ==
  IF IsScoped(n) \/ Immediate(n) = {} THEN Len(nodes)
  ELSE CHOOSE l \in Immediate(n) : TRUE

LoadNode(n) ==
  /\ status = "loading"
  /\ n \notin Added
  /\ IsScoped(n) => def[n].scope \in Scopes
  /\ nodes' = Append(nodes, n)
  /\ loaded' = loaded \cup {n}
  /\ layer' = [layer EXCEPT ![n] = FileLayer(n)]
  /\ mapped' = mapped \cup {n}
  /\ onion' = Inject(Expand(Expand(onion, Len(nodes)), FileLayer(n)), FileLayer(n), n)
  /\ listed' = IF ~IsScoped(n) /\ Immediate(n) = {} THEN listed + 1 ELSE listed
  /\ built' = FALSE
  /\ UNCHANGED <<def, left, unmapped, status, building>>

LoadUnknownScope(n) ==
  /\ status = "loading"
  /\ n \notin Added
  /\ IsScoped(n) /\ def[n].scope \notin Scopes
  /\ status' = "unknown scope"
  /\ nodes' = Append(nodes, n)
  /\ built' = FALSE
  /\ UNCHANGED <<def, left, loaded, structure, unmapped, listed, building>>

\* The end of the file.  A FlatGraph without nodes leaves _built alone.
FinishLoad ==
  /\ status = "loading"
  /\ status' = "open"
  /\ built' = (built \/ nodes # <<>>)
  /\ UNCHANGED <<def, left, nodes, loaded, structure, unmapped, listed, building>>

-----------------------------------------------------------------------------
(* buildGraph.  On a graph that is built it changes nothing modelled here. *)

StartBuild_halfLimit ==
  /\ Idle /\ ~built
  /\ status' = "building"
  /\ todo' = unmapped
  /\ queue' = {}
  /\ passes' = 0
  /\ limit' = Cardinality(unmapped) \div 2
  /\ UNCHANGED <<def, left, nodes, loaded, structure, unmapped, listed, built>>

\* The loop that prints _unmapped reads as many elements of _unmappedMap.
StartBuild ==
  /\ Idle /\ ~built
  /\ IF Cardinality(unmapped) > listed
     THEN status' = "out of range" /\ UNCHANGED building
     ELSE /\ status' = "building"
          /\ todo' = unmapped
          /\ queue' = {}
          /\ passes' = 0
          /\ limit' = 2 * Cardinality(unmapped)
  /\ UNCHANGED <<def, left, nodes, loaded, structure, unmapped, listed, built>>

IsExternal(i) == i < 0 \/ i \in Vars

\* An input no pass has placed yet and that is no static variable.
Missing(n) == {i \in Inputs(n) : i \notin mapped /\ i > 0 /\ i \notin Vars}

\* The layers a multi-input node must lie above.
InputLayers(n) == {0} \cup {layer[m] : m \in Inputs(n) \cap mapped}

Layers_anyInput(n) ==
  IF SingleInput(n)
  THEN IF IsExternal(FirstInput(n)) THEN {Cardinality(DOMAIN onion)}
       ELSE {layer[m] + 1 : m \in {FirstInput(n)} \cap mapped}
  ELSE IF def[n].kind = "op" /\ Missing(n) # {} /\ Missing(n) = Inputs(n)
       THEN {}
       ELSE {l + 1 : l \in {k \in InputLayers(n) : \A j \in InputLayers(n) : j <= k}}

\* The layers the pass may give node n now: none when an input is missing.
\* A LOGIC node with several inputs does not wait for them.
Layers(n) ==
  IF SingleInput(n)
  THEN IF IsExternal(FirstInput(n)) THEN {Cardinality(DOMAIN onion)}
       ELSE {layer[m] + 1 : m \in {FirstInput(n)} \cap mapped}
  ELSE IF def[n].kind = "op" /\ Missing(n) # {}
       THEN {}
       ELSE {l + 1 : l \in {k \in InputLayers(n) : \A j \in InputLayers(n) : j <= k}}

Reached(n) == status = "building" /\ n \in todo /\ \A m \in todo : n <= m

TryPlaced(n) ==
  /\ Reached(n)
  /\ \E l \in Layers(n) : Place(n, l)
  /\ queue' = queue \cup {n}
  /\ todo' = todo \ {n}
  /\ UNCHANGED <<def, left, nodes, loaded, unmapped, listed, built, status, passes, limit>>

TrySkipped(n) ==
  /\ Reached(n)
  /\ Layers(n) = {}
  /\ todo' = todo \ {n}
  /\ UNCHANGED <<def, left, nodes, loaded, structure, unmapped, listed, built, status,
                 queue, passes, limit>>

EndPass_unlimited ==
  /\ status = "building" /\ todo = {} /\ unmapped # {}
  /\ unmapped' = unmapped \ queue
  /\ todo' = unmapped'
  /\ queue' = {}
  /\ UNCHANGED <<def, left, nodes, loaded, structure, listed, built, status, passes, limit>>

EndPass_late ==
  /\ status = "building" /\ todo = {} /\ unmapped # {}
  /\ unmapped' = unmapped \ queue
  /\ passes' = passes + 1
  /\ status' = IF passes > limit + 1 THEN "unable" ELSE "building"
  /\ todo' = IF status' = "unable" THEN {} ELSE unmapped'
  /\ queue' = {}
  /\ UNCHANGED <<def, left, nodes, loaded, structure, listed, built, limit>>

EndPass ==
  /\ status = "building" /\ todo = {} /\ unmapped # {}
  /\ unmapped' = unmapped \ queue
  /\ passes' = passes + 1
  /\ status' = IF passes' > limit THEN "unable" ELSE "building"
  /\ todo' = IF passes' > limit THEN {} ELSE unmapped'
  /\ queue' = {}
  /\ UNCHANGED <<def, left, nodes, loaded, structure, listed, built, limit>>

Built ==
  /\ status = "building" /\ unmapped = {}
  /\ built' = TRUE
  /\ status' = "open"
  /\ UNCHANGED <<def, left, nodes, loaded, structure, unmapped, listed, building>>

-----------------------------------------------------------------------------
(* clone and asT.  The caller goes on with the copy.  Neither copies         *)
(* _unmappedMap, and asT not even _unmapped.                                *)

Clone ==
  /\ Idle /\ "clone" \in Copies
  /\ left' = left \cup unmapped
  /\ listed' = 0
  /\ status' = "open"
  /\ UNCHANGED <<def, nodes, loaded, structure, unmapped, built, building>>

AsT ==
  /\ Idle /\ "asT" \in Copies
  /\ left' = left \cup unmapped
  /\ unmapped' = {}
  /\ listed' = 0
  /\ status' = "open"
  /\ UNCHANGED <<def, nodes, loaded, structure, built, building>>

-----------------------------------------------------------------------------

BuildStep ==
  \/ \E n \in Ids : TryPlaced(n) \/ TrySkipped(n)
  \/ EndPass
  \/ Built

Next ==
  \/ \E n \in Ids : AddNode(n) \/ LoadNode(n) \/ LoadUnknownScope(n)
  \/ FinishLoad
  \/ StartBuild
  \/ BuildStep
  \/ Clone
  \/ AsT

Spec == Init /\ [][Next]_vars

\* A call of buildGraph runs to its end.
FairSpec == Spec /\ WF_vars(BuildStep)

-----------------------------------------------------------------------------
(* Properties *)

\* Types, and the loop bound of buildGraph: no more than limit + 1 passes.
TypeOK ==
  /\ def \in [Ids -> Node]
  /\ nodes \in Seq(Ids)
  /\ loaded \in SUBSET Ids
  /\ layer \in [Ids -> Nat \cup {-1}]
  /\ mapped \in SUBSET Ids
  /\ DOMAIN onion \subseteq Nat
  /\ onion \in [DOMAIN onion -> Seq(Ids)]
  /\ unmapped \in SUBSET Ids
  /\ listed \in Nat
  /\ built \in BOOLEAN
  /\ status \in {"open", "loading", "building", "unable", "unknown scope",
                 "out of range"}
  /\ todo \in SUBSET Ids
  /\ queue \in SUBSET Ids
  /\ limit \in Nat
  /\ passes \in 0 .. limit + 1

\* A node that waits for its inputs lies above every node it reads, from the
\* moment it is placed: the executor, which goes up the layers, never runs it
\* before they have run.  Graph::addNode and Graph::buildGraph promise this
\* of every op, and of LOGIC nodes with one input.
LayersOrdered ==
  \A n \in mapped \ loaded :
    def[n].kind = "op" \/ SingleInput(n) =>
      \A m \in Inputs(n) \cap Ids : m \in mapped /\ layer[m] < layer[n]

\* The FlatGraph constructor keeps the order of the file: a node lies above
\* every input that precedes it there, although some nodes go to the layer of
\* their position and others to layer 0 or right above their parent.
FileOrderKept ==
  \A j \in DOMAIN nodes : \A i \in 1 .. j - 1 :
    nodes[j] \in loaded /\ nodes[i] \in Inputs(nodes[j]) =>
      layer[nodes[i]] < layer[nodes[j]]

\* The executor's walk, layer after layer, meets a node after what it reads.
Ordered == LayersOrdered /\ FileOrderKept

Walk == {l \in DOMAIN onion : l < Cardinality(DOMAIN onion)}
At(l, k, n) == l \in DOMAIN onion /\ k \in DOMAIN onion[l] /\ onion[l][k] = n

\* GraphExecutioner::execute walks layers 0 .. _onion->size() - 1.  Once the
\* graph is built, that walk meets every node outside the scopes once; but the
\* nodes that were not placed yet when the graph was cast with asT it never
\* meets.
VisitedOnce ==
  built =>
    \A n \in Added : ~IsScoped(n) =>
      IF n \in left
      THEN \A l \in DOMAIN onion : \A k \in DOMAIN onion[l] : ~At(l, k, n)
      ELSE \E l \in Walk : \E k \in DOMAIN onion[l] :
             /\ At(l, k, n)
             /\ \A l2 \in DOMAIN onion : \A k2 \in DOMAIN onion[l2] :
                  At(l2, k2, n) => l2 = l /\ k2 = k

\* buildGraph gives up ("Unable to build graph") only when it has to: nodes are
\* unplaced, and each of them reads a node that is unplaced too, is tied to a
\* scope, was never added, or was lost in a copy.
GivesUpRightly ==
  status = "unable" =>
    /\ unmapped # {}
    /\ \A n \in unmapped : \E m \in Inputs(n) :
         /\ m >= 0
         /\ m \notin Vars
         /\ m \in unmapped \/ m \notin Added \/ IsScoped(m) \/ m \in left

\* buildGraph returns or throws, whatever the nodes look like.
BuildEnds == status = "building" ~> status # "building"

\* Ops that are tied to a scope are never placed into the structure.
ScopedNotPlaced == \A n \in mapped : ~IsScoped(n)

\* buildGraph runs past the end of _unmappedMap on a clone that was taken with
\* nodes unplaced, whatever was added to it since, and on no other graph: not
\* on a clone of a graph built, loaded or cast before, nor after a build that
\* gave up.
RefusedCopies ==
  /\ status = "out of range" => unmapped \cap left # {}
  /\ status = "building" => unmapped \cap left = {}
=============================================================================
