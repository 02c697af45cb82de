------------------------- MODULE GraphBuilderProofs -------------------------
(***************************************************************************)
(* The order of the onion for every set of nodes and every order of calls. *)
(* LayersOrdered and VisitedOnce are not inductive: that placing a node    *)
(* leaves the others alone needs the node to be unplaced, which rests on   *)
(* how a pass of buildGraph splits _unmapped into what it has placed, what *)
(* it has skipped and what it has not reached.                             *)
(***************************************************************************)
EXTENDS GraphBuilder, FiniteSetTheorems, NaturalsInduction, WellFoundedInduction, TLAPS

\* An onion without gaps in which the nodes of mp sit once each, in the layer
\* ly gives them.
GoodOnion(o, ly, mp) ==
  /\ o \in [DOMAIN o -> Seq(Ids)]
  /\ \E c \in Nat \ {0} : DOMAIN o = 0 .. c - 1
  /\ \A l \in DOMAIN o : \A k \in DOMAIN o[l] : o[l][k] \in mp /\ ly[o[l][k]] = l
  /\ \A n \in mp : ly[n] \in DOMAIN o /\ \E k \in DOMAIN o[ly[n]] : o[ly[n]][k] = n
  /\ \A l \in DOMAIN o : \A j, k \in DOMAIN o[l] : o[l][j] = o[l][k] => j = k

OnionInv == GoodOnion(onion, layer, mapped)

\* _unmapped while a build runs and between builds.
PassInv ==
  /\ mapped \cup unmapped \subseteq Added
  /\ status # "building" => unmapped \cap mapped = {}
  /\ status = "building" =>
       /\ passes <= limit
       /\ todo \subseteq unmapped \ mapped
       /\ queue \subseteq mapped
       /\ unmapped \cap mapped \subseteq queue

\* The nodes of the file come first, no node twice, and while the file is read
\* none lies above its position.
FileInv ==
  /\ loaded \subseteq mapped
  /\ \A i, j \in DOMAIN nodes : nodes[i] = nodes[j] => i = j
  /\ \A j \in DOMAIN nodes : nodes[j] \in loaded => \A i \in 1 .. j : nodes[i] \in loaded
  /\ status = "loading" =>
       /\ Added \subseteq loaded
       /\ \A i \in DOMAIN nodes : layer[nodes[i]] < i
       /\ nodes # <<>> => Len(nodes) - 1 \in DOMAIN onion

\* No node outside the scopes gets lost, unless a copy drops it; and a node
\* that was unplaced when the graph was copied is not placed later.
PlacedInv ==
  /\ \A n \in Added : ~IsScoped(n) => n \in mapped \cup unmapped \cup left
  /\ built => \A n \in Added : ~IsScoped(n) => n \in mapped \cup left
  /\ left \subseteq Added
  /\ left \cap mapped = {}

\* _unmappedMap has an element for every unplaced node the last copy did not
\* take over, and no other if there are nodes it did.
ListedInv ==
  /\ RefusedCopies
  /\ status = "loading" => left = {}
  /\ Cardinality(unmapped \ left) <= listed
  /\ unmapped \cap left # {} => listed = Cardinality(unmapped \ left)

IndInv ==
  /\ TypeOK
  /\ OnionInv
  /\ PassInv
  /\ FileInv
  /\ LayersOrdered
  /\ FileOrderKept

-----------------------------------------------------------------------------
(* expandOnion and injectNode *)

\* Layers 0 .. c - 1 are c layers.
LEMMA OnionSize ==
  ASSUME NEW o, NEW c \in Nat \ {0}, DOMAIN o = 0 .. c - 1
  PROVE  Cardinality(DOMAIN o) = c /\ IsFiniteSet(DOMAIN o)
BY FS_Interval

\* expandOnion of a layer that exists, or of the next one, keeps the onion good.
LEMMA ExpandGood ==
  ASSUME NEW o, NEW ly, NEW mp, GoodOnion(o, ly, mp), NEW l \in Nat,
         l \in DOMAIN o \/ l - 1 \in DOMAIN o \/ l = Cardinality(DOMAIN o)
  PROVE  /\ GoodOnion(Expand(o, l), ly, mp)
         /\ DOMAIN Expand(o, l) = DOMAIN o \cup {l}
<1>1. CASE l \in DOMAIN o
  BY <1>1 DEF Expand
<1>2. CASE l \notin DOMAIN o
  <2>1. PICK c \in Nat \ {0} : DOMAIN o = 0 .. c - 1
    BY DEF GoodOnion
  <2>a. Cardinality(DOMAIN o) = c
    BY <2>1, OnionSize
  <2>2. l = c
    BY <1>2, <2>1, <2>a
  <2> DEFINE e == Expand(o, l)
  <2>3. e = [k \in DOMAIN o \cup {l} |-> IF k = l THEN <<>> ELSE o[k]]
    BY <1>2 DEF Expand
  <2> HIDE DEF e
  <2>4. DOMAIN e = 0 .. (c + 1) - 1 /\ DOMAIN e = DOMAIN o \cup {l}
    BY <2>1, <2>2, <2>3
  <2>5. e[l] = <<>> /\ \A k \in DOMAIN o : e[k] = o[k]
    BY <1>2, <2>3
  <2>b. <<>> \in Seq(Ids) /\ DOMAIN <<>> = {}
    OBVIOUS
  <2>6. \A k \in DOMAIN e : e[k] \in Seq(Ids)
    <3>1. \A k \in DOMAIN o : o[k] \in Seq(Ids)
      BY DEF GoodOnion
    <3> QED
      BY <3>1, <2>4, <2>5, <2>b
  <2>7. e \in [DOMAIN e -> Seq(Ids)]
    BY <2>3, <2>4, <2>6
  <2>8. \A k \in DOMAIN e : k \in DOMAIN o \/ DOMAIN e[k] = {}
    BY <2>4, <2>5, <2>b
  <2>9. c + 1 \in Nat \ {0}
    OBVIOUS
  <2>10. \A n \in mp : ly[n] \in DOMAIN e /\ \E k \in DOMAIN e[ly[n]] : e[ly[n]][k] = n
    BY <2>4, <2>5 DEF GoodOnion
  <2>11. \A k \in DOMAIN e : \A j \in DOMAIN e[k] : e[k][j] \in mp /\ ly[e[k][j]] = k
    BY <2>5, <2>8 DEF GoodOnion
  <2>12. \A k \in DOMAIN e : \A i, j \in DOMAIN e[k] : e[k][i] = e[k][j] => i = j
    BY <2>5, <2>8 DEF GoodOnion
  <2> QED
    BY <2>4, <2>7, <2>9, <2>10, <2>11, <2>12 DEF GoodOnion, e
<1> QED
  BY <1>1, <1>2

\* injectNode of a node that is nowhere yet keeps the onion good.
LEMMA InjectGood ==
  ASSUME NEW o, NEW ly \in [Ids -> Int], NEW mp \in SUBSET Ids,
         GoodOnion(o, ly, mp), NEW l \in DOMAIN o, NEW n \in Ids, n \notin mp
  PROVE  GoodOnion(Inject(o, l, n), [ly EXCEPT ![n] = l], mp \cup {n})
<1> DEFINE q == Inject(o, l, n)
           y == [ly EXCEPT ![n] = l]
           s == o[l]
<1>0. o \in [DOMAIN o -> Seq(Ids)] /\ s \in Seq(Ids)
  BY DEF GoodOnion
<1>1. q = [o EXCEPT ![l] = Append(s, n)]
  BY DEF Inject
<1> HIDE DEF q
<1>2. DOMAIN q = DOMAIN o /\ q[l] = Append(s, n)
  BY <1>0, <1>1
<1>3. \A k \in DOMAIN o : k # l => q[k] = o[k]
  BY <1>0, <1>1
<1>4. q \in [DOMAIN q -> Seq(Ids)]
  BY <1>0, <1>1, <1>2
<1>5. y[n] = l /\ \A m \in Ids : m # n => y[m] = ly[m]
  OBVIOUS
<1>6. /\ DOMAIN q[l] = 1 .. Len(s) + 1
      /\ q[l][Len(s) + 1] = n
      /\ \A k \in 1 .. Len(s) : q[l][k] = s[k]
      /\ DOMAIN s = 1 .. Len(s) /\ Len(s) \in Nat
  BY <1>0, <1>2
<1> HIDE DEF y
<1>7. \A k \in DOMAIN o : \A j \in DOMAIN o[k] : o[k][j] \in mp /\ o[k][j] \in Ids
  BY DEF GoodOnion
<1>8. \A k \in DOMAIN q : \A j \in DOMAIN q[k] : q[k][j] \in mp \cup {n} /\ y[q[k][j]] = k
  <2> SUFFICES ASSUME NEW k \in DOMAIN q, NEW j \in DOMAIN q[k]
               PROVE  q[k][j] \in mp \cup {n} /\ y[q[k][j]] = k
    OBVIOUS
  <2>1. CASE k # l
    BY <2>1, <1>2, <1>3, <1>5, <1>7 DEF GoodOnion
  <2>2. CASE k = l /\ j = Len(s) + 1
    BY <2>2, <1>5, <1>6
  <2>3. CASE k = l /\ j # Len(s) + 1
    BY <2>3, <1>5, <1>6, <1>7 DEF GoodOnion
  <2> QED
    BY <2>1, <2>2, <2>3
<1>9. \A m \in mp \cup {n} : y[m] \in DOMAIN q /\ \E k \in DOMAIN q[y[m]] : q[y[m]][k] = m
  <2> SUFFICES ASSUME NEW m \in mp \cup {n}
               PROVE  y[m] \in DOMAIN q /\ \E k \in DOMAIN q[y[m]] : q[y[m]][k] = m
    OBVIOUS
  <2>1. CASE m = n
    BY <2>1, <1>2, <1>5, <1>6
  <2>2. CASE m # n
    <3>1. y[m] = ly[m] /\ ly[m] \in DOMAIN o
      BY <2>2, <1>5 DEF GoodOnion
    <3>2. PICK k \in DOMAIN o[ly[m]] : o[ly[m]][k] = m
      BY <2>2 DEF GoodOnion
    <3> QED
      BY <3>1, <3>2, <1>2, <1>3, <1>6
  <2> QED
    BY <2>1, <2>2
<1>10. \A k \in DOMAIN q : \A i, j \in DOMAIN q[k] : q[k][i] = q[k][j] => i = j
  <2> SUFFICES ASSUME NEW k \in DOMAIN q, NEW i \in DOMAIN q[k], NEW j \in DOMAIN q[k],
                      q[k][i] = q[k][j]
               PROVE  i = j
    OBVIOUS
  <2>1. CASE k # l
    BY <2>1, <1>2, <1>3 DEF GoodOnion
  <2>2. CASE k = l
    <3>1. \A x \in 1 .. Len(s) : s[x] # n
      BY <1>6, <1>7
    <3>2. \A x, z \in 1 .. Len(s) : s[x] = s[z] => x = z
      BY <1>6 DEF GoodOnion
    <3> QED
      BY <2>2, <3>1, <3>2, <1>6
  <2> QED
    BY <2>1, <2>2
<1>11. \E c \in Nat \ {0} : DOMAIN q = 0 .. c - 1
  BY <1>2 DEF GoodOnion
<1> QED
  BY <1>2, <1>4, <1>8, <1>9, <1>10, <1>11 DEF GoodOnion, q, y

\* A layer that expandOnion may be asked for.
Fits(l) == l \in Nat /\ (l \in DOMAIN onion \/ l - 1 \in DOMAIN onion \/ l = Cardinality(DOMAIN onion))

\* What Place does to a good onion.
LEMMA PlaceGood ==
  ASSUME TypeOK, OnionInv, NEW n \in Ids, n \notin mapped, NEW l, Fits(l), Place(n, l)
  PROVE  /\ OnionInv'
         /\ layer' \in [Ids -> Nat \cup {-1}]
         /\ mapped' \in SUBSET Ids
         /\ DOMAIN onion' \subseteq Nat /\ onion' \in [DOMAIN onion' -> Seq(Ids)]
         /\ mapped' = mapped \cup {n}
         /\ layer'[n] = l
         /\ \A m \in Ids : m # n => layer'[m] = layer[m]
<1>1. layer' = [layer EXCEPT ![n] = l] /\ mapped' = mapped \cup {n}
      /\ onion' = Inject(Expand(onion, l), l, n)
  BY DEF Place
<1>a. l \in Nat /\ mapped \in SUBSET Ids /\ layer \in [Ids -> Nat \cup {-1}]
  BY DEF TypeOK, Fits
<1>b. Nat \cup {-1} \subseteq Int
  OBVIOUS
<1>2. l \in Nat /\ layer \in [Ids -> Int] /\ mapped \in SUBSET Ids
      /\ layer \in [Ids -> Nat \cup {-1}]
  BY <1>a, <1>b
<1> DEFINE e == Expand(onion, l)
<1>3. GoodOnion(e, layer, mapped) /\ l \in DOMAIN e
  BY <1>2, ExpandGood DEF OnionInv, Fits
<1> HIDE DEF e
<1>4. GoodOnion(Inject(e, l, n), [layer EXCEPT ![n] = l], mapped \cup {n})
  BY <1>2, <1>3, InjectGood
<1>5. OnionInv'
  BY <1>1, <1>4 DEF OnionInv, e
<1>6. DOMAIN onion' \subseteq Nat /\ onion' \in [DOMAIN onion' -> Seq(Ids)]
  BY <1>5 DEF OnionInv, GoodOnion
<1> QED
  BY <1>1, <1>2, <1>5, <1>6

-----------------------------------------------------------------------------
(* The layers addNode and buildGraph choose *)

\* Node ids are positive and no variable has one.
LEMMA IdFacts == \A m \in Ids : m \in Nat /\ m > 0 /\ m >= 0 /\ m \notin Vars
BY GraphBuilderAssumption

\* A node with one input reads just that one.
LEMMA OneInput ==
  ASSUME TypeOK, NEW n \in Ids, SingleInput(n)
  PROVE  Inputs(n) = {FirstInput(n)} /\ FirstInput(n) \in Int
<1> DEFINE s == def[n].input
<1>1. s \in Seq(Int)
  BY DEF TypeOK, Node
<1>2. Len(s) = 1
  BY DEF SingleInput
<1>3. DOMAIN s = {1} /\ s[1] \in Int
  BY <1>1, <1>2
<1>4. Inputs(n) = {s[i] : i \in DOMAIN s} /\ FirstInput(n) = s[1]
  BY DEF Inputs, FirstInput
<1> HIDE DEF s
<1> QED
  BY <1>3, <1>4

\* A placed node's layer exists.
LEMMA MappedLayer ==
  ASSUME OnionInv, NEW m \in mapped
  PROVE  layer[m] \in DOMAIN onion /\ layer[m] \in Nat
BY DEF OnionInv, GoodOnion

\* addNode's layer fits, and lies above every input.
LEMMA ImmediateFits ==
  ASSUME TypeOK, OnionInv, NEW n \in Ids, NEW l \in Immediate(n)
  PROVE  /\ Fits(l)
         /\ \A m \in Inputs(n) \cap Ids : m \in mapped /\ layer[m] < l
<1>1. CASE HasExternalInputs(n) /\ ~HasInternalInputs(n)
  <2>1. l = 0
    BY <1>1 DEF Immediate
  <2>2. 0 \in DOMAIN onion
    BY DEF OnionInv, GoodOnion
  <2>3. Inputs(n) \cap Ids = {}
    <3>1. ~def[n].paired
      BY <1>1 DEF HasExternalInputs
    <3>2. \A i \in Inputs(n) : ~(i >= 0)
      BY <1>1, <3>1, Zenon DEF HasInternalInputs
    <3> QED
      BY <3>2, IdFacts
  <2> QED
    BY <2>1, <2>2, <2>3 DEF Fits
<1>2. CASE ~(HasExternalInputs(n) /\ ~HasInternalInputs(n))
  <2>1. SingleInput(n) /\ FirstInput(n) \in mapped /\ l = layer[FirstInput(n)] + 1
    BY <1>2 DEF Immediate
  <2>2. layer[FirstInput(n)] \in DOMAIN onion /\ layer[FirstInput(n)] \in Nat
    BY <2>1, MappedLayer
  <2>3. Inputs(n) = {FirstInput(n)}
    BY <2>1, OneInput
  <2> QED
    BY <2>1, <2>2, <2>3 DEF Fits
<1> QED
  BY <1>1, <1>2

\* buildGraph's layer fits, and lies above every input of a node that waits.
LEMMA LayersFit ==
  ASSUME TypeOK, OnionInv, NEW n \in Ids, NEW l \in Layers(n)
  PROVE  /\ Fits(l)
         /\ def[n].kind = "op" \/ SingleInput(n) =>
              \A m \in Inputs(n) \cap Ids : m \in mapped /\ layer[m] < l
<1>1. CASE SingleInput(n) /\ IsExternal(FirstInput(n))
  <2>1. l = Cardinality(DOMAIN onion)
    BY <1>1 DEF Layers
  <2>2. l \in Nat
    BY <2>1, OnionSize DEF OnionInv, GoodOnion
  <2>3. Inputs(n) \cap Ids = {}
    BY <1>1, OneInput, GraphBuilderAssumption DEF IsExternal
  <2> QED
    BY <2>1, <2>2, <2>3 DEF Fits
<1>2. CASE SingleInput(n) /\ ~IsExternal(FirstInput(n))
  <2>1. FirstInput(n) \in mapped /\ l = layer[FirstInput(n)] + 1
    BY <1>2 DEF Layers
  <2>2. layer[FirstInput(n)] \in DOMAIN onion /\ layer[FirstInput(n)] \in Nat
    BY <2>1, MappedLayer
  <2>3. Inputs(n) = {FirstInput(n)}
    BY <1>2, OneInput
  <2> QED
    BY <2>1, <2>2, <2>3 DEF Fits
<1>3. CASE ~SingleInput(n)
  <2>1. PICK k \in InputLayers(n) : l = k + 1 /\ \A j \in InputLayers(n) : j <= k
    BY <1>3 DEF Layers
  <2>2. \A j \in InputLayers(n) : j \in Nat /\ j \in DOMAIN onion
    <3>1. 0 \in DOMAIN onion
      BY DEF OnionInv, GoodOnion
    <3> QED
      BY <3>1, MappedLayer DEF InputLayers
  <2>3. Fits(l)
    BY <2>1, <2>2 DEF Fits
  <2>4. ASSUME def[n].kind = "op", NEW m \in Inputs(n) \cap Ids
        PROVE  m \in mapped /\ layer[m] < l
    <3>1. Missing(n) = {}
      BY <1>3, <2>4 DEF Layers
    <3>2. m \in mapped
      BY <3>1, IdFacts DEF Missing
    <3>3. layer[m] \in InputLayers(n)
      BY <3>2 DEF InputLayers
    <3> QED
      BY <2>1, <2>2, <3>2, <3>3
  <2> QED
    BY <1>3, <2>3, <2>4
<1> QED
  BY <1>1, <1>2, <1>3

-----------------------------------------------------------------------------
(* One placement, seen from the order properties *)

\* Appending a node to _nodes.
LEMMA AppendNode ==
  ASSUME TypeOK, NEW n \in Ids, nodes' = Append(nodes, n)
  PROVE  /\ nodes' \in Seq(Ids)
         /\ Len(nodes) \in Nat /\ DOMAIN nodes = 1 .. Len(nodes)
         /\ DOMAIN nodes' = 1 .. Len(nodes) + 1 /\ Len(nodes') = Len(nodes) + 1
         /\ \A i \in 1 .. Len(nodes) : nodes'[i] = nodes[i] /\ nodes[i] \in Added
         /\ nodes'[Len(nodes) + 1] = n
         /\ Added' = Added \cup {n}
<1>1. nodes \in Seq(Ids)
  BY DEF TypeOK
<1>2. /\ nodes' \in Seq(Ids)
      /\ Len(nodes) \in Nat /\ DOMAIN nodes = 1 .. Len(nodes)
      /\ DOMAIN nodes' = 1 .. Len(nodes) + 1 /\ Len(nodes') = Len(nodes) + 1
      /\ \A i \in 1 .. Len(nodes) : nodes'[i] = nodes[i]
      /\ nodes'[Len(nodes) + 1] = n
  BY <1>1
<1>3. Added' = Added \cup {n}
  BY <1>2 DEF Added
<1> QED
  BY <1>2, <1>3 DEF Added

\* Placing an unplaced node keeps the other nodes above their inputs.
LEMMA LayersOrderedStep ==
  ASSUME TypeOK, LayersOrdered, NEW n \in Ids, n \notin mapped,
         mapped' = mapped \cup {n}, def' = def,
         \A m \in Ids : m # n => layer'[m] = layer[m],
         loaded' = loaded \/ loaded' = loaded \cup {n},
         \/ n \in loaded'
         \/ def[n].kind = "op" \/ SingleInput(n) =>
              \A m \in Inputs(n) \cap Ids : m \in mapped /\ layer[m] < layer'[n]
  PROVE  LayersOrdered'
<1> SUFFICES ASSUME NEW x \in mapped' \ loaded', def[x].kind = "op" \/ SingleInput(x),
                    NEW m \in Inputs(x) \cap Ids
             PROVE  m \in mapped' /\ layer'[m] < layer'[x]
  BY DEF LayersOrdered, SingleInput, Inputs
<1>1. mapped \subseteq Ids
  BY DEF TypeOK
<1>2. CASE x = n
  BY <1>2
<1>3. CASE x # n
  BY <1>1, <1>3 DEF LayersOrdered
<1> QED
  BY <1>2, <1>3

\* Outside the constructor, a placement leaves the nodes of the file alone.
LEMMA FileOrderStep ==
  ASSUME TypeOK, FileInv, FileOrderKept, NEW n \in Ids, n \notin mapped,
         nodes' = nodes \/ (nodes' = Append(nodes, n) /\ n \notin Added),
         def' = def, loaded' = loaded, mapped \subseteq Added,
         mapped' = mapped \/ mapped' = mapped \cup {n}, status' # "loading",
         \A m \in Ids : m # n => layer'[m] = layer[m]
  PROVE  FileInv' /\ FileOrderKept'
<1>1. mapped \subseteq Ids /\ n \notin loaded
  BY DEF TypeOK, FileInv
<1>2. \A j \in DOMAIN nodes : nodes[j] \in loaded =>
         \A i \in 1 .. j : nodes[i] \in Ids /\ nodes[i] # n /\ layer'[nodes[i]] = layer[nodes[i]]
  BY <1>1 DEF FileInv
<1>3. CASE nodes' = nodes
  <2>1. FileInv'
    BY <1>3 DEF FileInv
  <2>a. nodes \in Seq(Ids)
    BY DEF TypeOK
  <2>b. DOMAIN nodes = 1 .. Len(nodes) /\ Len(nodes) \in Nat
    BY <2>a
  <2>2. \A j \in DOMAIN nodes : j \in 1 .. j
    BY <2>b
  <2>3. \A j \in DOMAIN nodes : \A i \in 1 .. j - 1 : i \in 1 .. j
    BY <2>b
  <2>4. FileOrderKept'
    BY <1>2, <1>3, <2>2, <2>3 DEF FileOrderKept, Inputs
  <2> QED
    BY <2>1, <2>4
<1>4. CASE nodes' = Append(nodes, n) /\ n \notin Added
  <2>1. /\ DOMAIN nodes = 1 .. Len(nodes) /\ Len(nodes) \in Nat
        /\ DOMAIN nodes' = 1 .. Len(nodes) + 1
        /\ \A i \in 1 .. Len(nodes) : nodes'[i] = nodes[i] /\ nodes[i] # n
        /\ nodes'[Len(nodes) + 1] = n
    BY <1>4, AppendNode
  <2>2. FileInv'
    BY <1>1, <2>1 DEF FileInv
  <2>3. ASSUME NEW j \in DOMAIN nodes', NEW i \in 1 .. j - 1, nodes'[j] \in loaded,
               nodes'[i] \in Inputs(nodes'[j])
        PROVE  layer'[nodes'[i]] < layer'[nodes'[j]]
    <3>1. j \in 1 .. Len(nodes) /\ i \in 1 .. Len(nodes) /\ i \in 1 .. j /\ j \in 1 .. j
      BY <1>1, <2>1, <2>3
    <3> QED
      BY <1>2, <2>1, <2>3, <3>1 DEF FileOrderKept
  <2>4. FileOrderKept'
    BY <2>3 DEF FileOrderKept, Inputs
  <2> QED
    BY <2>2, <2>4
<1> QED
  BY <1>3, <1>4

-----------------------------------------------------------------------------
(* The actions *)

\* An empty graph satisfies the invariant.
LEMMA InitInv == Init => IndInv
<1> SUFFICES ASSUME Init PROVE IndInv
  OBVIOUS
<1>1. status \in {"open", "loading"}
  BY DEF Init
<1>2. TypeOK
  <2>1. onion \in [DOMAIN onion -> Seq(Ids)] /\ DOMAIN onion \subseteq Nat
    BY DEF Init
  <2>2. nodes \in Seq(Ids) /\ layer \in [Ids -> Nat \cup {-1}]
    BY DEF Init
  <2>3. def \in [Ids -> Node]
    BY GraphBuilderAssumption DEF Init
  <2>4. listed \in Nat /\ limit \in Nat /\ passes \in 0 .. limit + 1
    BY DEF Init
  <2>6. built \in BOOLEAN
    BY DEF Init
  <2>5. loaded = {} /\ mapped = {} /\ unmapped = {} /\ todo = {} /\ queue = {}
    BY DEF Init
  <2> QED
    BY <1>1, <2>1, <2>2, <2>3, <2>4, <2>5, <2>6 DEF TypeOK
<1>3. OnionInv
  <2>1. DOMAIN onion = 0 .. 1 - 1 /\ onion[0] = <<>> /\ mapped = {}
    BY DEF Init
  <2>2. DOMAIN onion[0] = {}
    BY <2>1
  <2>3. \E c \in Nat \ {0} : DOMAIN onion = 0 .. c - 1
    BY <2>1
  <2>4. onion \in [DOMAIN onion -> Seq(Ids)]
    BY <1>2 DEF TypeOK
  <2> QED
    BY <2>1, <2>2, <2>3, <2>4 DEF OnionInv, GoodOnion
<1>4. PassInv
  BY <1>1 DEF Init, PassInv
<1>5. nodes = <<>> /\ DOMAIN nodes = {} /\ loaded = {} /\ mapped = {}
  BY DEF Init
<1>6. FileInv /\ FileOrderKept /\ LayersOrdered
  BY <1>5 DEF FileInv, FileOrderKept, LayersOrdered, Added
<1> QED
  BY <1>2, <1>3, <1>4, <1>6 DEF IndInv

\* addNode keeps the invariant.
LEMMA AddNodeInv ==
  ASSUME IndInv, NEW n \in Ids, AddNode(n)
  PROVE  IndInv'
<1> USE DEF IndInv
<1>1. /\ n \notin Added /\ nodes' = Append(nodes, n) /\ built' = FALSE
      /\ UNCHANGED <<def, loaded, building>> /\ Idle
  BY DEF AddNode
<1>2. /\ mapped \subseteq Ids /\ unmapped \subseteq Ids
      /\ mapped \subseteq Added /\ unmapped \subseteq Added
      /\ n \notin mapped /\ n \notin unmapped /\ unmapped \cap mapped = {}
  BY <1>1 DEF TypeOK, PassInv, Idle
<1>3. nodes' \in Seq(Ids) /\ Added' = Added \cup {n}
  BY <1>1, AppendNode
<1>4. CASE UNCHANGED <<structure, unmapped, listed>> /\ status' \in {"open", "unknown scope"}
  <2>1. TypeOK'
    BY <1>1, <1>3, <1>4 DEF TypeOK, building, structure
  <2>2. OnionInv'
    BY <1>4 DEF OnionInv, structure
  <2>3. PassInv'
    BY <1>2, <1>3, <1>4 DEF PassInv, structure
  <2>a. def' = def /\ loaded' = loaded /\ mapped' = mapped /\ layer' = layer
    BY <1>1, <1>4 DEF structure
  <2>4. LayersOrdered'
    BY <2>a DEF LayersOrdered, Inputs, SingleInput
  <2>5. FileInv' /\ FileOrderKept'
    BY <1>1, <1>2, <1>4, FileOrderStep DEF structure
  <2> QED
    BY <2>1, <2>2, <2>3, <2>4, <2>5
<1>5. CASE AddPlaced(n)
  <2>1. PICK l \in Immediate(n) : Place(n, l)
    BY <1>5 DEF AddPlaced
  <2>2. Fits(l) /\ \A m \in Inputs(n) \cap Ids : m \in mapped /\ layer[m] < l
    BY ImmediateFits
  <2>3. /\ OnionInv'
        /\ layer' \in [Ids -> Nat \cup {-1}]
        /\ mapped' \in SUBSET Ids
        /\ DOMAIN onion' \subseteq Nat /\ onion' \in [DOMAIN onion' -> Seq(Ids)]
        /\ mapped' = mapped \cup {n}
        /\ layer'[n] = l
        /\ \A m \in Ids : m # n => layer'[m] = layer[m]
    BY <1>2, <2>1, <2>2, PlaceGood
  <2>4. status' = "open" /\ UNCHANGED <<unmapped, listed>>
    BY <1>5 DEF AddPlaced
  <2>5. TypeOK'
    BY <1>1, <1>3, <2>3, <2>4 DEF TypeOK, building
  <2>6. PassInv'
    BY <1>2, <1>3, <2>3, <2>4 DEF PassInv
  <2>7. LayersOrdered'
    BY <1>1, <1>2, <2>2, <2>3, LayersOrderedStep
  <2>8. FileInv' /\ FileOrderKept'
    BY <1>1, <1>2, <2>3, <2>4, FileOrderStep
  <2> QED
    BY <2>3, <2>5, <2>6, <2>7, <2>8
<1>6. CASE AddUnmapped(n)
  <2>1. /\ unmapped' = unmapped \cup {n} /\ listed' = listed + 1
        /\ status' = "open" /\ UNCHANGED structure
    BY <1>6 DEF AddUnmapped
  <2>a. unmapped' \in SUBSET Ids
    BY <2>1 DEF TypeOK
  <2>e. listed \in Nat
    BY DEF TypeOK
  <2>c. listed' \in Nat
    BY <2>1, <2>e
  <2>d. built' \in BOOLEAN
    BY <1>1
  <2>b. /\ UNCHANGED <<def, loaded, layer, mapped, onion, todo, queue, passes, limit>>
        /\ status' = "open"
    BY <1>1, <2>1 DEF building, structure
  <2>2. TypeOK'
    BY <1>3, <2>a, <2>b, <2>c, <2>d DEF TypeOK
  <2>3. OnionInv'
    BY <2>1 DEF OnionInv, structure
  <2>4. PassInv'
    BY <1>2, <1>3, <2>1 DEF PassInv, structure
  <2>5. LayersOrdered'
    BY <1>1, <2>1 DEF LayersOrdered, structure, Inputs, SingleInput
  <2>6. FileInv' /\ FileOrderKept'
    BY <1>1, <1>2, <2>1, FileOrderStep DEF structure
  <2> QED
    BY <2>2, <2>3, <2>4, <2>5, <2>6
<1> QED
  BY <1>4, <1>5, <1>6 DEF AddNode, AddUnknownScope, AddScoped

\* Reading a node of the file keeps the invariant.
LEMMA LoadNodeInv ==
  ASSUME IndInv, NEW n \in Ids, LoadNode(n)
  PROVE  IndInv'
<1> USE DEF IndInv
<1> DEFINE e == Len(nodes)
           f == FileLayer(n)
<1>1. /\ n \notin Added /\ nodes' = Append(nodes, n) /\ loaded' = loaded \cup {n}
      /\ layer' = [layer EXCEPT ![n] = f] /\ mapped' = mapped \cup {n}
      /\ onion' = Inject(Expand(Expand(onion, e), f), f, n)
      /\ UNCHANGED <<def, unmapped, status, building>> /\ built' = FALSE
      /\ status = "loading"
  BY DEF LoadNode
<1>2. /\ mapped \in SUBSET Ids /\ layer \in [Ids -> Nat \cup {-1}] /\ listed \in Nat
      /\ unmapped \subseteq Added /\ unmapped \cap mapped = {} /\ Added \subseteq loaded
      /\ loaded \subseteq mapped /\ mapped \subseteq Added /\ n \notin mapped
      /\ \A i \in DOMAIN nodes : layer[nodes[i]] < i
      /\ nodes # <<>> => e - 1 \in DOMAIN onion
  BY <1>1 DEF TypeOK, PassInv, FileInv
<1>3. /\ nodes' \in Seq(Ids) /\ e \in Nat /\ DOMAIN nodes = 1 .. e
      /\ DOMAIN nodes' = 1 .. e + 1 /\ Len(nodes') = e + 1
      /\ \A i \in 1 .. e : nodes'[i] = nodes[i] /\ nodes[i] \in Added
      /\ nodes'[e + 1] = n
      /\ Added' = Added \cup {n}
  BY <1>1, AppendNode
<1>4. listed' \in Nat
  BY <1>2 DEF LoadNode
<1>5. /\ f \in 0 .. e
      /\ \A i \in 1 .. e : nodes[i] \in Inputs(n) => layer[nodes[i]] < f
  <2>1. CASE IsScoped(n) \/ Immediate(n) = {}
    <3>1. f = e
      BY <2>1 DEF FileLayer
    <3>2. \A i \in 1 .. e : layer[nodes[i]] \in Int /\ layer[nodes[i]] < i
      BY <1>2, <1>3
    <3> QED
      BY <1>3, <3>1, <3>2
  <2>2. CASE ~(IsScoped(n) \/ Immediate(n) = {})
    <3>1. f \in Immediate(n)
      BY <2>2 DEF FileLayer
    <3>2. Fits(f) /\ \A m \in Inputs(n) \cap Ids : m \in mapped /\ layer[m] < f
      BY <3>1, ImmediateFits
    <3>3. f = 0 \/ \E m \in mapped : f = layer[m] + 1
      BY <3>1 DEF Immediate
    <3>4. ASSUME NEW m \in mapped, f = layer[m] + 1
          PROVE  f <= e
      <4>1. PICK i \in 1 .. e : m = nodes[i]
        BY <1>2, <1>3 DEF Added
      <4>2. layer[m] \in Int /\ layer[m] < i
        BY <1>2, <1>3, <4>1
      <4> QED
        BY <1>3, <3>4, <4>1, <4>2
    <3>5. f \in 0 .. e
      BY <1>3, <3>2, <3>3, <3>4 DEF Fits
    <3>6. \A i \in 1 .. e : nodes[i] \in Ids
      BY <1>2, <1>3
    <3> QED
      BY <3>2, <3>5, <3>6
  <2> QED
    BY <2>1, <2>2
<1> HIDE DEF f, e
<1>6. /\ GoodOnion(Expand(onion, e), layer, mapped)
      /\ DOMAIN Expand(onion, e) = DOMAIN onion \cup {e}
  <2>1. 0 \in DOMAIN onion
    BY DEF OnionInv, GoodOnion
  <2>2. nodes = <<>> => e = 0
    BY DEF e
  <2>3. e \in DOMAIN onion \/ e - 1 \in DOMAIN onion
    BY <1>2, <2>1, <2>2
  <2> QED
    BY <1>3, <2>3, ExpandGood DEF OnionInv
<1>7. f \in DOMAIN Expand(onion, e)
  <2>1. PICK c \in Nat \ {0} : DOMAIN Expand(onion, e) = 0 .. c - 1
    BY <1>6 DEF GoodOnion
  <2> QED
    BY <1>3, <1>5, <1>6, <2>1
<1>8. Expand(Expand(onion, e), f) = Expand(onion, e)
  BY <1>7 DEF Expand
<1>9. layer \in [Ids -> Int]
  <2>1. Nat \cup {-1} \subseteq Int
    OBVIOUS
  <2> QED
    BY <1>2, <2>1
<1>10. OnionInv' /\ DOMAIN onion' = DOMAIN onion \cup {e}
  <2> DEFINE g == Expand(onion, e)
  <2>1. onion' = Inject(g, f, n)
    BY <1>1, <1>8
  <2>2. GoodOnion(g, layer, mapped) /\ f \in DOMAIN g /\ DOMAIN g = DOMAIN onion \cup {e}
    BY <1>6, <1>7
  <2> HIDE DEF g
  <2>3. GoodOnion(Inject(g, f, n), [layer EXCEPT ![n] = f], mapped \cup {n})
    BY <1>2, <1>9, <2>2, InjectGood
  <2>4. DOMAIN Inject(g, f, n) = DOMAIN g
    BY DEF Inject
  <2> QED
    BY <1>1, <2>1, <2>2, <2>3, <2>4 DEF OnionInv
<1>11. layer'[n] = f /\ \A m \in Ids : m # n => layer'[m] = layer[m]
  BY <1>1, <1>2
<1>12. TypeOK'
  <2>1. DOMAIN onion' \subseteq Nat /\ onion' \in [DOMAIN onion' -> Seq(Ids)]
    BY <1>10 DEF OnionInv, GoodOnion
  <2>2. layer' \in [Ids -> Nat \cup {-1}]
    BY <1>1, <1>2, <1>5
  <2>3. loaded' \in SUBSET Ids /\ mapped' \in SUBSET Ids
    BY <1>1 DEF TypeOK
  <2>4. built' \in BOOLEAN
    BY <1>1
  <2>5. UNCHANGED <<def, unmapped, status, todo, queue, passes, limit>>
    BY <1>1 DEF building
  <2> QED
    BY <1>3, <1>4, <2>1, <2>2, <2>3, <2>4, <2>5 DEF TypeOK
<1>13. PassInv'
  BY <1>1, <1>2, <1>3 DEF PassInv, Added
<1>14. LayersOrdered'
  BY <1>1, <1>2, <1>11, LayersOrderedStep
<1>15. \A i \in 1 .. e : nodes[i] \in Ids /\ nodes[i] # n
  BY <1>1, <1>2, <1>3
<1>16. FileInv'
  <2>1. loaded' \subseteq mapped' /\ Added' \subseteq loaded'
    BY <1>1, <1>2, <1>3
  <2>2. \A i, j \in DOMAIN nodes' : nodes'[i] = nodes'[j] => i = j
    BY <1>3, <1>15 DEF FileInv
  <2>3. \A j \in DOMAIN nodes' : \A i \in 1 .. j : nodes'[i] \in loaded'
    <3>1. \A j \in DOMAIN nodes' : \A i \in 1 .. j : i \in DOMAIN nodes'
      BY <1>3
    <3>2. \A i \in DOMAIN nodes' : nodes'[i] \in Added'
      BY DEF Added
    <3> QED
      BY <2>1, <3>1, <3>2
  <2>4. \A i \in DOMAIN nodes' : layer'[nodes'[i]] < i
    BY <1>2, <1>3, <1>5, <1>11, <1>15
  <2>5. Len(nodes') - 1 \in DOMAIN onion'
    BY <1>3, <1>10
  <2> QED
    BY <2>1, <2>2, <2>3, <2>4, <2>5 DEF FileInv
<1>17. FileOrderKept'
  <2>a. \A x : Inputs(x)' = Inputs(x)
    BY <1>1 DEF Inputs
  <2> SUFFICES ASSUME NEW j \in DOMAIN nodes', NEW i \in 1 .. j - 1,
                      nodes'[i] \in Inputs(nodes'[j])
               PROVE  layer'[nodes'[i]] < layer'[nodes'[j]]
    BY <2>a DEF FileOrderKept
  <2>1. i \in 1 .. e
    BY <1>3
  <2>2. CASE j = e + 1
    BY <1>3, <1>5, <1>11, <1>15, <2>1, <2>2
  <2>3. CASE j # e + 1
    <3>1. j \in 1 .. e /\ nodes[j] \in loaded
      BY <1>2, <1>3, <2>3
    <3> QED
      BY <1>3, <1>11, <1>15, <2>1, <3>1 DEF FileOrderKept
  <2> QED
    BY <2>2, <2>3
<1> QED
  BY <1>10, <1>12, <1>13, <1>14, <1>16, <1>17

\* A step that moves no node keeps everything said about placed nodes.
LEMMA SameStructure ==
  ASSUME IndInv, UNCHANGED <<def, nodes, loaded, structure>>,
         status' = status \/ status' # "loading"
  PROVE  OnionInv' /\ LayersOrdered' /\ FileInv' /\ FileOrderKept'
<1>1. /\ def' = def /\ nodes' = nodes /\ loaded' = loaded
      /\ layer' = layer /\ mapped' = mapped /\ onion' = onion
  BY DEF structure
<1>2. \A n : Inputs(n)' = Inputs(n) /\ (SingleInput(n)' <=> SingleInput(n))
  BY <1>1 DEF Inputs, SingleInput
<1>3. OnionInv'
  BY <1>1 DEF IndInv, OnionInv
<1>4. LayersOrdered'
  BY <1>1, <1>2 DEF IndInv, LayersOrdered
<1>5. FileInv'
  BY <1>1 DEF IndInv, FileInv, Added
<1>6. FileOrderKept'
  BY <1>1, <1>2 DEF IndInv, FileOrderKept
<1> QED
  BY <1>3, <1>4, <1>5, <1>6

\* A node with an unknown scope ends the constructor.
LEMMA LoadUnknownScopeInv ==
  ASSUME IndInv, NEW n \in Ids, LoadUnknownScope(n)
  PROVE  IndInv'
<1>1. /\ n \notin Added /\ nodes' = Append(nodes, n) /\ built' = FALSE
      /\ status' = "unknown scope" /\ status = "loading"
      /\ UNCHANGED <<def, loaded, layer, mapped, onion, unmapped, listed, todo, queue, passes, limit>>
  BY DEF LoadUnknownScope, structure, building
<1>2. nodes' \in Seq(Ids) /\ Added' = Added \cup {n}
  BY <1>1, AppendNode DEF IndInv
<1>3. TypeOK'
  <2>1. built' \in BOOLEAN
    BY <1>1
  <2> QED
    BY <1>1, <1>2, <2>1 DEF IndInv, TypeOK
<1>4. OnionInv'
  BY <1>1 DEF IndInv, OnionInv
<1>5. PassInv'
  BY <1>1, <1>2 DEF IndInv, PassInv
<1>6. LayersOrdered'
  <2>1. \A x : Inputs(x)' = Inputs(x) /\ (SingleInput(x)' <=> SingleInput(x))
    BY <1>1 DEF Inputs, SingleInput
  <2> QED
    BY <1>1, <2>1 DEF IndInv, LayersOrdered
<1>7. n \notin mapped /\ mapped \subseteq Added
  BY <1>1 DEF IndInv, PassInv
<1>8. FileInv' /\ FileOrderKept'
  BY <1>1, <1>7, FileOrderStep DEF IndInv
<1> QED
  BY <1>3, <1>4, <1>5, <1>6, <1>8 DEF IndInv

\* The end of the file.
LEMMA FinishLoadInv == ASSUME IndInv, FinishLoad PROVE IndInv'
<1>1. /\ status' = "open" /\ status = "loading"
      /\ UNCHANGED <<def, nodes, loaded, layer, mapped, onion, unmapped, listed, todo, queue, passes, limit>>
  BY DEF FinishLoad, structure, building
<1>2. built' \in BOOLEAN
  BY DEF FinishLoad
<1>3. TypeOK'
  BY <1>1, <1>2 DEF IndInv, TypeOK
<1>4. PassInv'
  BY <1>1 DEF IndInv, PassInv, Added
<1>5. OnionInv' /\ LayersOrdered' /\ FileInv' /\ FileOrderKept'
  BY <1>1, SameStructure DEF structure
<1> QED
  BY <1>3, <1>4, <1>5 DEF IndInv

\* The start of buildGraph.
LEMMA StartBuildInv == ASSUME IndInv, StartBuild PROVE IndInv'
<1>1. /\ Idle
      /\ UNCHANGED <<def, nodes, loaded, layer, mapped, onion, unmapped, listed, built>>
  BY DEF StartBuild, structure
<1>2. unmapped \in SUBSET Ids /\ Cardinality(unmapped) \in Nat
  <2>1. unmapped \in SUBSET Ids
    BY DEF IndInv, TypeOK
  <2> QED
    BY <2>1, GraphBuilderAssumption, FS_Subset, FS_CardinalityType
<1>3. CASE Cardinality(unmapped) > listed
  <2>1. status' = "out of range" /\ UNCHANGED <<todo, queue, passes, limit>>
    BY <1>3 DEF StartBuild, building
  <2>2. TypeOK'
    BY <1>1, <2>1 DEF IndInv, TypeOK
  <2>3. PassInv'
    BY <1>1, <2>1 DEF IndInv, PassInv, Added, Idle
  <2>4. OnionInv' /\ LayersOrdered' /\ FileInv' /\ FileOrderKept'
    BY <1>1, <2>1, SameStructure DEF structure
  <2> QED
    BY <2>2, <2>3, <2>4 DEF IndInv
<1>4. CASE ~(Cardinality(unmapped) > listed)
  <2>1. /\ status' = "building" /\ todo' = unmapped /\ queue' = {} /\ passes' = 0
        /\ limit' = 2 * Cardinality(unmapped)
    BY <1>4 DEF StartBuild
  <2>2. limit' \in Nat /\ passes' \in 0 .. limit' + 1 /\ passes' <= limit'
    BY <1>2, <2>1
  <2>3. TypeOK'
    BY <1>1, <1>2, <2>1, <2>2 DEF IndInv, TypeOK
  <2>4. PassInv'
    BY <1>1, <2>1, <2>2 DEF IndInv, PassInv, Added, Idle
  <2>5. OnionInv' /\ LayersOrdered' /\ FileInv' /\ FileOrderKept'
    BY <1>1, <2>1, SameStructure DEF structure
  <2> QED
    BY <2>3, <2>4, <2>5 DEF IndInv
<1> QED
  BY <1>3, <1>4

\* A node that a pass places was not placed before.
LEMMA TryPlacedInv ==
  ASSUME IndInv, NEW n \in Ids, TryPlaced(n)
  PROVE  IndInv'
<1>1. /\ status = "building" /\ n \in todo
      /\ queue' = queue \cup {n} /\ todo' = todo \ {n}
      /\ UNCHANGED <<def, nodes, loaded, unmapped, listed, built, status, passes, limit>>
  BY DEF TryPlaced, Reached
<1>2. n \notin mapped /\ n \in unmapped /\ n \in Added /\ mapped \subseteq Added
  BY <1>1 DEF IndInv, PassInv
<1>3. PICK l \in Layers(n) : Place(n, l)
  BY DEF TryPlaced
<1>4. /\ Fits(l)
      /\ def[n].kind = "op" \/ SingleInput(n) =>
           \A m \in Inputs(n) \cap Ids : m \in mapped /\ layer[m] < l
  BY LayersFit DEF IndInv
<1>5. /\ OnionInv'
      /\ layer' \in [Ids -> Nat \cup {-1}]
      /\ mapped' \in SUBSET Ids
      /\ DOMAIN onion' \subseteq Nat /\ onion' \in [DOMAIN onion' -> Seq(Ids)]
      /\ mapped' = mapped \cup {n}
      /\ layer'[n] = l
      /\ \A m \in Ids : m # n => layer'[m] = layer[m]
  BY <1>2, <1>3, <1>4, PlaceGood DEF IndInv
<1>6. TypeOK'
  BY <1>1, <1>5 DEF IndInv, TypeOK
<1>7. PassInv'
  BY <1>1, <1>2, <1>5 DEF IndInv, PassInv, Added
<1>8. LayersOrdered'
  BY <1>1, <1>2, <1>4, <1>5, LayersOrderedStep DEF IndInv
<1>9. FileInv' /\ FileOrderKept'
  BY <1>1, <1>2, <1>5, FileOrderStep DEF IndInv
<1> QED
  BY <1>5, <1>6, <1>7, <1>8, <1>9 DEF IndInv

\* The other steps of buildGraph, and the copies.
LEMMA BookkeepingInv ==
  ASSUME IndInv, (\E n \in Ids : TrySkipped(n)) \/ EndPass \/ Built \/ Clone \/ AsT
  PROVE  IndInv'
<1>1. UNCHANGED <<def, nodes, loaded, layer, mapped, onion>>
  BY DEF TrySkipped, EndPass, Built, Clone, AsT, structure
<1>2. status' = status \/ status' \in {"open", "building", "unable"}
  BY DEF TrySkipped, EndPass, Built, Clone, AsT
<1>3. TypeOK' /\ PassInv'
  <2>1. ASSUME NEW n \in Ids, TrySkipped(n) PROVE TypeOK' /\ PassInv'
    <3>1. /\ todo' = todo \ {n}
          /\ UNCHANGED <<unmapped, listed, built, status, queue, passes, limit>>
      BY <2>1 DEF TrySkipped
    <3> QED
      BY <1>1, <3>1 DEF IndInv, TypeOK, PassInv, Added
  <2>2. CASE EndPass
    <3>1. /\ status = "building" /\ unmapped' = unmapped \ queue /\ passes' = passes + 1
          /\ queue' = {} /\ UNCHANGED <<listed, built, limit>>
          /\ status' = IF passes' > limit THEN "unable" ELSE "building"
          /\ todo' = IF passes' > limit THEN {} ELSE unmapped'
      BY <2>2 DEF EndPass
    <3>2. limit \in Nat /\ passes \in 0 .. limit + 1 /\ passes <= limit
      BY <3>1 DEF IndInv, TypeOK, PassInv
    <3>3. passes' \in 0 .. limit' + 1 /\ (status' = "building" => passes' <= limit')
      BY <3>1, <3>2
    <3>4. unmapped' \in SUBSET Ids /\ todo' \in SUBSET Ids /\ queue' \in SUBSET Ids
          /\ status' \in {"unable", "building"}
      BY <3>1 DEF IndInv, TypeOK
    <3>5. TypeOK'
      BY <1>1, <3>1, <3>3, <3>4 DEF IndInv, TypeOK
    <3>6. /\ mapped' = mapped /\ Added' = Added /\ unmapped' \subseteq unmapped
          /\ unmapped' \cap mapped = {} /\ todo' \subseteq unmapped'
      BY <1>1, <3>1 DEF IndInv, PassInv, Added
    <3>7. mapped \cup unmapped \subseteq Added /\ queue' = {}
      BY <3>1 DEF IndInv, PassInv
    <3> QED
      BY <3>3, <3>5, <3>6, <3>7 DEF PassInv
  <2>3. CASE Built
    <3>1. /\ unmapped = {} /\ status' = "open"
          /\ UNCHANGED <<unmapped, listed, todo, queue, passes, limit>>
      BY <2>3 DEF Built, building
    <3>2. built' \in BOOLEAN
      BY <2>3 DEF Built
    <3> QED
      BY <1>1, <3>1, <3>2 DEF IndInv, TypeOK, PassInv, Added
  <2>4. CASE Clone \/ AsT
    <3>1. /\ unmapped' \in {unmapped, {}} /\ listed' = 0 /\ Idle /\ status' = "open"
          /\ UNCHANGED <<built, todo, queue, passes, limit>>
      BY <2>4 DEF Clone, AsT, building
    <3> QED
      BY <1>1, <3>1 DEF IndInv, TypeOK, PassInv, Added, Idle
  <2> QED
    BY <2>1, <2>2, <2>3, <2>4
<1>4. OnionInv' /\ LayersOrdered' /\ FileInv' /\ FileOrderKept'
  BY <1>1, <1>2, SameStructure DEF structure
<1> QED
  BY <1>3, <1>4 DEF IndInv

\* Every step keeps the invariant.
LEMMA NextInv == IndInv /\ [Next]_vars => IndInv'
<1> SUFFICES ASSUME IndInv, [Next]_vars PROVE IndInv'
  OBVIOUS
<1>1. CASE UNCHANGED vars
  <2>1. UNCHANGED <<def, nodes, loaded, structure, unmapped, listed, built, status,
                    todo, queue, passes, limit, layer, mapped, onion>>
    BY <1>1 DEF vars, building, structure
  <2>2. TypeOK'
    BY <2>1 DEF IndInv, TypeOK
  <2>3. PassInv'
    BY <2>1 DEF IndInv, PassInv, Added
  <2> QED
    BY <2>1, <2>2, <2>3, SameStructure DEF IndInv
<1>2. CASE Next
  BY <1>2, AddNodeInv, LoadNodeInv, LoadUnknownScopeInv, FinishLoadInv, StartBuildInv,
     TryPlacedInv, BookkeepingInv DEF Next, BuildStep
<1> QED
  BY <1>1, <1>2

-----------------------------------------------------------------------------

\* The fields of Graph keep their types, and buildGraph makes no more passes
\* than twice the nodes it started with, plus the one that gives up.
THEOREM BuilderTypeOK == Spec => []TypeOK
<1>1. IndInv => TypeOK
  BY DEF IndInv
<1> QED
  BY <1>1, InitInv, NextInv, PTL DEF Spec

\* Every op that addNode or buildGraph has placed lies above all its inputs:
\* GraphExecutioner, which walks the layers upwards, has run them before.
THEOREM BuilderLayersOrdered == Spec => []LayersOrdered
<1>1. IndInv => LayersOrdered
  BY DEF IndInv
<1> QED
  BY <1>1, InitInv, NextInv, PTL DEF Spec

\* A graph read from a FlatGraph runs in an order the file allows.
THEOREM BuilderFileOrderKept == Spec => []FileOrderKept
<1>1. IndInv => FileOrderKept
  BY DEF IndInv
<1> QED
  BY <1>1, InitInv, NextInv, PTL DEF Spec

\* Graphs made by calls of addNode and graphs read from a file alike are walked
\* in an order in which the inputs of a node come first.
THEOREM BuilderOrdered == Spec => []Ordered
  BY BuilderLayersOrdered, BuilderFileOrderKept, PTL DEF Ordered

\* Where a node is known to be does not get lost.
LEMMA PlacedStep ==
  ASSUME IndInv, ListedInv, PlacedInv, [Next]_vars
  PROVE  PlacedInv'
<1>1. def' = def /\ \A n : IsScoped(n)' <=> IsScoped(n)
  <2>1. def' = def
    BY DEF Next, vars, AddNode, LoadNode, LoadUnknownScope, FinishLoad, StartBuild, BuildStep,
       TryPlaced, TrySkipped, EndPass, Built, Clone, AsT
  <2> QED
    BY <2>1 DEF IsScoped
<1>2. ASSUME NEW n \in Ids, AddNode(n) PROVE PlacedInv'
  <2>1. nodes' = Append(nodes, n) /\ built' = FALSE /\ left' = left /\ n \notin Added
    BY <1>2 DEF AddNode
  <2>2. Added' = Added \cup {n}
    BY <2>1, AppendNode DEF IndInv
  <2>3. mapped \subseteq mapped' /\ mapped' \subseteq mapped \cup {n} /\ unmapped \subseteq unmapped'
    BY <1>2 DEF AddNode, AddUnknownScope, AddScoped, AddPlaced, AddUnmapped, Place, structure
  <2>4. ~IsScoped(n) => n \in mapped' \cup unmapped'
    BY <1>2 DEF AddNode, AddUnknownScope, AddScoped, AddPlaced, AddUnmapped, Place
  <2> QED
    BY <1>1, <2>1, <2>2, <2>3, <2>4 DEF PlacedInv
<1>3. ASSUME NEW n \in Ids, LoadNode(n) \/ LoadUnknownScope(n) PROVE PlacedInv'
  <2>1. nodes' = Append(nodes, n) /\ built' = FALSE /\ left' = left /\ n \notin Added
    BY <1>3 DEF LoadNode, LoadUnknownScope
  <2>2. Added' = Added \cup {n}
    BY <2>1, AppendNode DEF IndInv
  <2>3. /\ mapped \subseteq mapped' /\ mapped' \subseteq mapped \cup {n} /\ unmapped = unmapped'
        /\ ~IsScoped(n) => n \in mapped'
    BY <1>3 DEF LoadNode, LoadUnknownScope, structure
  <2> QED
    BY <1>1, <2>1, <2>2, <2>3 DEF PlacedInv
<1>4. CASE FinishLoad
  <2>1. Added' = Added /\ mapped' = mapped /\ status = "loading" /\ left' = left /\ unmapped' = unmapped
    BY <1>4 DEF FinishLoad, structure, Added
  <2> QED
    BY <1>1, <2>1 DEF PlacedInv, IndInv, FileInv
<1>5. CASE StartBuild \/ (\E n \in Ids : TrySkipped(n))
  <2>1. Added' = Added /\ mapped' = mapped /\ unmapped' = unmapped /\ built' = built /\ left' = left
    BY <1>5 DEF StartBuild, TrySkipped, structure, Added
  <2> QED
    BY <1>1, <2>1 DEF PlacedInv
<1>6. ASSUME NEW n \in Ids, TryPlaced(n) PROVE PlacedInv'
  <2>1. /\ Added' = Added /\ mapped' = mapped \cup {n} /\ unmapped' = unmapped /\ built' = built
        /\ left' = left /\ status = "building" /\ n \in todo
    BY <1>6 DEF TryPlaced, Reached, Place, Added
  <2>2. n \notin left
    BY <2>1 DEF IndInv, PassInv, ListedInv, RefusedCopies
  <2> QED
    BY <1>1, <2>1, <2>2 DEF PlacedInv
<1>7. CASE EndPass
  <2>1. Added' = Added /\ mapped' = mapped /\ unmapped' = unmapped \ queue /\ built' = built
        /\ queue \subseteq mapped /\ left' = left
    BY <1>7 DEF EndPass, structure, Added, IndInv, PassInv
  <2> QED
    BY <1>1, <2>1 DEF PlacedInv
<1>8. CASE Built
  <2>1. Added' = Added /\ mapped' = mapped /\ unmapped' = {} /\ unmapped = {} /\ left' = left
    BY <1>8 DEF Built, structure, Added
  <2> QED
    BY <1>1, <2>1 DEF PlacedInv
<1>9. CASE Clone \/ AsT
  <2>1. /\ Added' = Added /\ mapped' = mapped /\ built' = built /\ left' = left \cup unmapped
        /\ unmapped \subseteq Added /\ unmapped \cap mapped = {}
    BY <1>9 DEF Clone, AsT, Idle, structure, Added, IndInv, PassInv
  <2> QED
    BY <1>1, <2>1 DEF PlacedInv
<1>10. CASE UNCHANGED vars
  BY <1>1, <1>10 DEF vars, structure, Added, PlacedInv
<1> QED
  BY <1>2, <1>3, <1>4, <1>5, <1>6, <1>7, <1>8, <1>9, <1>10 DEF Next, BuildStep

\* Sets of nodes are finite.
LEMMA NodeCount ==
  ASSUME NEW S \in SUBSET Ids
  PROVE  IsFiniteSet(S) /\ Cardinality(S) \in Nat
BY GraphBuilderAssumption, FS_Subset, FS_CardinalityType

LEMMA EmptyCount == Cardinality({}) = 0
BY FS_EmptySet

\* A new graph has no unplaced nodes.
LEMMA ListedInit == Init => ListedInv
<1> SUFFICES ASSUME Init PROVE ListedInv
  OBVIOUS
<1>1. unmapped = {} /\ left = {} /\ listed = 0 /\ status \in {"open", "loading"}
  BY DEF Init
<1>2. unmapped \ left = {}
  BY <1>1
<1>3. Cardinality(unmapped \ left) <= listed /\ unmapped \cap left = {}
  BY <1>1, <1>2, EmptyCount
<1> QED
  BY <1>1, <1>3 DEF ListedInv, RefusedCopies

\* Only the copies let _unmappedMap fall behind.
LEMMA ListedStep == IndInv /\ ListedInv /\ PlacedInv /\ [Next]_vars => ListedInv'
<1> SUFFICES ASSUME IndInv, ListedInv, PlacedInv, [Next]_vars PROVE ListedInv'
  OBVIOUS
<1> DEFINE Rest == unmapped \ left
           Both == unmapped \cap left
<1>1. /\ unmapped \in SUBSET Ids /\ left \in SUBSET Ids /\ listed \in Nat
      /\ unmapped \subseteq Added
  <2>1. Added \subseteq Ids
    <3>1. nodes \in Seq(Ids)
      BY DEF IndInv, TypeOK
    <3> QED
      BY <3>1 DEF Added
  <2> QED
    BY <2>1 DEF IndInv, TypeOK, PassInv, PlacedInv
<1>2. IsFiniteSet(Rest) /\ Cardinality(Rest) \in Nat /\ Cardinality(unmapped) \in Nat
  BY <1>1, NodeCount
<1>3. Cardinality(Rest) <= listed /\ (Both # {} => listed = Cardinality(Rest))
  BY DEF ListedInv
<1>4. ASSUME NEW n \in Ids, AddNode(n) PROVE ListedInv'
  <2>1. /\ status' \in {"open", "unknown scope"} /\ left' = left
        /\ n \notin Added
    BY <1>4 DEF AddNode, AddUnknownScope, AddScoped, AddPlaced, AddUnmapped
  <2>2. CASE UNCHANGED <<unmapped, listed>>
    BY <2>1, <2>2, <1>3 DEF ListedInv, RefusedCopies
  <2>3. CASE unmapped' = unmapped \cup {n} /\ listed' = listed + 1
    <3>1. n \notin left
      BY <2>1 DEF PlacedInv
    <3>2. ListedInv'
      <4>1. unmapped' \ left' = Rest \cup {n} /\ n \notin Rest /\ unmapped' \cap left' = Both
        BY <1>1, <2>1, <2>3, <3>1
      <4>2. Cardinality(Rest \cup {n}) = Cardinality(Rest) + 1
        BY <1>2, <4>1, FS_AddElement
      <4> HIDE DEF Rest, Both
      <4>3. Cardinality(Rest) + 1 <= listed' /\ (Both # {} => listed' = Cardinality(Rest) + 1)
        BY <1>1, <1>2, <1>3, <2>3
      <4> QED
        BY <2>1, <4>1, <4>2, <4>3 DEF ListedInv, RefusedCopies
    <3> QED
      BY <3>2
  <2> QED
    BY <1>4, <2>2, <2>3 DEF AddNode, AddUnknownScope, AddScoped, AddPlaced, AddUnmapped
<1>5. ASSUME NEW n \in Ids, LoadNode(n) \/ LoadUnknownScope(n) PROVE ListedInv'
  <2>1. /\ unmapped' = unmapped /\ listed' \in {listed, listed + 1} /\ left' = left
        /\ status = "loading" /\ status' \in {"loading", "unknown scope"}
    BY <1>5 DEF LoadNode, LoadUnknownScope
  <2>2. left = {} /\ Both = {}
    BY <2>1 DEF ListedInv
  <2>3. listed' \in {listed, listed + 1} /\ unmapped' \ left' = Rest /\ unmapped' \cap left' = {}
    BY <2>1, <2>2
  <2> HIDE DEF Rest, Both
  <2>4. Cardinality(Rest) <= listed'
    BY <1>1, <1>2, <1>3, <2>3
  <2> QED
    BY <2>1, <2>2, <2>3, <2>4 DEF ListedInv, RefusedCopies
<1>6. CASE FinishLoad \/ Built \/ \E n \in Ids : TryPlaced(n) \/ TrySkipped(n)
  <2>1. UNCHANGED <<unmapped, listed, left>> /\ status' \in {status, "open"}
    BY <1>6 DEF FinishLoad, Built, TryPlaced, TrySkipped
  <2> QED
    BY <2>1 DEF ListedInv, RefusedCopies
<1>7. CASE StartBuild
  <2>1. /\ UNCHANGED <<unmapped, listed, left>>
        /\ Cardinality(unmapped) > listed => status' = "out of range"
        /\ ~(Cardinality(unmapped) > listed) => status' = "building"
    BY <1>7 DEF StartBuild
  <2>2. Both = {} => Rest = unmapped
    OBVIOUS
  <2>3. Both # {} => Cardinality(Rest) < Cardinality(unmapped)
    <3> SUFFICES ASSUME NEW m \in Both PROVE Cardinality(Rest) < Cardinality(unmapped)
      OBVIOUS
    <3>1. m \notin Rest /\ Rest \cup {m} \subseteq unmapped /\ IsFiniteSet(unmapped)
      BY <1>1, NodeCount
    <3>2. Cardinality(Rest \cup {m}) = Cardinality(Rest) + 1
      BY <1>2, <3>1, FS_AddElement
    <3>3. Cardinality(Rest \cup {m}) <= Cardinality(unmapped)
      BY <3>1, FS_Subset
    <3> HIDE DEF Rest, Both
    <3> QED
      BY <1>2, <3>2, <3>3
  <2>4. status' = "out of range" <=> Both # {}
    <3>1. CASE Both = {}
      <4>1. ~(Cardinality(unmapped) > listed)
        BY <1>1, <1>2, <1>3, <2>2, <3>1
      <4> QED
        BY <2>1, <3>1, <4>1
    <3>2. CASE Both # {}
      <4> HIDE DEF Rest, Both
      <4>1. Cardinality(unmapped) > listed
        BY <1>1, <1>2, <1>3, <2>3, <3>2
      <4> QED
        BY <2>1, <3>2, <4>1
    <3> QED
      BY <3>1, <3>2
  <2>5. status' \in {"out of range", "building"}
    BY <2>1
  <2> QED
    BY <2>1, <2>4, <2>5 DEF ListedInv, RefusedCopies
<1>8. CASE EndPass
  <2>1. /\ unmapped' \subseteq unmapped /\ listed' = listed /\ left' = left
        /\ status = "building" /\ status' \in {"unable", "building"}
    BY <1>8 DEF EndPass
  <2>2. Both = {}
    BY <2>1 DEF ListedInv, RefusedCopies
  <2>3. unmapped' \cap left' = {} /\ unmapped' \ left' \subseteq Rest
    BY <2>1, <2>2
  <2>4. Cardinality(unmapped' \ left') <= Cardinality(Rest) /\ Cardinality(unmapped' \ left') \in Nat
    BY <1>2, <2>3, FS_Subset, FS_CardinalityType
  <2> HIDE DEF Rest, Both
  <2>5. Cardinality(unmapped' \ left') <= listed'
    BY <1>1, <1>2, <1>3, <2>1, <2>4
  <2> QED
    BY <2>1, <2>3, <2>5 DEF ListedInv, RefusedCopies
<1>9. CASE Clone \/ AsT
  <2>1. /\ unmapped' \in {unmapped, {}} /\ listed' = 0 /\ status' = "open"
        /\ left' = left \cup unmapped
    BY <1>9 DEF Clone, AsT, building, structure
  <2>2. unmapped' \ left' = {}
    BY <2>1
  <2>3. Cardinality(unmapped' \ left') = 0
    BY <2>2, EmptyCount
  <2>4. listed' = 0 /\ Cardinality(unmapped' \ left') <= listed'
    BY <2>1, <2>3
  <2> QED
    BY <2>1, <2>3, <2>4 DEF ListedInv, RefusedCopies
<1>10. CASE UNCHANGED vars
  BY <1>10 DEF vars, ListedInv, RefusedCopies
<1> QED
  BY <1>4, <1>5, <1>6, <1>7, <1>8, <1>9, <1>10 DEF Next, BuildStep

\* All three together hold in every reachable state.
LEMMA BuilderInv == Spec => [](IndInv /\ ListedInv /\ PlacedInv)
<1>1. Init => PlacedInv
  BY DEF Init, PlacedInv, Added
<1>2. IndInv /\ ListedInv /\ PlacedInv /\ [Next]_vars => PlacedInv'
  BY PlacedStep
<1> QED
  BY <1>1, <1>2, InitInv, NextInv, ListedInit, ListedStep, PTL DEF Spec

\* The walk of GraphExecutioner::execute over layers 0 .. _onion->size() - 1 of
\* a built graph meets every node outside the scopes exactly once, and never
\* one that was not placed yet when the graph was cast with asT.
THEOREM BuilderVisitedOnce == Spec => []VisitedOnce
<1>1. IndInv /\ PlacedInv => VisitedOnce
  <2>a. ASSUME IndInv, PlacedInv, NEW n \in left, NEW l \in DOMAIN onion,
               NEW k \in DOMAIN onion[l]
        PROVE  ~At(l, k, n)
    BY <2>a DEF PlacedInv, IndInv, OnionInv, GoodOnion, At
  <2> SUFFICES ASSUME IndInv, PlacedInv, built, NEW n \in Added, ~IsScoped(n), n \notin left
               PROVE  \E l \in Walk : \E k \in DOMAIN onion[l] :
                        /\ At(l, k, n)
                        /\ \A l2 \in DOMAIN onion : \A k2 \in DOMAIN onion[l2] :
                             At(l2, k2, n) => l2 = l /\ k2 = k
    BY <2>a DEF VisitedOnce
  <2> DEFINE l == layer[n]
  <2>1. n \in mapped
    BY DEF PlacedInv
  <2>2. l \in DOMAIN onion
    BY <2>1 DEF IndInv, OnionInv, GoodOnion
  <2>3. PICK k \in DOMAIN onion[l] : onion[l][k] = n
    BY <2>1 DEF IndInv, OnionInv, GoodOnion
  <2>4. l \in Walk
    <3>1. PICK c \in Nat \ {0} : DOMAIN onion = 0 .. c - 1
      BY DEF IndInv, OnionInv, GoodOnion
    <3>2. Cardinality(DOMAIN onion) = c
      BY <3>1, OnionSize
    <3> QED
      BY <2>2, <3>1, <3>2 DEF Walk
  <2>5. ASSUME NEW l2 \in DOMAIN onion, NEW k2 \in DOMAIN onion[l2], onion[l2][k2] = n
        PROVE  l2 = l /\ k2 = k
    <3>1. l2 = l
      BY <2>5 DEF IndInv, OnionInv, GoodOnion
    <3> QED
      BY <2>2, <2>3, <2>5, <3>1 DEF IndInv, OnionInv, GoodOnion
  <2>6. At(l, k, n) /\ \A l2 \in DOMAIN onion : \A k2 \in DOMAIN onion[l2] :
                             At(l2, k2, n) => l2 = l /\ k2 = k
    BY <2>2, <2>3, <2>5 DEF At
  <2> HIDE DEF l
  <2> QED
    BY <2>3, <2>4, <2>6
<1> QED
  BY <1>1, BuilderInv, PTL

-----------------------------------------------------------------------------
(* Giving up, and copies *)

\* No pass can place anything any more.
Stuck == \A n \in unmapped : Layers(n) = {}

\* Every pass so far has placed a node, or none ever will.
ProgressInv ==
  /\ status = "building" =>
       /\ queue \subseteq unmapped
       /\ queue = {} => \A n \in unmapped \ todo : Layers(n) = {}
       /\ (queue = {} /\ Stuck) \/ 2 * (Cardinality(unmapped) + passes) <= limit
  /\ status = "unable" => unmapped # {} /\ Stuck

\* A set of numbers that is not empty has a smallest one, and if it is bounded, a
\* largest one.
LEMMA SmallestOf ==
  ASSUME NEW T \in SUBSET Nat, T # {}
  PROVE  \E a \in T : \A b \in T : a <= b
<1> DEFINE R == {p \in Nat \X Nat : p[1] < p[2]}
<1>1. IsWellFoundedOn(R, Nat)
  BY NatLessThanWellFounded DEF OpToRel
<1>2. \A a, b \in Nat : a < b => <<a, b>> \in R
  OBVIOUS
<1> HIDE DEF R
<1>3. PICK a \in T : \A b \in T : ~(<<b, a>> \in R)
  BY <1>1, WFMin, Zenon
<1>4. ASSUME NEW b \in T PROVE a <= b
  <2>1. a \in Nat /\ b \in Nat
    OBVIOUS
  <2>2. ~(b < a)
    BY <1>2, <1>3, <2>1
  <2> QED
    BY <2>1, <2>2
<1> QED
  BY <1>4

LEMMA LargestOf ==
  ASSUME NEW S \in SUBSET Nat, S # {}, NEW B \in Nat, \A a \in S : a <= B
  PROVE  \E a \in S : \A b \in S : b <= a
<1> DEFINE T == {B - a : a \in S}
<1>1. \A a \in S : B - a \in Nat
  OBVIOUS
<1>2. T \in SUBSET Nat /\ T # {}
  BY <1>1
<1>3. PICK t \in T : \A u \in T : t <= u
  BY <1>2, SmallestOf
<1>4. PICK a \in S : t = B - a
  OBVIOUS
<1>5. ASSUME NEW b \in S PROVE b <= a
  <2>1. B - a <= B - b
    BY <1>3, <1>4
  <2> QED
    BY <2>1
<1> QED
  BY <1>5

\* A pass skips a node only because of an input that is not placed.
LEMMA SkippedReads ==
  ASSUME IndInv, NEW n \in Ids, Layers(n) = {}
  PROVE  \E m \in Inputs(n) : m >= 0 /\ m \notin Vars /\ m \notin mapped
<1>1. CASE SingleInput(n)
  <2>1. Inputs(n) = {FirstInput(n)} /\ FirstInput(n) \in Int
    BY <1>1, OneInput DEF IndInv
  <2>2. ~IsExternal(FirstInput(n))
    BY <1>1 DEF Layers
  <2>3. FirstInput(n) \notin mapped
    BY <1>1, <2>2 DEF Layers
  <2> QED
    BY <2>1, <2>2, <2>3 DEF IsExternal
<1>2. CASE ~SingleInput(n) /\ def[n].kind = "op" /\ Missing(n) # {}
  <2>1. PICK m \in Missing(n) : TRUE
    BY <1>2
  <2>2. m \in Inputs(n) /\ m \notin mapped /\ m > 0 /\ m \notin Vars
    BY <2>1 DEF Missing
  <2>3. m \in Int
    <3>1. def[n].input \in Seq(Int)
      BY DEF IndInv, TypeOK, Node
    <3> QED
      BY <2>2, <3>1 DEF Inputs
  <2> QED
    BY <2>2, <2>3
<1>3. CASE ~SingleInput(n) /\ ~(def[n].kind = "op" /\ Missing(n) # {})
  <2> DEFINE S == InputLayers(n)
  <2>1. PICK c \in Nat \ {0} : DOMAIN onion = 0 .. c - 1
    BY DEF IndInv, OnionInv, GoodOnion
  <2>2. \A l \in S : l \in Nat /\ l <= c
    BY <2>1, MappedLayer DEF InputLayers, IndInv
  <2>3. 0 \in S
    BY DEF InputLayers
  <2> HIDE DEF S
  <2>4. S \in SUBSET Nat /\ S # {} /\ c \in Nat /\ \A l \in S : l <= c
    BY <2>2, <2>3
  <2>5. PICK k \in S : \A j \in S : j <= k
    BY ONLY <2>4, LargestOf
  <2>6. k + 1 \in Layers(n)
    BY <1>3, <2>5 DEF Layers, S
  <2> QED
    BY <2>6
<1> QED
  BY <1>1, <1>2, <1>3

\* What a pass may do depends on the structure only.
LEMMA SameLayers ==
  ASSUME UNCHANGED <<def, structure>>
  PROVE  \A n : Layers(n)' = Layers(n)
<1>1. UNCHANGED <<def, layer, mapped, onion>>
  BY DEF structure
<1> QED
  BY <1>1 DEF Layers, SingleInput, FirstInput, IsExternal, Missing, Inputs, InputLayers

LEMMA EndPassProgress ==
  ASSUME IndInv, ProgressInv, EndPass
  PROVE  ProgressInv'
<1>1. /\ status = "building" /\ todo = {} /\ unmapped # {} /\ unmapped' = unmapped \ queue
      /\ passes' = passes + 1 /\ queue' = {}
      /\ status' = (IF passes' > limit THEN "unable" ELSE "building")
      /\ todo' = (IF passes' > limit THEN {} ELSE unmapped')
      /\ UNCHANGED <<def, structure, limit>>
  BY DEF EndPass
<1>2. \A n : Layers(n)' = Layers(n)
  BY <1>1, SameLayers
<1>3. /\ unmapped \in SUBSET Ids /\ unmapped' \in SUBSET Ids /\ queue \subseteq Ids
      /\ limit \in Nat /\ passes \in Nat
  BY <1>1 DEF IndInv, TypeOK
<1>4. CASE queue = {}
  <2>1. unmapped' = unmapped
    BY <1>1, <1>4
  <2>2. Stuck
    BY <1>1, <1>4 DEF ProgressInv, Stuck
  <2>3. Stuck'
    BY <1>2, <2>1, <2>2 DEF Stuck
  <2> QED
    BY <1>1, <2>1, <2>3 DEF ProgressInv, Stuck
<1>5. CASE queue # {}
  <2>1. 2 * (Cardinality(unmapped) + passes) <= limit
    BY <1>1, <1>5 DEF ProgressInv
  <2>2. queue \subseteq unmapped
    BY <1>1 DEF ProgressInv, IndInv, PassInv
  <2>3. PICK q \in queue : TRUE
    BY <1>5
  <2>4. IsFiniteSet(unmapped \ {q}) /\ Cardinality(unmapped \ {q}) = Cardinality(unmapped) - 1
    BY <1>3, <2>2, <2>3, NodeCount, FS_RemoveElement
  <2>5. Cardinality(unmapped') <= Cardinality(unmapped \ {q})
    BY <1>1, <2>3, <2>4, FS_Subset
  <2>6. PICK a \in Nat, b \in Nat : a = Cardinality(unmapped) /\ b = Cardinality(unmapped')
    BY <1>3, NodeCount
  <2>7. b + 1 <= a
    BY <2>4, <2>5, <2>6
  <2>8. 2 * (b + passes') <= limit /\ ~(passes' > limit)
    BY <1>1, <1>3, <2>1, <2>6, <2>7
  <2>9. status' = "building" /\ todo' = unmapped' /\ queue' = {} /\ limit' = limit
    BY <1>1, <2>8
  <2> QED
    BY <2>6, <2>8, <2>9 DEF ProgressInv
<1> QED
  BY <1>4, <1>5

LEMMA ProgressStep ==
  ASSUME IndInv, ProgressInv, [Next]_vars
  PROVE  ProgressInv'
<1>1. ASSUME NEW n \in Ids, AddNode(n) \/ LoadNode(n) \/ LoadUnknownScope(n) PROVE ProgressInv'
  <2>1. status' \notin {"building", "unable"}
    BY <1>1 DEF AddNode, AddUnknownScope, AddScoped, AddPlaced, AddUnmapped, LoadNode,
                LoadUnknownScope
  <2> QED
    BY <2>1 DEF ProgressInv
<1>2. CASE FinishLoad \/ Built
  BY <1>2 DEF FinishLoad, Built, ProgressInv
<1>3. CASE StartBuild
  <2>1. CASE Cardinality(unmapped) > listed
    BY <1>3, <2>1 DEF StartBuild, ProgressInv
  <2>2. CASE ~(Cardinality(unmapped) > listed)
    <3>1. /\ status' = "building" /\ todo' = unmapped' /\ queue' = {} /\ passes' = 0
          /\ unmapped' = unmapped /\ limit' = 2 * Cardinality(unmapped)
      BY <1>3, <2>2 DEF StartBuild
    <3>2. Cardinality(unmapped) \in Nat
      BY NodeCount DEF IndInv, TypeOK
    <3>3. 2 * (Cardinality(unmapped') + passes') <= limit'
      BY <3>1, <3>2
    <3> QED
      BY <3>1, <3>3 DEF ProgressInv
  <2> QED
    BY <2>1, <2>2
<1>4. ASSUME NEW n \in Ids, TryPlaced(n) PROVE ProgressInv'
  <2>1. /\ status = "building" /\ n \in todo /\ queue' = queue \cup {n} /\ Layers(n) # {}
        /\ UNCHANGED <<unmapped, status, passes, limit>>
    BY <1>4 DEF TryPlaced, Reached
  <2>2. n \in unmapped
    BY <2>1 DEF IndInv, PassInv
  <2>3. ~Stuck
    BY <2>1, <2>2 DEF Stuck
  <2> QED
    BY <2>1, <2>2, <2>3 DEF ProgressInv
<1>5. ASSUME NEW n \in Ids, TrySkipped(n) PROVE ProgressInv'
  <2>1. /\ status = "building" /\ Layers(n) = {} /\ todo' = todo \ {n}
        /\ UNCHANGED <<def, structure, unmapped, status, queue, passes, limit>>
    BY <1>5 DEF TrySkipped, Reached
  <2>2. \A m : Layers(m)' = Layers(m)
    BY <2>1, SameLayers
  <2>3. Stuck' <=> Stuck
    BY <2>1, <2>2 DEF Stuck
  <2> QED
    BY <2>1, <2>2, <2>3 DEF ProgressInv
<1>6. CASE EndPass
  BY <1>6, EndPassProgress
<1>7. CASE Clone \/ AsT
  BY <1>7 DEF Clone, AsT, ProgressInv
<1>8. CASE UNCHANGED vars
  <2>1. UNCHANGED <<def, structure, status, unmapped, todo, queue, passes, limit>>
    BY <1>8 DEF vars, building
  <2>2. \A m : Layers(m)' = Layers(m)
    BY <2>1, SameLayers
  <2>3. Stuck' <=> Stuck
    BY <2>1, <2>2 DEF Stuck
  <2> QED
    BY <2>1, <2>2, <2>3 DEF ProgressInv
<1> QED
  BY <1>1, <1>2, <1>3, <1>4, <1>5, <1>6, <1>7, <1>8 DEF Next, BuildStep

\* "Unable to build graph" is said only of a graph that no further pass could
\* build: limit passes are enough for every graph that has an order.
THEOREM BuilderGivesUpRightly == Spec => []GivesUpRightly
<1>1. Init => ProgressInv
  BY DEF Init, ProgressInv
<1>2. IndInv /\ PlacedInv /\ ProgressInv => GivesUpRightly
  <2> SUFFICES ASSUME IndInv, PlacedInv, ProgressInv, status = "unable"
               PROVE  /\ unmapped # {}
                      /\ \A n \in unmapped : \E m \in Inputs(n) :
                           /\ m >= 0 /\ m \notin Vars
                           /\ m \in unmapped \/ m \notin Added \/ IsScoped(m) \/ m \in left
    BY DEF GivesUpRightly
  <2>1. unmapped # {} /\ Stuck
    BY DEF ProgressInv
  <2>2. ASSUME NEW n \in unmapped
        PROVE  \E m \in Inputs(n) : /\ m >= 0 /\ m \notin Vars
                                    /\ m \in unmapped \/ m \notin Added \/ IsScoped(m) \/ m \in left
    <3>1. n \in Ids /\ Layers(n) = {}
      BY <2>1 DEF IndInv, TypeOK, Stuck
    <3>2. PICK m \in Inputs(n) : m >= 0 /\ m \notin Vars /\ m \notin mapped
      BY <3>1, SkippedReads
    <3>3. m \in unmapped \/ m \notin Added \/ IsScoped(m) \/ m \in left
      BY <3>2 DEF PlacedInv
    <3> QED
      BY <3>2, <3>3
  <2> QED
    BY <2>1, <2>2
<1>3. IndInv /\ ProgressInv /\ [Next]_vars => ProgressInv'
  BY ProgressStep
<1> QED
  BY <1>1, <1>2, <1>3, BuilderInv, PTL DEF Spec

\* buildGraph refuses the clones that were taken with nodes unplaced, and no
\* other graph, whatever is added before and after.
THEOREM BuilderRefusedCopies == Spec => []RefusedCopies
<1>1. ListedInv => RefusedCopies
  BY DEF ListedInv
<1> QED
  BY <1>1, BuilderInv, PTL
=============================================================================
