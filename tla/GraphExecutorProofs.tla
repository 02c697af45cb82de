------------------------ MODULE GraphExecutorProofs ------------------------
(***************************************************************************)
(* Branches not taken are never executed, for every graph, every outcome   *)
(* of its ops and every number of runs over one FlowPath.  The flags of    *)
(* FlowPath outlive the pass, and the run, they were set in, so            *)
(* BranchDisabled alone is not inductive: the invariant speaks of the      *)
(* nodes below the position of the walk, whose flags are those of this     *)
(* pass, and needs that a rewind never jumps over a node.                  *)
(*                                                                         *)
(* Where the graph denotes (GraphMeaning) the walk computes what it        *)
(* denotes.  The invariant MeaningInv says of each node the walk has passed *)
(* that its outputs are alive and have the value the equations give them   *)
(* (OuterInv outside the loops, Turning in a loop, in the iteration that   *)
(* the walk is in), of each loop where it is in that iteration and which   *)
(* flags of the iteration before are left (MergeReady), of the frames      *)
(* which one is open (OpenInv), and of the arrays which variables may      *)
(* share one (ArrayInv).  It gives the rewinds too, in graphs whose loops  *)
(* follow one another.                                                     *)
(***************************************************************************)
EXTENDS GraphMeaning, TLAPS

FrameStates == [activated : BOOLEAN, rewindPlanned : BOOLEAN, rewindPosition : Nat \cup {-1}]

IsFlow(fl) ==
  fl \in [inactive : SUBSET Nodes, executed : SUBSET Nodes, branch : [Nodes -> {0, 1}],
          frame : [Frames -> FrameStates]]

TypeInv ==
  /\ g \in Graphs /\ feed \in g.feeds
  /\ l \in Nat /\ n \in Nat
  /\ IsFlow(flow)
  /\ frames \in Seq(Frames)
  /\ frameOf \in [Nodes -> Frames \cup {-1}]
  /\ \A v \in Nodes : Kind(v) = "Enter" => frameOf[v] # -1
  /\ rewindTo \in [Nodes -> Nat]

\* Nodes the walk has passed.
Done(w) ==
  \E i \in DOMAIN g.layers : \E j \in DOMAIN g.layers[i] :
     g.layers[i][j] = w /\ (i <= l \/ (i = l + 1 /\ j <= n))

Ran(w) ==
  /\ w \in flow.executed
  /\ \A a \in g.under[w] : a[1] \in flow.executed /\ flow.branch[a[1]] = a[2]

\* A node that was passed and is active has been executed, and so have the Switches
\* it depends on, which still select its branch.
DoneInv ==
  \A w \in Nodes : Done(w) /\ Kind(w) \notin {"Merge", "Exit"} /\ w \notin flow.inactive => Ran(w)

---------------------------------------------------------------------------
(* FlowPath *)

\* A FlowPath that differs from fl in what it says of v, and of the NextIteration
\* a Merge v has reset.
Touches(v, fl, f2) ==
  /\ \A u \in Nodes \ {v} : u \in f2.inactive <=> u \in fl.inactive
  /\ \A u \in Nodes \ {v} : f2.branch[u] = fl.branch[u]
  /\ \A u \in Nodes \ {v} :
       (Kind(v) = "Merge" /\ u = In(v)[2][1] /\ Kind(u) = "NextIteration")
         \/ (u \in f2.executed <=> u \in fl.executed)

Same(fl, f2) == /\ f2.inactive = fl.inactive /\ f2.executed = fl.executed
                /\ f2.branch = fl.branch

LEMMA FlowFields ==
  ASSUME NEW fl, IsFlow(fl)
  PROVE  /\ fl.inactive \subseteq Nodes /\ fl.executed \subseteq Nodes
         /\ fl.branch \in [Nodes -> {0, 1}] /\ fl.frame \in [Frames -> FrameStates]
BY DEF IsFlow

LEMMA FrameFields ==
  ASSUME NEW s \in FrameStates
  PROVE  /\ s.activated \in BOOLEAN /\ s.rewindPlanned \in BOOLEAN
         /\ s.rewindPosition \in Nat \cup {-1}
BY DEF FrameStates

LEMMA ActiveFlow ==
  ASSUME NEW fl, IsFlow(fl), NEW v \in Nodes
  PROVE  /\ IsFlow(MarkActive(fl, v)) /\ IsFlow(MarkInactive(fl, v))
         /\ MarkActive(fl, v).inactive = fl.inactive \ {v}
         /\ MarkActive(fl, v).executed = fl.executed
         /\ MarkActive(fl, v).branch = fl.branch
         /\ MarkActive(fl, v).frame = fl.frame
         /\ MarkInactive(fl, v).inactive = fl.inactive \cup {v}
         /\ MarkInactive(fl, v).executed = fl.executed
         /\ MarkInactive(fl, v).branch = fl.branch
         /\ MarkInactive(fl, v).frame = fl.frame
BY DEF IsFlow, MarkActive, MarkInactive

LEMMA ExecutedFlow ==
  ASSUME NEW fl, IsFlow(fl), NEW v \in Nodes
  PROVE  /\ IsFlow(MarkExecuted(fl, v)) /\ IsFlow(MarkNotExecuted(fl, v))
         /\ MarkExecuted(fl, v).inactive = fl.inactive
         /\ MarkExecuted(fl, v).executed = fl.executed \cup {v}
         /\ MarkExecuted(fl, v).branch = fl.branch
         /\ MarkExecuted(fl, v).frame = fl.frame
         /\ MarkNotExecuted(fl, v).inactive = fl.inactive
         /\ MarkNotExecuted(fl, v).executed = fl.executed \ {v}
         /\ MarkNotExecuted(fl, v).branch = fl.branch
         /\ MarkNotExecuted(fl, v).frame = fl.frame
BY DEF IsFlow, MarkExecuted, MarkNotExecuted

LEMMA BranchFlow ==
  ASSUME NEW fl, IsFlow(fl), NEW v \in Nodes, NEW b \in {0, 1}
  PROVE  /\ IsFlow(MarkBranch(fl, v, b))
         /\ MarkBranch(fl, v, b).inactive = fl.inactive
         /\ MarkBranch(fl, v, b).executed = fl.executed
         /\ MarkBranch(fl, v, b).frame = fl.frame
         /\ \A u \in Nodes \ {v} : MarkBranch(fl, v, b).branch[u] = fl.branch[u]
BY DEF IsFlow, MarkBranch

LEMMA FrameFlow ==
  ASSUME NEW fl, IsFlow(fl), NEW st \in [Frames -> FrameStates]
  PROVE  LET f2 == [fl EXCEPT !.frame = st]
         IN  IsFlow(f2) /\ Same(fl, f2) /\ f2.frame = st
BY DEF IsFlow, Same

LEMMA FreshState == FreshFrame \in FrameStates
BY DEF FreshFrame, FrameStates

LEMMA ForgetFlow ==
  ASSUME NEW fl, IsFlow(fl), NEW f
  PROVE  /\ IsFlow(ForgetFrame(fl, f)) /\ Same(fl, ForgetFrame(fl, f))
         /\ \A k \in Frames : ForgetFrame(fl, f).frame[k] \in {fl.frame[k], FreshFrame}
<1> DEFINE st == [fl.frame EXCEPT ![f] = FreshFrame]
<1>1. st \in [Frames -> FrameStates] /\ \A k \in Frames : st[k] \in {fl.frame[k], FreshFrame}
  BY FlowFields, FreshState
<1>2. ForgetFrame(fl, f) = [fl EXCEPT !.frame = st]
  BY DEF ForgetFrame
<1> HIDE DEF st
<1> QED
  BY <1>1, <1>2, FrameFlow

LEMMA ActivateFlow ==
  ASSUME NEW fl, IsFlow(fl), NEW f \in Frames
  PROVE  /\ IsFlow(ActivateFrame(fl, f)) /\ Same(fl, ActivateFrame(fl, f))
         /\ \A k \in Frames : ActivateFrame(fl, f).frame[k].rewindPosition
                                = fl.frame[k].rewindPosition
<1> DEFINE s == [fl.frame[f] EXCEPT !.activated = TRUE]
           st == [fl.frame EXCEPT ![f] = s]
<1>0. fl.frame[f] \in FrameStates
  BY FlowFields
<1>1. s \in FrameStates /\ s.rewindPosition = fl.frame[f].rewindPosition
  BY <1>0 DEF FrameStates
<1>2. ActivateFrame(fl, f) = [fl EXCEPT !.frame = st]
  BY DEF ActivateFrame
<1> HIDE DEF s
<1>3. /\ st \in [Frames -> FrameStates] /\ st[f] = s
      /\ \A k \in Frames : k # f => st[k] = fl.frame[k]
  BY <1>1, FlowFields
<1> HIDE DEF st
<1> QED
  BY <1>1, <1>2, <1>3, FrameFlow

LEMMA PlanFlow ==
  ASSUME NEW fl, IsFlow(fl), NEW f \in Frames, NEW pos \in Nat \cup {-1}
  PROVE  /\ IsFlow(PlanRewind(fl, f, pos)) /\ Same(fl, PlanRewind(fl, f, pos))
         /\ \A k \in Frames : PlanRewind(fl, f, pos).frame[k].rewindPosition
                                \in {fl.frame[k].rewindPosition, pos}
<1> DEFINE r == fl.frame[f].rewindPosition
           q == IF r < 0 THEN pos ELSE r
           s == [fl.frame[f] EXCEPT !.rewindPlanned = TRUE, !.rewindPosition = q]
           st == [fl.frame EXCEPT ![f] = s]
<1>1. fl.frame[f] \in FrameStates
  BY FlowFields
<1>2. q \in {r, pos} /\ q \in Nat \cup {-1}
  BY <1>1, FrameFields
<1>3. PlanRewind(fl, f, pos) = [fl EXCEPT !.frame = st]
  BY FlowFields DEF PlanRewind
<1> HIDE DEF q, r
<1>4. s \in FrameStates /\ s.rewindPosition = q
  BY <1>1, <1>2 DEF FrameStates
<1> HIDE DEF s
<1>5. /\ st \in [Frames -> FrameStates] /\ st[f] = s
      /\ \A k \in Frames : k # f => st[k] = fl.frame[k]
  BY <1>4, FlowFields
<1> HIDE DEF st
<1> QED
  BY <1>2, <1>3, <1>4, <1>5, FrameFlow DEF r

LEMMA CancelFlow ==
  ASSUME NEW fl, IsFlow(fl), NEW f \in Frames
  PROVE  /\ IsFlow(CancelRewind(fl, f)) /\ Same(fl, CancelRewind(fl, f))
         /\ \A k \in Frames : CancelRewind(fl, f).frame[k].rewindPosition
                                \in {fl.frame[k].rewindPosition, -1}
<1> DEFINE s == [fl.frame[f] EXCEPT !.rewindPlanned = FALSE, !.rewindPosition = -1]
           st == [fl.frame EXCEPT ![f] = s]
<1>1. fl.frame[f] \in FrameStates
  BY FlowFields
<1>2. CancelRewind(fl, f) = [fl EXCEPT !.frame = st]
  BY FlowFields DEF CancelRewind
<1>3. s \in FrameStates /\ s.rewindPosition = -1
  BY <1>1 DEF FrameStates
<1> HIDE DEF s
<1>4. /\ st \in [Frames -> FrameStates] /\ st[f] = s
      /\ \A k \in Frames : k # f => st[k] = fl.frame[k]
  BY <1>3, FlowFields
<1> HIDE DEF st
<1> QED
  BY <1>2, <1>3, <1>4, FrameFlow

---------------------------------------------------------------------------
(* The head of a visit *)

LEMMA Laid ==
  ASSUME TypeInv
  PROVE  /\ g.layers \in Seq(Seq(Nodes))
         /\ \A v \in Nodes : LayersWith(g, v) # {}
         /\ \A i, k \in DOMAIN g.layers : \A j \in DOMAIN g.layers[i], m \in DOMAIN g.layers[k] :
              g.layers[i][j] = g.layers[k][m] => i = k /\ j = m
         /\ g.frame \in [Nodes -> Nat \cup {-1}]
         /\ \A v \in Nodes : g.kind[v] = "Enter" => g.frame[v] # -1
         /\ \A v, w \in Nodes : g.kind[v] = "Merge" /\ g.kind[w] = "NextIteration"
                               /\ w = g.in[v][2][1] => IsLower(g, v, w)
         /\ \A f \in g.feeds : DOMAIN f \cap Nodes = {}
         /\ \A v \in Nodes : \A a \in g.under[v] : DependsOn(g, v, a)
<1>1. WellLaid(g)
  BY GraphsAssumption DEF TypeInv
<1> QED
  BY <1>1 DEF WellLaid, Nodes

\* The node at the position has not been passed, those below it have.
LEMMA HereFacts ==
  ASSUME TypeInv, NEW v, At(v)
  PROVE  /\ v \in Nodes /\ ~Done(v)
         /\ l + 1 \in DOMAIN g.layers /\ n + 1 \in DOMAIN g.layers[l + 1]
         /\ v = g.layers[l + 1][n + 1]
<1>1. l \in Nat /\ n \in Nat /\ g.layers \in Seq(Seq(Nodes))
  BY Laid DEF TypeInv
<1>2. l < Len(g.layers) /\ n < Len(g.layers[l + 1]) /\ v = g.layers[l + 1][n + 1]
  BY DEF At, Layer
<1>3. l + 1 \in DOMAIN g.layers
  BY <1>1, <1>2
<1>4. g.layers[l + 1] \in Seq(Nodes)
  BY <1>1, <1>3
<1>5. n + 1 \in DOMAIN g.layers[l + 1]
  BY <1>1, <1>2, <1>4
<1>6. v \in Nodes
  BY <1>2, <1>4, <1>5
<1>7. ASSUME Done(v) PROVE FALSE
  <2>1. PICK i \in DOMAIN g.layers : \E j \in DOMAIN g.layers[i] :
          g.layers[i][j] = v /\ (i <= l \/ (i = l + 1 /\ j <= n))
    BY <1>7 DEF Done
  <2>2. PICK j \in DOMAIN g.layers[i] : g.layers[i][j] = v /\ (i <= l \/ (i = l + 1 /\ j <= n))
    BY <2>1
  <2>3. i = l + 1 /\ j = n + 1
    BY <1>2, <1>3, <1>5, <2>2, Laid
  <2> QED
    BY <1>1, <2>2, <2>3
<1> QED
  BY <1>2, <1>3, <1>5, <1>6, <1>7

LEMMA LowerDone ==
  ASSUME TypeInv, NEW v, At(v), NEW u \in Nodes, IsLower(g, u, v)
  PROVE  Done(u)
<1>1. l + 1 \in LayersWith(g, v) /\ l \in Nat
  BY HereFacts DEF LayersWith, TypeInv
<1>2. PICK i \in LayersWith(g, u) : TRUE
  BY Laid
<1>3. i < l + 1
  BY <1>1, <1>2 DEF IsLower
<1>4. i \in Nat
  <2>1. DOMAIN g.layers = 1 .. Len(g.layers) /\ Len(g.layers) \in Nat
    BY Laid
  <2> QED
    BY <2>1 DEF LayersWith
<1>5. i <= l
  BY <1>1, <1>3, <1>4
<1> QED
  BY <1>2, <1>5 DEF LayersWith, Done

\* A node below one that was passed was passed.
LEMMA LowerThanDone ==
  ASSUME TypeInv, NEW w \in Nodes, Done(w), NEW u \in Nodes, IsLower(g, u, w)
  PROVE  Done(u)
<1>1. PICK k \in DOMAIN g.layers : k \in LayersWith(g, w) /\ (k <= l \/ k = l + 1)
  BY DEF Done, LayersWith
<1>2. PICK i \in LayersWith(g, u) : TRUE
  BY Laid
<1>3. i < k
  BY <1>1, <1>2 DEF IsLower
<1>4. i \in Nat /\ k \in Nat /\ l \in Nat
  <2>1. DOMAIN g.layers = 1 .. Len(g.layers) /\ Len(g.layers) \in Nat
    BY Laid
  <2> QED
    BY <2>1 DEF LayersWith, TypeInv
<1>5. i <= l
  BY <1>1, <1>3, <1>4
<1> QED
  BY <1>2, <1>5 DEF LayersWith, Done

\* The loops' frames that a visit sees are frames of the graph.
LEMMA HeadFacts ==
  ASSUME TypeInv, NEW v \in Nodes
  PROVE  /\ IsFlow(Flow1(v)) /\ Same(flow, Flow1(v))
         /\ \A k \in Frames : Flow1(v).frame[k] \in {flow.frame[k], FreshFrame}
         /\ Frames1(v) \in Seq(Frames)
<1>1. IsFlow(flow) /\ frames \in Seq(Frames)
  BY DEF TypeInv
<1>2. CASE Leaves(v)
  <2>1. /\ Flow1(v) = ForgetFrame(flow, Last(frames))
        /\ Frames1(v) = SubSeq(frames, 1, Len(frames) - 1)
    BY <1>2 DEF Flow1, Frames1, Front
  <2>2. SubSeq(frames, 1, Len(frames) - 1) \in Seq(Frames)
    <3>1. CASE frames = <<>>
      BY <3>1
    <3>2. CASE frames # <<>>
      BY <1>1, <3>2
    <3> QED
      BY <3>1, <3>2
  <2> QED
    BY <1>1, <2>1, <2>2, ForgetFlow
<1>3. CASE ~Leaves(v)
  BY <1>1, <1>3 DEF Flow1, Frames1, Same
<1> QED
  BY <1>2, <1>3

LEMMA LastFrame ==
  ASSUME NEW s \in Seq(Frames), s # <<>>
  PROVE  Last(s) \in Frames
BY DEF Last

LEMMA FrameNumbers == TypeInv => Frames \subseteq Nat
<1> SUFFICES ASSUME TypeInv PROVE Frames \subseteq Nat
  OBVIOUS
<1> QED
  BY Laid DEF Frames

LEMMA FrameIdFacts ==
  ASSUME TypeInv, NEW v \in Nodes
  PROVE  /\ FrameId(v) \in Frames \cup {-1}
         /\ FrameId(v) >= 0 => FrameId(v) \in Frames
         /\ Kind(v) = "Enter" => FrameId(v) \in Frames
         /\ SetFrame(v) => /\ frameOf' \in [Nodes -> Frames \cup {-1}]
                           /\ \A u \in Nodes : Kind(u) = "Enter" => frameOf'[u] # -1
<1>1. frameOf[v] \in Frames \cup {-1} /\ (Kind(v) = "Enter" => frameOf[v] # -1)
  BY DEF TypeInv
<1>2. FrameId(v) \in Frames \cup {-1}
  BY <1>1, HeadFacts, LastFrame DEF FrameId
<1>3. FrameId(v) >= 0 => FrameId(v) \in Frames
  BY <1>2
<1>4. Kind(v) = "Enter" => FrameId(v) \in Frames
  BY <1>1, HeadFacts, LastFrame DEF FrameId
<1>5. -1 \notin Frames
  BY FrameNumbers
<1>6. ASSUME SetFrame(v)
      PROVE  /\ frameOf' \in [Nodes -> Frames \cup {-1}]
             /\ \A u \in Nodes : Kind(u) = "Enter" => frameOf'[u] # -1
  <2>1. frameOf' = [frameOf EXCEPT ![v] = FrameId(v)] /\ frameOf \in [Nodes -> Frames \cup {-1}]
    BY <1>6 DEF SetFrame, TypeInv
  <2>2. \A u \in Nodes : Kind(u) = "Enter" => frameOf[u] # -1
    BY DEF TypeInv
  <2> HIDE DEF FrameId
  <2> QED
    BY <1>2, <1>4, <1>5, <2>1, <2>2
<1> QED
  BY <1>2, <1>3, <1>4, <1>6

\* A node that is not skipped has its Switches behind it, set to its branch.
LEMMA NotSkipped ==
  ASSUME TypeInv, DoneInv, NEW v, At(v), ~ShouldSkip(v)
  PROVE  \A a \in g.under[v] : a[1] \in flow.executed /\ flow.branch[a[1]] = a[2]
<1> SUFFICES ASSUME NEW a \in g.under[v]
             PROVE  a[1] \in flow.executed /\ flow.branch[a[1]] = a[2]
  OBVIOUS
<1>1. v \in Nodes /\ DependsOn(g, v, a)
  BY HereFacts, Laid
<1>2. /\ a[1] \in Nodes /\ g.kind[a[1]] = "Switch" /\ IsLower(g, a[1], v)
      /\ g.kind[v] \notin {"Merge", "Exit"}
  BY <1>1 DEF DependsOn, Nodes
<1>3. PICK i \in DOMAIN g.in[v] :
        \/ g.in[v][i] = a
        \/ /\ g.in[v][i][1] \in Nodes /\ IsLower(g, g.in[v][i][1], v)
           /\ a \in g.under[g.in[v][i][1]]
  BY <1>1 DEF DependsOn, Nodes
<1>4. ~Blocked(v, g.in[v][i])
  BY <1>1, <1>2, <1>3 DEF ShouldSkip, Kind, In
<1>5. Flow1(v).inactive = flow.inactive /\ Flow1(v).branch = flow.branch
  BY <1>1, HeadFacts DEF Same
<1>6. \A u \in Nodes : u \notin Ext
  BY Laid DEF Ext, TypeInv
<1>7. CASE g.in[v][i] = a
  <2>1. a[1] \notin flow.inactive /\ flow.branch[a[1]] = a[2]
    BY <1>2, <1>4, <1>5, <1>6, <1>7 DEF Blocked, IsNodeActive, Kind
  <2>2. Done(a[1])
    BY <1>2, LowerDone
  <2>3. Ran(a[1])
    BY <1>2, <2>1, <2>2 DEF DoneInv, Kind
  <2> QED
    BY <2>1, <2>3 DEF Ran
<1>8. CASE /\ g.in[v][i][1] \in Nodes /\ IsLower(g, g.in[v][i][1], v)
           /\ a \in g.under[g.in[v][i][1]]
  <2> DEFINE w == g.in[v][i][1]
  <2>1. w \notin flow.inactive
    BY <1>4, <1>5, <1>6, <1>8 DEF Blocked, IsNodeActive
  <2>2. Done(w) /\ w \in Nodes /\ a \in g.under[w]
    BY <1>8, LowerDone
  <2>3. g.kind[w] \notin {"Merge", "Exit"}
    BY <2>2, Laid DEF DependsOn
  <2> HIDE DEF w
  <2>4. Ran(w)
    BY <2>1, <2>2, <2>3 DEF DoneInv, Kind
  <2> QED
    BY <2>2, <2>4 DEF Ran
<1> QED
  BY <1>3, <1>7, <1>8

---------------------------------------------------------------------------
(* What the steps of the walk leave of the invariant *)

\* A node's visit keeps the invariant for the nodes passed before it, whatever it
\* does to the node itself.
LEMMA VisitKeepsDone ==
  ASSUME TypeInv, DoneInv, NEW v, At(v), g' = g,
         Touches(v, flow, flow'),
         \A w \in Nodes : Done(w)' => Done(w) \/ w = v,
         Kind(v) \notin {"Merge", "Exit"} /\ v \notin flow'.inactive /\ Done(v)' =>
            v \in flow'.executed /\ ~ShouldSkip(v)
  PROVE  DoneInv'
<1>1. Nodes' = Nodes /\ v \in Nodes /\ ~Done(v)
  BY HereFacts DEF Nodes
<1>2. \A u \in Nodes : Kind(u)' = Kind(u) /\ g'.under[u] = g.under[u]
  BY <1>1 DEF Kind
<1>3. ASSUME NEW u \in Nodes, NEW w \in Nodes, IsLower(g, u, w), w = v \/ Done(w)
      PROVE  Done(u) /\ u # v
  BY <1>1, <1>3, LowerDone, LowerThanDone
<1>4. SUFFICES ASSUME NEW w \in Nodes, Done(w)', Kind(w) \notin {"Merge", "Exit"},
                      w \notin flow'.inactive
               PROVE  Ran(w)'
  BY <1>1, <1>2 DEF DoneInv
<1>5. /\ w \in flow'.executed
      /\ w = v \/ Done(w)
      /\ \A a \in g.under[w] : a[1] \in flow.executed /\ flow.branch[a[1]] = a[2]
  <2>1. CASE w = v
    BY <1>4, <2>1, NotSkipped
  <2>2. CASE w # v
    <3>1. Done(w) /\ w \notin flow.inactive
      BY <1>4, <2>2 DEF Touches
    <3>2. Ran(w)
      BY <1>4, <3>1 DEF DoneInv
    <3>3. ~(Kind(v) = "Merge" /\ w = In(v)[2][1] /\ Kind(w) = "NextIteration")
      BY <1>1, <1>3, <3>1, Laid DEF Kind, In
    <3> QED
      BY <2>2, <3>1, <3>2, <3>3 DEF Ran, Touches
  <2> QED
    BY <2>1, <2>2
<1>6. ASSUME NEW a \in g.under[w]
      PROVE  a[1] \in flow'.executed /\ flow'.branch[a[1]] = a[2]
  <2>1. a[1] \in Nodes /\ g.kind[a[1]] = "Switch" /\ IsLower(g, a[1], w)
    BY Laid DEF DependsOn, Nodes
  <2>2. a[1] # v /\ Kind(a[1]) # "NextIteration"
    BY <1>3, <1>5, <2>1 DEF Kind
  <2> QED
    BY <1>5, <2>1, <2>2 DEF Touches
<1> QED
  BY <1>5, <1>6 DEF Ran

LEMMA AdvancePasses ==
  ASSUME TypeInv, NEW v, At(v), g' = g, Advance
  PROVE  \A w \in Nodes : Done(w)' => Done(w) \/ w = v
<1> SUFFICES ASSUME NEW w \in Nodes, Done(w)' PROVE Done(w) \/ w = v
  OBVIOUS
<1>1. l' = l /\ n' = n + 1 /\ n \in Nat /\ l \in Nat
  BY DEF Advance, TypeInv
<1>2. PICK i \in DOMAIN g.layers : \E j \in DOMAIN g.layers[i] :
        g.layers[i][j] = w /\ (i <= l \/ (i = l + 1 /\ j <= n + 1))
  BY <1>1 DEF Done
<1>3. PICK j \in DOMAIN g.layers[i] :
        g.layers[i][j] = w /\ (i <= l \/ (i = l + 1 /\ j <= n + 1))
  BY <1>2
<1>4. v = g.layers[l + 1][n + 1]
  BY HereFacts
<1>5. g.layers[i] \in Seq(Nodes)
  BY Laid
<1>6. j \in Nat
  BY <1>5
<1>7. j <= n + 1 => j <= n \/ j = n + 1
  BY <1>1, <1>6
<1> QED
  BY <1>3, <1>4, <1>7 DEF Done

\* A walk that stays, or goes back to the first node of a layer, passes nothing new.
LEMMA BackPasses ==
  ASSUME TypeInv, g' = g, l' \in Nat, l' <= l, n' = 0
  PROVE  \A w \in Nodes : Done(w)' => Done(w)
<1> SUFFICES ASSUME NEW w \in Nodes, Done(w)' PROVE Done(w)
  OBVIOUS
<1>2. PICK i \in DOMAIN g.layers : \E j \in DOMAIN g.layers[i] :
        g.layers[i][j] = w /\ (i <= l' \/ (i = l' + 1 /\ j <= 0))
  BY DEF Done
<1>3. PICK j \in DOMAIN g.layers[i] :
        g.layers[i][j] = w /\ (i <= l' \/ (i = l' + 1 /\ j <= 0))
  BY <1>2
<1>4. g.layers \in Seq(Seq(Nodes)) /\ g.layers[i] \in Seq(Nodes)
  BY Laid
<1>5. j \in Nat /\ j > 0 /\ i \in Nat /\ l \in Nat
  BY <1>4 DEF TypeInv
<1>6. i <= l
  BY <1>3, <1>5
<1> QED
  BY <1>3, <1>6 DEF Done

LEMMA NextLayerPasses ==
  ASSUME TypeInv, NextLayer
  PROVE  \A w \in Nodes : Done(w)' => Done(w)
<1> SUFFICES ASSUME NEW w \in Nodes, Done(w)' PROVE Done(w)
  OBVIOUS
<1>1. l' = l + 1 /\ n' = 0 /\ g' = g /\ n = Len(g.layers[l + 1])
  BY DEF NextLayer, Layer
<1>2. PICK i \in DOMAIN g.layers : \E j \in DOMAIN g.layers[i] :
        g.layers[i][j] = w /\ (i <= l + 1 \/ (i = l + 1 + 1 /\ j <= 0))
  BY <1>1 DEF Done
<1>3. PICK j \in DOMAIN g.layers[i] :
        g.layers[i][j] = w /\ (i <= l + 1 \/ (i = l + 1 + 1 /\ j <= 0))
  BY <1>2
<1>4. g.layers \in Seq(Seq(Nodes)) /\ g.layers[i] \in Seq(Nodes)
  BY Laid
<1>5. j \in 1 .. Len(g.layers[i]) /\ Len(g.layers[i]) \in Nat /\ i \in Nat
  BY <1>4
<1>6. l \in Nat
  BY DEF TypeInv
<1>7. i <= l \/ (i = l + 1 /\ j <= n)
  BY <1>1, <1>3, <1>5, <1>6
<1> QED
  BY <1>3, <1>7 DEF Done

\* Nothing is passed at the start of a run.
LEMMA StartPasses ==
  ASSUME TypeInv, l = 0, n = 0
  PROVE  DoneInv
<1>1. SUFFICES ASSUME NEW w \in Nodes PROVE ~Done(w)
  BY DEF DoneInv
<1>2. SUFFICES ASSUME NEW i \in DOMAIN g.layers, NEW j \in DOMAIN g.layers[i]
               PROVE  ~(i <= 0 \/ (i = 0 + 1 /\ j <= 0))
  BY DEF Done
<1>3. g.layers \in Seq(Seq(Nodes)) /\ g.layers[i] \in Seq(Nodes)
  BY Laid
<1> QED
  BY <1>3

---------------------------------------------------------------------------
(* One visit *)

\* The rewind positions are those of the FlowPath before, or unset.
Lowers(fl) == \A k \in Frames : fl.frame[k].rewindPosition \in {flow.frame[k].rewindPosition, -1}

LEMMA LiveFacts ==
  ASSUME TypeInv, NEW v \in Nodes
  PROVE  /\ IsFlow(Live(v)) /\ Touches(v, flow, Live(v)) /\ Lowers(Live(v))
         /\ Live(v).inactive = flow.inactive \ {v}
         /\ Live(v).executed = flow.executed /\ Live(v).branch = flow.branch
<1>1. /\ IsFlow(Flow1(v)) /\ Same(flow, Flow1(v))
      /\ \A k \in Frames : Flow1(v).frame[k] \in {flow.frame[k], FreshFrame}
  BY HeadFacts
<1>2. /\ IsFlow(Live(v))
      /\ Live(v).inactive = Flow1(v).inactive \ {v}
      /\ Live(v).executed = Flow1(v).executed
      /\ Live(v).branch = Flow1(v).branch
      /\ Live(v).frame = Flow1(v).frame
  BY <1>1, ActiveFlow DEF Live
<1>3. Lowers(Live(v))
  BY <1>1, <1>2 DEF Lowers, FreshFrame
<1> QED
  BY <1>1, <1>2, <1>3 DEF Same, Touches

LEMMA LiveExecuted ==
  ASSUME TypeInv, NEW v \in Nodes
  PROVE  LET fl == MarkExecuted(Live(v), v)
         IN  IsFlow(fl) /\ Touches(v, flow, fl) /\ Lowers(fl) /\ v \in fl.executed
<1> DEFINE fl == MarkExecuted(Live(v), v)
<1>1. /\ IsFlow(Live(v)) /\ Touches(v, flow, Live(v)) /\ Lowers(Live(v))
  BY LiveFacts
<1>2. /\ IsFlow(fl) /\ fl.inactive = Live(v).inactive /\ fl.executed = Live(v).executed \cup {v}
      /\ fl.branch = Live(v).branch /\ fl.frame = Live(v).frame
  BY <1>1, ExecutedFlow
<1> HIDE DEF fl
<1>3. Touches(v, flow, fl)
  BY <1>1, <1>2 DEF Touches
<1>4. Lowers(fl) /\ v \in fl.executed
  BY <1>1, <1>2 DEF Lowers
<1> QED
  BY <1>2, <1>3, <1>4 DEF fl

LEMMA GoTypes ==
  ASSUME TypeInv, NEW v \in Nodes, NEW fl, NEW fs, Go(v, fl, fs),
         IsFlow(fl), fs \in Seq(Frames), rewindTo' \in [Nodes -> Nat]
  PROVE  TypeInv'
<1>1. g' = g /\ feed' = feed /\ flow' = fl /\ frames' = fs /\ SetFrame(v) /\ l' = l /\ n' = n + 1
  BY DEF Go, Advance
<1>2. Nodes' = Nodes /\ Frames' = Frames /\ (\A u \in Nodes : Kind(u)' = Kind(u))
  BY <1>1 DEF Nodes, Frames, Kind
<1>3. IsFlow(flow)'
  BY <1>1, <1>2 DEF IsFlow, FrameStates
<1>4. /\ frameOf' \in [Nodes -> Frames \cup {-1}]
      /\ \A u \in Nodes : Kind(u) = "Enter" => frameOf'[u] # -1
  BY <1>1, FrameIdFacts
<1>5. l' \in Nat /\ n' \in Nat
  BY <1>1 DEF TypeInv
<1>6. g' \in Graphs /\ feed' \in g'.feeds
  BY <1>1 DEF TypeInv
<1> QED
  BY <1>1, <1>2, <1>3, <1>4, <1>5, <1>6 DEF TypeInv

\* A visit that goes on.
LEMMA Going ==
  ASSUME TypeInv, DoneInv, NEW v, At(v), NEW fl, NEW fs, Go(v, fl, fs),
         IsFlow(fl), fs \in Seq(Frames), rewindTo' \in [Nodes -> Nat],
         Touches(v, flow, fl),
         \/ Kind(v) \in {"Merge", "Exit"}
         \/ v \in fl.inactive
         \/ v \in fl.executed /\ ~ShouldSkip(v)
  PROVE  TypeInv' /\ DoneInv'
<1>1. v \in Nodes
  BY HereFacts
<1>2. TypeInv'
  BY <1>1, GoTypes
<1>3. g' = g /\ flow' = fl /\ Advance
  BY DEF Go
<1>4. \A w \in Nodes : Done(w)' => Done(w) \/ w = v
  BY <1>3, AdvancePasses
<1> QED
  BY <1>2, <1>3, <1>4, VisitKeepsDone

\* A visit that leaves v executed, apart from the arrays.
LEMMA GoingExecuted ==
  ASSUME TypeInv, DoneInv, NEW v, At(v), ~ShouldSkip(v), NEW fs,
         Go(v, MarkExecuted(Live(v), v), fs), fs \in Seq(Frames), rewindTo' = rewindTo
  PROVE  TypeInv' /\ DoneInv' /\ Lowers(flow')
<1>1. v \in Nodes
  BY HereFacts
<1> DEFINE fl == MarkExecuted(Live(v), v)
<1>2. IsFlow(fl) /\ Touches(v, flow, fl) /\ Lowers(fl) /\ v \in fl.executed
  BY <1>1, LiveExecuted
<1>3. rewindTo' \in [Nodes -> Nat]
  BY DEF TypeInv
<1>4. flow' = fl
  BY DEF Go
<1>5. Go(v, fl, fs)
  OBVIOUS
<1> HIDE DEF fl
<1> QED
  BY <1>2, <1>3, <1>4, <1>5, Going

LEMMA SkipStep ==
  ASSUME TypeInv, DoneInv, NEW v, Skip(v)
  PROVE  TypeInv' /\ DoneInv' /\ Lowers(flow')
<1>1. /\ At(v) /\ v \in Nodes /\ g' = g /\ feed' = feed /\ frames' = Frames1(v)
      /\ Advance /\ frameOf' = frameOf /\ rewindTo' = rewindTo
  BY HereFacts DEF Skip, At
<1>2. /\ IsFlow(Flow1(v)) /\ Same(flow, Flow1(v)) /\ Frames1(v) \in Seq(Frames)
      /\ \A k \in Frames : Flow1(v).frame[k] \in {flow.frame[k], FreshFrame}
  BY <1>1, HeadFacts
<1>3. /\ IsFlow(flow') /\ Touches(v, flow, flow') /\ flow'.frame = Flow1(v).frame
      /\ Kind(v) = "Merge" \/ v \in flow'.inactive
  <2>1. CASE Kind(v) = "Merge"
    <3>1. flow' = Flow1(v)
      BY <2>1 DEF Skip
    <3> QED
      BY <1>2, <2>1, <3>1 DEF Same, Touches
  <2>2. CASE Kind(v) # "Merge"
    <3>1. flow' = MarkInactive(Flow1(v), v)
      BY <2>2 DEF Skip
    <3>2. /\ IsFlow(flow') /\ flow'.inactive = Flow1(v).inactive \cup {v}
          /\ flow'.executed = Flow1(v).executed /\ flow'.branch = Flow1(v).branch
          /\ flow'.frame = Flow1(v).frame
      BY <1>1, <1>2, <3>1, ActiveFlow
    <3> QED
      BY <1>2, <3>2 DEF Same, Touches
  <2> QED
    BY <2>1, <2>2
<1>4. Lowers(flow')
  BY <1>2, <1>3 DEF Lowers, FreshFrame
<1>5. TypeInv'
  <2>1. Nodes' = Nodes /\ Frames' = Frames /\ (\A u \in Nodes : Kind(u)' = Kind(u))
    BY <1>1 DEF Nodes, Frames, Kind
  <2>2. IsFlow(flow)'
    BY <1>3, <2>1 DEF IsFlow, FrameStates
  <2>3. l' \in Nat /\ n' \in Nat
    BY <1>1 DEF TypeInv, Advance
  <2> QED
    BY <1>1, <1>2, <2>1, <2>2, <2>3 DEF TypeInv
<1>6. \A w \in Nodes : Done(w)' => Done(w) \/ w = v
  BY <1>1, AdvancePasses
<1> QED
  BY <1>1, <1>3, <1>4, <1>5, <1>6, VisitKeepsDone

\* The visits that only move arrays.
LEMMA PlainStep ==
  ASSUME TypeInv, DoneInv, NEW v, Merge(v) \/ LoopCond(v) \/ ExecuteOp(v)
  PROVE  TypeInv' /\ DoneInv' /\ Lowers(flow') /\ rewindTo' = rewindTo
<1>1. /\ At(v) /\ ~ShouldSkip(v) /\ Go(v, MarkExecuted(Live(v), v), Frames1(v))
      /\ rewindTo' = rewindTo
  BY DEF Merge, LoopCond, ExecuteOp
<1>2. Frames1(v) \in Seq(Frames)
  BY <1>1, HereFacts, HeadFacts
<1> QED
  BY <1>1, <1>2, GoingExecuted

LEMMA EnterStep ==
  ASSUME TypeInv, DoneInv, NEW v, Enter(v)
  PROVE  TypeInv' /\ DoneInv' /\ Lowers(flow') /\ rewindTo' = rewindTo
<1> DEFINE fs == IF Frames1(v) = <<>> \/ Last(Frames1(v)) # FrameId(v)
                 THEN Append(Frames1(v), FrameId(v)) ELSE Frames1(v)
<1>1. /\ At(v) /\ ~ShouldSkip(v) /\ Kind(v) = "Enter"
      /\ Go(v, MarkExecuted(Live(v), v), fs) /\ rewindTo' = rewindTo
  BY DEF Enter
<1>2. Frames1(v) \in Seq(Frames) /\ FrameId(v) \in Frames
  BY <1>1, HereFacts, HeadFacts, FrameIdFacts
<1>3. fs \in Seq(Frames)
  BY <1>2
<1> HIDE DEF fs
<1> QED
  BY <1>1, <1>3, GoingExecuted

LEMMA MergeLoopStep ==
  ASSUME TypeInv, DoneInv, NEW v, MergeLoop(v)
  PROVE  /\ TypeInv' /\ DoneInv' /\ Lowers(flow')
         /\ rewindTo' = [rewindTo EXCEPT ![In(v)[2][1]] = l]
<1> DEFINE back == In(v)[2][1]
           fa == IF FrameId(v) >= 0 THEN ActivateFrame(Live(v), FrameId(v)) ELSE Live(v)
           fb == IF back \in Flow1(v).executed THEN MarkNotExecuted(fa, back) ELSE fa
           fc == MarkExecuted(fb, v)
<1>1. /\ At(v) /\ Kind(v) = "Merge" /\ Kind(back) = "NextIteration"
      /\ Go(v, fc, Frames1(v)) /\ rewindTo' = [rewindTo EXCEPT ![back] = l]
  BY DEF MergeLoop
<1>2. v \in Nodes /\ back \in Nodes
  BY <1>1, HereFacts DEF Kind
<1>3. IsFlow(Live(v)) /\ Touches(v, flow, Live(v)) /\ Lowers(Live(v))
  BY <1>2, LiveFacts
<1>4. /\ IsFlow(fa) /\ Same(Live(v), fa)
      /\ \A k \in Frames : fa.frame[k].rewindPosition = Live(v).frame[k].rewindPosition
  <2>1. CASE FrameId(v) >= 0
    <3>1. FrameId(v) \in Frames
      BY <1>2, <2>1, FrameIdFacts
    <3> HIDE DEF Live, FrameId
    <3> QED
      BY <1>3, <2>1, <3>1, ActivateFlow
  <2>2. CASE ~(FrameId(v) >= 0)
    BY <1>3, <2>2 DEF Same
  <2> QED
    BY <2>1, <2>2
<1>5. Touches(v, flow, fa) /\ Lowers(fa)
  <2> HIDE DEF fa
  <2>1. Touches(v, flow, fa)
    BY <1>3, <1>4 DEF Touches, Same
  <2>2. Lowers(fa)
    BY <1>3, <1>4 DEF Lowers
  <2> QED
    BY <2>1, <2>2
<1> HIDE DEF fa
<1>6. IsFlow(fb) /\ Touches(v, flow, fb) /\ Lowers(fb)
  <2>1. CASE back \in Flow1(v).executed
    <3> DEFINE fn == MarkNotExecuted(fa, back)
    <3>1. /\ IsFlow(fn) /\ fn.inactive = fa.inactive /\ fn.executed = fa.executed \ {back}
          /\ fn.branch = fa.branch /\ fn.frame = fa.frame
      <4> HIDE DEF back
      <4> QED
        BY <1>2, <1>4, ExecutedFlow
    <3>2. fb = fn
      BY <2>1
    <3> HIDE DEF fn, fb
    <3>3. Touches(v, flow, fn)
      BY <1>1, <1>5, <3>1 DEF Touches
    <3>4. Lowers(fn)
      BY <1>5, <3>1 DEF Lowers
    <3> QED
      BY <3>1, <3>2, <3>3, <3>4
  <2>2. CASE back \notin Flow1(v).executed
    BY <1>4, <1>5, <2>2
  <2> QED
    BY <2>1, <2>2
<1> HIDE DEF fb
<1>7. /\ IsFlow(fc) /\ fc.inactive = fb.inactive /\ fc.executed = fb.executed \cup {v}
      /\ fc.branch = fb.branch /\ fc.frame = fb.frame
  BY <1>2, <1>6, ExecutedFlow
<1> HIDE DEF fc
<1>8. Touches(v, flow, fc)
  BY <1>6, <1>7 DEF Touches
<1>9. Lowers(fc)
  BY <1>6, <1>7 DEF Lowers
<1>10. flow' = fc
  BY <1>1 DEF Go
<1>11. rewindTo' \in [Nodes -> Nat] /\ Frames1(v) \in Seq(Frames)
  <2>1. rewindTo \in [Nodes -> Nat] /\ l \in Nat
    BY DEF TypeInv
  <2>2. Frames1(v) \in Seq(Frames)
    BY <1>2, HeadFacts
  <2> QED
    BY <1>1, <2>1, <2>2
<1>12. TypeInv' /\ DoneInv'
  BY <1>1, <1>7, <1>8, <1>11, Going
<1> QED
  BY <1>1, <1>9, <1>10, <1>12

LEMMA SwitchStep ==
  ASSUME TypeInv, DoneInv, NEW v, Switch(v)
  PROVE  TypeInv' /\ DoneInv' /\ Lowers(flow') /\ rewindTo' = rewindTo
<1> DEFINE b == IF content[slot[In(v)[2]]] = 0 THEN 0 ELSE 1
           fb == MarkBranch(Live(v), v, b)
           fc == MarkExecuted(fb, v)
<1>1. /\ At(v) /\ ~ShouldSkip(v) /\ Go(v, fc, Frames1(v)) /\ rewindTo' = rewindTo
  BY DEF Switch
<1>2. v \in Nodes /\ b \in {0, 1}
  BY <1>1, HereFacts
<1>3. IsFlow(Live(v)) /\ Touches(v, flow, Live(v)) /\ Lowers(Live(v))
  BY <1>2, LiveFacts
<1> HIDE DEF b
<1>4. /\ IsFlow(fb) /\ fb.inactive = Live(v).inactive /\ fb.executed = Live(v).executed
      /\ fb.frame = Live(v).frame
      /\ \A u \in Nodes \ {v} : fb.branch[u] = Live(v).branch[u]
  BY <1>2, <1>3, BranchFlow
<1> HIDE DEF fb
<1>5. /\ IsFlow(fc) /\ fc.inactive = fb.inactive /\ fc.executed = fb.executed \cup {v}
      /\ fc.branch = fb.branch /\ fc.frame = fb.frame
  BY <1>2, <1>4, ExecutedFlow
<1> HIDE DEF fc
<1>6. Touches(v, flow, fc)
  BY <1>3, <1>4, <1>5 DEF Touches
<1>7. Lowers(fc) /\ v \in fc.executed
  BY <1>3, <1>4, <1>5 DEF Lowers
<1>8. flow' = fc
  BY <1>1 DEF Go
<1>9. rewindTo' \in [Nodes -> Nat] /\ Frames1(v) \in Seq(Frames)
  BY <1>1, <1>2, HeadFacts DEF TypeInv
<1>10. TypeInv' /\ DoneInv'
  BY <1>1, <1>5, <1>6, <1>7, <1>9, Going
<1> QED
  BY <1>1, <1>7, <1>8, <1>10

LEMMA NextIterationStep ==
  ASSUME TypeInv, DoneInv, NEW v, NextIteration(v)
  PROVE  /\ TypeInv' /\ DoneInv' /\ rewindTo' = rewindTo
         /\ \A k \in Frames : flow'.frame[k].rewindPosition
                                \in {flow.frame[k].rewindPosition, -1, rewindTo[v] - 1}
<1> DEFINE f  == Last(Frames1(v))
           fe == MarkExecuted(Live(v), v)
           fc == IF fe.frame[f].rewindPlanned THEN fe ELSE PlanRewind(fe, f, rewindTo[v] - 1)
<1>1. /\ At(v) /\ ~ShouldSkip(v) /\ Frames1(v) # <<>> /\ Go(v, fc, Frames1(v))
      /\ rewindTo' = rewindTo
  BY DEF NextIteration
<1>2. v \in Nodes /\ Frames1(v) \in Seq(Frames)
  BY <1>1, HereFacts, HeadFacts
<1>3. f \in Frames
  BY <1>1, <1>2, LastFrame
<1>4. rewindTo[v] - 1 \in Nat \cup {-1}
  <2>1. rewindTo[v] \in Nat
    BY <1>2 DEF TypeInv
  <2> QED
    BY <2>1
<1>5. IsFlow(fe) /\ Touches(v, flow, fe) /\ Lowers(fe) /\ v \in fe.executed
  BY <1>2, LiveExecuted
<1> HIDE DEF f, fe
<1>6. /\ IsFlow(fc) /\ Same(fe, fc)
      /\ \A k \in Frames : fc.frame[k].rewindPosition
                             \in {fe.frame[k].rewindPosition, rewindTo[v] - 1}
  <2>1. CASE fe.frame[f].rewindPlanned
    BY <1>5, <2>1 DEF Same
  <2>2. CASE ~fe.frame[f].rewindPlanned
    BY <1>3, <1>4, <1>5, <2>2, PlanFlow
  <2> QED
    BY <2>1, <2>2
<1> HIDE DEF fc
<1>7. Touches(v, flow, fc) /\ v \in fc.executed
  BY <1>5, <1>6 DEF Touches, Same
<1>8. flow' = fc
  BY <1>1 DEF Go
<1>9. rewindTo' \in [Nodes -> Nat]
  BY <1>1 DEF TypeInv
<1>10. TypeInv' /\ DoneInv'
  BY <1>1, <1>2, <1>6, <1>7, <1>9, Going
<1> QED
  BY <1>1, <1>5, <1>6, <1>8, <1>10 DEF Lowers

LEMMA ExitStep ==
  ASSUME TypeInv, DoneInv, NEW v, ExitInactive(v) \/ ExitLoop(v)
  PROVE  TypeInv' /\ DoneInv' /\ Lowers(flow') /\ rewindTo' = rewindTo
<1> DEFINE fc == IF ExitLoop(v) THEN MarkExecuted(Live(v), v) ELSE MarkInactive(Live(v), v)
<1>1. At(v) /\ Kind(v) = "Exit" /\ rewindTo' = rewindTo
  BY DEF ExitInactive, ExitLoop
<1>2. Go(v, fc, frames)
  BY DEF ExitInactive, ExitLoop
<1>3. v \in Nodes
  BY <1>1, HereFacts
<1>4. IsFlow(Live(v)) /\ Touches(v, flow, Live(v)) /\ Lowers(Live(v))
  BY <1>3, LiveFacts
<1>5. IsFlow(fc) /\ Touches(v, flow, fc) /\ Lowers(fc)
  <2>1. CASE ExitLoop(v)
    BY <1>3, <2>1, LiveExecuted
  <2>2. CASE ~ExitLoop(v)
    <3> DEFINE fi == MarkInactive(Live(v), v)
    <3>1. /\ IsFlow(fi) /\ fi.inactive = Live(v).inactive \cup {v}
          /\ fi.executed = Live(v).executed /\ fi.branch = Live(v).branch
          /\ fi.frame = Live(v).frame
      BY <1>3, <1>4, ActiveFlow
    <3>2. fc = fi
      BY <2>2
    <3> HIDE DEF fi, fc
    <3>3. Touches(v, flow, fi)
      BY <1>4, <3>1 DEF Touches
    <3>4. Lowers(fi)
      BY <1>4, <3>1 DEF Lowers
    <3> QED
      BY <3>1, <3>2, <3>3, <3>4
  <2> QED
    BY <2>1, <2>2
<1> HIDE DEF fc
<1>6. flow' = fc
  BY <1>2 DEF Go
<1>7. rewindTo' \in [Nodes -> Nat] /\ frames \in Seq(Frames)
  BY <1>1 DEF TypeInv
<1>8. TypeInv' /\ DoneInv'
  BY <1>1, <1>2, <1>5, <1>7, Going
<1> QED
  BY <1>1, <1>5, <1>6, <1>8

\* A rewind that does not jump ahead.
LEMMA ExitRewindStep ==
  ASSUME TypeInv, NEW v, ExitRewind(v)
  PROVE  /\ TypeInv' /\ Lowers(flow') /\ rewindTo' = rewindTo
         /\ DoneInv /\ l' <= l => DoneInv'
<1> DEFINE f  == Last(frames)
           fc == CancelRewind(Live(v), f)
<1>1. /\ At(v) /\ Kind(v) = "Exit" /\ frames # <<>> /\ flow' = fc
      /\ g' = g /\ feed' = feed /\ frames' = frames /\ SetFrame(v) /\ rewindTo' = rewindTo
  BY DEF ExitRewind
<1>2. l' = flow.frame[f].rewindPosition + 1 /\ n' = 0
  BY DEF ExitRewind
<1>3. v \in Nodes
  BY <1>1, HereFacts
<1>4. f \in Frames
  BY <1>1, LastFrame DEF TypeInv
<1>5. IsFlow(Live(v)) /\ Touches(v, flow, Live(v)) /\ Lowers(Live(v))
  BY <1>3, LiveFacts
<1> HIDE DEF f
<1>6. /\ IsFlow(fc) /\ Same(Live(v), fc)
      /\ \A k \in Frames : fc.frame[k].rewindPosition \in {Live(v).frame[k].rewindPosition, -1}
  BY <1>4, <1>5, CancelFlow
<1> HIDE DEF fc
<1>7. Touches(v, flow, fc)
  BY <1>5, <1>6 DEF Touches, Same
<1>8. Lowers(fc)
  BY <1>5, <1>6 DEF Lowers
<1>9. l' \in Nat
  <2>1. flow.frame[f] \in FrameStates
    BY <1>4, FlowFields DEF TypeInv
  <2>2. flow.frame[f].rewindPosition \in Nat \cup {-1}
    BY <2>1, FrameFields
  <2> QED
    BY <1>2, <2>2
<1>10. TypeInv'
  <2>1. Nodes' = Nodes /\ Frames' = Frames /\ (\A u \in Nodes : Kind(u)' = Kind(u))
    BY <1>1 DEF Nodes, Frames, Kind
  <2>2. IsFlow(flow)'
    BY <1>1, <1>6, <2>1 DEF IsFlow, FrameStates
  <2>3. /\ frameOf' \in [Nodes -> Frames \cup {-1}]
        /\ \A u \in Nodes : Kind(u) = "Enter" => frameOf'[u] # -1
    BY <1>1, <1>3, FrameIdFacts
  <2>4. n' \in Nat
    BY <1>2
  <2> QED
    BY <1>1, <1>9, <2>1, <2>2, <2>3, <2>4 DEF TypeInv
<1>11. ASSUME DoneInv, l' <= l PROVE DoneInv'
  <2>1. \A w \in Nodes : Done(w)' => Done(w)
    BY <1>1, <1>2, <1>9, <1>11, BackPasses
  <2> QED
    BY <1>1, <1>7, <1>11, <2>1, VisitKeepsDone
<1> QED
  BY <1>1, <1>8, <1>10, <1>11

LEMMA FailStep ==
  ASSUME TypeInv, DoneInv, NEW v, Fail(v)
  PROVE  TypeInv' /\ DoneInv' /\ Lowers(flow') /\ rewindTo' = rewindTo
<1>1. PICK how : At(v) /\ Stop(v, how)
  BY DEF Fail
<1>2. /\ flow' = Live(v) /\ frames' = Frames1(v) /\ SetFrame(v)
      /\ g' = g /\ feed' = feed /\ l' = l /\ n' = n /\ rewindTo' = rewindTo
  BY <1>1 DEF Stop
<1>3. v \in Nodes /\ ~Done(v)
  BY <1>1, HereFacts
<1>4. IsFlow(Live(v)) /\ Touches(v, flow, Live(v)) /\ Lowers(Live(v))
  BY <1>3, LiveFacts
<1>5. TypeInv'
  <2>1. Nodes' = Nodes /\ Frames' = Frames /\ (\A u \in Nodes : Kind(u)' = Kind(u))
    BY <1>2 DEF Nodes, Frames, Kind
  <2>2. IsFlow(flow)'
    BY <1>2, <1>4, <2>1 DEF IsFlow, FrameStates
  <2>3. /\ frameOf' \in [Nodes -> Frames \cup {-1}]
        /\ \A u \in Nodes : Kind(u) = "Enter" => frameOf'[u] # -1
    BY <1>2, <1>3, FrameIdFacts
  <2>4. Frames1(v) \in Seq(Frames)
    BY <1>3, HeadFacts
  <2> QED
    BY <1>2, <2>1, <2>2, <2>3, <2>4 DEF TypeInv
<1>6. \A w \in Nodes : Done(w)' = Done(w)
  BY <1>2 DEF Done
<1>7. DoneInv'
  BY <1>1, <1>2, <1>3, <1>4, <1>6, VisitKeepsDone
<1> QED
  BY <1>2, <1>4, <1>5, <1>7

---------------------------------------------------------------------------
(* The walk *)

LEMMA FreshFlowTyped == IsFlow(FreshFlow)
<1>1. FreshFrame \in FrameStates
  BY FreshState
<1> QED
  BY <1>1 DEF IsFlow, FreshFlow

LEMMA InitInv == Init => TypeInv /\ DoneInv
<1> SUFFICES ASSUME Init PROVE TypeInv /\ DoneInv
  OBVIOUS
<1>1. WellLaid(g)
  BY GraphsAssumption DEF Init
<1>2. /\ g.frame \in [Nodes -> Nat \cup {-1}]
      /\ \A v \in Nodes : g.kind[v] = "Enter" => g.frame[v] # -1
  BY <1>1 DEF WellLaid, Nodes
<1>3. /\ g \in Graphs /\ feed \in g.feeds /\ l = 0 /\ n = 0 /\ frames = <<>>
      /\ flow = FreshFlow /\ frameOf = g.frame /\ rewindTo = [v \in Nodes |-> 0]
  BY DEF Init
<1>4. frameOf \in [Nodes -> Frames \cup {-1}]
  BY <1>2, <1>3 DEF Frames
<1>5. \A v \in Nodes : Kind(v) = "Enter" => frameOf[v] # -1
  BY <1>2, <1>3 DEF Kind
<1>6. frames \in Seq(Frames) /\ rewindTo \in [Nodes -> Nat] /\ l \in Nat /\ n \in Nat
  BY <1>3
<1>7. IsFlow(flow)
  BY <1>3, FreshFlowTyped
<1>8. TypeInv
  BY <1>3, <1>4, <1>5, <1>6, <1>7 DEF TypeInv
<1> QED
  BY <1>3, <1>8, StartPasses

LEMMA ExecuteStep ==
  ASSUME TypeInv, NEW f \in g.feeds, Execute(f)
  PROVE  TypeInv' /\ DoneInv' /\ rewindTo' = rewindTo /\ flow' \in {flow, FreshFlow}
<1>1. /\ g' = g /\ feed' = f /\ l' = 0 /\ n' = 0 /\ frames' = <<>>
      /\ flow' \in {flow, FreshFlow} /\ frameOf' = frameOf /\ rewindTo' = rewindTo
  BY DEF Execute
<1>2. Nodes' = Nodes /\ Frames' = Frames /\ (\A u \in Nodes : Kind(u)' = Kind(u))
  BY <1>1 DEF Nodes, Frames, Kind
<1>3. IsFlow(flow')
  BY <1>1, FreshFlowTyped DEF TypeInv
<1>4. IsFlow(flow)'
  BY <1>2, <1>3 DEF IsFlow, FrameStates
<1>5. frames' \in Seq(Frames) /\ l' \in Nat /\ n' \in Nat
  BY <1>1
<1>6. TypeInv'
  BY <1>1, <1>2, <1>4, <1>5 DEF TypeInv
<1>7. DoneInv'
  <2> USE <1>1
  <2>1. SUFFICES ASSUME NEW w \in Nodes PROVE ~Done(w)'
    BY <1>2 DEF DoneInv
  <2>2. SUFFICES ASSUME NEW i \in DOMAIN g.layers, NEW j \in DOMAIN g.layers[i]
                 PROVE  ~(i <= 0 \/ (i = 0 + 1 /\ j <= 0))
    BY DEF Done
  <2>3. g.layers \in Seq(Seq(Nodes)) /\ g.layers[i] \in Seq(Nodes)
    BY Laid
  <2> QED
    BY ONLY <2>3
<1> QED
  BY <1>1, <1>6, <1>7

LEMMA NextLayerStep ==
  ASSUME TypeInv, DoneInv, NextLayer
  PROVE  TypeInv' /\ DoneInv'
<1>1. /\ g' = g /\ feed' = feed /\ l' = l + 1 /\ n' = 0 /\ frames' = frames
      /\ flow' = flow /\ frameOf' = frameOf /\ rewindTo' = rewindTo
  BY DEF NextLayer, framing
<1>2. Nodes' = Nodes /\ Frames' = Frames /\ (\A u \in Nodes : Kind(u)' = Kind(u))
  BY <1>1 DEF Nodes, Frames, Kind
<1>3. IsFlow(flow)'
  BY <1>1, <1>2 DEF TypeInv, IsFlow, FrameStates
<1>4. l' \in Nat /\ n' \in Nat
  BY <1>1 DEF TypeInv
<1>5. TypeInv'
  BY <1>1, <1>2, <1>3, <1>4 DEF TypeInv
<1>6. \A w \in Nodes : Done(w)' => Done(w)
  BY NextLayerPasses
<1>7. DoneInv'
  BY <1>1, <1>2, <1>6 DEF DoneInv, Ran
<1> QED
  BY <1>5, <1>7

\* Steps that move neither the walk nor the flags.
LEMMA StandStill ==
  ASSUME TypeInv, DoneInv, UNCHANGED <<g, feed, position, framing, flow>>
  PROVE  TypeInv' /\ DoneInv'
<1>1. /\ g' = g /\ feed' = feed /\ l' = l /\ n' = n /\ frames' = frames
      /\ flow' = flow /\ frameOf' = frameOf /\ rewindTo' = rewindTo
  BY DEF position, framing
<1>2. Nodes' = Nodes /\ Frames' = Frames /\ (\A u \in Nodes : Kind(u)' = Kind(u))
  BY <1>1 DEF Nodes, Frames, Kind
<1>3. IsFlow(flow)'
  BY <1>1, <1>2 DEF TypeInv, IsFlow, FrameStates
<1>4. TypeInv'
  BY <1>1, <1>2, <1>3 DEF TypeInv
<1>5. \A w \in Nodes : Done(w)' = Done(w)
  BY <1>1 DEF Done
<1>6. DoneInv'
  BY <1>1, <1>2, <1>5 DEF DoneInv, Ran
<1> QED
  BY <1>4, <1>6

LEMMA StillSteps ==
  ASSUME Finish \/ EarlyTermination \/ Rest \/ UNCHANGED vars
  PROVE  UNCHANGED <<g, feed, position, framing, flow>>
BY DEF Finish, EarlyTermination, Rest, vars

LEMMA StepInv ==
  ASSUME TypeInv, DoneInv, Next \/ UNCHANGED vars, PassesNone \/ UNCHANGED vars
  PROVE  TypeInv' /\ DoneInv'
<1>1. ASSUME NEW v \in Nodes, Visit(v) PROVE TypeInv' /\ DoneInv'
  <2>1. CASE Skip(v)
    BY <2>1, SkipStep
  <2>2. CASE Enter(v)
    BY <2>2, EnterStep
  <2>3. CASE MergeLoop(v)
    BY <2>3, MergeLoopStep
  <2>4. CASE Merge(v) \/ LoopCond(v) \/ ExecuteOp(v)
    BY <2>4, PlainStep
  <2>5. CASE Switch(v)
    BY <2>5, SwitchStep
  <2>6. CASE NextIteration(v)
    BY <2>6, NextIterationStep
  <2>7. CASE ExitInactive(v) \/ ExitLoop(v)
    BY <2>7, ExitStep
  <2>8. CASE ExitRewind(v)
    <3>1. TypeInv' /\ (l' <= l => DoneInv')
      BY <2>8, ExitRewindStep
    <3>2. At(v)
      BY <2>8 DEF ExitRewind
    <3>3. status = "running" /\ n < Len(Layer)
      BY <3>2 DEF At
    <3>4. CASE PassesNone
      <4>1. n \in Nat /\ l \in Nat
        BY DEF TypeInv
      <4>2. l' \in Nat
        BY <3>1 DEF TypeInv
      <4>3. n # Len(Layer)
        BY <3>3, <4>1
      <4>4. ~(l' > l)
        BY <3>3, <3>4, <4>3 DEF PassesNone
      <4>5. l' <= l
        BY <4>1, <4>2, <4>4
      <4> QED
        BY <3>1, <4>5
    <3>5. CASE UNCHANGED vars
      <4>1. UNCHANGED <<g, feed, position, framing, flow>>
        BY <3>5 DEF vars
      <4> QED
        BY <4>1, StandStill
    <3> QED
      BY <3>4, <3>5
  <2>9. CASE Fail(v)
    BY <2>9, FailStep
  <2> QED
    BY <1>1, <2>1, <2>2, <2>3, <2>4, <2>5, <2>6, <2>7, <2>8, <2>9 DEF Visit
<1>2. CASE NextLayer
  BY <1>2, NextLayerStep
<1>3. CASE Finish \/ EarlyTermination \/ Rest \/ UNCHANGED vars
  BY <1>3, StandStill, StillSteps
<1>4. ASSUME NEW f \in g.feeds, Execute(f) PROVE TypeInv' /\ DoneInv'
  BY <1>4, ExecuteStep
<1> QED
  BY <1>1, <1>2, <1>3, <1>4 DEF Next, Walk

\* The two facts that make a branch not taken stay out.
LEMMA InvDisables == TypeInv /\ DoneInv => BranchDisabled
BY NotSkipped DEF BranchDisabled

\* A branch that a Switch has not taken is not executed, in any graph, whatever its ops
\* return and however many runs share the FlowPath, as long as a rewind does not
\* jump over nodes (PassesNone, the jump of Exit in GraphExecutioner::execute).
THEOREM ExecutorBranches == Spec /\ [][PassesNone]_vars => []BranchDisabled
<1>1. Init => TypeInv /\ DoneInv
  BY InitInv
<1>2. TypeInv /\ DoneInv /\ [Next]_vars /\ [PassesNone]_vars => (TypeInv /\ DoneInv)'
  BY StepInv
<1>3. TypeInv /\ DoneInv => BranchDisabled
  BY InvDisables
<1> QED
  BY <1>1, <1>2, <1>3, PTL DEF Spec

---------------------------------------------------------------------------
(* Rewinds *)

\* The loops of a graph lie beside each other or inside each other, none after
\* another: every loop's Merge is at most as high as any Exit.
LoopsBeside(h) ==
  \A m, x \in DOMAIN h.kind :
     /\ h.kind[m] = "Merge" /\ h.kind[x] = "Exit"
     /\ h.in[m][2][1] \in DOMAIN h.kind /\ h.kind[h.in[m][2][1]] = "NextIteration"
     => \A i \in LayersWith(h, m), k \in LayersWith(h, x) : i <= k

\* The layer a rewind goes to is not above any Exit.
RewindsBack ==
  \A x \in Nodes : Kind(x) = "Exit" =>
     \A k \in LayersWith(g, x) :
        /\ \A f \in Frames : flow.frame[f].rewindPosition + 1 < k
        /\ \A v \in Nodes : rewindTo[v] < k

\* No entry of the FlowPath, and none of rewindTo, that is not bounded already.
LEMMA BackKept ==
  ASSUME TypeInv, RewindsBack, g' = g,
         \A f \in Frames : \/ flow'.frame[f].rewindPosition \in {flow.frame[f].rewindPosition, -1}
                           \/ \E v \in Nodes : flow'.frame[f].rewindPosition = rewindTo[v] - 1,
         \A v \in Nodes : \/ rewindTo'[v] = rewindTo[v]
                          \/ \A x \in Nodes : Kind(x) = "Exit" =>
                               \A k \in LayersWith(g, x) : rewindTo'[v] < k
  PROVE  RewindsBack'
<1>1. Nodes' = Nodes /\ Frames' = Frames /\ (\A u \in Nodes : Kind(u)' = Kind(u))
  BY DEF Nodes, Frames, Kind
<1>2. SUFFICES ASSUME NEW x \in Nodes, Kind(x) = "Exit", NEW k \in LayersWith(g, x)
               PROVE  /\ \A f \in Frames : flow'.frame[f].rewindPosition + 1 < k
                      /\ \A v \in Nodes : rewindTo'[v] < k
  BY <1>1 DEF RewindsBack
<1>3. k \in Nat /\ 0 < k
  <2>1. g.layers \in Seq(Seq(Nodes)) /\ k \in DOMAIN g.layers
    BY Laid DEF LayersWith
  <2> QED
    BY <2>1
<1>4. ASSUME NEW f \in Frames PROVE flow'.frame[f].rewindPosition + 1 < k
  <2>1. CASE flow'.frame[f].rewindPosition = flow.frame[f].rewindPosition
    BY <1>2, <2>1 DEF RewindsBack
  <2>2. CASE flow'.frame[f].rewindPosition = -1
    BY <1>3, <2>2
  <2>3. ASSUME NEW v \in Nodes, flow'.frame[f].rewindPosition = rewindTo[v] - 1
        PROVE  flow'.frame[f].rewindPosition + 1 < k
    <3>1. rewindTo[v] \in Nat
      BY DEF TypeInv
    <3>2. rewindTo[v] < k
      BY <1>2 DEF RewindsBack
    <3> QED
      BY <2>3, <3>1, <3>2
  <2> QED
    BY <2>1, <2>2, <2>3
<1>5. \A v \in Nodes : rewindTo'[v] < k
  BY <1>2 DEF RewindsBack
<1> QED
  BY <1>4, <1>5

\* The step that sets a rewind layer is the Merge that lies in it.
LEMMA MergeSetsBack ==
  ASSUME TypeInv, RewindsBack, LoopsBeside(g), NEW v, At(v), Kind(v) = "Merge",
         Kind(In(v)[2][1]) = "NextIteration",
         NEW x \in Nodes, Kind(x) = "Exit", NEW k \in LayersWith(g, x)
  PROVE  l < k
<1>1. v \in Nodes /\ l + 1 \in LayersWith(g, v)
  BY HereFacts DEF LayersWith
<1>2. In(v)[2][1] \in Nodes
  BY DEF Kind
<1>3. l + 1 <= k
  BY <1>1, <1>2 DEF LoopsBeside, Nodes, Kind, In
<1>4. l \in Nat
  BY DEF TypeInv
<1>5. k \in Nat
  <2>1. g.layers \in Seq(Seq(Nodes)) /\ k \in DOMAIN g.layers
    BY Laid DEF LayersWith
  <2> QED
    BY <2>1
<1> QED
  BY <1>3, <1>4, <1>5

LEMMA LowersKeepsBack ==
  ASSUME TypeInv, RewindsBack, g' = g, Lowers(flow'), rewindTo' = rewindTo
  PROVE  RewindsBack'
BY BackKept DEF Lowers

LEMMA StillKeepsBack ==
  ASSUME RewindsBack, g' = g, flow' = flow, rewindTo' = rewindTo
  PROVE  RewindsBack'
BY DEF RewindsBack, Nodes, Frames, Kind

\* Under that bound a rewind never jumps ahead.
LEMMA RewindPassesNone ==
  ASSUME TypeInv, RewindsBack, NEW v, ExitRewind(v)
  PROVE  ~(l' > l)
<1>1. At(v) /\ Kind(v) = "Exit" /\ frames # <<>> /\ l' = flow.frame[Last(frames)].rewindPosition + 1
  BY DEF ExitRewind
<1>2. Last(frames) \in Frames
  BY <1>1, LastFrame DEF TypeInv
<1>3. v \in Nodes /\ l + 1 \in LayersWith(g, v)
  BY <1>1, HereFacts DEF LayersWith
<1>4. l' < l + 1
  BY <1>1, <1>2, <1>3 DEF RewindsBack
<1>5. l \in Nat
  BY DEF TypeInv
<1>6. TypeInv'
  BY ExitRewindStep
<1>7. l' \in Nat
  BY <1>6 DEF TypeInv
<1> QED
  BY <1>4, <1>5, <1>7

\* Only a rewind and the end of a layer change the layer.
LEMMA VisitStays ==
  ASSUME NEW v, Visit(v), ~ExitRewind(v)
  PROVE  l' = l
BY DEF Visit, Skip, Enter, MergeLoop, Merge, Switch, LoopCond, NextIteration, ExitInactive,
       ExitLoop, ExecuteOp, Fail, Go, Advance, Stop

LEMMA StepPassesNone ==
  ASSUME TypeInv, RewindsBack, Next \/ UNCHANGED vars
  PROVE  PassesNone \/ UNCHANGED vars
<1>1. l \in Nat
  BY DEF TypeInv
<1>2. ASSUME NEW v \in Nodes, Visit(v) PROVE PassesNone
  <2>1. CASE ExitRewind(v)
    BY <2>1, RewindPassesNone DEF PassesNone
  <2>2. CASE ~ExitRewind(v)
    <3>1. l' = l
      BY <1>2, <2>2, VisitStays
    <3> QED
      BY <1>1, <3>1 DEF PassesNone
  <2> QED
    BY <2>1, <2>2
<1>3. CASE NextLayer
  BY <1>3 DEF NextLayer, PassesNone
<1>4. CASE Finish \/ EarlyTermination \/ Rest \/ UNCHANGED vars
  <2>1. l' = l
    BY <1>4, StillSteps DEF position
  <2> QED
    BY <1>1, <2>1 DEF PassesNone
<1>5. ASSUME NEW f \in g.feeds, Execute(f) PROVE PassesNone
  <2>1. l' = 0
    BY <1>5 DEF Execute
  <2> QED
    BY <1>1, <2>1 DEF PassesNone
<1> QED
  BY <1>2, <1>3, <1>4, <1>5 DEF Next, Walk

LEMMA StepRewindsBack ==
  ASSUME TypeInv, DoneInv, RewindsBack, LoopsBeside(g), Next \/ UNCHANGED vars
  PROVE  RewindsBack'
<1>1. ASSUME NEW v \in Nodes, Visit(v) PROVE RewindsBack'
  <2>1. g' = g
    BY <1>1 DEF Visit, Skip, Enter, MergeLoop, Merge, Switch, LoopCond, NextIteration, ExitInactive,
                ExitRewind, ExitLoop, ExecuteOp, Fail, Go, Stop
  <2>2. CASE MergeLoop(v)
    <3>1. At(v) /\ Kind(v) = "Merge" /\ Kind(In(v)[2][1]) = "NextIteration"
      BY <2>2 DEF MergeLoop
    <3>2. Lowers(flow') /\ rewindTo' = [rewindTo EXCEPT ![In(v)[2][1]] = l]
      BY <2>2, MergeLoopStep
    <3>3. \A x \in Nodes : Kind(x) = "Exit" => \A k \in LayersWith(g, x) : l < k
      BY <3>1, MergeSetsBack
    <3>4. rewindTo \in [Nodes -> Nat]
      BY DEF TypeInv
    <3>5. \A u \in Nodes : rewindTo'[u] = rewindTo[u] \/ rewindTo'[u] = l
      BY <3>2, <3>4
    <3>6. \A u \in Nodes : \/ rewindTo'[u] = rewindTo[u]
                           \/ \A x \in Nodes : Kind(x) = "Exit" =>
                                \A k \in LayersWith(g, x) : rewindTo'[u] < k
      BY <3>3, <3>5
    <3>7. \A f \in Frames : flow'.frame[f].rewindPosition \in {flow.frame[f].rewindPosition, -1}
      BY <3>2 DEF Lowers
    <3> QED
      BY <2>1, <3>6, <3>7, BackKept
  <2>3. CASE NextIteration(v)
    <3>1. /\ rewindTo' = rewindTo
          /\ \A k \in Frames : flow'.frame[k].rewindPosition
                                 \in {flow.frame[k].rewindPosition, -1, rewindTo[v] - 1}
      BY <2>3, NextIterationStep
    <3> QED
      BY <2>1, <3>1, BackKept
  <2>4. CASE Skip(v)
    <3>1. Lowers(flow') /\ rewindTo' = rewindTo
      BY <2>4, SkipStep DEF Skip
    <3> QED
      BY <2>1, <3>1, LowersKeepsBack
  <2>5. CASE Enter(v)
    BY <2>1, <2>5, EnterStep, LowersKeepsBack
  <2>6. CASE Merge(v) \/ LoopCond(v) \/ ExecuteOp(v)
    BY <2>1, <2>6, PlainStep, LowersKeepsBack
  <2>7. CASE Switch(v)
    BY <2>1, <2>7, SwitchStep, LowersKeepsBack
  <2>8. CASE ExitInactive(v) \/ ExitLoop(v)
    BY <2>1, <2>8, ExitStep, LowersKeepsBack
  <2>9. CASE ExitRewind(v)
    BY <2>1, <2>9, ExitRewindStep, LowersKeepsBack
  <2>10. CASE Fail(v)
    BY <2>1, <2>10, FailStep, LowersKeepsBack
  <2> QED
    BY <1>1, <2>2, <2>3, <2>4, <2>5, <2>6, <2>7, <2>8, <2>9, <2>10 DEF Visit
<1>2. CASE NextLayer
  BY <1>2, StillKeepsBack DEF NextLayer, framing
<1>3. CASE Finish \/ EarlyTermination \/ Rest \/ UNCHANGED vars
  <2>1. g' = g /\ flow' = flow /\ rewindTo' = rewindTo
    BY <1>3, StillSteps DEF framing
  <2> QED
    BY <2>1, StillKeepsBack
<1>4. ASSUME NEW f \in g.feeds, Execute(f) PROVE RewindsBack'
  <2>1. g' = g /\ rewindTo' = rewindTo /\ flow' \in {flow, FreshFlow}
    BY <1>4, ExecuteStep DEF Execute
  <2>2. Lowers(flow')
    BY <2>1 DEF Lowers, FreshFlow, FreshFrame
  <2> QED
    BY <2>1, <2>2, LowersKeepsBack
<1> QED
  BY <1>1, <1>2, <1>3, <1>4 DEF Next, Walk

LEMMA InitRewindsBack == Init => RewindsBack
<1> SUFFICES ASSUME Init, NEW x \in Nodes, NEW k \in LayersWith(g, x)
             PROVE  /\ \A f \in Frames : flow.frame[f].rewindPosition + 1 < k
                    /\ \A v \in Nodes : rewindTo[v] < k
  BY DEF RewindsBack
<1>1. TypeInv
  BY InitInv
<1>2. g.layers \in Seq(Seq(Nodes)) /\ k \in DOMAIN g.layers
  BY <1>1, Laid DEF LayersWith
<1>3. k \in Nat /\ 0 < k
  BY <1>2
<1>4. \A f \in Frames : flow.frame[f].rewindPosition = -1
  BY DEF Init, FreshFlow, FreshFrame
<1>5. \A v \in Nodes : rewindTo[v] = 0
  BY DEF Init
<1> QED
  BY <1>3, <1>4, <1>5

\* Where no loop follows another the rewinds need no assumption: whatever rewind
\* position an earlier run, a failed op or another loop has left in the FlowPath, the
\* walk leaves a layer for a higher one only when it has visited all its nodes, and so
\* no branch that was not taken is executed.
THEOREM ExecutorRewinds ==
  ASSUME \A h \in Graphs : LoopsBeside(h)
  PROVE  Spec => [][PassesNone]_vars /\ []BranchDisabled
<1> DEFINE Inv == TypeInv /\ DoneInv /\ RewindsBack
<1>1. Init => Inv
  BY InitInv, InitRewindsBack
<1>2. Inv /\ [Next]_vars => [PassesNone]_vars
  BY StepPassesNone
<1>3. Inv /\ [Next]_vars => Inv'
  <2> SUFFICES ASSUME TypeInv, DoneInv, RewindsBack, Next \/ UNCHANGED vars
               PROVE  Inv'
    OBVIOUS
  <2>1. PassesNone \/ UNCHANGED vars
    BY StepPassesNone
  <2>2. LoopsBeside(g)
    BY DEF TypeInv
  <2>3. TypeInv' /\ DoneInv'
    BY <2>1, StepInv
  <2>4. RewindsBack'
    BY <2>2, StepRewindsBack
  <2> QED
    BY <2>3, <2>4
<1>4. Inv => BranchDisabled
  BY InvDisables
<1> HIDE DEF Inv
<1> QED
  BY <1>1, <1>2, <1>3, <1>4, PTL DEF Spec

---------------------------------------------------------------------------
(* What the walk computes *)

\* The reading of the graph.
R == CHOOSE r : Reads(g, r)

LEMMA ReadingOf == Denotes(g) => Reads(g, R)
BY DEF Denotes, R

Lp(v)   == R.loop[v]
Den     == R.den[feed]
Steps(f) == Iterations(Den.trips[f])
Al(a, k) == Alive(g, R, Den, a, k)
Vl(a, k) == Value(g, R, Den, a, k)
Bf(u, v) == Before(g, u, v)
Part(f, k) == PartOf(g, R, f, k)

\* An address that a reader takes to be disabled.
Off(a) ==
  \/ a[1] \in flow.inactive
  \/ a[1] \in Nodes /\ Kind(a[1]) = "Switch" /\ flow.branch[a[1]] # a[2]

\* No op that may have the array of a has computed into it since.
Fresh(a, k) ==
  \A b \in Nodes : Kind(b) = "Op" /\ Done(b) /\ Bf(a[1], b) /\ Al(Out(b), k)
     => Out(b) \notin R.src[a]

Good(a, k) ==
  IF Al(a, k) THEN /\ ~Off(a) /\ slot[a] # Nil
                   /\ Fresh(a, k) => content[slot[a]] = Vl(a, k)
              ELSE Off(a) \/ (slot[a] = Nil /\ ~Inner(g, R, a[1]))

Passed(v, k) == \A a \in OutputsOf(g, v) : Good(a, k)

\* Arrays: what a variable may hold, none deleted.
ArrayInv ==
  /\ slot \in [Addresses -> Addresses \cup {Nil}] /\ DOMAIN content = Addresses
  /\ freed = {}
  /\ \A a \in Addresses : slot[a] # Nil => slot[a] \in R.src[a]
  /\ \A v \in Nodes : Kind(v) = "Op" => slot[Out(v)] \in {Nil, Out(v)}
  /\ \A x \in Ext : slot[<<x, 0>>] = <<x, 0>> /\ content[<<x, 0>>] = feed[x]
  /\ DOMAIN feed = ExtOf(g)

\* Frames known at all times.
FrameInv ==
  /\ \A v \in Nodes : IsLoopMerge(g, v) => frameOf[v] \in {-1, Lp(v)}
  /\ \A v \in Nodes : Kind(v) = "Merge" /\ ~IsLoopMerge(g, v) => frameOf[v] = -1
  /\ \A v \in Nodes : Kind(v) = "Enter" => frameOf[v] = Lp(v)
  /\ \A f \in Frames : ~flow.frame[f].rewindPlanned => flow.frame[f].rewindPosition = -1

\* A loop that is not on its way.
Quiet(f) ==
  /\ \A b \in Part(f, "NextIteration") : b \notin flow.executed
  /\ ~flow.frame[f].rewindPlanned

Clean == \A f \in Frames : Quiet(f)

\* The loop f is in iteration k, or about to begin it.
\* Exits are left when all are passed.
Left(f)    == \A x \in Part(f, "Exit") : Done(x)
Begun(f)   == \E m \in Part(f, "Merge") : Done(m)
Entered(f) == \E e \in Part(f, "Enter") : Done(e)
Leaving(f) == \E x \in Part(f, "Exit") : Done(x)
Ending(f)  == \E b \in Part(f, "NextIteration") : Done(b)

MergeReady(m, k) ==
  LET b == Back(g, m)
  IN  IF Done(m) THEN /\ ~Done(b) => b \notin flow.executed
                      /\ \A i \in LayersWith(g, m) : rewindTo[b] = i - 1
      ELSE IF k = 0 THEN b \notin flow.executed
      ELSE b \in flow.executed /\ slot[Out(b)] # Nil /\ content[slot[Out(b)]] = Vl(Out(b), k - 1)

Turning(f, k) ==
  /\ ~Left(f)
  /\ \A m \in Part(f, "Merge") :
       MergeReady(m, k) /\ (\A u \in Nodes : IsHead(g, R, m) /\ Bf(u, m) => Done(u))
  /\ \A u \in Nodes : Lp(u) = f /\ Inner(g, R, u) /\ Done(u) => Passed(u, k)
  /\ \A b \in Part(f, "NextIteration") : Done(b) => (b \in flow.executed <=> Al(Out(b), k))
  /\ flow.frame[f].rewindPlanned <=> (Ending(f) /\ k + 1 \in Steps(f))
  /\ flow.frame[f].rewindPlanned =>
       \A m \in Part(f, "Merge") : IsHead(g, R, m) =>
         \A i \in LayersWith(g, m) : flow.frame[f].rewindPosition = i - 2
  /\ Leaving(f) => k + 1 \notin Steps(f)
  /\ Begun(f) => flow.frame[f].activated

LoopInv(f) ==
  \/ (~Begun(f) \/ Left(f)) /\ Quiet(f)
  \/ \E k \in Steps(f) : Turning(f, k)

OuterInv == \A v \in Nodes : Done(v) /\ ~Inner(g, R, v) => Passed(v, 0)

\* A graph with a Merge that closes no loop is in its first run.
FirstInv ==
  (\E v \in Nodes : Kind(v) = "Merge" /\ ~IsLoopMerge(g, v)) =>
    \A v \in Nodes : ~Inner(g, R, v) => \A a \in OutputsOf(g, v) :
        slot[a] # Nil => Done(v) /\ Al(a, 0)

\* Before the first run the nodes have no arrays.
RunsInv ==
  /\ runs \in Nat /\ (status = "idle" <=> runs = 0)
  /\ runs = 0 => \A a \in Addresses : a[1] \in Nodes => slot[a] = Nil

Shut(f) == Entered(f) => Left(f)

OpenInv ==
  \/ frames = <<>> /\ ~leftFrame /\ \A f \in Loops(R) : Shut(f)
  \/ \E f \in Loops(R) :
       /\ frames = <<f>> /\ Entered(f) /\ (leftFrame <=> Leaving(f))
       /\ \A c \in Loops(R) \ {f} : Shut(c)
       /\ leftFrame => \A w \in Nodes : Done(w) =>
            \E x \in Part(f, "Exit") : w = x \/ Bf(w, x)

WalkInv ==
  /\ \A f \in Loops(R) : LoopInv(f)
  /\ \A f \in Frames \ Loops(R) : ~flow.frame[f].rewindPlanned
  /\ OuterInv /\ OpenInv

MeaningInv ==
  /\ ArrayInv /\ FrameInv /\ RunsInv
  /\ status \in {"idle", "error", "ok"} => Clean
  /\ status = "ok" => l = Len(g.layers)
  /\ status \in {"running", "ok"} => WalkInv /\ FirstInv
---------------------------------------------------------------------------
(* The order of the walk *)

LEMMA Places ==
  ASSUME TypeInv, NEW v \in Nodes
  PROVE  \E i \in DOMAIN g.layers : \E j \in DOMAIN g.layers[i] :
           g.layers[i][j] = v /\ i \in Nat /\ j \in Nat /\ i \in LayersWith(g, v)
<1>1. g.layers \in Seq(Seq(Nodes)) /\ LayersWith(g, v) # {}
  BY Laid
<1>2. PICK i \in LayersWith(g, v) : TRUE
  BY <1>1
<1>3. i \in DOMAIN g.layers /\ \E j \in DOMAIN g.layers[i] : g.layers[i][j] = v
  BY <1>2 DEF LayersWith
<1>4. PICK j \in DOMAIN g.layers[i] : g.layers[i][j] = v
  BY <1>3
<1>5. i \in Nat /\ g.layers[i] \in Seq(Nodes)
  BY <1>1, <1>3
<1>6. j \in Nat
  BY <1>4, <1>5
<1> QED
  BY <1>2, <1>3, <1>4, <1>5, <1>6

\* A node is at one place.
LEMMA OnePlace ==
  ASSUME TypeInv, NEW i \in DOMAIN g.layers, NEW k \in DOMAIN g.layers,
         NEW j \in DOMAIN g.layers[i], NEW m \in DOMAIN g.layers[k],
         g.layers[i][j] = g.layers[k][m]
  PROVE  i = k /\ j = m
BY Laid

LEMMA PlaceTypes ==
  ASSUME TypeInv, NEW i \in DOMAIN g.layers, NEW j \in DOMAIN g.layers[i]
  PROVE  i \in Nat \ {0} /\ j \in Nat \ {0} /\ g.layers[i][j] \in Nodes
<1>1. g.layers \in Seq(Seq(Nodes))
  BY Laid
<1>2. i \in Nat \ {0} /\ g.layers[i] \in Seq(Nodes)
  BY <1>1
<1> QED
  BY <1>2

LEMMA BeforePlaces ==
  ASSUME TypeInv, NEW i \in DOMAIN g.layers, NEW k \in DOMAIN g.layers,
         NEW j \in DOMAIN g.layers[i], NEW m \in DOMAIN g.layers[k]
  PROVE  Bf(g.layers[i][j], g.layers[k][m]) <=> (i < k \/ (i = k /\ j < m))
<1>1. ASSUME Bf(g.layers[i][j], g.layers[k][m]) PROVE i < k \/ (i = k /\ j < m)
  <2>1. PICK p, q \in DOMAIN g.layers : \E s \in DOMAIN g.layers[p], t \in DOMAIN g.layers[q] :
          /\ g.layers[p][s] = g.layers[i][j] /\ g.layers[q][t] = g.layers[k][m]
          /\ (p < q \/ (p = q /\ s < t))
    BY <1>1 DEF Bf, Before
  <2>2. PICK s \in DOMAIN g.layers[p], t \in DOMAIN g.layers[q] :
          /\ g.layers[p][s] = g.layers[i][j] /\ g.layers[q][t] = g.layers[k][m]
          /\ (p < q \/ (p = q /\ s < t))
    BY <2>1
  <2>3. p = i /\ s = j /\ q = k /\ t = m
    BY <2>2, OnePlace
  <2> QED
    BY <2>2, <2>3
<1>2. ASSUME i < k \/ (i = k /\ j < m) PROVE Bf(g.layers[i][j], g.layers[k][m])
  BY <1>2 DEF Bf, Before
<1> QED
  BY <1>1, <1>2

LEMMA BeforeNodes ==
  ASSUME TypeInv, NEW u, NEW v, Bf(u, v)
  PROVE  u \in Nodes /\ v \in Nodes
<1>1. PICK p, q \in DOMAIN g.layers : \E s \in DOMAIN g.layers[p], t \in DOMAIN g.layers[q] :
        g.layers[p][s] = u /\ g.layers[q][t] = v
  BY DEF Bf, Before
<1> QED
  BY <1>1, PlaceTypes

LEMMA BeforeIrreflexive ==
  ASSUME TypeInv, NEW v \in Nodes
  PROVE  ~Bf(v, v)
<1>1. PICK i \in DOMAIN g.layers : \E j \in DOMAIN g.layers[i] : g.layers[i][j] = v
  BY Places
<1>2. PICK j \in DOMAIN g.layers[i] : g.layers[i][j] = v
  BY <1>1
<1>3. i \in Nat /\ j \in Nat
  BY PlaceTypes
<1>4. ~(i < i \/ (i = i /\ j < j))
  BY <1>3
<1> QED
  BY <1>2, <1>4, BeforePlaces

LEMMA BeforeTransitive ==
  ASSUME TypeInv, NEW u, NEW v, NEW w, Bf(u, v), Bf(v, w)
  PROVE  Bf(u, w)
<1>1. u \in Nodes /\ v \in Nodes /\ w \in Nodes
  BY BeforeNodes
<1>2. PICK i \in DOMAIN g.layers : \E j \in DOMAIN g.layers[i] : g.layers[i][j] = u
  BY <1>1, Places
<1>3. PICK j \in DOMAIN g.layers[i] : g.layers[i][j] = u
  BY <1>2
<1>4. PICK k \in DOMAIN g.layers : \E m \in DOMAIN g.layers[k] : g.layers[k][m] = v
  BY <1>1, Places
<1>5. PICK m \in DOMAIN g.layers[k] : g.layers[k][m] = v
  BY <1>4
<1>6. PICK p \in DOMAIN g.layers : \E q \in DOMAIN g.layers[p] : g.layers[p][q] = w
  BY <1>1, Places
<1>7. PICK q \in DOMAIN g.layers[p] : g.layers[p][q] = w
  BY <1>6
<1>8. i \in Nat /\ j \in Nat /\ k \in Nat /\ m \in Nat /\ p \in Nat /\ q \in Nat
  BY PlaceTypes
<1>9. (i < k \/ (i = k /\ j < m)) /\ (k < p \/ (k = p /\ m < q))
  BY <1>3, <1>5, <1>7, BeforePlaces
<1>10. i < p \/ (i = p /\ j < q)
  BY <1>8, <1>9
<1> QED
  BY <1>3, <1>7, <1>10, BeforePlaces

LEMMA BeforeTotal ==
  ASSUME TypeInv, NEW u \in Nodes, NEW v \in Nodes, u # v
  PROVE  Bf(u, v) \/ Bf(v, u)
<1>2. PICK i \in DOMAIN g.layers : \E j \in DOMAIN g.layers[i] : g.layers[i][j] = u
  BY Places
<1>3. PICK j \in DOMAIN g.layers[i] : g.layers[i][j] = u
  BY <1>2
<1>4. PICK k \in DOMAIN g.layers : \E m \in DOMAIN g.layers[k] : g.layers[k][m] = v
  BY Places
<1>5. PICK m \in DOMAIN g.layers[k] : g.layers[k][m] = v
  BY <1>4
<1>6. i \in Nat /\ j \in Nat /\ k \in Nat /\ m \in Nat
  BY PlaceTypes
<1>7. i # k \/ j # m
  BY <1>3, <1>5
<1>8. (i < k \/ (i = k /\ j < m)) \/ (k < i \/ (k = i /\ m < j))
  BY <1>6, <1>7
<1> QED
  BY <1>3, <1>5, <1>8, BeforePlaces

LEMMA BeforeAsymmetric ==
  ASSUME TypeInv, NEW u, NEW v, Bf(u, v)
  PROVE  ~Bf(v, u) /\ u # v
BY BeforeNodes, BeforeTransitive, BeforeIrreflexive

LEMMA DoneAt ==
  ASSUME TypeInv, NEW i \in DOMAIN g.layers, NEW j \in DOMAIN g.layers[i]
  PROVE  Done(g.layers[i][j]) <=> (i <= l \/ (i = l + 1 /\ j <= n))
<1>1. ASSUME Done(g.layers[i][j]) PROVE i <= l \/ (i = l + 1 /\ j <= n)
  <2>1. PICK p \in DOMAIN g.layers : \E q \in DOMAIN g.layers[p] :
          g.layers[p][q] = g.layers[i][j] /\ (p <= l \/ (p = l + 1 /\ q <= n))
    BY <1>1 DEF Done
  <2>2. PICK q \in DOMAIN g.layers[p] :
          g.layers[p][q] = g.layers[i][j] /\ (p <= l \/ (p = l + 1 /\ q <= n))
    BY <2>1
  <2>3. p = i /\ q = j
    BY <2>2, OnePlace
  <2> QED
    BY <2>2, <2>3
<1> QED
  BY <1>1 DEF Done

\* At v the walk has passed what comes before v.
LEMMA DoneBefore ==
  ASSUME TypeInv, NEW v, At(v), NEW w \in Nodes
  PROVE  Done(w) <=> Bf(w, v)
<1>1. /\ v \in Nodes /\ l + 1 \in DOMAIN g.layers /\ n + 1 \in DOMAIN g.layers[l + 1]
      /\ v = g.layers[l + 1][n + 1]
  BY HereFacts
<1>2. PICK i \in DOMAIN g.layers : \E j \in DOMAIN g.layers[i] : g.layers[i][j] = w
  BY Places
<1>3. PICK j \in DOMAIN g.layers[i] : g.layers[i][j] = w
  BY <1>2
<1>4. i \in Nat /\ j \in Nat /\ l \in Nat /\ n \in Nat
  BY PlaceTypes DEF TypeInv
<1>5. Done(w) <=> (i <= l \/ (i = l + 1 /\ j <= n))
  BY <1>3, DoneAt
<1>6. Bf(w, v) <=> (i < l + 1 \/ (i = l + 1 /\ j < n + 1))
  BY <1>1, <1>3, BeforePlaces
<1> QED
  BY <1>4, <1>5, <1>6

LEMMA DoneDown ==
  ASSUME TypeInv, NEW w, Done(w), NEW u, Bf(u, w)
  PROVE  Done(u)
<1>0. u \in Nodes /\ w \in Nodes
  BY BeforeNodes
<1>2. PICK i \in DOMAIN g.layers : \E j \in DOMAIN g.layers[i] : g.layers[i][j] = u
  BY <1>0, Places
<1>3. PICK j \in DOMAIN g.layers[i] : g.layers[i][j] = u
  BY <1>2
<1>4. PICK k \in DOMAIN g.layers : \E m \in DOMAIN g.layers[k] : g.layers[k][m] = w
  BY <1>0, Places
<1>5. PICK m \in DOMAIN g.layers[k] : g.layers[k][m] = w
  BY <1>4
<1>6. i \in Nat /\ j \in Nat /\ k \in Nat /\ m \in Nat /\ l \in Nat /\ n \in Nat
  BY PlaceTypes DEF TypeInv
<1>7. (k <= l \/ (k = l + 1 /\ m <= n)) /\ (i < k \/ (i = k /\ j < m))
  BY <1>3, <1>5, DoneAt, BeforePlaces
<1>8. i <= l \/ (i = l + 1 /\ j <= n)
  BY <1>6, <1>7
<1> QED
  BY <1>3, <1>8, DoneAt

LEMMA UndoneAfter ==
  ASSUME TypeInv, NEW v, At(v), NEW w \in Nodes, ~Done(w), w # v
  PROVE  Bf(v, w)
<1>1. v \in Nodes
  BY HereFacts
<1>2. ~Bf(w, v)
  BY DoneBefore
<1> QED
  BY <1>1, <1>2, BeforeTotal

\* What a visit adds.
LEMMA AdvanceDone ==
  ASSUME TypeInv, NEW v, At(v), g' = g, Advance, NEW w \in Nodes
  PROVE  Done(w)' <=> Done(w) \/ w = v
<1>1. Done(w)' => Done(w) \/ w = v
  BY AdvancePasses
<1>2. l' = l /\ n' = n + 1 /\ l \in Nat /\ n \in Nat
  BY DEF Advance, TypeInv
<1>3. ASSUME Done(w) PROVE Done(w)'
  <2>1. PICK i \in DOMAIN g.layers : \E j \in DOMAIN g.layers[i] :
          g.layers[i][j] = w /\ (i <= l \/ (i = l + 1 /\ j <= n))
    BY <1>3 DEF Done
  <2>2. PICK j \in DOMAIN g.layers[i] : g.layers[i][j] = w /\ (i <= l \/ (i = l + 1 /\ j <= n))
    BY <2>1
  <2>3. i \in Nat /\ j \in Nat
    BY PlaceTypes
  <2>4. i <= l' \/ (i = l' + 1 /\ j <= n')
    BY <1>2, <2>2, <2>3
  <2> QED
    BY <2>2, <2>4 DEF Done
<1>4. ASSUME w = v PROVE Done(w)'
  <2>1. /\ l + 1 \in DOMAIN g.layers /\ n + 1 \in DOMAIN g.layers[l + 1]
        /\ v = g.layers[l + 1][n + 1]
    BY HereFacts
  <2>2. l + 1 = l' + 1 /\ n + 1 <= n'
    BY <1>2
  <2> QED
    BY <1>4, <2>1, <2>2 DEF Done
<1> QED
  BY <1>1, <1>3, <1>4

LEMMA NextLayerDone ==
  ASSUME TypeInv, NextLayer, NEW w \in Nodes
  PROVE  Done(w)' <=> Done(w)
<1>1. Done(w)' => Done(w)
  BY NextLayerPasses
<1>2. l' = l + 1 /\ l \in Nat /\ n \in Nat /\ g' = g
  BY DEF NextLayer, TypeInv
<1>3. ASSUME Done(w) PROVE Done(w)'
  <2>1. PICK i \in DOMAIN g.layers : \E j \in DOMAIN g.layers[i] :
          g.layers[i][j] = w /\ (i <= l \/ (i = l + 1 /\ j <= n))
    BY <1>3 DEF Done
  <2>2. PICK j \in DOMAIN g.layers[i] : g.layers[i][j] = w /\ (i <= l \/ (i = l + 1 /\ j <= n))
    BY <2>1
  <2>3. i \in Nat /\ j \in Nat
    BY PlaceTypes
  <2>4. i <= l'
    BY <1>2, <2>2, <2>3
  <2> QED
    BY <1>2, <2>2, <2>4 DEF Done
<1> QED
  BY <1>1, <1>3

LEMMA EndDone ==
  ASSUME TypeInv, l = Len(g.layers), NEW w \in Nodes
  PROVE  Done(w)
<1>1. PICK i \in DOMAIN g.layers : \E j \in DOMAIN g.layers[i] : g.layers[i][j] = w
  BY Places
<1>2. PICK j \in DOMAIN g.layers[i] : g.layers[i][j] = w
  BY <1>1
<1>3. g.layers \in Seq(Seq(Nodes))
  BY Laid
<1>4. i <= l
  BY <1>3
<1> QED
  BY <1>2, <1>4 DEF Done

\* Back at the first node of a layer.
LEMMA BackDone ==
  ASSUME TypeInv, g' = g, NEW i \in DOMAIN g.layers, NEW m, 1 \in DOMAIN g.layers[i],
         g.layers[i][1] = m, l' = i - 1, n' = 0, NEW w \in Nodes
  PROVE  Done(w)' <=> Bf(w, m)
<1>1. PICK p \in DOMAIN g.layers : \E q \in DOMAIN g.layers[p] : g.layers[p][q] = w
  BY Places
<1>2. PICK q \in DOMAIN g.layers[p] : g.layers[p][q] = w
  BY <1>1
<1>3. i \in Nat \ {0} /\ p \in Nat \ {0} /\ q \in Nat \ {0}
  BY PlaceTypes
<1>4. Bf(w, m) <=> (p < i \/ (p = i /\ q < 1))
  BY <1>2, BeforePlaces
<1>5. Bf(w, m) <=> p < i
  BY <1>3, <1>4
<1>6. ASSUME Done(w)' PROVE p < i
  <2>1. PICK s \in DOMAIN g.layers : \E t \in DOMAIN g.layers[s] :
          g.layers[s][t] = w /\ (s <= l' \/ (s = l' + 1 /\ t <= n'))
    BY <1>6 DEF Done
  <2>2. PICK t \in DOMAIN g.layers[s] : g.layers[s][t] = w /\ (s <= l' \/ (s = l' + 1 /\ t <= n'))
    BY <2>1
  <2>3. s = p /\ t = q
    BY <1>2, <2>2, OnePlace
  <2> QED
    BY <1>3, <2>2, <2>3
<1>7. ASSUME p < i PROVE Done(w)'
  <2>1. p <= l'
    BY <1>3, <1>7
  <2> QED
    BY <1>2, <2>1 DEF Done
<1> QED
  BY <1>5, <1>6, <1>7

LEMMA StartDone ==
  ASSUME TypeInv, g' = g, l' = 0, n' = 0, NEW w \in Nodes
  PROVE  ~Done(w)'
<1> SUFFICES ASSUME NEW i \in DOMAIN g.layers, NEW j \in DOMAIN g.layers[i]
             PROVE  ~(i <= 0 \/ (i = 0 + 1 /\ j <= 0))
  BY DEF Done
<1> QED
  BY PlaceTypes
---------------------------------------------------------------------------
(* What a reading says *)

LEMMA Readable ==
  ASSUME TypeInv, Reads(g, R)
  PROVE  /\ Structured(g, R) /\ Solves(g, R, feed, Den) /\ Means(g, R, feed, Den)
         /\ Nodes = NodesOf(g) /\ Ext = ExtOf(g) /\ Addresses = AddressesOf(g)
         /\ Ext \cap Nodes = {}
         /\ g.in \in [Nodes -> Seq(Addresses)]
<1>1. feed \in g.feeds /\ Nodes = NodesOf(g)
  BY DEF TypeInv, Nodes, NodesOf
<1>2. Structured(g, R) /\ Solves(g, R, feed, Den) /\ Means(g, R, feed, Den)
  BY <1>1 DEF Reads, Den
<1>3. DOMAIN feed = ExtOf(g) /\ g.in \in [NodesOf(g) -> Seq(AddressesOf(g))]
  BY <1>1, <1>2 DEF Structured
<1>4. Addresses = AddressesOf(g)
  BY <1>1, <1>3 DEF Addresses, AddressesOf, Ext
<1>5. WellLaid(g)
  BY GraphsAssumption DEF TypeInv
<1>6. Ext \cap Nodes = {}
  BY <1>1, <1>5 DEF WellLaid, Ext, Nodes
<1> QED
  BY <1>1, <1>2, <1>3, <1>4, <1>6 DEF Ext

\* The inputs of a node.
LEMMA Inputs ==
  ASSUME TypeInv, Reads(g, R), NEW v \in Nodes
  PROVE  /\ In(v) = g.in[v] /\ In(v) \in Seq(Addresses) /\ DOMAIN In(v) = 1..Len(In(v))
         /\ Kind(v) = g.kind[v]
         /\ Kind(v) \in {"Op", "Enter", "Merge", "Switch", "LoopCond", "NextIteration", "Exit"}
         /\ Kind(v) # "Op" => 1 \in DOMAIN In(v)
         /\ Kind(v) = "Merge" => DOMAIN In(v) = {1, 2}
         /\ Kind(v) = "Switch" => DOMAIN In(v) = {1, 2}
         /\ Kind(v) = "LoopCond" => DOMAIN In(v) = {1}
<1>1. GoodNode(g, R, v) /\ g.in \in [Nodes -> Seq(Addresses)]
  BY Readable DEF Structured
<1>2. In(v) = g.in[v] /\ In(v) \in Seq(Addresses)
  BY <1>1 DEF In
<1>3. DOMAIN In(v) = 1..Len(In(v)) /\ Len(In(v)) \in Nat
  BY <1>2
<1>4. Kind(v) = g.kind[v]
  BY DEF Kind, Nodes
<1>5. /\ Kind(v) \in {"Op", "Enter", "Merge", "Switch", "LoopCond", "NextIteration", "Exit"}
      /\ Kind(v) # "Op" => In(v) # <<>>
      /\ Kind(v) = "Merge" => Len(In(v)) = 2
      /\ Kind(v) = "Switch" => Len(In(v)) = 2
      /\ Kind(v) = "LoopCond" => Len(In(v)) = 1
  BY <1>1, <1>2, <1>4 DEF GoodNode
<1>6. In(v) # <<>> => Len(In(v)) # 0
  BY <1>2
<1>7. Kind(v) # "Op" => 1 \in DOMAIN In(v)
  BY <1>3, <1>5, <1>6
<1>8. Kind(v) = "LoopCond" => DOMAIN In(v) = {1}
  <2>1. 1..1 = {1}
    OBVIOUS
  <2> QED
    BY <1>3, <1>5, <2>1
<1>9. Kind(v) \in {"Merge", "Switch"} => DOMAIN In(v) = {1, 2}
  <2>1. 1..2 = {1, 2}
    OBVIOUS
  <2> QED
    BY <1>3, <1>5, <2>1
<1> QED
  BY <1>2, <1>3, <1>4, <1>5, <1>7, <1>8, <1>9

\* Where an input comes from.
LEMMA InputFrom ==
  ASSUME TypeInv, Reads(g, R), NEW v \in Nodes, NEW i \in DOMAIN In(v)
  PROVE  LET a == In(v)[i]
         IN  /\ a \in Addresses
             /\ \/ a[1] \in Ext /\ a = <<a[1], 0>> /\ a[1] \notin Nodes
                \/ /\ a[1] \in Nodes /\ a[1] \notin Ext /\ a \in OutputsOf(g, a[1])
                   /\ Bf(a[1], v) \/ (i = 2 /\ IsLoopMerge(g, v))
             /\ Inner(g, R, a[1]) => Lp(v) = Lp(a[1])
<1> DEFINE a == In(v)[i]
<1>1. GoodInput(g, R, v, i) /\ a = g.in[v][i] /\ i \in DOMAIN g.in[v]
  BY Readable, Inputs DEF Structured
<1>2. a \in Addresses
  BY Inputs
<1>3. /\ \/ a \in {<<x, 0>> : x \in Ext}
         \/ /\ a[1] \in Nodes /\ a \in OutputsOf(g, a[1])
            /\ Bf(a[1], v) \/ (i = 2 /\ IsLoopMerge(g, v))
      /\ Inner(g, R, a[1]) => Lp(v) = Lp(a[1])
  BY <1>1, Readable DEF GoodInput, Bf, Lp
<1>4. a \in {<<x, 0>> : x \in Ext} => a[1] \in Ext /\ a = <<a[1], 0>>
  OBVIOUS
<1>5. Ext \cap Nodes = {}
  BY Readable
<1> QED
  BY <1>2, <1>3, <1>4, <1>5

LEMMA LoopNumbers ==
  ASSUME TypeInv, Reads(g, R)
  PROVE  /\ R.loop \in [Nodes -> Nat \cup {-1}]
         /\ \A v \in Nodes : Lp(v) \in Nat \cup {-1} /\ (Lp(v) # -1 => Lp(v) \in Loops(R))
         /\ -1 \notin Loops(R)
         /\ Loops(R) \subseteq Frames
<1>1. R.loop \in [Nodes -> Nat \cup {-1}]
  BY Readable DEF Structured, GoodLoops
<1>2. \A v \in Nodes : Lp(v) \in Nat \cup {-1} /\ (Lp(v) # -1 => Lp(v) \in Loops(R))
  BY <1>1 DEF Lp, Loops
<1>3. ASSUME NEW f \in Loops(R) PROVE f \in Frames
  <2>1. PICK m \in PartOf(g, R, f, "Merge") : IsHead(g, R, m)
    BY <1>3, Readable DEF Structured, GoodLoops
  <2>2. m \in Nodes /\ IsLoopMerge(g, m) /\ R.loop[m] = f
    BY <2>1, Readable DEF PartOf, IsHead
  <2>3. g.in[m][1][1] \in PartOf(g, R, f, "Enter")
    BY <2>2, Readable DEF Structured, GoodNode
  <2>4. PICK e \in Nodes : R.loop[e] = f /\ g.kind[e] = "Enter"
    BY <2>3, Readable DEF PartOf
  <2>5. g.frame[e] = f
    BY <2>4, Readable DEF Structured, GoodNode
  <2>6. f # -1
    BY DEF Loops
  <2> QED
    BY <2>4, <2>5, <2>6 DEF Frames
<1> QED
  BY <1>1, <1>2, <1>3 DEF Loops

LEMMA LoopParts ==
  ASSUME TypeInv, Reads(g, R), NEW f \in Loops(R)
  PROVE  /\ \E m \in Part(f, "Merge") : IsHead(g, R, m)
         /\ \E x \in Part(f, "Exit") : TRUE
         /\ \A m \in Part(f, "Merge") :
              /\ m \in Nodes /\ Kind(m) = "Merge" /\ Lp(m) = f /\ IsLoopMerge(g, m)
              /\ Back(g, m) \in Part(f, "NextIteration") /\ In(m)[2] = Out(Back(g, m))
              /\ In(m)[1][1] \in Part(f, "Enter")
              /\ Inner(g, R, m)
         /\ \A b \in Part(f, "NextIteration") :
              /\ b \in Nodes /\ Kind(b) = "NextIteration" /\ Lp(b) = f /\ Inner(g, R, b)
              /\ \E m \in Part(f, "Merge") : Back(g, m) = b
         /\ \A x \in Part(f, "Exit") :
              x \in Nodes /\ Kind(x) = "Exit" /\ Lp(x) = f /\ ~Inner(g, R, x)
         /\ \A e \in Part(f, "Enter") :
              e \in Nodes /\ Kind(e) = "Enter" /\ Lp(e) = f /\ ~Inner(g, R, e)
<1> USE Readable
<1>1. Structured(g, R) /\ f # -1
  BY LoopNumbers
<1>2. \E m \in Part(f, "Merge") : IsHead(g, R, m)
  BY <1>1 DEF Structured, GoodLoops, Part
<1>3. \E x \in Part(f, "Exit") : TRUE
  BY <1>1 DEF Structured, GoodLoops, Part
<1>4. \A k : \A v \in Part(f, k) :
        v \in Nodes /\ Kind(v) = k /\ Lp(v) = f /\ g.kind[v] = k /\ R.loop[v] = f
  BY DEF Part, PartOf, Lp, Kind, Nodes
<1>5. ASSUME NEW m \in Part(f, "Merge")
      PROVE  /\ IsLoopMerge(g, m)
             /\ Back(g, m) \in Part(f, "NextIteration") /\ In(m)[2] = Out(Back(g, m))
             /\ In(m)[1][1] \in Part(f, "Enter")
             /\ Inner(g, R, m)
  <2>1. GoodNode(g, R, m) /\ m \in NodesOf(g)
    BY <1>1, <1>4 DEF Structured
  <2>2. IsLoopMerge(g, m)
    BY <2>1, <1>1, <1>4 DEF GoodNode
  <2>3. /\ g.in[m][1][1] \in PartOf(g, R, f, "Enter")
        /\ g.in[m][2] \in {<<b, 0>> : b \in PartOf(g, R, f, "NextIteration")}
    BY <2>1, <2>2, <1>4 DEF GoodNode
  <2>4. PICK b \in PartOf(g, R, f, "NextIteration") : g.in[m][2] = <<b, 0>>
    BY <2>3
  <2>5. Back(g, m) = b
    BY <2>4 DEF Back
  <2>6. Inner(g, R, m)
    BY <2>1, <1>1, <1>4 DEF Inner
  <2> QED
    BY <2>2, <2>3, <2>4, <2>5, <2>6 DEF Part, In, Out
<1>6. ASSUME NEW b \in Part(f, "NextIteration")
      PROVE  Inner(g, R, b) /\ \E m \in Part(f, "Merge") : Back(g, m) = b
  <2>1. GoodNode(g, R, b) /\ b \in NodesOf(g) /\ g.kind[b] = "NextIteration"
    BY <1>1, <1>4 DEF Structured
  <2>2. PICK m \in NodesOf(g) : IsLoopMerge(g, m) /\ Back(g, m) = b
    BY <2>1 DEF GoodNode
  <2>3. GoodNode(g, R, m)
    BY <1>1 DEF Structured
  <2>4. R.loop[m] # -1 /\ g.in[m][2] \in {<<c, 0>> : c \in PartOf(g, R, R.loop[m], "NextIteration")}
    BY <2>2, <2>3 DEF GoodNode, IsLoopMerge
  <2>5. b \in PartOf(g, R, R.loop[m], "NextIteration")
    BY <2>2, <2>4 DEF Back
  <2>6. R.loop[m] = f
    BY <2>5, <1>4 DEF PartOf
  <2>7. m \in Part(f, "Merge")
    BY <2>2, <2>6 DEF Part, PartOf, IsLoopMerge
  <2>8. Inner(g, R, b)
    BY <2>1, <1>1, <1>4 DEF Inner
  <2> QED
    BY <2>2, <2>7, <2>8
<1>7. \A x \in Part(f, "Exit") \cup Part(f, "Enter") : ~Inner(g, R, x)
  BY <1>4 DEF Inner
<1> QED
  BY <1>2, <1>3, <1>4, <1>5, <1>6, <1>7

LEMMA InPart ==
  ASSUME TypeInv, NEW v \in Nodes
  PROVE  /\ v \in Part(Lp(v), Kind(v))
         /\ Inner(g, R, v) <=> Lp(v) # -1 /\ Kind(v) \notin {"Enter", "Exit"}
BY DEF Part, PartOf, Lp, Kind, Nodes, Inner, NodesOf

LEMMA LoopOrder ==
  ASSUME TypeInv, Reads(g, R), NEW u \in Nodes, NEW v \in Nodes, Lp(u) = Lp(v), Lp(u) # -1,
         Stage(Kind(u)) < Stage(Kind(v))
  PROVE  Bf(u, v)
BY Readable DEF Structured, GoodLoops, Lp, Bf, Kind, Nodes

LEMMA LoopClosed ==
  ASSUME TypeInv, Reads(g, R), NEW u \in Nodes, NEW w \in Nodes, NEW v \in Nodes,
         Lp(u) = Lp(v), Lp(u) # -1, Lp(w) # Lp(u), Bf(u, w), Bf(w, v)
  PROVE  /\ Lp(w) = -1 /\ Kind(w) # "Merge"
         /\ \A m \in Part(Lp(u), "Merge") : Bf(w, m)
<1>1. Lp(u) \in Loops(R)
  BY LoopNumbers
<1> QED
  BY <1>1, Readable DEF Structured, GoodLoops, Lp, Bf, Kind, Nodes, Part

\* The parts of a loop in their order.
LEMMA Stages ==
  ASSUME TypeInv, Reads(g, R), NEW f \in Loops(R)
  PROVE  /\ \A e \in Part(f, "Enter") : \A v \in Nodes : Lp(v) = f /\ Kind(v) # "Enter" => Bf(e, v)
         /\ \A m \in Part(f, "Merge") : \A v \in Nodes :
              Lp(v) = f /\ Kind(v) \notin {"Enter", "Merge"} => Bf(m, v)
         /\ \A b \in Part(f, "NextIteration") : \A v \in Nodes :
              Lp(v) = f /\ Kind(v) \notin {"NextIteration", "Exit"} => Bf(v, b)
         /\ \A x \in Part(f, "Exit") : \A v \in Nodes : Lp(v) = f /\ Kind(v) # "Exit" => Bf(v, x)
<1>1. f # -1
  BY LoopNumbers
<1>2. \A k : \A v \in Part(f, k) : v \in Nodes /\ Kind(v) = k /\ Lp(v) = f
  BY Readable DEF Part, PartOf, Lp, Kind
<1>3. /\ \A k : Stage(k) \in {0, 1, 2, 3, 4}
      /\ \A k : k # "Enter" => Stage("Enter") < Stage(k)
      /\ \A k : k \notin {"Enter", "Merge"} => Stage("Merge") < Stage(k)
      /\ \A k : k \notin {"NextIteration", "Exit"} => Stage(k) < Stage("NextIteration")
      /\ \A k : k # "Exit" => Stage(k) < Stage("Exit")
  BY DEF Stage
<1> QED
  BY <1>1, <1>2, <1>3, LoopOrder

LEMMA Heads ==
  ASSUME TypeInv, Reads(g, R), NEW m \in Nodes, IsHead(g, R, m)
  PROVE  /\ m \in Part(Lp(m), "Merge") /\ Lp(m) \in Loops(R)
         /\ \A w \in Part(Lp(m), "Merge") : w # m => Bf(m, w) /\ Bf(Back(g, m), Back(g, w))
         /\ \E i \in DOMAIN g.layers :
              /\ LayersWith(g, m) = {i} /\ i \in Nat \ {0}
              /\ 1 \in DOMAIN g.layers[i] /\ g.layers[i][1] = m
<1>1. IsLoopMerge(g, m) /\ m \in NodesOf(g)
  BY Readable DEF IsHead
<1>2. GoodNode(g, R, m)
  BY <1>1, Readable DEF Structured
<1>3. Lp(m) # -1 /\ Kind(m) = "Merge"
  BY <1>1, <1>2 DEF GoodNode, IsLoopMerge, Lp, Kind
<1>4. m \in Part(Lp(m), "Merge") /\ Lp(m) \in Loops(R)
  BY <1>3, InPart, LoopNumbers
<1>5. \A w \in Part(Lp(m), "Merge") : w # m => Bf(m, w) /\ Bf(Back(g, m), Back(g, w))
  BY DEF IsHead, Part, Lp, Bf
<1>6. PICK i \in DOMAIN g.layers :
        \E j \in DOMAIN g.layers[i] : g.layers[i][j] = m /\ i \in LayersWith(g, m)
  BY Places
<1>7. PICK j \in DOMAIN g.layers[i] : g.layers[i][j] = m
  BY <1>6
<1>8. j = 1
  BY <1>7 DEF IsHead
<1>9. \A k \in LayersWith(g, m) : k = i
  BY <1>7, OnePlace DEF LayersWith
<1>10. i \in Nat \ {0}
  BY <1>7, PlaceTypes
<1> QED
  BY <1>4, <1>5, <1>6, <1>7, <1>8, <1>9, <1>10
---------------------------------------------------------------------------
(* What the equations say *)

\* The iterations in which v is visited; 0 outside the loops.
Due(v, k)   == IF Inner(g, R, v) THEN k \in Steps(Lp(v)) ELSE k = 0
AllIn(v, k) == \A i \in DOMAIN In(v) : Al(In(v)[i], k)

LEMMA SolvedAt ==
  ASSUME TypeInv, Reads(g, R), NEW v \in Nodes, NEW k, Due(v, k)
  PROVE  NodeSolved(g, R, Den, v, k)
BY Readable DEF Solves, Due, Steps, Lp

LEMMA AllInAlive ==
  ASSUME TypeInv, Reads(g, R), NEW v \in Nodes, NEW k
  PROVE  /\ AllAlive(g, R, Den, v, k) <=> AllIn(v, k)
         /\ Values1(g, R, Den, v, k) = [i \in DOMAIN In(v) |-> Vl(In(v)[i], k)]
BY DEF AllAlive, AllIn, Values1, In, Al, Vl

LEMMA OpAt ==
  ASSUME TypeInv, Reads(g, R), NEW v \in Nodes, NEW k, Due(v, k), Kind(v) = "Op"
  PROVE  /\ Al(Out(v), k) <=> AllIn(v, k)
         /\ AllIn(v, k) => Vl(Out(v), k) = Apply(g.op[v], [i \in DOMAIN In(v) |-> Vl(In(v)[i], k)])
<1>1. OpSolved(g, R, Den, v, k)
  BY SolvedAt DEF NodeSolved, Kind
<1> QED
  BY <1>1, AllInAlive DEF OpSolved, Yields, Al, Vl, Out

LEMMA PassAt ==
  ASSUME TypeInv, Reads(g, R), NEW v \in Nodes, NEW k, Due(v, k),
         Kind(v) \in {"LoopCond", "NextIteration"}
  PROVE  /\ Al(Out(v), k) <=> AllIn(v, k)
         /\ AllIn(v, k) => Vl(Out(v), k) = Vl(In(v)[1], k)
<1>1. PassSolved(g, R, Den, v, k)
  BY SolvedAt DEF NodeSolved, Kind
<1> QED
  BY <1>1, AllInAlive DEF PassSolved, Yields, Al, Vl, Out, In

LEMMA BackAt ==
  ASSUME TypeInv, Reads(g, R), NEW v \in Nodes, NEW k, Due(v, k), Kind(v) = "NextIteration"
  PROVE  Al(Out(v), k) <=> k + 1 \in Steps(Lp(v))
<1>1. GoesBack(g, R, Den, v, k)
  BY SolvedAt DEF NodeSolved, Kind
<1> QED
  BY <1>1 DEF GoesBack, Al, Out, Steps, Lp

LEMMA SwitchAt ==
  ASSUME TypeInv, Reads(g, R), NEW v \in Nodes, NEW k, Due(v, k), Kind(v) = "Switch",
         NEW b \in {0, 1}
  PROVE  /\ Al(<<v, b>>, k) <=> AllIn(v, k) /\ (Vl(In(v)[2], k) = 0 <=> b = 0)
         /\ Al(<<v, b>>, k) => Vl(<<v, b>>, k) = Vl(In(v)[1], k)
<1>1. SwitchSolved(g, R, Den, v, k)
  BY SolvedAt DEF NodeSolved, Kind
<1> QED
  BY <1>1, AllInAlive DEF SwitchSolved, Al, Vl, In

LEMMA MergeAt ==
  ASSUME TypeInv, Reads(g, R), NEW v \in Nodes, Due(v, 0), Kind(v) = "Merge", ~IsLoopMerge(g, v)
  PROVE  /\ Al(Out(v), 0) <=> Al(In(v)[1], 0) \/ Al(In(v)[2], 0)
         /\ Al(Out(v), 0) => Vl(Out(v), 0) =
              IF Al(In(v)[1], 0) THEN Vl(In(v)[1], 0) ELSE Vl(In(v)[2], 0)
<1>1. MergeSolved(g, R, Den, v)
  BY SolvedAt DEF NodeSolved, Kind
<1> QED
  BY <1>1 DEF MergeSolved, Yields, Al, Vl, In, Out

LEMMA VariableAt ==
  ASSUME TypeInv, Reads(g, R), NEW v \in Nodes, NEW k, Due(v, k), IsLoopMerge(g, v)
  PROVE  /\ Al(Out(v), k)
         /\ Vl(Out(v), k) = IF k = 0 THEN Vl(In(v)[1], 0) ELSE Vl(In(v)[2], k - 1)
<1>1. VariableSolved(g, R, Den, v, k)
  BY SolvedAt DEF NodeSolved, IsLoopMerge
<1> QED
  BY <1>1 DEF VariableSolved, Yields, Al, Vl, In, Out

LEMMA EnterAt1 ==
  ASSUME TypeInv, Reads(g, R), NEW v \in Nodes, Kind(v) = "Enter"
  PROVE  AllIn(v, 0) /\ Al(Out(v), 0) /\ Vl(Out(v), 0) = Vl(In(v)[1], 0)
<1>1. ~Inner(g, R, v)
  BY InPart
<1>2. EnterSolved(g, R, Den, v)
  BY <1>1, SolvedAt DEF NodeSolved, Kind, Due
<1> QED
  BY <1>2, AllInAlive DEF EnterSolved, Yields, Al, Vl, In, Out

LEMMA ExitAt ==
  ASSUME TypeInv, Reads(g, R), NEW v \in Nodes, Kind(v) = "Exit",
         NEW k \in Steps(Lp(v)), k + 1 \notin Steps(Lp(v))
  PROVE  /\ Al(In(v)[1], k) /\ Inner(g, R, In(v)[1][1])
         /\ Al(Out(v), 0) /\ Vl(Out(v), 0) = Vl(In(v)[1], k)
         /\ \A b \in Part(Lp(v), "Op") :
              Out(b) \in R.src[In(v)[1]] /\ Bf(In(v)[1][1], b) => ~Al(Out(b), k)
<1>1. ~Inner(g, R, v)
  BY InPart
<1>2. ExitSolved(g, R, Den, v)
  BY <1>1, SolvedAt DEF NodeSolved, Kind, Due
<1>3. GoodNode(g, R, v) /\ v \in NodesOf(g)
  BY Readable DEF Structured
<1>4. Inner(g, R, In(v)[1][1])
  BY <1>3 DEF GoodNode, Kind, In
<1>5. Lp(v) # -1 /\ Lp(v) \in Loops(R)
  <2>1. Lp(v) # -1
    BY <1>3 DEF GoodNode, Kind, Lp
  <2> QED
    BY <2>1, LoopNumbers
<1>6. Den.trips \in [Loops(R) -> Nat \cup {-1}]
  BY Readable DEF Solves
<1>7. Den.trips[Lp(v)] \in Nat \cup {-1}
  BY <1>5, <1>6
<1>8. Den.trips[Lp(v)] # -1 /\ k = Den.trips[Lp(v)]
  BY <1>7 DEF Steps, Iterations
<1> QED
  BY <1>2, <1>4, <1>8 DEF ExitSolved, Yields, Al, Vl, In, Out, Part, Bf, Lp

LEMMA StepNumbers ==
  ASSUME TypeInv, Reads(g, R), NEW f \in Loops(R)
  PROVE  0 \in Steps(f) /\ Steps(f) \subseteq Nat
<1>1. Den.trips \in [Loops(R) -> Nat \cup {-1}]
  BY Readable DEF Solves
<1>2. Den.trips[f] \in Nat \cup {-1}
  BY <1>1
<1> QED
  BY <1>2 DEF Steps, Iterations

\* Outside the loops nothing depends on an iteration.
LEMMA OutsideAlike ==
  ASSUME NEW a, ~Inner(g, R, a[1]), NEW k
  PROVE  (Al(a, k) <=> Al(a, 0)) /\ Vl(a, k) = Vl(a, 0)
BY DEF Al, Vl, Alive, Value

LEMMA FedAlive ==
  ASSUME TypeInv, Reads(g, R), NEW x \in Ext, NEW k
  PROVE  Al(<<x, 0>>, k) /\ Vl(<<x, 0>>, k) = feed[x]
<1>1. ~Inner(g, R, x)
  BY Readable DEF Inner
<1>2. Al(<<x, 0>>, 0) /\ Vl(<<x, 0>>, 0) = feed[x]
  BY Readable DEF Solves, Al, Vl
<1> QED
  BY <1>1, <1>2, OutsideAlike

---------------------------------------------------------------------------
(* Where the loops are *)

\* At a part of a loop that is neither Enter nor Exit the loop is in an iteration.
LEMMA LoopRuns ==
  ASSUME TypeInv, Reads(g, R), WalkInv, NEW v, At(v), Inner(g, R, v)
  PROVE  Lp(v) \in Loops(R) /\ \E k \in Steps(Lp(v)) : Turning(Lp(v), k)
<1> DEFINE f == Lp(v)
<1>1. v \in Nodes /\ ~Done(v)
  BY HereFacts
<1>2. f # -1 /\ Kind(v) \notin {"Enter", "Exit"} /\ f \in Loops(R)
  BY <1>1, InPart, LoopNumbers
<1>3. LoopInv(f)
  BY <1>2 DEF WalkInv
<1>4. ~Left(f)
  <2>1. PICK x \in Part(f, "Exit") : x \in Nodes /\ Bf(v, x)
    BY <1>1, <1>2, LoopParts, Stages
  <2>2. ~Done(x)
    BY <2>1, DoneBefore, BeforeAsymmetric
  <2> QED
    BY <2>1, <2>2 DEF Left
<1>5. ASSUME ~Begun(f), Quiet(f) PROVE Turning(f, 0)
  <2>1. \A u \in Nodes : Lp(u) = f /\ Kind(u) # "Enter" => ~Done(u)
    <3>1. SUFFICES ASSUME NEW u \in Nodes, Lp(u) = f, Kind(u) # "Enter", Done(u) PROVE FALSE
      OBVIOUS
    <3>2. Kind(u) # "Merge"
      BY <1>5, <3>1, InPart DEF Begun
    <3>3. PICK m \in Part(f, "Merge") : TRUE
      BY <1>2, LoopParts
    <3>4. Bf(m, u)
      BY <1>2, <3>1, <3>2, <3>3, Stages
    <3>5. Done(m)
      BY <3>1, <3>4, DoneDown
    <3> QED
      BY <1>5, <3>3, <3>5 DEF Begun
  <2>2. Kind(v) = "Merge"
    <3>1. SUFFICES ASSUME Kind(v) # "Merge" PROVE FALSE
      OBVIOUS
    <3>2. PICK m \in Part(f, "Merge") : m \in Nodes
      BY <1>2, LoopParts
    <3>3. Bf(m, v)
      BY <1>1, <1>2, <3>1, <3>2, Stages
    <3>4. Done(m)
      BY <3>2, <3>3, DoneBefore
    <3> QED
      BY <1>5, <3>2, <3>4 DEF Begun
  <2>3. v \in Part(f, "Merge")
    BY <1>1, <2>2, InPart
  <2>4. ASSUME NEW m \in Part(f, "Merge") 
        PROVE  MergeReady(m, 0) /\ (\A u \in Nodes : IsHead(g, R, m) /\ Bf(u, m) => Done(u))
    <3>1. m \in Nodes /\ Lp(m) = f /\ Kind(m) = "Merge" /\ Back(g, m) \in Part(f, "NextIteration")
      BY <1>2, LoopParts
    <3>2. ~Done(m)
      BY <2>1, <3>1
    <3>3. MergeReady(m, 0)
      BY <1>5, <3>1, <3>2 DEF MergeReady, Quiet
    <3>4. ASSUME NEW u \in Nodes, IsHead(g, R, m), Bf(u, m) PROVE Done(u)
      <4>1. m = v
        <5>1. m # v => Bf(m, v)
          BY <2>3, <3>1, <3>4, Heads
        <5> QED
          BY <3>1, <3>2, <5>1, DoneBefore
      <4> QED
        BY <3>4, <4>1, DoneBefore
    <3> QED
      BY <3>3, <3>4
  <2>5. \A b \in Part(f, "NextIteration") : ~Done(b)
    BY <1>2, <2>1, LoopParts
  <2>6. \A x \in Part(f, "Exit") : ~Done(x)
    BY <1>2, <2>1, LoopParts
  <2>7. \A u \in Nodes : Lp(u) = f /\ Inner(g, R, u) => ~Done(u)
    BY <2>1, InPart
  <2>8. ~Ending(f) /\ ~Leaving(f) /\ ~flow.frame[f].rewindPlanned
    BY <1>5, <2>5, <2>6 DEF Ending, Leaving, Quiet
  <2> QED
    BY <1>4, <1>5, <2>4, <2>5, <2>7, <2>8 DEF Turning
<1>6. 0 \in Steps(f)
  BY <1>2, StepNumbers
<1> QED
  BY <1>2, <1>3, <1>4, <1>5, <1>6 DEF LoopInv

\* At an Exit the loop is in an iteration.
LEMMA ExitTurns ==
  ASSUME TypeInv, Reads(g, R), WalkInv, NEW v, At(v), Kind(v) = "Exit"
  PROVE  Lp(v) \in Loops(R) /\ \E k \in Steps(Lp(v)) : Turning(Lp(v), k)
<1>1. v \in Nodes /\ ~Done(v)
  BY HereFacts
<1>2. Lp(v) # -1
  <2>1. GoodNode(g, R, v)
    BY <1>1, Readable DEF Structured
  <2> QED
    BY <1>1, <2>1 DEF GoodNode, Kind, Lp
<1>3. Lp(v) \in Loops(R)
  BY <1>1, <1>2, LoopNumbers
<1>4. v \in Part(Lp(v), "Exit")
  BY <1>1, InPart
<1>5. ~Left(Lp(v))
  BY <1>1, <1>4 DEF Left
<1>6. Begun(Lp(v))
  <2>1. PICK m \in Part(Lp(v), "Merge") : m \in Nodes
    BY <1>3, LoopParts
  <2>2. Bf(m, v)
    BY <1>1, <1>3, <2>1, Stages
  <2> QED
    BY <2>1, <2>2, DoneBefore DEF Begun
<1>7. LoopInv(Lp(v))
  BY <1>3 DEF WalkInv
<1> QED
  BY <1>3, <1>5, <1>6, <1>7 DEF LoopInv

\* A loop that v is not in is not on its way: it has not begun, or has been left.
LEMMA OthersQuiet ==
  ASSUME TypeInv, Reads(g, R), WalkInv, NEW v, At(v), NEW f \in Loops(R),
         Lp(v) # f \/ Kind(v) = "Enter"
  PROVE  (~Begun(f) \/ Left(f)) /\ Quiet(f)
<1>1. v \in Nodes /\ ~Done(v)
  BY HereFacts
<1>2. ASSUME NEW k \in Steps(f), Turning(f, k) PROVE FALSE
  <2>1. PICK m \in Part(f, "Merge") : IsHead(g, R, m)
    BY LoopParts
  <2>2. m \in Nodes /\ Lp(m) = f /\ f # -1 /\ Kind(m) = "Merge"
    BY <2>1, LoopParts, LoopNumbers
  <2>3. \A u \in Nodes : Bf(u, m) => Done(u)
    BY <1>2, <2>1 DEF Turning
  <2>4. PICK x \in Part(f, "Exit") : ~Done(x)
    BY <1>2 DEF Turning, Left
  <2>5. x \in Nodes /\ Lp(x) = f /\ Kind(x) = "Exit"
    BY <2>4, LoopParts
  <2>6. ~Bf(v, m)
    BY <1>1, <2>3
  <2>7. CASE Lp(v) # f
    <3>1. Bf(m, v) /\ Bf(v, x)
      <4>1. v # m /\ v # x
        BY <2>2, <2>5, <2>7
      <4> QED
        BY <1>1, <2>2, <2>4, <2>5, <2>6, <4>1, BeforeTotal, UndoneAfter
    <3>2. \A w \in Part(f, "Merge") : Bf(v, w)
      BY <1>1, <2>2, <2>5, <2>7, <3>1, LoopClosed
    <3> QED
      BY <2>1, <2>6, <3>2
  <2>8. CASE Lp(v) = f /\ Kind(v) = "Enter"
    <3>1. v \in Part(f, "Enter")
      BY <1>1, <2>8, InPart
    <3>2. Bf(v, m)
      BY <2>2, <3>1, Stages
    <3> QED
      BY <2>6, <3>2
  <2> QED
    BY <2>7, <2>8
<1>3. LoopInv(f)
  BY DEF WalkInv
<1> QED
  BY <1>2, <1>3 DEF LoopInv
---------------------------------------------------------------------------
(* What a node finds *)

LEMMA OuterFresh ==
  ASSUME TypeInv, Reads(g, R), NEW a \in Addresses, ~Inner(g, R, a[1]), NEW k
  PROVE  Fresh(a, k)
<1> SUFFICES ASSUME NEW b \in Nodes, Kind(b) = "Op", Bf(a[1], b), Out(b) \in R.src[a]
             PROVE  FALSE
  BY DEF Fresh
<1>1. /\ Settled(g, R) /\ b \in NodesOf(g) /\ g.kind[b] = "Op"
      /\ <<b, 0>> \in R.src[a] /\ a \in AddressesOf(g)
  BY Readable DEF Structured, Kind, Out
<1>2. b = a[1] \/ Bf(b, a[1])
  BY <1>1 DEF Settled, Bf
<1> QED
  BY <1>2, BeforeAsymmetric

\* Loops' parts have nothing between them, once begun.
LEMMA BetweenParts ==
  ASSUME TypeInv, Reads(g, R), NEW u \in Nodes, NEW v \in Nodes, NEW w \in Nodes,
         Lp(u) = Lp(v), Lp(u) # -1, Kind(u) # "Enter", Bf(u, w), Bf(w, v)
  PROVE  Lp(w) = Lp(u)
<1> SUFFICES ASSUME Lp(w) # Lp(u) PROVE FALSE
  OBVIOUS
<1>1. Lp(u) \in Loops(R)
  BY LoopNumbers
<1>2. PICK m \in Part(Lp(u), "Merge") : m \in Nodes
  BY <1>1, LoopParts
<1>3. \A q \in Part(Lp(u), "Merge") : Bf(w, q)
  BY LoopClosed
<1>4. CASE Kind(u) = "Merge"
  <2>1. u \in Part(Lp(u), "Merge")
    BY <1>4, InPart
  <2> QED
    BY <1>3, <2>1, BeforeAsymmetric
<1>5. CASE Kind(u) # "Merge"
  <2>1. Bf(m, u)
    BY <1>1, <1>2, <1>5, Stages
  <2> QED
    BY <1>2, <1>3, <2>1, BeforeTransitive, BeforeAsymmetric
<1> QED
  BY <1>4, <1>5

\* An input that is alive has an array with its value; one that is not is disabled, or
\* has none.
Finds(a, k) ==
  /\ Al(a, k) => ~Off(a) /\ slot[a] # Nil /\ content[slot[a]] = Vl(a, k)
  /\ ~Al(a, k) => Off(a) \/ (slot[a] = Nil /\ ~Inner(g, R, a[1]))

LEMMA FindsFed ==
  ASSUME TypeInv, Reads(g, R), ArrayInv, NEW x \in Ext, NEW k
  PROVE  Finds(<<x, 0>>, k) /\ ~Off(<<x, 0>>)
<1> DEFINE a == <<x, 0>>
<1>1. Al(a, k) /\ Vl(a, k) = feed[x]
  BY FedAlive
<1>2. slot[a] = a /\ content[a] = feed[x]
  BY DEF ArrayInv
<1>3. x \notin Nodes /\ x \notin flow.inactive
  BY Readable, FlowFields DEF TypeInv
<1>4. ~Off(a)
  BY <1>3 DEF Off
<1>5. a # Nil
  BY DEF Nil
<1> QED
  BY <1>1, <1>2, <1>4, <1>5 DEF Finds

LEMMA FindsInput ==
  ASSUME TypeInv, Reads(g, R), ArrayInv, WalkInv, NEW v, At(v), Kind(v) # "Exit",
         NEW k, Due(v, k), Inner(g, R, v) => Turning(Lp(v), k),
         NEW i \in DOMAIN In(v), ~(i = 2 /\ IsLoopMerge(g, v))
  PROVE  Finds(In(v)[i], k)
<1> DEFINE a == In(v)[i]
<1>1. v \in Nodes /\ ~Done(v)
  BY HereFacts
<1>2. /\ a \in Addresses
      /\ \/ a[1] \in Ext /\ a = <<a[1], 0>> /\ a[1] \notin Nodes
         \/ a[1] \in Nodes /\ a[1] \notin Ext /\ a \in OutputsOf(g, a[1]) /\ Bf(a[1], v)
      /\ Inner(g, R, a[1]) => Lp(v) = Lp(a[1])
  BY <1>1, InputFrom
<1> HIDE DEF a
<1>3. ASSUME a[1] \in Ext PROVE Finds(a, k)
  BY <1>2, <1>3, FindsFed
<1>4. ASSUME a[1] \in Nodes, ~Inner(g, R, a[1]) PROVE Finds(a, k)
  <2>1. Done(a[1]) /\ a \in OutputsOf(g, a[1])
    BY <1>2, <1>4, DoneBefore, Readable
  <2>2. Good(a, 0)
    BY <1>4, <2>1 DEF WalkInv, OuterInv, Passed
  <2>3. Fresh(a, 0)
    BY <1>2, <1>4, OuterFresh
  <2>4. (Al(a, k) <=> Al(a, 0)) /\ Vl(a, k) = Vl(a, 0)
    BY <1>4, OutsideAlike
  <2> QED
    BY <2>2, <2>3, <2>4 DEF Good, Finds
<1>5. ASSUME a[1] \in Nodes, Inner(g, R, a[1]) PROVE Finds(a, k)
  <2>1. Lp(v) = Lp(a[1]) /\ Bf(a[1], v) /\ a \in OutputsOf(g, a[1]) /\ Lp(v) # -1
    BY <1>2, <1>5, InPart, Readable
  <2>2. Lp(v) \in Loops(R)
    BY <1>1, <2>1, LoopNumbers
  <2>3. Kind(v) # "Enter"
    <3>1. SUFFICES ASSUME Kind(v) = "Enter" PROVE FALSE
      OBVIOUS
    <3>2. v \in Part(Lp(v), "Enter") /\ Kind(a[1]) # "Enter"
      BY <1>1, <1>5, <3>1, InPart
    <3>3. Bf(v, a[1])
      BY <1>5, <2>1, <2>2, <3>2, Stages
    <3> QED
      BY <2>1, <3>3, BeforeAsymmetric
  <2>4. Turning(Lp(v), k)
    BY <1>1, <2>1, <2>3, InPart
  <2>5. Done(a[1])
    BY <1>5, <2>1, DoneBefore
  <2>6. Good(a, k)
    BY <1>5, <2>1, <2>4, <2>5 DEF Turning, Passed
  <2>7. Fresh(a, k)
    <3> SUFFICES ASSUME NEW b \in Nodes, Kind(b) = "Op", Done(b), Bf(a[1], b), Out(b) \in R.src[a]
                 PROVE  FALSE
      BY DEF Fresh
    <3>1. Bf(b, v)
      BY DoneBefore
    <3>2. Settled(g, R) /\ v \in NodesOf(g) /\ b \in NodesOf(g) /\ g.kind[b] = "Op"
      BY <1>1, Readable DEF Structured, Kind
    <3>3. i \in DOMAIN g.in[v] /\ a = g.in[v][i]
      BY DEF In, a
    <3>4. <<b, 0>> \in R.src[g.in[v][i]] /\ Before(g, g.in[v][i][1], b) /\ Before(g, b, v)
      BY <3>1, <3>3 DEF Bf, Out
    <3>5. g.kind[v] = "Exit"
      BY <3>2, <3>3, <3>4 DEF Settled
    <3> QED
      BY <1>1, <3>5 DEF Kind
  <2> QED
    BY <2>6, <2>7 DEF Good, Finds
<1> QED
  BY <1>2, <1>3, <1>4, <1>5 DEF a

LEMMA FindsExit ==
  ASSUME TypeInv, Reads(g, R), NEW v, At(v), Kind(v) = "Exit", Lp(v) \in Loops(R),
         NEW k \in Steps(Lp(v)), k + 1 \notin Steps(Lp(v)), Turning(Lp(v), k)
  PROVE  /\ slot[In(v)[1]] # Nil /\ content[slot[In(v)[1]]] = Vl(In(v)[1], k)
<1> DEFINE a == In(v)[1]
<1>1. v \in Nodes /\ ~Done(v) /\ 1 \in DOMAIN In(v) /\ ~IsLoopMerge(g, v)
  BY HereFacts, Inputs DEF IsLoopMerge
<1>2. /\ Al(a, k) /\ Inner(g, R, a[1])
      /\ \A b \in Part(Lp(v), "Op") : Out(b) \in R.src[a] /\ Bf(a[1], b) => ~Al(Out(b), k)
  BY <1>1, ExitAt
<1>3. a[1] \in Nodes /\ Lp(a[1]) = Lp(v) /\ Lp(v) # -1 /\ Kind(a[1]) # "Enter"
  BY <1>1, <1>2, InputFrom, InPart, Readable DEF Inner
<1>4. a \in OutputsOf(g, a[1]) /\ Bf(a[1], v)
  BY <1>1, <1>3, InputFrom
<1>5. Done(a[1])
  BY <1>3, <1>4, DoneBefore
<1>6. Good(a, k)
  BY <1>2, <1>3, <1>4, <1>5 DEF Turning, Passed
<1>7. Fresh(a, k)
  <2> SUFFICES ASSUME NEW b \in Nodes, Kind(b) = "Op", Done(b), Bf(a[1], b), Al(Out(b), k),
                      Out(b) \in R.src[a]
               PROVE  FALSE
    BY DEF Fresh
  <2>1. Bf(b, v)
    BY DoneBefore
  <2>2. Lp(b) = Lp(v)
    BY <1>1, <1>3, <2>1, BetweenParts
  <2>3. b \in Part(Lp(v), "Op")
    BY <2>2, InPart
  <2> QED
    BY <1>2, <2>3
<1> QED
  BY <1>2, <1>6, <1>7 DEF Good

\* What the walk takes to be disabled.
LEMMA BlockedOff ==
  ASSUME TypeInv, Reads(g, R), NEW v \in Nodes, NEW i \in DOMAIN In(v)
  PROVE  Blocked(v, In(v)[i]) <=> Off(In(v)[i])
<1> DEFINE a == In(v)[i]
<1>1. Flow1(v).inactive = flow.inactive /\ Flow1(v).branch = flow.branch
  BY HeadFacts DEF Same
<1>2. \/ a[1] \in Ext /\ a[1] \notin Nodes
      \/ a[1] \in Nodes /\ a[1] \notin Ext
  BY InputFrom
<1>3. flow.inactive \subseteq Nodes
  BY FlowFields DEF TypeInv
<1> QED
  BY <1>1, <1>2, <1>3 DEF Blocked, Off, IsNodeActive

\* A node whose inputs are all alive is not skipped, and finds their values; one that is
\* skipped, or finds no array, has an input that is not.
LEMMA Visits ==
  ASSUME TypeInv, Reads(g, R), ArrayInv, WalkInv, NEW v, At(v), Kind(v) \notin {"Exit", "Merge"},
         NEW k, Due(v, k), Inner(g, R, v) => Turning(Lp(v), k)
  PROVE  /\ ShouldSkip(v) => ~AllIn(v, k)
         /\ ~ShouldSkip(v) /\ (\A i \in DOMAIN In(v) : slot[In(v)[i]] # Nil) => AllIn(v, k)
         /\ AllIn(v, k) => \A i \in DOMAIN In(v) :
              slot[In(v)[i]] # Nil /\ content[slot[In(v)[i]]] = Vl(In(v)[i], k)
<1>1. v \in Nodes /\ ~IsLoopMerge(g, v)
  BY HereFacts DEF IsLoopMerge, Kind, Nodes, NodesOf
<1>2. ShouldSkip(v) <=> \E i \in DOMAIN In(v) : Off(In(v)[i])
  BY <1>1, BlockedOff DEF ShouldSkip
<1>3. \A i \in DOMAIN In(v) : Finds(In(v)[i], k)
  BY <1>1, FindsInput
<1> QED
  BY <1>2, <1>3 DEF Finds, AllIn

---------------------------------------------------------------------------
(* The frames *)

\* In a loop its frame is the open one, and only an Exit leaves it.
LEMMA InsideFrame ==
  ASSUME TypeInv, Reads(g, R), WalkInv, NEW v, At(v), Lp(v) \in Loops(R), Kind(v) # "Enter"
  PROVE  /\ frames = <<Lp(v)>> /\ (leftFrame => Kind(v) = "Exit")
         /\ leftFrame <=> Leaving(Lp(v))
         /\ Frames1(v) = <<Lp(v)>> /\ Last(Frames1(v)) = Lp(v)
         /\ Flow1(v) = flow /\ Left1(v) = leftFrame
         /\ \A c \in Loops(R) \ {Lp(v)} : Shut(c)
         /\ Entered(Lp(v)) /\ ~Left(Lp(v))
<1> DEFINE f == Lp(v)
<1>1. v \in Nodes /\ ~Done(v)
  BY HereFacts
<1>2. Entered(f)
  <2>1. PICK m \in Part(f, "Merge") : TRUE
    BY LoopParts
  <2>2. PICK e \in Part(f, "Enter") : e \in Nodes
    BY <2>1, LoopParts
  <2>3. Bf(e, v)
    BY <1>1, <2>2, Stages
  <2> QED
    BY <2>2, <2>3, DoneBefore DEF Entered
<1>3. ~Left(f)
  <2>1. CASE Kind(v) = "Exit"
    BY <1>1, <2>1, InPart DEF Left
  <2>2. CASE Kind(v) # "Exit"
    <3>1. PICK x \in Part(f, "Exit") : x \in Nodes
      BY LoopParts
    <3>2. Bf(v, x)
      BY <1>1, <2>2, <3>1, Stages
    <3>3. ~Done(x)
      BY <3>1, <3>2, DoneBefore, BeforeAsymmetric
    <3> QED
      BY <3>1, <3>3 DEF Left
  <2> QED
    BY <2>1, <2>2
<1>4. ~Shut(f)
  BY <1>2, <1>3 DEF Shut
<1>5. /\ frames = <<f>> /\ (leftFrame <=> Leaving(f))
      /\ \A c \in Loops(R) \ {f} : Shut(c)
  BY <1>4 DEF WalkInv, OpenInv
<1>6. leftFrame => Kind(v) = "Exit"
  <2>1. SUFFICES ASSUME leftFrame, Kind(v) # "Exit" PROVE FALSE
    OBVIOUS
  <2>2. PICK x \in Part(f, "Exit") : Done(x) /\ x \in Nodes
    BY <1>5, <2>1, LoopParts DEF Leaving
  <2>3. Bf(v, x)
    BY <1>1, <2>1, <2>2, Stages
  <2> QED
    BY <2>2, <2>3, DoneBefore, BeforeAsymmetric
<1>7. ~Leaves(v)
  BY <1>6 DEF Leaves
<1>8. Last(<<f>>) = f
  BY DEF Last
<1> QED
  BY <1>2, <1>3, <1>5, <1>6, <1>7, <1>8 DEF Frames1, Flow1, Left1

\* Outside the loops either no frame is open, or that of a loop that has only been entered.
LEMMA OutsideFrame ==
  ASSUME TypeInv, Reads(g, R), WalkInv, NEW v, At(v), Lp(v) \notin Loops(R) \/ Kind(v) = "Enter"
  PROVE  /\ Left1(v) = FALSE
         /\ \/ Frames1(v) = <<>> /\ \A c \in Loops(R) : Shut(c)
            \/ \E f \in Loops(R) :
                 /\ Frames1(v) = <<f>> /\ Flow1(v) = flow /\ Entered(f) /\ ~Leaving(f)
                 /\ \A c \in Loops(R) \ {f} : Shut(c)
                 /\ Kind(v) = "Enter" => Lp(v) = f
<1>1. v \in Nodes /\ ~Done(v)
  BY HereFacts
<1>2. Kind(v) # "Exit"
  <2>1. SUFFICES ASSUME Kind(v) = "Exit" PROVE FALSE
    OBVIOUS
  <2> QED
    BY <2>1, ExitTurns
<1>3. CASE frames = <<>> /\ ~leftFrame /\ \A c \in Loops(R) : Shut(c)
  BY <1>3 DEF Leaves, Frames1, Left1
<1>4. ASSUME NEW f \in Loops(R), frames = <<f>>, Entered(f), leftFrame <=> Leaving(f),
             \A c \in Loops(R) \ {f} : Shut(c), leftFrame
      PROVE  Left1(v) = FALSE /\ Frames1(v) = <<>> /\ \A c \in Loops(R) : Shut(c)
  <2>1. Leaves(v)
    BY <1>2, <1>4 DEF Leaves
  <2>2. Front(<<f>>) = <<>>
    BY DEF Front
  <2>3. Left(f)
    <3>1. SUFFICES ASSUME NEW y \in Part(f, "Exit"), ~Done(y) PROVE FALSE
      BY DEF Left
    <3>2. y \in Nodes /\ Lp(y) = f /\ Kind(y) = "Exit" /\ f # -1
      BY LoopParts, LoopNumbers
    <3>3. PICK x \in Part(f, "Exit") : Done(x)
      BY <1>4 DEF Leaving
    <3>4. x \in Nodes /\ Lp(x) = f /\ Kind(x) = "Exit"
      BY LoopParts
    <3>5. Bf(x, v) /\ Bf(v, y)
      BY <1>2, <3>1, <3>2, <3>3, <3>4, DoneBefore, UndoneAfter
    <3>6. Lp(v) = f
      BY <1>1, <3>2, <3>4, <3>5, BetweenParts
    <3>7. Bf(v, x)
      BY <1>1, <1>2, <3>3, <3>6, Stages
    <3> QED
      BY <3>5, <3>7, BeforeAsymmetric
  <2> QED
    BY <1>4, <2>1, <2>2, <2>3 DEF Left1, Frames1, Shut
<1>5. ASSUME NEW f \in Loops(R), frames = <<f>>, Entered(f), leftFrame <=> Leaving(f),
             \A c \in Loops(R) \ {f} : Shut(c), ~leftFrame
      PROVE  /\ Left1(v) = FALSE /\ Frames1(v) = <<f>> /\ Flow1(v) = flow /\ ~Leaving(f)
             /\ Kind(v) = "Enter" => Lp(v) = f
  <2>1. ~Leaves(v)
    BY <1>5 DEF Leaves
  <2>2. ASSUME Kind(v) = "Enter", Lp(v) # f PROVE FALSE
    <3>1. PICK e \in Part(f, "Enter") : Done(e)
      BY <1>5 DEF Entered
    <3>2. PICK x \in Part(f, "Exit") : ~Done(x)
      <4>1. PICK y \in Part(f, "Exit") : TRUE
        BY LoopParts
      <4> QED
        BY <1>5, <4>1 DEF Leaving
    <3>3. e \in Nodes /\ Lp(e) = f /\ x \in Nodes /\ Lp(x) = f /\ Kind(x) = "Exit" /\ f # -1
      BY LoopParts, LoopNumbers
    <3>4. Bf(e, v) /\ Bf(v, x)
      BY <1>2, <3>1, <3>2, <3>3, DoneBefore, UndoneAfter
    <3>5. Lp(v) = -1
      BY <1>1, <2>2, <3>3, <3>4, LoopClosed
    <3>6. GoodNode(g, R, v)
      BY <1>1, Readable DEF Structured
    <3> QED
      BY <1>1, <2>2, <3>5, <3>6 DEF GoodNode, Kind, Lp
  <2> QED
    BY <1>5, <2>1, <2>2 DEF Left1, Frames1, Flow1
<1> QED
  BY <1>3, <1>4, <1>5 DEF WalkInv, OpenInv
---------------------------------------------------------------------------
(* What a visit leaves *)

LEMMA Unmoved ==
  ASSUME g' = g, feed' = feed
  PROVE  /\ R' = R /\ Den' = Den /\ Nodes' = Nodes /\ Ext' = Ext /\ Addresses' = Addresses
         /\ Frames' = Frames /\ (Reads(g, R) => Reads(g, R)')
         /\ \A v : Kind(v)' = Kind(v) /\ In(v)' = In(v) /\ Lp(v)' = Lp(v)
         /\ \A f : Steps(f)' = Steps(f)
         /\ \A f, k : Part(f, k)' = Part(f, k)
         /\ \A u, v : Bf(u, v)' = Bf(u, v)
         /\ \A a, k : Al(a, k)' = Al(a, k) /\ Vl(a, k)' = Vl(a, k)
         /\ \A v, k : Due(v, k)' = Due(v, k)
<1>1. R' = R
  BY DEF R
<1>2. Den' = Den
  BY <1>1 DEF Den
<1>3. Nodes' = Nodes /\ Ext' = Ext
  BY DEF Nodes, Ext
<1>4. Addresses' = Addresses /\ Frames' = Frames
  BY <1>3 DEF Addresses, Frames
<1>5. \A v : Kind(v)' = Kind(v) /\ In(v)' = In(v) /\ Lp(v)' = Lp(v)
  BY <1>1, <1>3 DEF Kind, In, Lp
<1>6. \A f : Steps(f)' = Steps(f)
  BY <1>2 DEF Steps
<1>7. \A f, k : Part(f, k)' = Part(f, k)
  BY <1>1 DEF Part
<1>8. \A u, v : Bf(u, v)' = Bf(u, v)
  BY DEF Bf
<1>9. \A a, k : Al(a, k)' = Al(a, k) /\ Vl(a, k)' = Vl(a, k)
  BY <1>1, <1>2 DEF Al, Vl
<1>10. \A v, k : Due(v, k)' = Due(v, k)
  BY <1>1, <1>5, <1>6 DEF Due
<1> QED
  BY <1>1, <1>2, <1>3, <1>4, <1>5, <1>6, <1>7, <1>8, <1>9, <1>10

\* A visit of v goes on to the next node, and changes the flags, the outputs and the
\* array of v only.
Moves(v) ==
  /\ g' = g /\ feed' = feed /\ runs' = runs /\ status' = status /\ Advance
  /\ \A u \in Nodes \ {v} : u \in flow'.inactive <=> u \in flow.inactive
  /\ \A u \in Nodes \ {v} : flow'.branch[u] = flow.branch[u]
  /\ \A a \in Addresses : a[1] # v => slot'[a] = slot[a]
  /\ \A c \in Addresses : c # Out(v) => content'[c] = content[c]
  /\ Kind(v) # "Op" => content' = content

\* The iteration in which v is visited.
Now(v, k) == Due(v, k) /\ (Inner(g, R, v) => Turning(Lp(v), k))

\* A visit leaves what the equations say of v.
Did(v) ==
  /\ Moves(v) /\ ArrayInv'
  /\ \A k : Now(v, k) =>
       /\ Passed(v, k)'
       /\ \A a \in OutputsOf(g, v) : slot'[a] = slot[a] \/ Al(a, k)
       /\ content' = content \/ Al(Out(v), k)

LEMMA OutputAddress ==
  ASSUME TypeInv, Reads(g, R), NEW v \in Nodes
  PROVE  /\ OutputsOf(g, v) \subseteq Addresses /\ Out(v) \in OutputsOf(g, v)
         /\ <<v, 0>> \in Addresses /\ <<v, 1>> \in Addresses
         /\ \A a \in OutputsOf(g, v) : a[1] = v /\ a[2] \in {0, 1} /\ a = <<v, a[2]>>
         /\ Kind(v) = "Switch" => OutputsOf(g, v) = {<<v, 0>>, <<v, 1>>}
         /\ Kind(v) # "Switch" => OutputsOf(g, v) = {Out(v)}
BY DEF OutputsOf, Addresses, Out, Kind

\* What has been passed stays right while the walk goes on.
LEMMA GoodKept ==
  ASSUME TypeInv, Reads(g, R), ArrayInv, NEW v, At(v), Moves(v),
         NEW u \in Nodes, Done(u), NEW a \in OutputsOf(g, u), NEW k, Good(a, k),
         \/ ~Inner(g, R, u)
         \/ content' = content
         \/ Al(Out(v), k)
  PROVE  Good(a, k)'
<1>1. v \in Nodes /\ ~Done(v) /\ u # v
  BY HereFacts
<1>2. a \in Addresses /\ a[1] = u
  BY OutputAddress
<1>3. /\ R' = R /\ Al(a, k)' = Al(a, k) /\ Vl(a, k)' = Vl(a, k) /\ Kind(u)' = Kind(u)
      /\ Nodes' = Nodes
  BY Unmoved DEF Moves
<1>4. Off(a)' <=> Off(a)
  BY <1>1, <1>2, <1>3 DEF Off, Moves
<1>5. slot'[a] = slot[a]
  BY <1>1, <1>2 DEF Moves
<1>6. \A w \in Nodes : Done(w)' <=> Done(w) \/ w = v
  BY AdvanceDone DEF Moves
<1>7. Fresh(a, k)' => Fresh(a, k)
  <2>1. \A b \in Nodes : Kind(b)' = Kind(b) /\ Bf(u, b)' = Bf(u, b) /\ Al(Out(b), k)' = Al(Out(b), k)
    BY Unmoved DEF Moves
  <2> QED
    BY <1>2, <1>3, <1>6, <2>1 DEF Fresh
<1>8. ASSUME Fresh(a, k)', slot[a] # Nil PROVE content'[slot[a]] = content[slot[a]]
  <2>1. slot[a] \in Addresses /\ slot[a] \in R.src[a]
    BY <1>2, <1>8 DEF ArrayInv
  <2>2. CASE slot[a] # Out(v) \/ content' = content
    BY <2>1, <2>2 DEF Moves
  <2>3. CASE slot[a] = Out(v) /\ content' # content
    <3>1. Kind(v) = "Op" /\ Bf(u, v)
      BY <1>1, <2>3, DoneBefore DEF Moves
    <3>2. CASE ~Inner(g, R, u)
      <4>1. Settled(g, R) /\ g.kind[v] = "Op" /\ a \in AddressesOf(g) /\ <<v, 0>> \in R.src[a]
        BY <1>1, <1>2, <2>1, <2>3, <3>1, Readable DEF Structured, Kind, Out
      <4>2. v = u \/ Bf(v, u)
        BY <1>1, <1>2, <3>2, <4>1, Readable DEF Settled, Bf
      <4> QED
        BY <1>1, <3>1, <4>2, BeforeAsymmetric
    <3>3. CASE Al(Out(v), k)
      <4>1. Kind(v)' = "Op" /\ Done(v)' /\ Bf(u, v)' /\ Al(Out(v), k)' /\ v \in Nodes'
        BY <1>1, <1>6, <3>1, <3>3, Unmoved DEF Moves
      <4>2. Out(v) \notin R'.src[a]
        BY <1>2, <1>8, <4>1 DEF Fresh
      <4> QED
        BY <1>3, <2>1, <2>3, <4>2
    <3> QED
      BY <2>3, <3>2, <3>3
  <2> QED
    BY <2>2, <2>3
<1>9. g' = g
  BY DEF Moves
<1> QED
  BY <1>3, <1>4, <1>5, <1>7, <1>8, <1>9 DEF Good

\* In particular outside the loops.
LEMMA OuterKept ==
  ASSUME TypeInv, Reads(g, R), ArrayInv, WalkInv, NEW v, At(v), Did(v)
  PROVE  OuterInv'
<1>1. v \in Nodes /\ Moves(v)
  BY HereFacts DEF Did
<1>2. /\ R' = R /\ Nodes' = Nodes /\ g' = g /\ \A w \in Nodes : Done(w)' <=> Done(w) \/ w = v
  BY <1>1, AdvanceDone, Unmoved DEF Moves
<1>3. SUFFICES ASSUME NEW w \in Nodes, Done(w)', ~Inner(g, R, w) PROVE Passed(w, 0)'
  BY <1>2 DEF OuterInv
<1>4. CASE w = v
  <2>1. Now(v, 0)
    BY <1>3, <1>4 DEF Now, Due
  <2> QED
    BY <1>4, <2>1 DEF Did
<1>5. CASE w # v
  <2>1. Done(w) /\ Passed(w, 0)
    BY <1>2, <1>3, <1>5 DEF WalkInv, OuterInv
  <2>2. \A a \in OutputsOf(g, w) : Good(a, 0)'
    BY <1>1, <1>3, <2>1, GoodKept DEF Passed
  <2> QED
    BY <1>2, <2>2 DEF Passed
<1> QED
  BY <1>4, <1>5

\* And in the loop of v.
LEMMA InnerKept ==
  ASSUME TypeInv, Reads(g, R), ArrayInv, WalkInv, NEW v, At(v), Did(v), NEW k, Now(v, k),
         Lp(v) # -1
  PROVE  \A w \in Nodes : Lp(w) = Lp(v) /\ Inner(g, R, w) /\ Done(w)' /\ (Done(w) => Passed(w, k)) =>
            Passed(w, k)'
<1>1. v \in Nodes /\ Moves(v)
  BY HereFacts DEF Did
<1>2. /\ R' = R /\ Nodes' = Nodes /\ g' = g /\ \A w \in Nodes : Done(w)' <=> Done(w) \/ w = v
  BY <1>1, AdvanceDone, Unmoved DEF Moves
<1>3. SUFFICES ASSUME NEW w \in Nodes, Done(w)', Done(w) => Passed(w, k) PROVE Passed(w, k)'
  OBVIOUS
<1>4. CASE w = v
  BY <1>4 DEF Did
<1>5. CASE w # v
  <2>1. Done(w) /\ Passed(w, k)
    BY <1>2, <1>3, <1>5
  <2>2. content' = content \/ Al(Out(v), k)
    BY DEF Did
  <2>3. \A a \in OutputsOf(g, w) : Good(a, k)'
    BY <1>1, <2>1, <2>2, GoodKept DEF Passed
  <2> QED
    BY <1>2, <2>3 DEF Passed
<1> QED
  BY <1>4, <1>5

LEMMA FirstKept ==
  ASSUME TypeInv, Reads(g, R), FirstInv, NEW v, At(v), Did(v)
  PROVE  FirstInv'
<1>1. v \in Nodes /\ ~Done(v) /\ Moves(v)
  BY HereFacts DEF Did
<1>2. /\ R' = R /\ Nodes' = Nodes /\ g' = g /\ runs' = runs
      /\ \A w \in Nodes : Done(w)' <=> Done(w) \/ w = v
      /\ \A w : Kind(w)' = Kind(w)
      /\ \A a, k : Al(a, k)' = Al(a, k)
  BY <1>1, AdvanceDone, Unmoved DEF Moves
<1>3. SUFFICES ASSUME NEW m \in Nodes, Kind(m) = "Merge", ~IsLoopMerge(g, m),
                      NEW w \in Nodes, ~Inner(g, R, w), NEW a \in OutputsOf(g, w), slot'[a] # Nil
               PROVE  Done(w)' /\ Al(a, 0)
  BY <1>2, <1>3 DEF FirstInv
<1>4. slot[a] # Nil => Done(w) /\ Al(a, 0)
  BY <1>3 DEF FirstInv
<1>5. CASE w = v
  <2>1. Now(v, 0)
    BY <1>3, <1>5 DEF Now, Due
  <2>2. slot'[a] = slot[a] \/ Al(a, 0)
    BY <1>5, <2>1 DEF Did
  <2> QED
    BY <1>2, <1>3, <1>4, <1>5, <2>2
<1>6. CASE w # v
  <2>1. slot'[a] = slot[a]
    BY <1>1, <1>6, OutputAddress DEF Moves
  <2> QED
    BY <1>2, <1>3, <1>4, <2>1
<1> QED
  BY <1>5, <1>6

\* A variable that takes the array of another.
LEMMA Aliased ==
  ASSUME TypeInv, Reads(g, R), ArrayInv, NEW v \in Nodes, NEW to \in OutputsOf(g, v),
         Kind(v) # "Op", NEW a \in Addresses, R.src[a] \subseteq R.src[to],
         Alias(to, a), content' = content, freed' = {}, g' = g, feed' = feed
  PROVE  /\ ArrayInv'
         /\ slot'[to] = slot[a] /\ \A b \in Addresses : b # to => slot'[b] = slot[b]
<1>1. to \in Addresses /\ to[1] = v /\ v \notin Ext
  BY OutputAddress, Readable
<1>2. slot' = [slot EXCEPT ![to] = slot[a]]
  BY DEF Alias
<1>3. slot \in [Addresses -> Addresses \cup {Nil}]
  BY DEF ArrayInv
<1>4. slot'[to] = slot[a] /\ \A b \in Addresses : b # to => slot'[b] = slot[b]
  BY <1>1, <1>2, <1>3
<1>5. slot' \in [Addresses -> Addresses \cup {Nil}]
  BY <1>1, <1>2, <1>3
<1>6. \A b \in Addresses : slot'[b] # Nil => slot'[b] \in R.src[b]
  BY <1>1, <1>4 DEF ArrayInv
<1>7. \A u \in Nodes : Kind(u) = "Op" => slot'[Out(u)] \in {Nil, Out(u)}
  <2>1. \A u \in Nodes : Kind(u) = "Op" => Out(u) # to /\ Out(u) \in Addresses
    BY <1>1, OutputAddress
  <2> QED
    BY <1>4, <2>1 DEF ArrayInv
<1>8. \A x \in Ext : slot'[<<x, 0>>] = <<x, 0>>
  <2>1. \A x \in Ext : <<x, 0>> # to /\ <<x, 0>> \in Addresses
    BY <1>1 DEF Addresses
  <2> QED
    BY <1>4, <2>1 DEF ArrayInv
<1>9. /\ R' = R /\ Nodes' = Nodes /\ Ext' = Ext /\ Addresses' = Addresses
      /\ \A u : Kind(u)' = Kind(u)
  BY Unmoved
<1> QED
  BY <1>4, <1>5, <1>6, <1>7, <1>8, <1>9 DEF ArrayInv, Nil

\* The flags of a node that is executed.
LEMMA LiveFlow ==
  ASSUME TypeInv, NEW v \in Nodes
  PROVE  LET fl == MarkExecuted(Live(v), v)
         IN  /\ IsFlow(fl)
             /\ fl.inactive = flow.inactive \ {v} /\ fl.executed = flow.executed \cup {v}
             /\ fl.branch = flow.branch /\ fl.frame = Flow1(v).frame
<1>1. IsFlow(Flow1(v)) /\ Same(flow, Flow1(v))
  BY HeadFacts
<1>2. /\ IsFlow(Live(v)) /\ Live(v).inactive = flow.inactive \ {v}
      /\ Live(v).executed = flow.executed /\ Live(v).branch = flow.branch
      /\ Live(v).frame = Flow1(v).frame
  BY <1>1, ActiveFlow DEF Live, Same
<1> QED
  BY <1>2, ExecutedFlow
---------------------------------------------------------------------------
(* Each visit leaves what the equations say *)

LEMMA SourcesFlow ==
  ASSUME TypeInv, Reads(g, R), NEW v \in Nodes
  PROVE  /\ Kind(v) = "Op" => Out(v) \in R.src[Out(v)]
         /\ Kind(v) = "Switch" => \A b \in {0, 1} : R.src[In(v)[1]] \subseteq R.src[<<v, b>>]
         /\ Kind(v) = "Merge" => \A i \in {1, 2} : R.src[In(v)[i]] \subseteq R.src[Out(v)]
         /\ Kind(v) \in {"Enter", "LoopCond", "NextIteration", "Exit"} =>
              R.src[In(v)[1]] \subseteq R.src[Out(v)]
<1>1. Flows(g, R) /\ v \in NodesOf(g) /\ Kind(v) = g.kind[v]
  BY Readable, Inputs DEF Structured
<1>2. Kind(v) = "Op" => Out(v) \in R.src[Out(v)]
  BY <1>1 DEF Flows, Out
<1>3. Kind(v) = "Switch" => \A b \in {0, 1} : R.src[In(v)[1]] \subseteq R.src[<<v, b>>]
  BY <1>1 DEF Flows, In
<1>4. Kind(v) = "Merge" => \A i \in {1, 2} : R.src[In(v)[i]] \subseteq R.src[Out(v)]
  BY <1>1 DEF Flows, In, Out
<1>5. Kind(v) \in {"Enter", "LoopCond", "NextIteration", "Exit"} =>
        R.src[In(v)[1]] \subseteq R.src[Out(v)]
  BY <1>1 DEF Flows, In, Out
<1> QED
  BY <1>2, <1>3, <1>4, <1>5

LEMMA GoodNow ==
  ASSUME g' = g, feed' = feed, NEW a, NEW k,
         Al(a, k) => ~Off(a)' /\ slot'[a] # Nil /\ content'[slot'[a]] = Vl(a, k),
         ~Al(a, k) => Off(a)' \/ (slot'[a] = Nil /\ ~Inner(g, R, a[1]))
  PROVE  Good(a, k)'
<1>1. R' = R /\ Al(a, k)' = Al(a, k) /\ Vl(a, k)' = Vl(a, k)
  BY Unmoved
<1> QED
  BY <1>1 DEF Good, Nil

LEMMA OffNow ==
  ASSUME g' = g, feed' = feed, NEW a, a[1] \in Nodes
  PROVE  Off(a)' <=> \/ a[1] \in flow'.inactive
                     \/ Kind(a[1]) = "Switch" /\ flow'.branch[a[1]] # a[2]
<1>1. Nodes' = Nodes /\ Kind(a[1])' = Kind(a[1])
  BY Unmoved
<1> QED
  BY <1>1 DEF Off

LEMMA ArrayStill ==
  ASSUME ArrayInv, g' = g, feed' = feed, memory' = memory
  PROVE  ArrayInv'
<1>1. /\ R' = R /\ Nodes' = Nodes /\ Ext' = Ext /\ Addresses' = Addresses
      /\ \A u : Kind(u)' = Kind(u)
  BY Unmoved
<1>2. slot' = slot /\ content' = content /\ freed' = freed
  BY DEF memory
<1> QED
  BY <1>1, <1>2 DEF ArrayInv, Nil

LEMMA GoMoves ==
  ASSUME TypeInv, Reads(g, R), NEW v, At(v), NEW fl, NEW fs, Go(v, fl, fs),
         \A u \in Nodes \ {v} : u \in fl.inactive <=> u \in flow.inactive,
         \A u \in Nodes \ {v} : fl.branch[u] = flow.branch[u],
         \A a \in Addresses : a[1] # v => slot'[a] = slot[a],
         \A c \in Addresses : c # Out(v) => content'[c] = content[c],
         Kind(v) # "Op" => content' = content
  PROVE  Moves(v) /\ flow' = fl /\ g' = g /\ feed' = feed
BY DEF Go, Moves

\* A node that passes on the array of a.
LEMMA PassedOn ==
  ASSUME TypeInv, Reads(g, R), ArrayInv, NEW v, At(v), Kind(v) \notin {"Op", "Switch"},
         NEW fl, NEW fs, Go(v, fl, fs), fl.inactive = flow.inactive \ {v}, fl.branch = flow.branch,
         NEW a \in Addresses, R.src[a] \subseteq R.src[Out(v)], Alias(Out(v), a),
         content' = content, freed' = {},
         \A k : Now(v, k) => Al(Out(v), k) /\ slot[a] # Nil /\ content[slot[a]] = Vl(Out(v), k)
  PROVE  Did(v) /\ slot'[Out(v)] = slot[a]
<1>1. v \in Nodes /\ OutputsOf(g, v) = {Out(v)} /\ Out(v) \in Addresses /\ Out(v)[1] = v
  BY HereFacts, OutputAddress
<1>2. g' = g /\ feed' = feed /\ flow' = fl
  BY DEF Go
<1>3. /\ ArrayInv' /\ slot'[Out(v)] = slot[a]
      /\ \A b \in Addresses : b # Out(v) => slot'[b] = slot[b]
  BY <1>1, <1>2, Aliased
<1>4. Moves(v)
  BY <1>1, <1>3, GoMoves
<1>5. ASSUME NEW k, Now(v, k) PROVE Good(Out(v), k)'
  <2>1. ~Off(Out(v))'
    BY <1>1, <1>2, OffNow
  <2> QED
    BY <1>2, <1>3, <1>5, <2>1, GoodNow
<1>6. ASSUME NEW k, Now(v, k) PROVE Passed(v, k)'
  BY <1>1, <1>2, <1>5, <1>6 DEF Passed
<1> QED
  BY <1>1, <1>3, <1>4, <1>6 DEF Did

\* A node with an input that is not alive yields nothing.
LEMMA DeadOutputs ==
  ASSUME TypeInv, Reads(g, R), NEW v \in Nodes, Kind(v) \notin {"Exit", "Merge"},
         NEW k, Due(v, k), ~AllIn(v, k)
  PROVE  Kind(v) # "Enter" /\ \A a \in OutputsOf(g, v) : ~Al(a, k)
<1>1. CASE Kind(v) = "Op"
  <2>1. ~Al(Out(v), k) /\ OutputsOf(g, v) = {Out(v)}
    BY <1>1, OpAt, OutputAddress
  <2> QED
    BY <1>1, <2>1
<1>2. CASE Kind(v) \in {"LoopCond", "NextIteration"}
  <2>1. ~Al(Out(v), k) /\ OutputsOf(g, v) = {Out(v)}
    BY <1>2, PassAt, OutputAddress
  <2> QED
    BY <1>2, <2>1
<1>3. CASE Kind(v) = "Switch"
  <2>1. \A b \in {0, 1} : ~Al(<<v, b>>, k)
    BY <1>3, SwitchAt
  <2>2. OutputsOf(g, v) = {<<v, 0>>, <<v, 1>>}
    BY <1>3, OutputAddress
  <2> QED
    BY <1>3, <2>1, <2>2
<1>4. CASE Kind(v) = "Enter"
  <2>1. k = 0
    BY <1>4, InPart DEF Due
  <2> QED
    BY <1>4, <2>1, EnterAt1
<1> QED
  BY <1>1, <1>2, <1>3, <1>4, Inputs

LEMMA PlainMerge ==
  ASSUME TypeInv, Reads(g, R), NEW v \in Nodes, Kind(v) = "Merge", ~IsLoopMerge(g, v)
  PROVE  /\ Lp(v) = -1 /\ ~Inner(g, R, v) /\ Due(v, 0) /\ \A k : Due(v, k) => k = 0
         /\ \A i \in {1, 2} : ~Inner(g, R, In(v)[i][1])
<1>1. GoodNode(g, R, v) /\ g.kind[v] = "Merge"
  BY Readable, Inputs DEF Structured
<1>2. Lp(v) = -1
  BY <1>1 DEF GoodNode, Lp
<1>3. ~Inner(g, R, v)
  BY <1>2, InPart
<1>4. ASSUME NEW i \in {1, 2}, Inner(g, R, In(v)[i][1]) PROVE FALSE
  <2>1. i \in DOMAIN In(v)
    BY Inputs
  <2>2. Lp(v) = Lp(In(v)[i][1])
    BY <1>4, <2>1, InputFrom
  <2> QED
    BY <1>2, <1>4, <2>2 DEF Inner, Lp
<1> QED
  BY <1>2, <1>3, <1>4 DEF Due

LEMMA SkipDid ==
  ASSUME TypeInv, Reads(g, R), ArrayInv, WalkInv, FirstInv, NEW v, Skip(v)
  PROVE  /\ Did(v) /\ Kind(v) \notin {"Enter", "Exit"} /\ ~IsLoopMerge(g, v)
         /\ flow'.executed = flow.executed /\ flow'.frame = Flow1(v).frame
         /\ \A k : Now(v, k) => ~Al(Out(v), k)
<1>1. v \in Nodes /\ ~Done(v) /\ At(v) /\ ShouldSkip(v)
  BY HereFacts DEF Skip
<1>2. /\ g' = g /\ feed' = feed /\ runs' = runs /\ status' = status /\ Advance
      /\ slot' = slot /\ content' = content /\ memory' = memory
  BY DEF Skip, memory
<1>3. /\ Flow1(v).inactive = flow.inactive /\ Flow1(v).branch = flow.branch
      /\ Flow1(v).executed = flow.executed /\ IsFlow(Flow1(v))
  BY <1>1, HeadFacts DEF Same
<1>4. ArrayInv'
  BY <1>2, ArrayStill
<1>5. Kind(v) # "Exit"
  BY <1>1 DEF ShouldSkip
<1>6. CASE Kind(v) # "Merge"
  <2>1. flow' = MarkInactive(Flow1(v), v)
    BY <1>6 DEF Skip
  <2>2. /\ flow'.inactive = flow.inactive \cup {v} /\ flow'.branch = flow.branch
        /\ flow'.executed = flow.executed /\ flow'.frame = Flow1(v).frame
    BY <1>1, <1>3, <2>1, ActiveFlow
  <2>3. Moves(v)
    BY <1>2, <2>2 DEF Moves
  <2>4. ASSUME NEW k, Now(v, k)
        PROVE  Kind(v) # "Enter" /\ \A a \in OutputsOf(g, v) : ~Al(a, k)
    <3>1. ~AllIn(v, k)
      BY <1>1, <1>5, <1>6, <2>4, Visits DEF Now
    <3> QED
      BY <1>1, <1>5, <1>6, <2>4, <3>1, DeadOutputs DEF Now
  <2>5. ASSUME NEW k, Now(v, k) PROVE Passed(v, k)'
    <3>1. ASSUME NEW a \in OutputsOf(g, v) PROVE Good(a, k)'
      <4>1. a[1] = v
        BY <1>1, <3>1, OutputAddress
      <4>2. Off(a)'
        BY <1>1, <1>2, <2>2, <4>1, OffNow
      <4> QED
        BY <1>2, <2>4, <2>5, <3>1, <4>2, GoodNow
    <3> QED
      BY <1>2, <3>1 DEF Passed
  <2>6. Did(v)
    BY <1>2, <1>4, <2>3, <2>5 DEF Did
  <2>7. Kind(v) # "Enter"
    <3>1. SUFFICES ASSUME Kind(v) = "Enter" PROVE FALSE
      OBVIOUS
    <3>2. Now(v, 0)
      BY <1>1, <3>1, InPart DEF Now, Due
    <3> QED
      BY <2>4, <3>1, <3>2
  <2> QED
    BY <1>1, <1>5, <1>6, <2>2, <2>4, <2>6, <2>7, OutputAddress DEF IsLoopMerge, Kind, Nodes, NodesOf
<1>7. CASE Kind(v) = "Merge"
  <2>1. flow' = Flow1(v)
    BY <1>7 DEF Skip
  <2>2. Moves(v)
    BY <1>2, <1>3, <2>1 DEF Moves
  <2>3. DOMAIN In(v) = {1, 2} /\ \A i \in {1, 2} : In(v)[i][1] \in flow.inactive
    BY <1>1, <1>3, <1>7, Inputs DEF ShouldSkip, IsNodeActive
  <2>4. ~IsLoopMerge(g, v)
    <3>1. SUFFICES ASSUME IsLoopMerge(g, v) PROVE FALSE
      OBVIOUS
    <3>2. GoodNode(g, R, v) /\ g.kind[v] = "Merge"
      BY <1>1, <1>7, Readable, Inputs DEF Structured
    <3>3. Lp(v) # -1
      BY <3>1, <3>2 DEF GoodNode, Lp
    <3>4. Lp(v) \in Loops(R) /\ v \in Part(Lp(v), "Merge") /\ Inner(g, R, v)
      BY <1>1, <1>7, <3>3, LoopNumbers, InPart
    <3>5. PICK k \in Steps(Lp(v)) : Turning(Lp(v), k)
      BY <1>1, <3>4, LoopRuns
    <3>6. Due(v, k) /\ Finds(In(v)[1], k)
      BY <1>1, <1>5, <2>3, <3>4, <3>5, FindsInput DEF Due
    <3>7. In(v)[1][1] \in Part(Lp(v), "Enter")
      BY <3>4, LoopParts
    <3>8. /\ In(v)[1][1] \in Nodes /\ Kind(In(v)[1][1]) = "Enter" /\ ~Inner(g, R, In(v)[1][1])
      BY <3>4, <3>7, LoopParts
    <3>9. In(v)[1] = Out(In(v)[1][1])
      <4>1. In(v)[1] \in OutputsOf(g, In(v)[1][1])
        BY <1>1, <2>3, <3>8, InputFrom, Readable
      <4>2. OutputsOf(g, In(v)[1][1]) = {Out(In(v)[1][1])}
        BY <3>8, OutputAddress
      <4> QED
        BY <4>1, <4>2
    <3>10. Al(Out(In(v)[1][1]), 0) /\ Out(In(v)[1][1])[1] = In(v)[1][1]
      BY <3>8, EnterAt1 DEF Out
    <3>11. Al(In(v)[1], k)
      BY <3>8, <3>9, <3>10, OutsideAlike
    <3>12. ~Off(In(v)[1])
      BY <3>6, <3>11 DEF Finds
    <3> QED
      BY <2>3, <3>12 DEF Off
  <2>5. \A i \in {1, 2} : ~Al(In(v)[i], 0)
    <3>1. Due(v, 0) /\ ~Inner(g, R, v)
      BY <1>1, <1>7, <2>4, PlainMerge
    <3>2. \A i \in {1, 2} : Finds(In(v)[i], 0)
      BY <1>1, <1>5, <2>3, <2>4, <3>1, FindsInput
    <3>3. \A i \in {1, 2} : Off(In(v)[i])
      BY <2>3 DEF Off
    <3> QED
      BY <3>2, <3>3 DEF Finds
  <2>6. ~Al(Out(v), 0)
    BY <1>1, <1>7, <2>4, <2>5, PlainMerge, MergeAt
  <2>7. OutputsOf(g, v) = {Out(v)} /\ Out(v) \in Addresses /\ Out(v)[1] = v
    BY <1>1, <1>7, OutputAddress DEF Out
  <2>8. ~Inner(g, R, v) /\ \A k : Due(v, k) => k = 0
    BY <1>1, <1>7, <2>4, PlainMerge
  <2>9. slot[Out(v)] = Nil
    BY <1>1, <1>7, <2>4, <2>7, <2>8 DEF FirstInv
  <2>10. ASSUME NEW k, Now(v, k) PROVE Passed(v, k)' /\ ~Al(Out(v), k)
    <3>1. k = 0
      BY <2>8, <2>10 DEF Now
    <3>2. Good(Out(v), 0)'
      BY <1>2, <2>6, <2>7, <2>8, <2>9, GoodNow
    <3> QED
      BY <1>2, <2>6, <2>7, <3>1, <3>2 DEF Passed
  <2> QED
    BY <1>2, <1>3, <1>4, <1>7, <2>1, <2>2, <2>4, <2>10 DEF Did
<1> QED
  BY <1>6, <1>7

LEMMA OpDid ==
  ASSUME TypeInv, Reads(g, R), ArrayInv, WalkInv, NEW v, ExecuteOp(v)
  PROVE  Did(v) /\ flow'.executed = flow.executed \cup {v} /\ flow'.frame = Flow1(v).frame
<1> DEFINE o == Out(v)
<1>1. /\ v \in Nodes /\ At(v) /\ Kind(v) = "Op" /\ ~ShouldSkip(v)
      /\ \A i \in DOMAIN In(v) : slot[In(v)[i]] # Nil
      /\ Go(v, MarkExecuted(Live(v), v), Frames1(v))
      /\ slot' = [slot EXCEPT ![o] = PreparedOutput(v)]
      /\ content' = [content EXCEPT ![PreparedOutput(v)] = Apply(g.op[v], Args(v))]
      /\ freed' = freed
  BY HereFacts DEF ExecuteOp, Usable
<1>2. OutputsOf(g, v) = {o} /\ o \in Addresses /\ o[1] = v
  BY <1>1, OutputAddress DEF Out
<1> HIDE DEF o
<1>3. PreparedOutput(v) = o
  BY <1>1 DEF PreparedOutput, ArrayInv, o
<1>4. slot \in [Addresses -> Addresses \cup {Nil}] /\ DOMAIN content = Addresses
  BY DEF ArrayInv
<1>5. /\ slot'[o] = o /\ content'[o] = Apply(g.op[v], Args(v))
      /\ slot' \in [Addresses -> Addresses \cup {Nil}] /\ DOMAIN content' = Addresses
      /\ \A a \in Addresses : a # o => slot'[a] = slot[a] /\ content'[a] = content[a]
  BY <1>1, <1>2, <1>3, <1>4
<1>6. LET fl == MarkExecuted(Live(v), v)
      IN  /\ fl.inactive = flow.inactive \ {v} /\ fl.executed = flow.executed \cup {v}
          /\ fl.branch = flow.branch /\ fl.frame = Flow1(v).frame
  BY <1>1, LiveFlow
<1>7. Moves(v) /\ flow' = MarkExecuted(Live(v), v) /\ g' = g /\ feed' = feed
  BY <1>1, <1>2, <1>5, <1>6, GoMoves DEF o
<1>8. ArrayInv'
  <2>1. /\ R' = R /\ Nodes' = Nodes /\ Ext' = Ext /\ Addresses' = Addresses
        /\ \A u : Kind(u)' = Kind(u)
    BY <1>7, Unmoved
  <2>2. o \in R.src[o]
    BY <1>1, SourcesFlow DEF o
  <2>3. \A a \in Addresses : slot'[a] # Nil => slot'[a] \in R.src[a]
    BY <1>5, <2>2 DEF ArrayInv
  <2>4. \A u \in Nodes : Kind(u) = "Op" => slot'[Out(u)] \in {Nil, Out(u)}
    <3>1. \A u \in Nodes : Out(u) \in Addresses
      BY OutputAddress
    <3> QED
      BY <1>5, <3>1 DEF ArrayInv
  <2>5. \A x \in Ext : slot'[<<x, 0>>] = <<x, 0>> /\ content'[<<x, 0>>] = feed[x]
    <3>1. \A x \in Ext : <<x, 0>> # o /\ <<x, 0>> \in Addresses
      BY <1>1, <1>2, Readable DEF Addresses
    <3> QED
      BY <1>5, <3>1 DEF ArrayInv
  <2> QED
    BY <1>1, <1>5, <1>7, <2>1, <2>3, <2>4, <2>5 DEF ArrayInv, Nil
<1>9. ASSUME NEW k, Now(v, k) PROVE Passed(v, k)' /\ Al(o, k)
  <2>1. Due(v, k) /\ AllIn(v, k)
    BY <1>1, <1>9, Visits DEF Now
  <2>2. \A i \in DOMAIN In(v) : content[slot[In(v)[i]]] = Vl(In(v)[i], k)
    BY <1>1, <1>9, <2>1, Visits DEF Now
  <2>3. Args(v) = [i \in DOMAIN In(v) |-> Vl(In(v)[i], k)]
    BY <2>2 DEF Args
  <2>4. Al(o, k) /\ Vl(o, k) = Apply(g.op[v], Args(v))
    BY <1>1, <2>1, <2>3, OpAt DEF o
  <2>5. ~Off(o)'
    BY <1>1, <1>2, <1>6, <1>7, OffNow
  <2>6. o # Nil
    BY DEF Nil, o, Out
  <2>7. Good(o, k)'
    BY <1>5, <1>7, <2>4, <2>5, <2>6, GoodNow
  <2> QED
    BY <1>2, <1>7, <2>4, <2>7 DEF Passed
<1> QED
  BY <1>2, <1>6, <1>7, <1>8, <1>9 DEF Did, o

LEMMA SwitchDid ==
  ASSUME TypeInv, Reads(g, R), ArrayInv, WalkInv, NEW v, Switch(v)
  PROVE  Did(v) /\ flow'.executed = flow.executed \cup {v} /\ flow'.frame = Flow1(v).frame
<1> DEFINE b == IF content[slot[In(v)[2]]] = 0 THEN 0 ELSE 1
           fl == MarkBranch(Live(v), v, b)
           to == <<v, b>>
<1>1. /\ v \in Nodes /\ At(v) /\ Kind(v) = "Switch" /\ ~ShouldSkip(v)
      /\ slot[In(v)[1]] # Nil /\ slot[In(v)[2]] # Nil
      /\ Go(v, MarkExecuted(fl, v), Frames1(v))
      /\ Alias(to, In(v)[1])
      /\ content' = content /\ freed' = freed
  BY HereFacts DEF Switch, Usable
<1>2. b \in {0, 1} /\ (b = 0 <=> content[slot[In(v)[2]]] = 0)
  OBVIOUS
<1> HIDE DEF b
<1>3. /\ OutputsOf(g, v) = {<<v, 0>>, <<v, 1>>} /\ to \in OutputsOf(g, v) /\ to[1] = v /\ to[2] = b
      /\ <<v, 0>> \in Addresses /\ <<v, 1>> \in Addresses
  BY <1>1, <1>2, OutputAddress
<1>4. DOMAIN In(v) = {1, 2} /\ In(v)[1] \in Addresses
  BY <1>1, Inputs, InputFrom
<1>5. R.src[In(v)[1]] \subseteq R.src[to]
  BY <1>1, <1>2, SourcesFlow
<1>6. /\ IsFlow(Live(v)) /\ Live(v).inactive = flow.inactive \ {v}
      /\ Live(v).executed = flow.executed /\ Live(v).branch = flow.branch
      /\ Live(v).frame = Flow1(v).frame
  <2>1. IsFlow(Flow1(v)) /\ Same(flow, Flow1(v))
    BY <1>1, HeadFacts
  <2> QED
    BY <1>1, <2>1, ActiveFlow DEF Live, Same
<1>7. /\ IsFlow(fl) /\ fl.inactive = Live(v).inactive /\ fl.executed = Live(v).executed
      /\ fl.frame = Live(v).frame
      /\ \A u \in Nodes \ {v} : fl.branch[u] = Live(v).branch[u]
  <2>1. v \in Nodes /\ IsFlow(Live(v))
    BY <1>1, <1>6
  <2> QED
    BY <1>2, <2>1, BranchFlow
<1>8. fl.branch[v] = b
  <2>1. Live(v).branch \in [Nodes -> {0, 1}]
    BY <1>6, FlowFields
  <2>2. fl.branch = [Live(v).branch EXCEPT ![v] = b]
    BY <1>6 DEF MarkBranch, IsFlow
  <2> QED
    BY <1>1, <2>1, <2>2
<1> HIDE DEF fl, to
<1>9. LET f2 == MarkExecuted(fl, v)
      IN  /\ f2.inactive = flow.inactive \ {v} /\ f2.executed = flow.executed \cup {v}
          /\ f2.frame = Flow1(v).frame /\ f2.branch[v] = b
          /\ \A u \in Nodes \ {v} : f2.branch[u] = flow.branch[u]
  <2>1. LET f2 == MarkExecuted(fl, v)
        IN  /\ f2.inactive = fl.inactive /\ f2.executed = fl.executed \cup {v}
            /\ f2.frame = fl.frame /\ f2.branch = fl.branch
    BY <1>1, <1>7, ExecutedFlow
  <2> QED
    BY <1>6, <1>7, <1>8, <2>1
<1>10. g' = g /\ feed' = feed /\ freed' = {}
  BY <1>1 DEF Go, ArrayInv
<1>11. /\ ArrayInv' /\ slot'[to] = slot[In(v)[1]]
       /\ \A a \in Addresses : a # to => slot'[a] = slot[a]
  BY <1>1, <1>3, <1>4, <1>5, <1>10, Aliased
<1>12. Moves(v) /\ flow' = MarkExecuted(fl, v)
  BY <1>1, <1>3, <1>9, <1>11, GoMoves
<1>13. ASSUME NEW k, Now(v, k)
       PROVE  Passed(v, k)' /\ \A a \in OutputsOf(g, v) : slot'[a] = slot[a] \/ Al(a, k)
  <2>1. Due(v, k) /\ AllIn(v, k)
    BY <1>1, <1>4, <1>13, Visits DEF Now
  <2>2. \A i \in {1, 2} : content[slot[In(v)[i]]] = Vl(In(v)[i], k)
    BY <1>1, <1>4, <1>13, <2>1, Visits DEF Now
  <2>3. ASSUME NEW c \in {0, 1}
        PROVE  /\ Al(<<v, c>>, k) <=> c = b
               /\ Al(<<v, c>>, k) => Vl(<<v, c>>, k) = Vl(In(v)[1], k)
               /\ Good(<<v, c>>, k)'
    <3>1. /\ Al(<<v, c>>, k) <=> (Vl(In(v)[2], k) = 0 <=> c = 0)
          /\ Al(<<v, c>>, k) => Vl(<<v, c>>, k) = Vl(In(v)[1], k)
      BY <1>1, <2>1, <2>3, SwitchAt
    <3>2. Al(<<v, c>>, k) <=> c = b
      BY <1>2, <2>2, <2>3, <3>1
    <3>3. Off(<<v, c>>)' <=> c # b
      BY <1>1, <1>9, <1>10, <1>12, OffNow
    <3>4. c = b => slot'[<<v, c>>] # Nil /\ content'[slot'[<<v, c>>]] = Vl(In(v)[1], k)
      BY <1>1, <1>11, <2>2 DEF to
    <3>5. Good(<<v, c>>, k)'
      BY <1>10, <3>1, <3>2, <3>3, <3>4, GoodNow
    <3> QED
      BY <3>1, <3>2, <3>5
  <2>4. OutputsOf(g', v) = OutputsOf(g, v)
    BY <1>10
  <2>5. Passed(v, k)'
    BY <1>3, <2>3, <2>4 DEF Passed
  <2>6. \A c \in {0, 1} : slot'[<<v, c>>] = slot[<<v, c>>] \/ Al(<<v, c>>, k)
    BY <1>3, <1>11, <2>3 DEF to
  <2> QED
    BY <1>3, <2>5, <2>6
<1> QED
  BY <1>1, <1>9, <1>11, <1>12, <1>13 DEF Did

LEMMA CondDid ==
  ASSUME TypeInv, Reads(g, R), ArrayInv, WalkInv, NEW v, LoopCond(v)
  PROVE  Did(v) /\ flow'.executed = flow.executed \cup {v} /\ flow'.frame = Flow1(v).frame
<1>1. /\ v \in Nodes /\ At(v) /\ Kind(v) = "LoopCond" /\ ~ShouldSkip(v) /\ slot[In(v)[1]] # Nil
      /\ Go(v, MarkExecuted(Live(v), v), Frames1(v))
      /\ Alias(Out(v), In(v)[1]) /\ content' = content /\ freed' = freed
  BY HereFacts DEF LoopCond, Usable
<1>2. DOMAIN In(v) = {1} /\ In(v)[1] \in Addresses
  BY <1>1, Inputs, InputFrom
<1>3. R.src[In(v)[1]] \subseteq R.src[Out(v)]
  BY <1>1, SourcesFlow
<1>4. ASSUME NEW k, Now(v, k)
      PROVE  Al(Out(v), k) /\ content[slot[In(v)[1]]] = Vl(Out(v), k)
  <2>1. Due(v, k) /\ AllIn(v, k)
    BY <1>1, <1>2, <1>4, Visits DEF Now
  <2>2. content[slot[In(v)[1]]] = Vl(In(v)[1], k)
    BY <1>1, <1>2, <1>4, <2>1, Visits DEF Now
  <2> QED
    BY <1>1, <2>1, <2>2, PassAt
<1>5. LET fl == MarkExecuted(Live(v), v)
      IN  /\ fl.inactive = flow.inactive \ {v} /\ fl.executed = flow.executed \cup {v}
          /\ fl.branch = flow.branch /\ fl.frame = Flow1(v).frame
  BY <1>1, LiveFlow
<1>6. freed' = {} /\ flow' = MarkExecuted(Live(v), v)
  BY <1>1 DEF Go, ArrayInv
<1>7. Did(v)
  BY <1>1, <1>2, <1>3, <1>4, <1>5, <1>6, PassedOn
<1> QED
  BY <1>5, <1>6, <1>7

LEMMA EnterDid ==
  ASSUME TypeInv, Reads(g, R), ArrayInv, WalkInv, NEW v, Enter(v)
  PROVE  Did(v) /\ flow'.executed = flow.executed \cup {v} /\ flow'.frame = Flow1(v).frame
<1> DEFINE have  == {i \in DOMAIN In(v) : slot[In(v)[i]] # Nil}
           first == CHOOSE i \in have : \A j \in have : i <= j
<1>1. /\ v \in Nodes /\ At(v) /\ Kind(v) = "Enter" /\ ~ShouldSkip(v)
      /\ \E fs : Go(v, MarkExecuted(Live(v), v), fs)
      /\ IF have = {} THEN UNCHANGED slot ELSE Alias(Out(v), In(v)[first])
      /\ content' = content /\ freed' = freed
  BY HereFacts DEF Enter
<1>2. PICK fs : Go(v, MarkExecuted(Live(v), v), fs)
  BY <1>1
<1>3. 1 \in DOMAIN In(v) /\ In(v)[1] \in Addresses /\ DOMAIN In(v) = 1..Len(In(v))
  BY <1>1, Inputs, InputFrom
<1>4. AllIn(v, 0) /\ Al(Out(v), 0) /\ Vl(Out(v), 0) = Vl(In(v)[1], 0)
  BY <1>1, EnterAt1
<1>5. ~Inner(g, R, v) /\ Due(v, 0)
  BY <1>1, InPart DEF Due
<1>6. slot[In(v)[1]] # Nil /\ content[slot[In(v)[1]]] = Vl(In(v)[1], 0)
  BY <1>1, <1>3, <1>4, <1>5, Visits
<1>7. first = 1
  <2>1. 1 \in have /\ have \subseteq 1..Len(In(v))
    BY <1>3, <1>6
  <2>2. \A j \in have : 1 <= j /\ j \in Int
    BY <2>1
  <2> HIDE DEF have
  <2>3. first \in have /\ \A j \in have : first <= j
    BY <2>1, <2>2
  <2>4. first <= 1 /\ 1 <= first /\ first \in Int
    BY <2>1, <2>2, <2>3
  <2> QED
    BY <2>4
<1>8. Alias(Out(v), In(v)[1])
  <2>1. 1 \in have
    BY <1>3, <1>6
  <2>2. have # {}
    BY <2>1
  <2> QED
    BY <1>1, <1>7, <2>2
<1>9. R.src[In(v)[1]] \subseteq R.src[Out(v)]
  BY <1>1, SourcesFlow
<1>10. \A k : Now(v, k) => /\ Al(Out(v), k) /\ slot[In(v)[1]] # Nil
                           /\ content[slot[In(v)[1]]] = Vl(Out(v), k)
  BY <1>4, <1>5, <1>6 DEF Now, Due
<1>11. LET fl == MarkExecuted(Live(v), v)
       IN  /\ fl.inactive = flow.inactive \ {v} /\ fl.executed = flow.executed \cup {v}
           /\ fl.branch = flow.branch /\ fl.frame = Flow1(v).frame
  BY <1>1, LiveFlow
<1>12. freed' = {} /\ flow' = MarkExecuted(Live(v), v)
  BY <1>1, <1>2 DEF Go, ArrayInv
<1> HIDE DEF have, first
<1>13. Did(v)
  BY <1>1, <1>2, <1>3, <1>8, <1>9, <1>10, <1>11, <1>12, PassedOn
<1> QED
  BY <1>11, <1>12, <1>13

LEMMA MergeDid ==
  ASSUME TypeInv, Reads(g, R), ArrayInv, WalkInv, FirstInv, NEW v, Merge(v)
  PROVE  /\ Did(v) /\ ~IsLoopMerge(g, v)
         /\ flow'.executed = flow.executed \cup {v} /\ flow'.frame = Flow1(v).frame
<1> DEFINE have  == {i \in DOMAIN In(v) : slot[In(v)[i]] # Nil}
           first == CHOOSE i \in have : \A j \in have : i <= j
<1>1. /\ v \in Nodes /\ ~Done(v) /\ At(v) /\ Kind(v) = "Merge" /\ ~ShouldSkip(v)
      /\ Kind(In(v)[2][1]) # "NextIteration"
      /\ Go(v, MarkExecuted(Live(v), v), Frames1(v))
      /\ IF have = {} THEN UNCHANGED slot ELSE Alias(Out(v), In(v)[first])
      /\ freed' = IF have # {} /\ slot[Out(v)] # Nil THEN freed \cup {slot[Out(v)]} ELSE freed
      /\ content' = content
  BY HereFacts DEF Merge
<1>2. ~IsLoopMerge(g, v)
  BY <1>1 DEF IsLoopMerge, Back, In, Kind, Nodes, NodesOf
<1>3. /\ Lp(v) = -1 /\ ~Inner(g, R, v) /\ Due(v, 0) /\ \A k : Due(v, k) => k = 0
      /\ \A i \in {1, 2} : ~Inner(g, R, In(v)[i][1])
  BY <1>1, <1>2, PlainMerge
<1>4. DOMAIN In(v) = {1, 2} /\ \A i \in {1, 2} : In(v)[i] \in Addresses
  BY <1>1, Inputs, InputFrom
<1>5. OutputsOf(g, v) = {Out(v)} /\ Out(v) \in Addresses /\ Out(v)[1] = v
  BY <1>1, OutputAddress DEF Out
<1>6. slot[Out(v)] = Nil
  BY <1>1, <1>2, <1>3, <1>5 DEF FirstInv
<1>7. freed' = {}
  BY <1>1, <1>6 DEF ArrayInv
<1>8. ASSUME NEW i \in {1, 2}
      PROVE  Finds(In(v)[i], 0) /\ (slot[In(v)[i]] # Nil => Al(In(v)[i], 0))
  <2>1. Finds(In(v)[i], 0)
    BY <1>1, <1>2, <1>3, <1>4, FindsInput
  <2>2. CASE In(v)[i][1] \in Ext
    <3>1. In(v)[i] = <<In(v)[i][1], 0>>
      BY <1>1, <1>4, <2>2, InputFrom
    <3>2. Al(<<In(v)[i][1], 0>>, 0)
      BY <2>2, FedAlive
    <3> QED
      BY <2>1, <3>1, <3>2
  <2>3. CASE In(v)[i][1] \in Nodes
    <3>1. In(v)[i] \in OutputsOf(g, In(v)[i][1])
      BY <1>1, <1>4, <2>3, InputFrom, Readable
    <3> QED
      BY <1>1, <1>2, <1>3, <2>1, <2>3, <3>1 DEF FirstInv
  <2> QED
    BY <1>1, <1>4, <2>2, <2>3, InputFrom
<1>9. LET fl == MarkExecuted(Live(v), v)
      IN  /\ fl.inactive = flow.inactive \ {v} /\ fl.executed = flow.executed \cup {v}
          /\ fl.branch = flow.branch /\ fl.frame = Flow1(v).frame
  BY <1>1, LiveFlow
<1>10. flow' = MarkExecuted(Live(v), v) /\ g' = g /\ feed' = feed
  BY <1>1 DEF Go
<1>11. /\ Al(Out(v), 0) <=> Al(In(v)[1], 0) \/ Al(In(v)[2], 0)
       /\ Al(Out(v), 0) => Vl(Out(v), 0) =
            IF Al(In(v)[1], 0) THEN Vl(In(v)[1], 0) ELSE Vl(In(v)[2], 0)
  BY <1>1, <1>2, <1>3, MergeAt
<1>12. CASE have = {}
  <2>1. slot' = slot
    BY <1>1, <1>12
  <2>2. slot[In(v)[1]] = Nil /\ slot[In(v)[2]] = Nil
    BY <1>4, <1>12
  <2>3. ~Al(Out(v), 0)
    BY <1>8, <1>11, <2>2 DEF Finds
  <2>4. memory' = memory
    BY <1>1, <1>7, <2>1 DEF memory, ArrayInv
  <2>5. ArrayInv'
    BY <1>10, <2>4, ArrayStill
  <2>6. Moves(v)
    BY <1>1, <1>9, <2>1, GoMoves
  <2>7. Good(Out(v), 0)'
    BY <1>3, <1>5, <1>6, <1>10, <2>1, <2>3, GoodNow
  <2>8. \A k : Now(v, k) => Passed(v, k)'
    BY <1>3, <1>5, <1>10, <2>7 DEF Now, Passed
  <2>9. Did(v)
    BY <1>1, <2>1, <2>5, <2>6, <2>8 DEF Did
  <2> QED
    BY <1>2, <1>9, <1>10, <2>9
<1>13. CASE have # {}
  <2>1. first \in {1, 2} /\ slot[In(v)[first]] # Nil /\ (first = 2 => slot[In(v)[1]] = Nil)
    <3>1. have \subseteq {1, 2}
      BY <1>4
    <3>2. \E i \in have : \A j \in have : i <= j
      <4>1. CASE 1 \in have
        BY <3>1, <4>1
      <4>2. CASE 1 \notin have
        BY <1>13, <3>1, <4>2
      <4> QED
        BY <4>1, <4>2
    <3> HIDE DEF have
    <3>3. first \in have /\ \A j \in have : first <= j
      BY <3>2
    <3> HIDE DEF first
    <3>4. first = 2 => 1 \notin have
      BY <3>3
    <3> QED
      BY <1>4, <3>1, <3>3, <3>4 DEF have
  <2> HIDE DEF first
  <2>2. Alias(Out(v), In(v)[first])
    BY <1>1, <1>13
  <2>3. In(v)[first] \in Addresses /\ R.src[In(v)[first]] \subseteq R.src[Out(v)]
    BY <1>1, <1>4, <2>1, SourcesFlow
  <2>4. Al(Out(v), 0) /\ content[slot[In(v)[first]]] = Vl(Out(v), 0)
    <3>1. Al(In(v)[first], 0) /\ content[slot[In(v)[first]]] = Vl(In(v)[first], 0)
      BY <1>8, <2>1 DEF Finds
    <3>2. first = 2 => ~Al(In(v)[1], 0)
      BY <1>8, <2>1 DEF Finds
    <3> QED
      BY <1>11, <2>1, <3>1, <3>2
  <2>5. \A k : Now(v, k) =>
          Al(Out(v), k) /\ slot[In(v)[first]] # Nil /\ content[slot[In(v)[first]]] = Vl(Out(v), k)
    BY <1>3, <2>1, <2>4 DEF Now
  <2>6. Did(v)
    BY <1>1, <1>7, <1>9, <2>2, <2>3, <2>5, PassedOn
  <2> QED
    BY <1>2, <1>9, <1>10, <2>6
<1> QED
  BY <1>12, <1>13

\* What the FlowPath says of a frame afterwards.
LEMMA Activated ==
  ASSUME NEW fl, IsFlow(fl), NEW f \in Frames
  PROVE  /\ \A c \in Frames : c # f => ActivateFrame(fl, f).frame[c] = fl.frame[c]
         /\ ActivateFrame(fl, f).frame[f].activated
         /\ ActivateFrame(fl, f).frame[f].rewindPlanned = fl.frame[f].rewindPlanned
         /\ ActivateFrame(fl, f).frame[f].rewindPosition = fl.frame[f].rewindPosition
<1> DEFINE s == [fl.frame[f] EXCEPT !.activated = TRUE]
           st == [fl.frame EXCEPT ![f] = s]
<1>0. fl.frame \in [Frames -> FrameStates] /\ fl.frame[f] \in FrameStates
  BY FlowFields
<1>1. /\ s.activated /\ s.rewindPlanned = fl.frame[f].rewindPlanned
      /\ s.rewindPosition = fl.frame[f].rewindPosition
  BY <1>0 DEF FrameStates
<1>2. ActivateFrame(fl, f) = [fl EXCEPT !.frame = st]
  BY DEF ActivateFrame
<1> HIDE DEF s
<1>3. st[f] = s /\ \A c \in Frames : c # f => st[c] = fl.frame[c]
  BY <1>0
<1>4. st \in [Frames -> FrameStates]
  BY <1>0 DEF s, FrameStates
<1> HIDE DEF st
<1> QED
  BY <1>1, <1>2, <1>3, <1>4, FrameFlow

LEMMA Planned ==
  ASSUME NEW fl, IsFlow(fl), NEW f \in Frames, NEW pos \in Nat \cup {-1},
         fl.frame[f].rewindPosition = -1
  PROVE  /\ \A c \in Frames : c # f => PlanRewind(fl, f, pos).frame[c] = fl.frame[c]
         /\ PlanRewind(fl, f, pos).frame[f].activated = fl.frame[f].activated
         /\ PlanRewind(fl, f, pos).frame[f].rewindPlanned
         /\ PlanRewind(fl, f, pos).frame[f].rewindPosition = pos
<1> DEFINE r == fl.frame[f].rewindPosition
           q == IF r < 0 THEN pos ELSE r
           s == [fl.frame[f] EXCEPT !.rewindPlanned = TRUE, !.rewindPosition = q]
           st == [fl.frame EXCEPT ![f] = s]
<1>0. fl.frame \in [Frames -> FrameStates] /\ fl.frame[f] \in FrameStates
  BY FlowFields
<1>1. q = pos
  OBVIOUS
<1>2. PlanRewind(fl, f, pos) = [fl EXCEPT !.frame = st]
  BY FlowFields DEF PlanRewind
<1> HIDE DEF q
<1>3. /\ s \in FrameStates /\ s.activated = fl.frame[f].activated
      /\ s.rewindPlanned /\ s.rewindPosition = pos
  BY <1>0, <1>1 DEF FrameStates
<1> HIDE DEF s
<1>4. /\ st \in [Frames -> FrameStates] /\ st[f] = s
      /\ \A c \in Frames : c # f => st[c] = fl.frame[c]
  BY <1>0, <1>3
<1> HIDE DEF st
<1> QED
  BY <1>2, <1>3, <1>4, FrameFlow

LEMMA Cancelled ==
  ASSUME NEW fl, IsFlow(fl), NEW f \in Frames
  PROVE  /\ \A c \in Frames : c # f => CancelRewind(fl, f).frame[c] = fl.frame[c]
         /\ CancelRewind(fl, f).frame[f].activated = fl.frame[f].activated
         /\ ~CancelRewind(fl, f).frame[f].rewindPlanned
         /\ CancelRewind(fl, f).frame[f].rewindPosition = -1
<1> DEFINE s == [fl.frame[f] EXCEPT !.rewindPlanned = FALSE, !.rewindPosition = -1]
           st == [fl.frame EXCEPT ![f] = s]
<1>0. fl.frame \in [Frames -> FrameStates] /\ fl.frame[f] \in FrameStates
  BY FlowFields
<1>1. /\ s \in FrameStates /\ s.activated = fl.frame[f].activated
      /\ ~s.rewindPlanned /\ s.rewindPosition = -1
  BY <1>0 DEF FrameStates
<1>2. CancelRewind(fl, f) = [fl EXCEPT !.frame = st]
  BY FlowFields DEF CancelRewind
<1> HIDE DEF s
<1>3. /\ st \in [Frames -> FrameStates] /\ st[f] = s
      /\ \A c \in Frames : c # f => st[c] = fl.frame[c]
  BY <1>0, <1>1
<1> HIDE DEF st
<1> QED
  BY <1>1, <1>2, <1>3, FrameFlow

\* The parts of a loop set its frame's flags only.
FrameOnly(f) == \A c \in Frames : c # f => flow'.frame[c] = flow.frame[c]

LEMMA MergeLoopDid ==
  ASSUME TypeInv, Reads(g, R), ArrayInv, FrameInv, WalkInv, NEW v, MergeLoop(v)
  PROVE  /\ Did(v) /\ IsLoopMerge(g, v) /\ Lp(v) \in Loops(R) /\ v \in Part(Lp(v), "Merge")
         /\ FrameOnly(Lp(v)) /\ flow'.frame[Lp(v)].activated
         /\ flow'.frame[Lp(v)].rewindPlanned = flow.frame[Lp(v)].rewindPlanned
         /\ flow'.frame[Lp(v)].rewindPosition = flow.frame[Lp(v)].rewindPosition
         /\ Back(g, v) \notin flow'.executed
         /\ \A u \in Nodes : u \notin {v, Back(g, v)} => (u \in flow'.executed <=> u \in flow.executed)
         /\ rewindTo' = [rewindTo EXCEPT ![Back(g, v)] = l]
         /\ frames' = Frames1(v) /\ leftFrame' = Left1(v) /\ SetFrame(v) /\ FrameId(v) = Lp(v)
<1> DEFINE b == In(v)[2][1]
           f == Lp(v)
           again == b \in Flow1(v).executed
           fl == IF FrameId(v) >= 0 THEN ActivateFrame(Live(v), FrameId(v)) ELSE Live(v)
           f2 == IF again THEN MarkNotExecuted(fl, b) ELSE fl
           i == IF again THEN 2 ELSE 1
<1>1. /\ v \in Nodes /\ ~Done(v) /\ At(v) /\ Kind(v) = "Merge" /\ Kind(b) = "NextIteration"
      /\ ~ShouldSkip(v)
      /\ again => Usable(In(v)[2])
      /\ Go(v, MarkExecuted(f2, v), Frames1(v))
      /\ Alias(Out(v), In(v)[i])
      /\ rewindTo' = [rewindTo EXCEPT ![b] = l]
      /\ leftFrame' = Left1(v) /\ content' = content /\ freed' = freed
  BY HereFacts DEF MergeLoop
<1>2. b \in Nodes /\ b = Back(g, v) /\ IsLoopMerge(g, v)
  BY <1>1 DEF IsLoopMerge, Back, In, Kind, Nodes, NodesOf
<1>3. f \in Loops(R) /\ v \in Part(f, "Merge") /\ Inner(g, R, v) /\ f # -1
  <2>1. GoodNode(g, R, v) /\ g.kind[v] = "Merge"
    BY <1>1, Readable, Inputs DEF Structured
  <2>2. f # -1
    BY <1>2, <2>1 DEF GoodNode, Lp
  <2> QED
    BY <1>1, <2>2, LoopNumbers, InPart
<1>4. /\ b \in Part(f, "NextIteration") /\ In(v)[2] = Out(b)
      /\ In(v)[1][1] \in Part(f, "Enter") /\ Lp(b) = f /\ b # v
  BY <1>1, <1>2, <1>3, LoopParts
<1>5. Frames1(v) = <<f>> /\ Last(Frames1(v)) = f /\ Flow1(v) = flow
  BY <1>1, <1>3, InsideFrame
<1>6. f \in Frames /\ f \in Nat
  BY <1>3, LoopNumbers, FrameNumbers
<1>7. FrameId(v) = f /\ FrameId(v) >= 0
  <2>1. frameOf[v] \in {-1, f}
    BY <1>1, <1>2 DEF FrameInv
  <2>2. Frames1(v) # <<>>
    BY <1>5
  <2> QED
    BY <1>5, <1>6, <2>1, <2>2 DEF FrameId
<1>8. /\ IsFlow(Live(v)) /\ Live(v).inactive = flow.inactive \ {v}
      /\ Live(v).executed = flow.executed /\ Live(v).branch = flow.branch
      /\ Live(v).frame = flow.frame
  <2>1. IsFlow(Flow1(v)) /\ Same(flow, Flow1(v))
    BY <1>1, HeadFacts
  <2> QED
    BY <1>1, <1>5, <2>1, ActiveFlow DEF Live, Same
<1>9. /\ IsFlow(fl) /\ fl.inactive = flow.inactive \ {v} /\ fl.executed = flow.executed
      /\ fl.branch = flow.branch
      /\ \A c \in Frames : c # f => fl.frame[c] = flow.frame[c]
      /\ fl.frame[f].activated
      /\ fl.frame[f].rewindPlanned = flow.frame[f].rewindPlanned
      /\ fl.frame[f].rewindPosition = flow.frame[f].rewindPosition
  <2>1. fl = ActivateFrame(Live(v), f)
    BY <1>7
  <2> HIDE DEF fl, f
  <2>2. IsFlow(fl) /\ Same(Live(v), fl)
    BY <1>6, <1>8, <2>1, ActivateFlow
  <2>3. /\ \A c \in Frames : c # f => fl.frame[c] = flow.frame[c]
        /\ fl.frame[f].activated
        /\ fl.frame[f].rewindPlanned = flow.frame[f].rewindPlanned
        /\ fl.frame[f].rewindPosition = flow.frame[f].rewindPosition
    BY <1>6, <1>8, <2>1, Activated
  <2> QED
    BY <1>8, <2>2, <2>3 DEF Same
<1>10. again <=> b \in flow.executed
  BY <1>5
<1> HIDE DEF fl
<1>11. /\ IsFlow(f2) /\ f2.inactive = fl.inactive /\ f2.branch = fl.branch /\ f2.frame = fl.frame
       /\ b \notin f2.executed
       /\ \A u : u # b => (u \in f2.executed <=> u \in flow.executed)
  <2>1. CASE again
    BY <1>2, <1>9, <2>1, ExecutedFlow
  <2>2. CASE ~again
    BY <1>9, <1>10, <2>2
  <2> QED
    BY <2>1, <2>2
<1> HIDE DEF f2
<1>12. LET f3 == MarkExecuted(f2, v)
       IN  /\ f3.inactive = f2.inactive /\ f3.executed = f2.executed \cup {v}
           /\ f3.branch = f2.branch /\ f3.frame = f2.frame
  BY <1>1, <1>11, ExecutedFlow
<1>13. flow' = MarkExecuted(f2, v) /\ frames' = Frames1(v) /\ SetFrame(v) /\ freed' = {}
  BY <1>1 DEF Go, ArrayInv
<1>14. /\ flow'.inactive = flow.inactive \ {v} /\ flow'.branch = flow.branch
       /\ flow'.executed = f2.executed \cup {v} /\ flow'.frame = fl.frame
  BY <1>9, <1>11, <1>12, <1>13
<1>15. DOMAIN In(v) = {1, 2} /\ i \in {1, 2} /\ In(v)[i] \in Addresses
       /\ R.src[In(v)[i]] \subseteq R.src[Out(v)]
  <2>1. DOMAIN In(v) = {1, 2} /\ i \in {1, 2}
    BY <1>1, Inputs
  <2> QED
    BY <1>1, <2>1, InputFrom, SourcesFlow
<1>16. ASSUME NEW k, Now(v, k)
       PROVE  Al(Out(v), k) /\ slot[In(v)[i]] # Nil /\ content[slot[In(v)[i]]] = Vl(Out(v), k)
  <2>1. Due(v, k) /\ Turning(f, k)
    BY <1>3, <1>16 DEF Now
  <2>2. /\ Al(Out(v), k)
        /\ Vl(Out(v), k) = IF k = 0 THEN Vl(In(v)[1], 0) ELSE Vl(In(v)[2], k - 1)
    BY <1>1, <1>2, <2>1, VariableAt
  <2>3. MergeReady(v, k)
    BY <1>3, <2>1 DEF Turning
  <2>4. CASE k = 0
    <3>1. i = 1
      BY <1>1, <1>2, <1>10, <2>3, <2>4 DEF MergeReady
    <3>2. Finds(In(v)[1], k)
      BY <1>1, <1>3, <1>15, <2>1, FindsInput
    <3>3. /\ In(v)[1][1] \in Nodes /\ Kind(In(v)[1][1]) = "Enter" /\ ~Inner(g, R, In(v)[1][1])
      BY <1>3, <1>4, LoopParts
    <3>4. In(v)[1] = Out(In(v)[1][1])
      <4>1. In(v)[1] \in OutputsOf(g, In(v)[1][1])
        BY <1>1, <1>15, <3>3, InputFrom, Readable
      <4>2. OutputsOf(g, In(v)[1][1]) = {Out(In(v)[1][1])}
        BY <3>3, OutputAddress
      <4> QED
        BY <4>1, <4>2
    <3>5. Al(Out(In(v)[1][1]), 0)
      BY <3>3, EnterAt1
    <3>6. Al(In(v)[1], k)
      BY <2>4, <3>4, <3>5
    <3> QED
      BY <2>2, <2>4, <3>1, <3>2, <3>6 DEF Finds
  <2>5. CASE k # 0
    <3>1. b \in flow.executed /\ slot[Out(b)] # Nil /\ content[slot[Out(b)]] = Vl(Out(b), k - 1)
      BY <1>1, <1>2, <2>3, <2>5 DEF MergeReady
    <3>2. i = 2
      BY <1>10, <3>1
    <3> QED
      BY <1>4, <2>2, <2>5, <3>1, <3>2
  <2> QED
    BY <2>4, <2>5
<1> HIDE DEF i, b
<1>17. Did(v)
  BY <1>1, <1>12, <1>13, <1>14, <1>15, <1>16, PassedOn
<1>18. FrameOnly(f) /\ flow'.frame[f].activated
       /\ flow'.frame[f].rewindPlanned = flow.frame[f].rewindPlanned
       /\ flow'.frame[f].rewindPosition = flow.frame[f].rewindPosition
  BY <1>9, <1>14 DEF FrameOnly
<1>19. /\ Back(g, v) \notin flow'.executed
       /\ \A u \in Nodes : u \notin {v, Back(g, v)} => (u \in flow'.executed <=> u \in flow.executed)
  BY <1>2, <1>4, <1>11, <1>14
<1> QED
  BY <1>1, <1>2, <1>3, <1>7, <1>13, <1>17, <1>18, <1>19

LEMMA NextDid ==
  ASSUME TypeInv, Reads(g, R), ArrayInv, FrameInv, WalkInv, NEW v, NextIteration(v)
  PROVE  /\ Did(v) /\ Lp(v) \in Loops(R) /\ v \in Part(Lp(v), "NextIteration")
         /\ flow'.executed = flow.executed \cup {v}
         /\ FrameOnly(Lp(v)) /\ flow'.frame[Lp(v)].activated = flow.frame[Lp(v)].activated
         /\ flow'.frame[Lp(v)].rewindPlanned
         /\ flow'.frame[Lp(v)].rewindPosition =
              IF flow.frame[Lp(v)].rewindPlanned THEN flow.frame[Lp(v)].rewindPosition
              ELSE rewindTo[v] - 1
         /\ \A k : Now(v, k) => Al(Out(v), k)
<1> DEFINE f  == Lp(v)
           fe == MarkExecuted(Live(v), v)
           fc == IF fe.frame[f].rewindPlanned THEN fe ELSE PlanRewind(fe, f, rewindTo[v] - 1)
<1>1. v \in Nodes /\ At(v) /\ Kind(v) = "NextIteration" /\ ~ShouldSkip(v)
  BY HereFacts DEF NextIteration
<1>2. GoodNode(g, R, v) /\ g.kind[v] = "NextIteration"
  BY <1>1, Readable, Inputs DEF Structured
<1>3. f # -1 /\ f \in Loops(R) /\ v \in Part(f, "NextIteration") /\ Inner(g, R, v)
  <2>1. f # -1
    BY <1>2 DEF GoodNode, Lp
  <2> QED
    BY <1>1, <2>1, LoopNumbers, InPart
<1>4. Frames1(v) = <<f>> /\ Last(Frames1(v)) = f /\ Flow1(v) = flow
  BY <1>1, <1>3, InsideFrame
<1>5. f \in Frames
  BY <1>3, LoopNumbers
<1>6. /\ Go(v, fc, Frames1(v)) /\ Alias(Out(v), In(v)[1])
      /\ content' = content /\ freed' = {}
  BY <1>4 DEF NextIteration, ArrayInv
<1>7. /\ IsFlow(fe) /\ fe.inactive = flow.inactive \ {v} /\ fe.executed = flow.executed \cup {v}
      /\ fe.branch = flow.branch /\ fe.frame = flow.frame
  BY <1>1, <1>4, LiveFlow
<1> HIDE DEF fe, f
<1>8. /\ fc.inactive = flow.inactive \ {v} /\ fc.executed = flow.executed \cup {v}
      /\ fc.branch = flow.branch
      /\ \A c \in Frames : c # f => fc.frame[c] = flow.frame[c]
      /\ fc.frame[f].activated = flow.frame[f].activated
      /\ fc.frame[f].rewindPlanned
      /\ fc.frame[f].rewindPosition =
           IF flow.frame[f].rewindPlanned THEN flow.frame[f].rewindPosition ELSE rewindTo[v] - 1
  <2>1. CASE fe.frame[f].rewindPlanned
    BY <1>7, <2>1
  <2>2. CASE ~fe.frame[f].rewindPlanned
    <3>1. fc = PlanRewind(fe, f, rewindTo[v] - 1)
      BY <2>2
    <3>2. rewindTo[v] \in Nat
      BY <1>1 DEF TypeInv
    <3>3. rewindTo[v] - 1 \in Nat \cup {-1}
      BY <3>2
    <3>4. fe.frame[f].rewindPosition = -1
      BY <1>5, <1>7, <2>2 DEF FrameInv
    <3> DEFINE pos == rewindTo[v] - 1
    <3> HIDE DEF fc, pos
    <3>5. pos \in Nat \cup {-1} /\ fc = PlanRewind(fe, f, pos)
      BY <3>1, <3>3 DEF pos
    <3>6. /\ \A c \in Frames : c # f => fc.frame[c] = fe.frame[c]
          /\ fc.frame[f].activated = fe.frame[f].activated
          /\ fc.frame[f].rewindPlanned /\ fc.frame[f].rewindPosition = pos
      BY <1>5, <1>7, <3>4, <3>5, Planned
    <3>7. Same(fe, fc)
      BY <1>5, <1>7, <3>5, PlanFlow
    <3> QED
      BY <1>7, <2>2, <3>6, <3>7 DEF Same, pos
  <2> QED
    BY <2>1, <2>2
<1> HIDE DEF fc
<1>9. flow' = fc
  BY <1>6 DEF Go
<1>10. 1 \in DOMAIN In(v) /\ In(v)[1] \in Addresses /\ R.src[In(v)[1]] \subseteq R.src[Out(v)]
  BY <1>1, Inputs, InputFrom, SourcesFlow
<1>11. ASSUME NEW k, Now(v, k)
       PROVE  Al(Out(v), k) /\ slot[In(v)[1]] # Nil /\ content[slot[In(v)[1]]] = Vl(Out(v), k)
  <2>1. Due(v, k) /\ ~IsLoopMerge(g, v)
    BY <1>2, <1>11 DEF Now, IsLoopMerge
  <2>2. \A i \in DOMAIN In(v) : Finds(In(v)[i], k)
    BY <1>1, <1>11, <2>1, FindsInput DEF Now
  <2>3. \A i \in DOMAIN In(v) : ~Off(In(v)[i])
    BY <1>1, BlockedOff DEF ShouldSkip
  <2>4. \A i \in DOMAIN In(v) : Inner(g, R, In(v)[i][1])
    BY <1>2 DEF GoodNode, In
  <2>5. AllIn(v, k)
    BY <2>2, <2>3, <2>4 DEF AllIn, Finds
  <2>6. Al(Out(v), k) /\ Vl(Out(v), k) = Vl(In(v)[1], k)
    BY <1>1, <2>1, <2>5, PassAt
  <2>7. Al(In(v)[1], k)
    BY <1>10, <2>5 DEF AllIn
  <2> QED
    BY <1>10, <2>2, <2>6, <2>7 DEF Finds
<1>12. Did(v)
  BY <1>1, <1>6, <1>8, <1>10, <1>11, PassedOn
<1> QED
  BY <1>3, <1>8, <1>9, <1>11, <1>12 DEF FrameOnly, f

\* At an Exit the loop has been through an iteration.
LEMMA ExitFacts ==
  ASSUME TypeInv, Reads(g, R), WalkInv, NEW v, At(v), Kind(v) = "Exit"
  PROVE  /\ Lp(v) \in Loops(R) /\ v \in Part(Lp(v), "Exit") /\ ~Inner(g, R, v) /\ Lp(v) \in Frames
         /\ frames = <<Lp(v)>> /\ Last(frames) = Lp(v) /\ Flow1(v) = flow
         /\ Frames1(v) = frames /\ Entered(Lp(v)) /\ Begun(Lp(v))
         /\ \A m \in Part(Lp(v), "Merge") : Done(m)
         /\ \A b \in Part(Lp(v), "NextIteration") : Done(b)
         /\ flow.frame[Lp(v)].activated
         /\ \A k \in Steps(Lp(v)) : Turning(Lp(v), k) =>
              (flow.frame[Lp(v)].rewindPlanned <=> k + 1 \in Steps(Lp(v)))
         /\ \E k \in Steps(Lp(v)) : Turning(Lp(v), k)
<1> DEFINE f == Lp(v)
<1>1. v \in Nodes /\ f \in Loops(R) /\ \E k \in Steps(f) : Turning(f, k)
  BY HereFacts, ExitTurns
<1>2. /\ frames = <<f>> /\ Frames1(v) = <<f>> /\ Last(Frames1(v)) = f /\ Flow1(v) = flow
      /\ Entered(f)
  BY <1>1, InsideFrame
<1>3. v \in Part(f, "Exit") /\ ~Inner(g, R, v) /\ f \in Frames
  BY <1>1, InPart, LoopNumbers
<1>4. \A m \in Part(f, "Merge") : Done(m)
  <2>1. \A m \in Part(f, "Merge") : m \in Nodes /\ Bf(m, v)
    BY <1>1, LoopParts, Stages
  <2> QED
    BY <2>1, DoneBefore
<1>5. \A b \in Part(f, "NextIteration") : Done(b)
  <2>1. \A b \in Part(f, "NextIteration") : b \in Nodes /\ Kind(b) # "Exit" /\ Lp(b) = f
    BY <1>1, LoopParts
  <2>2. \A b \in Part(f, "NextIteration") : Bf(b, v)
    BY <1>1, <1>3, <2>1, Stages
  <2> QED
    BY <2>1, <2>2, DoneBefore
<1>6. \E m \in Part(f, "Merge") : Back(g, m) \in Part(f, "NextIteration")
  BY <1>1, LoopParts
<1>7. Begun(f) /\ Ending(f)
  BY <1>4, <1>5, <1>6 DEF Begun, Ending
<1>8. \A k \in Steps(f) : Turning(f, k) =>
        flow.frame[f].activated /\ (flow.frame[f].rewindPlanned <=> k + 1 \in Steps(f))
  BY <1>7 DEF Turning
<1> QED
  BY <1>1, <1>2, <1>3, <1>4, <1>5, <1>7, <1>8

LEMMA NoExitInactive ==
  ASSUME TypeInv, Reads(g, R), WalkInv, NEW v
  PROVE  ~ExitInactive(v)
BY ExitFacts DEF ExitInactive

LEMMA ExitDid ==
  ASSUME TypeInv, Reads(g, R), ArrayInv, WalkInv, NEW v, ExitLoop(v)
  PROVE  /\ Did(v) /\ flow'.executed = flow.executed \cup {v} /\ flow'.frame = flow.frame
         /\ content' = content /\ slot'[Out(v)] = slot[In(v)[1]]
         /\ \A k \in Steps(Lp(v)) : Turning(Lp(v), k) => k + 1 \notin Steps(Lp(v))
<1>1. v \in Nodes /\ At(v) /\ Kind(v) = "Exit" /\ ~flow.frame[Last(frames)].rewindPlanned
  BY HereFacts DEF ExitLoop
<1>2. /\ Lp(v) \in Loops(R) /\ ~Inner(g, R, v) /\ Last(frames) = Lp(v) /\ Flow1(v) = flow
      /\ \A k \in Steps(Lp(v)) : Turning(Lp(v), k) => k + 1 \notin Steps(Lp(v))
  BY <1>1, ExitFacts
<1>3. PICK k \in Steps(Lp(v)) : Turning(Lp(v), k)
  BY <1>1, ExitFacts
<1>4. /\ Go(v, MarkExecuted(Live(v), v), frames) /\ Alias(Out(v), In(v)[1])
      /\ content' = content /\ freed' = {}
  BY DEF ExitLoop, ArrayInv
<1>5. LET fl == MarkExecuted(Live(v), v)
      IN  /\ fl.inactive = flow.inactive \ {v} /\ fl.executed = flow.executed \cup {v}
          /\ fl.branch = flow.branch /\ fl.frame = flow.frame
  BY <1>1, <1>2, LiveFlow
<1>6. slot[In(v)[1]] # Nil /\ content[slot[In(v)[1]]] = Vl(In(v)[1], k)
  BY <1>1, <1>2, <1>3, FindsExit
<1>7. Al(Out(v), 0) /\ Vl(Out(v), 0) = Vl(In(v)[1], k)
  BY <1>1, <1>2, <1>3, ExitAt
<1>8. In(v)[1] \in Addresses /\ R.src[In(v)[1]] \subseteq R.src[Out(v)]
  BY <1>1, Inputs, InputFrom, SourcesFlow
<1>9. \A j : Now(v, j) =>
        Al(Out(v), j) /\ slot[In(v)[1]] # Nil /\ content[slot[In(v)[1]]] = Vl(Out(v), j)
  BY <1>2, <1>6, <1>7 DEF Now, Due
<1>10. Did(v) /\ slot'[Out(v)] = slot[In(v)[1]]
  BY <1>1, <1>4, <1>5, <1>8, <1>9, PassedOn
<1>11. flow' = MarkExecuted(Live(v), v)
  BY <1>4 DEF Go
<1> QED
  BY <1>2, <1>4, <1>5, <1>10, <1>11
---------------------------------------------------------------------------
(* Each visit keeps the loops *)

LEMMA DoneParts ==
  ASSUME TypeInv, Reads(g, R), NEW v, At(v), g' = g, feed' = feed, Advance, NEW f \in Loops(R)
  PROVE  /\ Begun(f)' <=> Begun(f) \/ v \in Part(f, "Merge")
         /\ Entered(f)' <=> Entered(f) \/ v \in Part(f, "Enter")
         /\ Leaving(f)' <=> Leaving(f) \/ v \in Part(f, "Exit")
         /\ Ending(f)' <=> Ending(f) \/ v \in Part(f, "NextIteration")
         /\ Left(f) => Left(f)'
         /\ Kind(v) # "Exit" => (Left(f)' => Left(f))
<1>1. \A w \in Nodes : Done(w)' <=> Done(w) \/ w = v
  BY AdvanceDone
<1>2. \A k : Part(f, k)' = Part(f, k) /\ Part(f, k) \subseteq Nodes
  <2>1. \A k : Part(f, k)' = Part(f, k)
    BY Unmoved
  <2>2. \A k : Part(f, k) \subseteq Nodes
    BY DEF Part, PartOf, Nodes, NodesOf
  <2> QED
    BY <2>1, <2>2
<1>3. \A k : \A w \in Part(f, k) : (Done(w)' <=> Done(w) \/ w = v)
  BY <1>1, <1>2
<1>4. Begun(f)' <=> Begun(f) \/ v \in Part(f, "Merge")
  BY <1>2, <1>3 DEF Begun
<1>5. Entered(f)' <=> Entered(f) \/ v \in Part(f, "Enter")
  BY <1>2, <1>3 DEF Entered
<1>6. Leaving(f)' <=> Leaving(f) \/ v \in Part(f, "Exit")
  BY <1>2, <1>3 DEF Leaving
<1>7. Ending(f)' <=> Ending(f) \/ v \in Part(f, "NextIteration")
  BY <1>2, <1>3 DEF Ending
<1>8. Left(f) => Left(f)'
  BY <1>2, <1>3 DEF Left
<1>9. Kind(v) # "Exit" => (Left(f)' => Left(f))
  <2>1. \A x \in Part(f, "Exit") : Kind(x) = "Exit"
    BY LoopParts
  <2> QED
    BY <1>2, <1>3, <2>1 DEF Left
<1> QED
  BY <1>4, <1>5, <1>6, <1>7, <1>8, <1>9

\* The loops that v is not a part of, and the one that it enters, are not on their way.
LEMMA OtherLoop ==
  ASSUME TypeInv, Reads(g, R), WalkInv, NEW v, At(v), Moves(v), NEW f \in Loops(R),
         Lp(v) # f \/ Kind(v) = "Enter",
         \A b \in Part(f, "NextIteration") : b \in flow'.executed => b \in flow.executed,
         flow'.frame[f].rewindPlanned => flow.frame[f].rewindPlanned
  PROVE  LoopInv(f)'
<1>1. (~Begun(f) \/ Left(f)) /\ Quiet(f)
  BY OthersQuiet
<1>2. v \notin Part(f, "Merge")
  BY LoopParts
<1>3. (~Begun(f)' \/ Left(f)')
  BY <1>1, <1>2, DoneParts DEF Moves
<1>4. Part(f, "NextIteration")' = Part(f, "NextIteration")
  BY Unmoved DEF Moves
<1>5. Quiet(f)'
  BY <1>1, <1>4 DEF Quiet
<1> QED
  BY <1>3, <1>5 DEF LoopInv

\* The flags that a part v of a loop leaves in iteration k.
Flags(v, k) ==
  LET f == Lp(v)
  IN  /\ \A b \in Part(f, "NextIteration") : b # v =>
           (b \in flow'.executed <=> b \in flow.executed /\ ~(Kind(v) = "Merge" /\ b = Back(g, v)))
      /\ Kind(v) = "NextIteration" => (v \in flow'.executed <=> Al(Out(v), k))
      /\ IF Kind(v) = "Merge" THEN rewindTo' = [rewindTo EXCEPT ![Back(g, v)] = l]
         ELSE rewindTo' = rewindTo
      /\ Kind(v) = "Merge" \/ flow.frame[f].activated => flow'.frame[f].activated
      /\ flow'.frame[f].rewindPlanned <=>
           flow.frame[f].rewindPlanned \/ (Kind(v) = "NextIteration" /\ Al(Out(v), k))
      /\ flow'.frame[f].rewindPlanned =>
           flow'.frame[f].rewindPosition =
              IF flow.frame[f].rewindPlanned THEN flow.frame[f].rewindPosition ELSE rewindTo[v] - 1

LEMMA LoopMergeIs ==
  ASSUME TypeInv, Reads(g, R), NEW m \in Nodes, IsLoopMerge(g, m), NEW w \in Nodes,
         IsLoopMerge(g, w), Back(g, m) = Back(g, w)
  PROVE  m = w
<1>1. GoodNode(g, R, m) /\ w \in NodesOf(g)
  BY Readable DEF Structured
<1> QED
  BY <1>1 DEF GoodNode

LEMMA ReadyKept ==
  ASSUME TypeInv, Reads(g, R), ArrayInv, WalkInv, NEW v, At(v), Moves(v),
         NEW f \in Loops(R), Lp(v) = f, Kind(v) # "Enter",
         NEW k \in Steps(f), Turning(f, k), Flags(v, k), NEW m \in Part(f, "Merge")
  PROVE  MergeReady(m, k)'
<1>0. PICK b : b = Back(g, m)
  OBVIOUS
<1>1. v \in Nodes /\ ~Done(v)
  BY HereFacts
<1>2. /\ m \in Nodes /\ Kind(m) = "Merge" /\ Lp(m) = f /\ IsLoopMerge(g, m)
      /\ b \in Part(f, "NextIteration") /\ b \in Nodes /\ Kind(b) = "NextIteration" /\ Lp(b) = f
      /\ b # m
  BY <1>0, LoopParts
<1>3. \A w \in Nodes : Done(w)' <=> Done(w) \/ w = v
  BY AdvanceDone DEF Moves
<1>4. MergeReady(m, k)
  BY DEF Turning
<1>5. Bf(m, b) /\ ~Bf(b, m)
  BY <1>2, Stages, BeforeAsymmetric
<1>6. g' = g /\ Vl(Out(b), k - 1)' = Vl(Out(b), k - 1)
  BY Unmoved DEF Moves
<1>7. rewindTo \in [Nodes -> Nat]
  BY DEF TypeInv
<1>8. \A u \in Nodes : u \in Part(f, Kind(u)) <=> Lp(u) = f
  BY InPart DEF Part, PartOf, Lp, Kind, Nodes, NodesOf
<1>9. CASE m = v
  <2>1. b \notin flow'.executed /\ rewindTo'[b] = l
    BY <1>0, <1>2, <1>7, <1>9 DEF Flags
  <2>2. ASSUME NEW i \in LayersWith(g, m) PROVE l = i - 1
    <3>1. PICK j \in DOMAIN g.layers[i] : g.layers[i][j] = m /\ i \in DOMAIN g.layers
      BY DEF LayersWith
    <3>2. i = l + 1 /\ l \in Nat
      BY <1>9, <3>1, HereFacts, OnePlace DEF TypeInv
    <3> QED
      BY <3>2
  <2>3. Done(m)'
    BY <1>1, <1>3, <1>9
  <2> QED
    BY <1>0, <1>6, <2>1, <2>2, <2>3 DEF MergeReady
<1>10. CASE m # v
  <2>1. ~(Kind(v) = "Merge" /\ b = Back(g, v))
    <3>1. SUFFICES ASSUME Kind(v) = "Merge", b = Back(g, v) PROVE FALSE
      OBVIOUS
    <3>2. v \in Part(f, "Merge")
      BY <1>1, <1>8, <3>1
    <3>3. IsLoopMerge(g, v)
      BY <3>2, LoopParts
    <3> QED
      BY <1>0, <1>1, <1>2, <1>10, <3>1, <3>3, LoopMergeIs
  <2>2. rewindTo'[b] = rewindTo[b]
    BY <1>0, <1>2, <1>7, <2>1 DEF Flags
  <2>3. b # v => (b \in flow'.executed <=> b \in flow.executed)
    BY <1>2, <2>1 DEF Flags
  <2>4. Done(m)' <=> Done(m)
    BY <1>2, <1>3, <1>10
  <2>5. CASE Done(m)
    <3>1. ~Done(b)' => b # v /\ ~Done(b)
      BY <1>2, <1>3
    <3>2. /\ ~Done(b) => b \notin flow.executed
          /\ \A i \in LayersWith(g, m) : rewindTo[b] = i - 1
      BY <1>0, <1>4, <2>5 DEF MergeReady
    <3> QED
      BY <1>0, <1>6, <2>2, <2>3, <2>4, <2>5, <3>1, <3>2 DEF MergeReady
  <2>6. CASE ~Done(m)
    <3>1. b # v
      BY <1>2, <1>5, <2>6, DoneBefore
    <3>2. Kind(v) = "Merge"
      <4>1. SUFFICES ASSUME Kind(v) # "Merge" PROVE FALSE
        OBVIOUS
      <4>2. Bf(m, v)
        BY <1>1, <4>1, Stages
      <4> QED
        BY <1>2, <2>6, <4>2, DoneBefore
    <3>3. content' = content
      BY <3>2 DEF Moves
    <3>4. slot'[Out(b)] = slot[Out(b)]
      BY <1>2, <3>1, OutputAddress DEF Moves, Out
    <3>5. IF k = 0 THEN b \notin flow.executed
          ELSE b \in flow.executed /\ slot[Out(b)] # Nil /\ content[slot[Out(b)]] = Vl(Out(b), k - 1)
      BY <1>0, <1>4, <2>6 DEF MergeReady
    <3>6. Out(b)' = Out(b)
      BY DEF Out
    <3>7. IF k = 0 THEN b \notin flow'.executed
          ELSE /\ b \in flow'.executed /\ slot'[Out(b)] # Nil
               /\ content'[slot'[Out(b)]] = Vl(Out(b), k - 1)
      BY <2>3, <3>1, <3>3, <3>4, <3>5
    <3> QED
      BY <1>0, <1>6, <2>4, <2>6, <3>6, <3>7 DEF MergeReady, Nil
  <2> QED
    BY <2>5, <2>6
<1> QED
  BY <1>9, <1>10

LEMMA InsideKept ==
  ASSUME TypeInv, Reads(g, R), ArrayInv, WalkInv, NEW v, At(v), Did(v),
         NEW f \in Loops(R), Lp(v) = f, Kind(v) # "Enter", NEW k \in Steps(f), Turning(f, k),
         Kind(v) = "Exit" => content' = content,
         NEW u \in Nodes, Lp(u) = f, Inner(g, R, u), Done(u)'
  PROVE  Passed(u, k)'
<1>1. v \in Nodes /\ ~Done(v) /\ Moves(v) /\ f # -1 /\ g' = g
  BY HereFacts, LoopNumbers DEF Did, Moves
<1>2. Done(u) => Passed(u, k)
  BY DEF Turning
<1>3. CASE Kind(v) # "Exit"
  <2>1. Inner(g, R, v)
    BY <1>1, <1>3, InPart
  <2>2. Now(v, k)
    BY <2>1 DEF Now, Due
  <2> QED
    BY <1>1, <1>2, <2>2, InnerKept
<1>4. CASE Kind(v) = "Exit"
  <2>1. u # v
    BY <1>1, <1>4, InPart
  <2>2. Done(u)
    BY <1>1, <2>1, AdvanceDone DEF Moves
  <2>3. \A a \in OutputsOf(g, u) : Good(a, k)'
    BY <1>1, <1>2, <1>4, <2>2, GoodKept DEF Passed
  <2> QED
    BY <1>1, <2>3 DEF Passed
<1> QED
  BY <1>3, <1>4

\* The first NextIteration that is executed is that of the head, and has its layer.
LEMMA BackLayer ==
  ASSUME TypeInv, Reads(g, R), WalkInv, NEW v, At(v), Kind(v) = "NextIteration",
         NEW f \in Loops(R), Lp(v) = f, NEW k \in Steps(f), Turning(f, k), Al(Out(v), k),
         ~flow.frame[f].rewindPlanned, NEW m \in Part(f, "Merge"), IsHead(g, R, m),
         NEW i \in LayersWith(g, m)
  PROVE  rewindTo[v] = i - 1
<1>1. v \in Nodes /\ ~Done(v)
  BY HereFacts
<1>2. PICK w \in Part(f, "Merge") : Back(g, w) = v
  <2>1. v \in Part(f, "NextIteration")
    BY <1>1, InPart
  <2> QED
    BY <2>1, LoopParts
<1>3. /\ m \in Nodes /\ Lp(m) = f /\ w \in Nodes /\ Kind(m) = "Merge"
      /\ Back(g, m) \in Part(f, "NextIteration")
  BY LoopParts
<1>4. Due(v, k) /\ k + 1 \in Steps(f)
  <2>1. Inner(g, R, v)
    BY <1>1, InPart, LoopNumbers
  <2>2. Due(v, k)
    BY <2>1 DEF Due
  <2> QED
    BY <1>1, <2>2, BackAt
<1>5. ~Ending(f)
  BY <1>4 DEF Turning
<1>6. w = m
  <2>1. SUFFICES ASSUME w # m PROVE FALSE
    OBVIOUS
  <2>2. Bf(Back(g, m), v)
    BY <1>2, <1>3, <2>1, Heads
  <2>3. Done(Back(g, m))
    BY <2>2, BeforeNodes, DoneBefore
  <2> QED
    BY <1>3, <1>5, <2>3 DEF Ending
<1>7. Done(m)
  <2>1. Bf(m, v)
    BY <1>1, <1>3, Stages
  <2> QED
    BY <1>3, <2>1, DoneBefore
<1>8. MergeReady(m, k)
  BY DEF Turning
<1> QED
  BY <1>2, <1>6, <1>7, <1>8 DEF MergeReady

LEMMA TurningKept ==
  ASSUME TypeInv, Reads(g, R), ArrayInv, WalkInv, NEW v, At(v), Did(v),
         NEW f \in Loops(R), Lp(v) = f, Kind(v) # "Enter", NEW k \in Steps(f), Turning(f, k),
         Flags(v, k), ~Left(f)', Kind(v) = "Exit" => content' = content /\ k + 1 \notin Steps(f)
  PROVE  Turning(f, k)'
<1>1. v \in Nodes /\ ~Done(v) /\ Moves(v) /\ f # -1 /\ g' = g /\ feed' = feed /\ Advance
  BY HereFacts, LoopNumbers DEF Did, Moves
<1>2. /\ R' = R /\ Nodes' = Nodes /\ Steps(f)' = Steps(f)
      /\ \A c : Part(f, c)' = Part(f, c)
      /\ \A u, w : Bf(u, w)' = Bf(u, w)
      /\ \A w : Lp(w)' = Lp(w) /\ Kind(w)' = Kind(w)
      /\ \A w : Al(Out(w), k)' = Al(Out(w), k)
  BY <1>1, Unmoved
<1>3. \A w \in Nodes : Done(w)' <=> Done(w) \/ w = v
  BY <1>1, AdvanceDone
<1>4. v \in Part(f, Kind(v)) /\ \A c : v \in Part(f, c) => c = Kind(v)
  BY <1>1, InPart DEF Part, PartOf, Kind, Nodes, NodesOf
<1>5. /\ Begun(f)' <=> Begun(f) \/ Kind(v) = "Merge"
      /\ Leaving(f)' <=> Leaving(f) \/ Kind(v) = "Exit"
      /\ Ending(f)' <=> Ending(f) \/ Kind(v) = "NextIteration"
  BY <1>1, <1>4, DoneParts
<1>6. \A m \in Part(f, "Merge") : MergeReady(m, k)'
  BY <1>1, ReadyKept
<1>7. \A m \in Part(f, "Merge") : \A u \in Nodes : IsHead(g, R, m) /\ Bf(u, m) => Done(u)'
  BY <1>3 DEF Turning
<1>8. \A u \in Nodes : Lp(u) = f /\ Inner(g, R, u) /\ Done(u)' => Passed(u, k)'
  BY InsideKept
<1>9. \A b \in Part(f, "NextIteration") : Done(b)' => (b \in flow'.executed <=> Al(Out(b), k))
  <2> SUFFICES ASSUME NEW b \in Part(f, "NextIteration"), Done(b)'
               PROVE  b \in flow'.executed <=> Al(Out(b), k)
    OBVIOUS
  <2>1. b \in Nodes /\ Kind(b) = "NextIteration" /\ Lp(b) = f
    BY LoopParts
  <2>2. CASE b = v
    BY <2>1, <2>2 DEF Flags
  <2>3. CASE b # v
    <3>1. Done(b)
      BY <1>3, <2>1, <2>3
    <3>2. Kind(v) # "Merge"
      <4>1. SUFFICES ASSUME Kind(v) = "Merge" PROVE FALSE
        OBVIOUS
      <4>2. Bf(v, b) /\ Bf(b, v)
        BY <1>1, <1>4, <2>1, <3>1, <4>1, Stages, DoneBefore
      <4> QED
        BY <4>2, BeforeAsymmetric
    <3>3. b \in flow'.executed <=> b \in flow.executed
      BY <2>3, <3>2 DEF Flags
    <3> QED
      BY <3>1, <3>3 DEF Turning
  <2> QED
    BY <2>2, <2>3
<1>10. Kind(v) = "NextIteration" => (Al(Out(v), k) <=> k + 1 \in Steps(f))
  <2>1. Kind(v) = "NextIteration" => Due(v, k)
    BY <1>1, InPart DEF Due
  <2> QED
    BY <1>1, <2>1, BackAt
<1>11. flow'.frame[f].rewindPlanned <=> Ending(f)' /\ k + 1 \in Steps(f)
  <2>1. flow.frame[f].rewindPlanned <=> Ending(f) /\ k + 1 \in Steps(f)
    BY DEF Turning
  <2> QED
    BY <1>5, <1>10, <2>1 DEF Flags
<1>12. flow'.frame[f].rewindPlanned =>
         \A m \in Part(f, "Merge") : IsHead(g, R, m) => \A i \in LayersWith(g, m) :
            flow'.frame[f].rewindPosition = i - 2
  <2> SUFFICES ASSUME flow'.frame[f].rewindPlanned, NEW m \in Part(f, "Merge"), IsHead(g, R, m),
                      NEW i \in LayersWith(g, m)
               PROVE  flow'.frame[f].rewindPosition = i - 2
    OBVIOUS
  <2>1. CASE flow.frame[f].rewindPlanned
    BY <2>1 DEF Flags, Turning
  <2>2. CASE ~flow.frame[f].rewindPlanned
    <3>1. Kind(v) = "NextIteration" /\ Al(Out(v), k)
      BY <2>2 DEF Flags
    <3>2. rewindTo[v] = i - 1
      BY <2>2, <3>1, BackLayer
    <3>3. flow'.frame[f].rewindPosition = rewindTo[v] - 1
      BY <2>2 DEF Flags
    <3>4. i \in Nat
      <4>1. i \in DOMAIN g.layers /\ g.layers \in Seq(Seq(Nodes))
        BY Laid DEF LayersWith
      <4> QED
        BY <4>1
    <3> QED
      BY <3>2, <3>3, <3>4
  <2> QED
    BY <2>1, <2>2
<1>13. Leaving(f)' => k + 1 \notin Steps(f)
  BY <1>5 DEF Turning
<1>14. Begun(f)' => flow'.frame[f].activated
  BY <1>5 DEF Turning, Flags
<1> QED
  BY <1>1, <1>2, <1>6, <1>7, <1>8, <1>9, <1>11, <1>12, <1>13, <1>14 DEF Turning

---------------------------------------------------------------------------
(* Each visit keeps the frames *)

LEMMA FrameKept ==
  ASSUME TypeInv, Reads(g, R), FrameInv, WalkInv, NEW v, At(v), g' = g, feed' = feed,
         SetFrame(v) \/ frameOf' = frameOf,
         \A c \in Frames : ~flow'.frame[c].rewindPlanned => flow'.frame[c].rewindPosition = -1
  PROVE  FrameInv'
<1>1. /\ v \in Nodes /\ ~Done(v)
      /\ frameOf[v] \in Frames \cup {-1} /\ frameOf \in [Nodes -> Frames \cup {-1}]
  BY HereFacts DEF TypeInv
<1>2. /\ R' = R /\ Nodes' = Nodes /\ Frames' = Frames
      /\ \A w : Lp(w)' = Lp(w) /\ Kind(w)' = Kind(w)
  BY Unmoved
<1>3. IsLoopMerge(g, v) => FrameId(v) \in {-1, Lp(v)}
  <2>1. SUFFICES ASSUME IsLoopMerge(g, v) PROVE FrameId(v) \in {-1, Lp(v)}
    OBVIOUS
  <2>2. GoodNode(g, R, v) /\ g.kind[v] = "Merge" /\ Kind(v) = "Merge"
    BY <1>1, <2>1, Readable, Inputs DEF Structured, IsLoopMerge
  <2>3. Lp(v) # -1
    BY <2>1, <2>2 DEF GoodNode, Lp
  <2>4. Last(Frames1(v)) = Lp(v)
    BY <1>1, <2>2, <2>3, LoopNumbers, InsideFrame
  <2>5. frameOf[v] \in {-1, Lp(v)}
    BY <1>1, <2>1 DEF FrameInv
  <2> QED
    BY <2>4, <2>5 DEF FrameId
<1>4. Kind(v) = "Merge" /\ ~IsLoopMerge(g, v) => FrameId(v) = -1
  <2>1. SUFFICES ASSUME Kind(v) = "Merge", ~IsLoopMerge(g, v) PROVE FrameId(v) = -1
    OBVIOUS
  <2>2. Lp(v) = -1 /\ Lp(v) \notin Loops(R)
    BY <1>1, <2>1, PlainMerge, LoopNumbers
  <2>3. Frames1(v) = <<>>
    <3>1. SUFFICES ASSUME NEW f \in Loops(R), Entered(f), ~Leaving(f) PROVE FALSE
      BY <2>2, OutsideFrame
    <3>2. PICK e \in Part(f, "Enter") : Done(e)
      BY <3>1 DEF Entered
    <3>3. PICK x \in Part(f, "Exit") : ~Done(x)
      <4>1. PICK y \in Part(f, "Exit") : TRUE
        BY LoopParts
      <4> QED
        BY <3>1, <4>1 DEF Leaving
    <3>4. e \in Nodes /\ Lp(e) = f /\ x \in Nodes /\ Lp(x) = f /\ Kind(x) = "Exit" /\ f # -1
      BY LoopParts, LoopNumbers
    <3>5. Bf(e, v) /\ Bf(v, x)
      BY <2>1, <3>2, <3>3, <3>4, DoneBefore, UndoneAfter
    <3> QED
      BY <1>1, <2>1, <2>2, <3>4, <3>5, LoopClosed
  <2>4. frameOf[v] = -1
    BY <1>1, <2>1 DEF FrameInv
  <2> QED
    BY <2>3, <2>4 DEF FrameId
<1>5. Kind(v) = "Enter" => FrameId(v) = Lp(v)
  <2>1. SUFFICES ASSUME Kind(v) = "Enter" PROVE FrameId(v) = Lp(v)
    OBVIOUS
  <2>2. frameOf[v] = Lp(v) /\ frameOf[v] # -1
    BY <1>1, <2>1 DEF FrameInv, TypeInv
  <2>3. frameOf[v] \in Nat
    BY <1>1, <2>2, FrameNumbers
  <2> QED
    BY <2>2, <2>3 DEF FrameId
<1>6. \A u \in Nodes : frameOf'[u] \in {frameOf[u]} \cup (IF u = v THEN {FrameId(v)} ELSE {})
  <2>1. CASE SetFrame(v)
    BY <1>1, <2>1 DEF SetFrame
  <2>2. CASE frameOf' = frameOf
    BY <2>2
  <2> QED
    BY <2>1, <2>2
<1>7. \A u \in Nodes : IsLoopMerge(g, u) => frameOf'[u] \in {-1, Lp(u)}
  BY <1>3, <1>6 DEF FrameInv
<1>8. \A u \in Nodes : Kind(u) = "Merge" /\ ~IsLoopMerge(g, u) => frameOf'[u] = -1
  BY <1>4, <1>6 DEF FrameInv
<1>9. \A u \in Nodes : Kind(u) = "Enter" => frameOf'[u] = Lp(u)
  BY <1>5, <1>6 DEF FrameInv
<1> QED
  BY <1>2, <1>7, <1>8, <1>9 DEF FrameInv

LEMMA ShutKept ==
  ASSUME TypeInv, Reads(g, R), NEW v, At(v), Moves(v), NEW c \in Loops(R), Shut(c),
         Kind(v) # "Enter" \/ Lp(v) # c
  PROVE  Shut(c)'
<1>1. v \notin Part(c, "Enter")
  BY LoopParts
<1> QED
  BY <1>1, DoneParts DEF Moves, Shut

LEMMA OpenInside ==
  ASSUME TypeInv, Reads(g, R), WalkInv, NEW v, At(v), Moves(v), Lp(v) \in Loops(R),
         Kind(v) \notin {"Enter", "Exit"}, frames' = Frames1(v), leftFrame' = Left1(v)
  PROVE  OpenInv'
<1>1. v \in Nodes /\ g' = g /\ feed' = feed
  BY HereFacts DEF Moves
<1>2. PICK f \in Loops(R) : f = Lp(v)
  OBVIOUS
<1>3. /\ frames' = <<f>> /\ leftFrame' = leftFrame /\ ~leftFrame /\ ~Leaving(f) /\ Entered(f)
      /\ \A c \in Loops(R) \ {f} : Shut(c)
  BY <1>2, InsideFrame
<1>4. Loops(R)' = Loops(R)
  BY <1>1, Unmoved
<1>5. Entered(f)' /\ ~Leaving(f)'
  <2>1. v \notin Part(f, "Exit")
    BY LoopParts
  <2> QED
    BY <1>3, <2>1, DoneParts DEF Moves
<1>6. \A c \in Loops(R) \ {f} : Shut(c)'
  BY <1>3, ShutKept
<1> QED
  BY <1>3, <1>4, <1>5, <1>6 DEF OpenInv

LEMMA OpenOutside ==
  ASSUME TypeInv, Reads(g, R), WalkInv, NEW v, At(v), Moves(v), Lp(v) \notin Loops(R),
         frames' = Frames1(v), leftFrame' = Left1(v)
  PROVE  OpenInv'
<1>1. v \in Nodes /\ g' = g /\ feed' = feed /\ leftFrame' = FALSE
  BY HereFacts, OutsideFrame DEF Moves
<1>2. Loops(R)' = Loops(R)
  BY <1>1, Unmoved
<1>3. \A c \in Loops(R) : Shut(c) => Shut(c)'
  BY ShutKept
<1>4. CASE Frames1(v) = <<>> /\ \A c \in Loops(R) : Shut(c)
  BY <1>1, <1>2, <1>3, <1>4 DEF OpenInv
<1>5. ASSUME NEW f \in Loops(R), Frames1(v) = <<f>>, Entered(f), ~Leaving(f),
             \A c \in Loops(R) \ {f} : Shut(c)
      PROVE  OpenInv'
  <2>1. v \notin Part(f, "Exit")
    BY LoopParts
  <2>2. Entered(f)' /\ ~Leaving(f)'
    BY <1>5, <2>1, DoneParts DEF Moves
  <2> QED
    BY <1>1, <1>2, <1>3, <1>5, <2>2 DEF OpenInv
<1> QED
  BY <1>4, <1>5, OutsideFrame

LEMMA OpenEnter ==
  ASSUME TypeInv, Reads(g, R), FrameInv, WalkInv, NEW v, At(v), Moves(v), Kind(v) = "Enter",
         frames' = IF Frames1(v) = <<>> \/ Last(Frames1(v)) # FrameId(v)
                   THEN Append(Frames1(v), FrameId(v)) ELSE Frames1(v),
         leftFrame' = Left1(v)
  PROVE  OpenInv'
<1>0. PICK f : f = Lp(v)
  OBVIOUS
<1>1. v \in Nodes /\ ~Done(v) /\ g' = g /\ feed' = feed
  BY HereFacts DEF Moves
<1>2. f \in Loops(R) /\ f # -1
  <2>1. GoodNode(g, R, v) /\ g.kind[v] = "Enter"
    BY <1>1, Readable, Inputs DEF Structured
  <2>2. f # -1
    BY <1>0, <2>1 DEF GoodNode, Lp
  <2> QED
    BY <1>0, <1>1, <2>2, LoopNumbers
<1>3. FrameId(v) = f
  <2>1. frameOf[v] = f /\ f \in Nat
    BY <1>0, <1>1, <1>2, LoopNumbers, FrameNumbers DEF FrameInv
  <2> QED
    BY <2>1 DEF FrameId
<1>4. frames' = <<f>> /\ \A c \in Loops(R) \ {f} : Shut(c)
  <2>1. CASE Frames1(v) = <<>> /\ \A c \in Loops(R) : Shut(c)
    <3>1. Append(<<>>, f) = <<f>>
      OBVIOUS
    <3> QED
      BY <1>3, <2>1, <3>1
  <2>2. ASSUME NEW c \in Loops(R), Frames1(v) = <<c>>, \A d \in Loops(R) \ {c} : Shut(d), c = f
        PROVE  frames' = <<f>> /\ \A d \in Loops(R) \ {f} : Shut(d)
    <3>1. Frames1(v) # <<>> /\ Last(Frames1(v)) = f
      BY <2>2 DEF Last
    <3> QED
      BY <1>3, <2>2, <3>1
  <2> QED
    BY <1>0, <2>1, <2>2, OutsideFrame
<1>5. leftFrame' = FALSE
  BY OutsideFrame
<1>6. Loops(R)' = Loops(R)
  BY <1>1, Unmoved
<1>7. Entered(f)' /\ ~Leaving(f)'
  <2>1. v \in Part(f, "Enter") /\ v \notin Part(f, "Exit")
    BY <1>0, <1>1, <1>2, InPart, LoopParts
  <2>2. ~Leaving(f)
    <3>1. SUFFICES ASSUME NEW x \in Part(f, "Exit"), Done(x) PROVE FALSE
      BY DEF Leaving
    <3>2. x \in Nodes /\ Lp(x) = f /\ Kind(x) = "Exit"
      BY <1>2, LoopParts
    <3>3. Bf(v, x)
      BY <1>0, <1>1, <1>2, <2>1, <3>2, Stages
    <3> QED
      BY <3>1, <3>2, <3>3, DoneBefore, BeforeAsymmetric
  <2> QED
    BY <1>2, <2>1, <2>2, DoneParts DEF Moves
<1>8. \A c \in Loops(R) \ {f} : Shut(c)'
  BY <1>0, <1>4, ShutKept
<1> QED
  BY <1>2, <1>4, <1>5, <1>6, <1>7, <1>8 DEF OpenInv

LEMMA OpenExit ==
  ASSUME TypeInv, Reads(g, R), WalkInv, NEW v, At(v), Moves(v), Kind(v) = "Exit",
         frames' = frames, leftFrame' = TRUE
  PROVE  OpenInv'
<1>1. v \in Nodes /\ g' = g /\ feed' = feed
  BY HereFacts DEF Moves
<1>2. PICK f \in Loops(R) : f = Lp(v)
  BY ExitFacts
<1>3. frames = <<f>> /\ Entered(f) /\ \A c \in Loops(R) \ {f} : Shut(c)
  BY <1>2, InsideFrame
<1>4. Loops(R)' = Loops(R) /\ Part(f, "Exit")' = Part(f, "Exit") /\ Nodes' = Nodes
      /\ \A u, w : Bf(u, w)' = Bf(u, w)
  BY <1>1, Unmoved
<1>5. v \in Part(f, "Exit")
  BY <1>2, ExitFacts
<1>6. Entered(f)' /\ Leaving(f)'
  BY <1>3, <1>5, DoneParts DEF Moves
<1>7. \A c \in Loops(R) \ {f} : Shut(c)'
  BY <1>2, <1>3, ShutKept
<1>8. \A w \in Nodes : Done(w)' => \E x \in Part(f, "Exit") : w = x \/ Bf(w, x)
  <2>1. \A w \in Nodes : Done(w)' => w = v \/ Bf(w, v)
    BY AdvanceDone, DoneBefore DEF Moves
  <2> QED
    BY <1>5, <2>1
<1> QED
  BY <1>3, <1>4, <1>6, <1>7, <1>8 DEF OpenInv

---------------------------------------------------------------------------
(* Each visit keeps the invariant *)

LEMMA WalkOutside ==
  ASSUME TypeInv, Reads(g, R), ArrayInv, WalkInv, NEW v, At(v), Did(v),
         Lp(v) \notin Loops(R) \/ Kind(v) = "Enter",
         \A u \in Nodes : u # v /\ u \in flow'.executed => u \in flow.executed,
         flow'.frame = Flow1(v).frame, OpenInv'
  PROVE  WalkInv'
<1>1. v \in Nodes /\ Moves(v) /\ g' = g /\ feed' = feed
  BY HereFacts DEF Did, Moves
<1>2. R' = R /\ Loops(R)' = Loops(R) /\ Frames' = Frames
  BY <1>1, Unmoved
<1>3. \A c \in Frames : flow'.frame[c].rewindPlanned => flow.frame[c].rewindPlanned
  BY <1>1, HeadFacts DEF FreshFrame
<1>4. ASSUME NEW f \in Loops(R) PROVE LoopInv(f)'
  <2>1. Lp(v) # f \/ Kind(v) = "Enter"
    OBVIOUS
  <2>2. \A b \in Part(f, "NextIteration") : b \in Nodes /\ b # v
    BY <2>1, LoopParts
  <2>3. f \in Frames
    BY LoopNumbers
  <2> QED
    BY <1>1, <1>3, <2>1, <2>2, <2>3, OtherLoop
<1>5. \A f \in Frames \ Loops(R) : ~flow'.frame[f].rewindPlanned
  BY <1>3 DEF WalkInv
<1>6. OuterInv'
  BY OuterKept
<1> QED
  BY <1>2, <1>4, <1>5, <1>6 DEF WalkInv

LEMMA WalkInside ==
  ASSUME TypeInv, Reads(g, R), ArrayInv, WalkInv, NEW v, At(v), Did(v),
         Lp(v) \in Loops(R), Kind(v) # "Enter", LoopInv(Lp(v))', FrameOnly(Lp(v)),
         \A u \in Nodes : u # v /\ u \in flow'.executed => u \in flow.executed,
         OpenInv'
  PROVE  WalkInv'
<1>1. v \in Nodes /\ Moves(v) /\ g' = g /\ feed' = feed
  BY HereFacts DEF Did, Moves
<1>2. R' = R /\ Loops(R)' = Loops(R) /\ Frames' = Frames /\ Lp(v)' = Lp(v)
  BY <1>1, Unmoved
<1>3. Loops(R) \subseteq Frames
  BY LoopNumbers
<1>4. ASSUME NEW f \in Loops(R), f # Lp(v) PROVE LoopInv(f)'
  <2>1. \A b \in Part(f, "NextIteration") : b \in Nodes /\ b # v
    BY <1>4, LoopParts
  <2>2. flow'.frame[f] = flow.frame[f]
    BY <1>3, <1>4 DEF FrameOnly
  <2> QED
    BY <1>1, <1>4, <2>1, <2>2, OtherLoop
<1>5. \A f \in Frames \ Loops(R) : ~flow'.frame[f].rewindPlanned
  BY DEF WalkInv, FrameOnly
<1>6. OuterInv'
  BY OuterKept
<1>7. PICK d : d = Lp(v)
  OBVIOUS
<1>8. LoopInv(d)'
  BY <1>2, <1>7
<1>9. \A f \in Loops(R) : LoopInv(f)'
  BY <1>4, <1>7, <1>8
<1> QED
  BY <1>2, <1>5, <1>6, <1>9 DEF WalkInv

\* A part of a loop that is neither an Enter nor an Exit.
LEMMA PartStep ==
  ASSUME TypeInv, Reads(g, R), ArrayInv, FrameInv, WalkInv, NEW v, At(v), Did(v),
         Lp(v) \in Loops(R), Kind(v) \notin {"Enter", "Exit"},
         \A k \in Steps(Lp(v)) : Turning(Lp(v), k) => Flags(v, k),
         FrameOnly(Lp(v)),
         \A u \in Nodes : u # v /\ u \in flow'.executed => u \in flow.executed,
         ~flow'.frame[Lp(v)].rewindPlanned => flow'.frame[Lp(v)].rewindPosition = -1,
         frames' = Frames1(v), leftFrame' = Left1(v), SetFrame(v) \/ frameOf' = frameOf
  PROVE  FrameInv' /\ WalkInv'
<1>1. v \in Nodes /\ Moves(v) /\ g' = g /\ feed' = feed /\ Advance
  BY HereFacts DEF Did, Moves
<1>2. Inner(g, R, v)
  BY <1>1, InPart, LoopNumbers
<1>3. PICK f \in Loops(R) : f = Lp(v)
  OBVIOUS
<1>4. PICK k \in Steps(f) : Turning(f, k)
  BY <1>2, <1>3, LoopRuns
<1>5. ~Left(f)'
  BY <1>1, <1>3, DoneParts, InsideFrame
<1>6. Turning(f, k)'
  BY <1>3, <1>4, <1>5, TurningKept
<1>7. Steps(f)' = Steps(f) /\ Lp(v)' = Lp(v)
  BY <1>1, Unmoved
<1>8. LoopInv(f)'
  BY <1>6, <1>7 DEF LoopInv
<1>9. LoopInv(Lp(v))'
  BY <1>3, <1>7, <1>8
<1>10. OpenInv'
  BY <1>1, OpenInside
<1>11. WalkInv'
  BY <1>9, <1>10, WalkInside
<1>12. \A c \in Frames : ~flow'.frame[c].rewindPlanned => flow'.frame[c].rewindPosition = -1
  BY DEF FrameOnly, FrameInv
<1>13. FrameInv'
  BY <1>1, <1>12, FrameKept
<1> QED
  BY <1>11, <1>13

\* A node that plans no rewind and sets no rewind layer.
LEMMA PlainKept ==
  ASSUME TypeInv, Reads(g, R), ArrayInv, FrameInv, WalkInv, NEW v, At(v), Did(v),
         Kind(v) \notin {"Enter", "Exit"}, ~IsLoopMerge(g, v),
         flow'.executed \in {flow.executed, flow.executed \cup {v}},
         Kind(v) = "NextIteration" =>
            flow'.executed = flow.executed /\ \A k : Now(v, k) => ~Al(Out(v), k),
         flow'.frame = Flow1(v).frame, rewindTo' = rewindTo,
         frames' = Frames1(v), leftFrame' = Left1(v), SetFrame(v) \/ frameOf' = frameOf
  PROVE  FrameInv' /\ WalkInv'
<1>1. v \in Nodes /\ ~Done(v) /\ Moves(v) /\ g' = g /\ feed' = feed /\ Advance
  BY HereFacts DEF Did, Moves
<1>2. \A u \in Nodes : u # v /\ u \in flow'.executed => u \in flow.executed
  OBVIOUS
<1>3. \A c \in Frames : Flow1(v).frame[c] \in {flow.frame[c], FreshFrame}
  BY <1>1, HeadFacts
<1>4. \A c \in Frames : ~flow'.frame[c].rewindPlanned => flow'.frame[c].rewindPosition = -1
  BY <1>3 DEF FrameInv, FreshFrame
<1>5. CASE Lp(v) \notin Loops(R)
  <2>1. OpenInv'
    BY <1>1, <1>5, OpenOutside
  <2>2. WalkInv'
    BY <1>2, <1>5, <2>1, WalkOutside
  <2>3. FrameInv'
    BY <1>1, <1>4, FrameKept
  <2> QED
    BY <2>2, <2>3
<1>6. CASE Lp(v) \in Loops(R)
  <2>1. Flow1(v) = flow
    BY <1>6, InsideFrame
  <2>2. Kind(v) # "Merge"
    <3>1. GoodNode(g, R, v) /\ Kind(v) = g.kind[v] /\ Lp(v) # -1
      BY <1>1, <1>6, Readable, Inputs, LoopNumbers DEF Structured
    <3> QED
      BY <3>1 DEF GoodNode, Lp
  <2>3. ASSUME NEW k \in Steps(Lp(v)), Turning(Lp(v), k) PROVE Flags(v, k)
    <3>1. ASSUME Kind(v) = "NextIteration" PROVE ~Al(Out(v), k) /\ v \notin flow'.executed
      <4>1. Now(v, k)
        BY <1>1, <1>6, <2>3, InPart, LoopNumbers DEF Now, Due
      <4>2. PICK m \in Part(Lp(v), "Merge") :
                 Back(g, m) = v /\ m \in Nodes /\ Kind(m) = "Merge" /\ Lp(m) = Lp(v)
        <5>1. v \in Part(Lp(v), "NextIteration")
          BY <1>1, <3>1, InPart
        <5> QED
          BY <1>6, <5>1, LoopParts
      <4>3. Bf(m, v)
        BY <1>1, <1>6, <3>1, <4>2, Stages
      <4>4. Done(m)
        BY <4>2, <4>3, DoneBefore
      <4>5. MergeReady(m, k)
        BY <2>3 DEF Turning
      <4>6. v \notin flow.executed
        BY <1>1, <4>2, <4>4, <4>5 DEF MergeReady
      <4> QED
        BY <3>1, <4>1, <4>6
    <3>2. \A b \in Part(Lp(v), "NextIteration") : b # v => (b \in flow'.executed <=> b \in flow.executed)
      OBVIOUS
    <3>3. flow'.frame = flow.frame
      BY <2>1
    <3> QED
      BY <2>2, <3>1, <3>2, <3>3 DEF Flags
  <2>4. FrameOnly(Lp(v))
    BY <2>1 DEF FrameOnly
  <2>5. Lp(v) \in Frames
    BY <1>6, LoopNumbers
  <2> QED
    BY <1>2, <1>4, <1>6, <2>3, <2>4, <2>5, PartStep
<1> QED
  BY <1>5, <1>6

\* The parts of the invariant that a visit keeps.
Kept == ArrayInv /\ FrameInv /\ WalkInv /\ FirstInv

LEMMA SkipKept ==
  ASSUME TypeInv, Reads(g, R), Kept, NEW v, Skip(v)
  PROVE  Kept'
<1>1. /\ At(v) /\ frames' = Frames1(v) /\ leftFrame' = Left1(v)
      /\ frameOf' = frameOf /\ rewindTo' = rewindTo
  BY DEF Skip
<1>2. /\ Did(v) /\ Kind(v) \notin {"Enter", "Exit"} /\ ~IsLoopMerge(g, v)
      /\ flow'.executed = flow.executed /\ flow'.frame = Flow1(v).frame
      /\ \A k : Now(v, k) => ~Al(Out(v), k)
  BY SkipDid DEF Kept
<1>3. FrameInv' /\ WalkInv'
  BY <1>1, <1>2, PlainKept DEF Kept
<1>4. FirstInv'
  BY <1>1, <1>2, FirstKept DEF Kept
<1> QED
  BY <1>2, <1>3, <1>4 DEF Kept, Did

LEMMA PlainsKept ==
  ASSUME TypeInv, Reads(g, R), Kept, NEW v, ExecuteOp(v) \/ Switch(v) \/ LoopCond(v) \/ Merge(v)
  PROVE  Kept'
<1>1. /\ At(v) /\ frames' = Frames1(v) /\ leftFrame' = Left1(v) /\ SetFrame(v) /\ rewindTo' = rewindTo
      /\ Kind(v) \in {"Op", "Switch", "LoopCond", "Merge"}
  BY DEF ExecuteOp, Switch, LoopCond, Merge, Go
<1>2. /\ Did(v) /\ flow'.executed = flow.executed \cup {v} /\ flow'.frame = Flow1(v).frame
      /\ ~IsLoopMerge(g, v)
  <2>1. CASE ExecuteOp(v)
    <3>1. Kind(v) = "Op"
      BY <2>1 DEF ExecuteOp
    <3> QED
      BY <2>1, <3>1, OpDid DEF Kept, IsLoopMerge, Kind, Nodes, NodesOf
  <2>2. CASE Switch(v)
    <3>1. Kind(v) = "Switch"
      BY <2>2 DEF Switch
    <3> QED
      BY <2>2, <3>1, SwitchDid DEF Kept, IsLoopMerge, Kind, Nodes, NodesOf
  <2>3. CASE LoopCond(v)
    <3>1. Kind(v) = "LoopCond"
      BY <2>3 DEF LoopCond
    <3> QED
      BY <2>3, <3>1, CondDid DEF Kept, IsLoopMerge, Kind, Nodes, NodesOf
  <2>4. CASE Merge(v)
    BY <2>4, MergeDid DEF Kept
  <2> QED
    BY <2>1, <2>2, <2>3, <2>4
<1>3. FrameInv' /\ WalkInv'
  BY <1>1, <1>2, PlainKept DEF Kept
<1>4. FirstInv'
  BY <1>1, <1>2, FirstKept DEF Kept
<1> QED
  BY <1>2, <1>3, <1>4 DEF Kept, Did

\* The frames after the start of a visit.
LEMMA FramesRight ==
  ASSUME TypeInv, FrameInv, NEW v \in Nodes
  PROVE  \A c \in Frames : ~Flow1(v).frame[c].rewindPlanned => Flow1(v).frame[c].rewindPosition = -1
<1>1. \A c \in Frames : Flow1(v).frame[c] \in {flow.frame[c], FreshFrame}
  BY HeadFacts
<1> QED
  BY <1>1 DEF FrameInv, FreshFrame

LEMMA EnterKept ==
  ASSUME TypeInv, Reads(g, R), Kept, NEW v, Enter(v)
  PROVE  Kept'
<1>1. /\ At(v) /\ leftFrame' = Left1(v) /\ SetFrame(v) /\ Kind(v) = "Enter"
      /\ frames' = IF Frames1(v) = <<>> \/ Last(Frames1(v)) # FrameId(v)
                   THEN Append(Frames1(v), FrameId(v)) ELSE Frames1(v)
  BY DEF Enter, Go
<1>2. Did(v) /\ flow'.executed = flow.executed \cup {v} /\ flow'.frame = Flow1(v).frame
  BY EnterDid DEF Kept
<1>3. v \in Nodes /\ Moves(v) /\ g' = g /\ feed' = feed
  BY <1>1, <1>2, HereFacts DEF Did, Moves
<1>4. OpenInv'
  BY <1>1, <1>3, OpenEnter DEF Kept
<1>5. WalkInv'
  BY <1>1, <1>2, <1>4, WalkOutside DEF Kept
<1>6. \A c \in Frames : ~flow'.frame[c].rewindPlanned => flow'.frame[c].rewindPosition = -1
  BY <1>2, <1>3, FramesRight DEF Kept
<1>7. FrameInv'
  BY <1>1, <1>3, <1>6, FrameKept DEF Kept
<1>8. FirstInv'
  BY <1>1, <1>2, FirstKept DEF Kept
<1> QED
  BY <1>2, <1>5, <1>7, <1>8 DEF Kept, Did

LEMMA MergeLoopKept ==
  ASSUME TypeInv, Reads(g, R), Kept, NEW v, MergeLoop(v)
  PROVE  Kept'
<1>1. At(v) /\ Kind(v) = "Merge"
  BY DEF MergeLoop
<1>2. PICK f : f = Lp(v)
  OBVIOUS
<1>3. /\ Did(v) /\ IsLoopMerge(g, v) /\ f \in Loops(R) /\ v \in Part(f, "Merge")
      /\ FrameOnly(f) /\ flow'.frame[f].activated
      /\ flow'.frame[f].rewindPlanned = flow.frame[f].rewindPlanned
      /\ flow'.frame[f].rewindPosition = flow.frame[f].rewindPosition
      /\ Back(g, v) \notin flow'.executed
      /\ \A u \in Nodes : u \notin {v, Back(g, v)} => (u \in flow'.executed <=> u \in flow.executed)
      /\ rewindTo' = [rewindTo EXCEPT ![Back(g, v)] = l]
      /\ frames' = Frames1(v) /\ leftFrame' = Left1(v) /\ SetFrame(v)
  BY <1>2, MergeLoopDid DEF Kept
<1>4. v \in Nodes /\ Moves(v)
  BY <1>1, <1>3, HereFacts DEF Did
<1>5. f \in Frames
  BY <1>3, LoopNumbers
<1>6. \A b \in Part(f, "NextIteration") : b \in Nodes /\ Kind(b) = "NextIteration"
  BY <1>3, LoopParts
<1>7. ASSUME NEW k \in Steps(f) PROVE Flags(v, k)
  <2>1. \A b \in Part(f, "NextIteration") : b # v =>
          (b \in flow'.executed <=> b \in flow.executed /\ ~(Kind(v) = "Merge" /\ b = Back(g, v)))
    BY <1>1, <1>3, <1>6
  <2> QED
    BY <1>1, <1>2, <1>3, <2>1 DEF Flags
<1>8. \A u \in Nodes : u # v /\ u \in flow'.executed => u \in flow.executed
  BY <1>3
<1>9. ~flow'.frame[f].rewindPlanned => flow'.frame[f].rewindPosition = -1
  BY <1>3, <1>5 DEF Kept, FrameInv
<1>10. FrameInv' /\ WalkInv'
  BY <1>1, <1>2, <1>3, <1>7, <1>8, <1>9, PartStep DEF Kept
<1>11. FirstInv'
  BY <1>1, <1>3, FirstKept DEF Kept
<1> QED
  BY <1>3, <1>10, <1>11 DEF Kept, Did

LEMMA NextKept ==
  ASSUME TypeInv, Reads(g, R), Kept, NEW v, NextIteration(v)
  PROVE  Kept'
<1>1. /\ At(v) /\ Kind(v) = "NextIteration" /\ frames' = Frames1(v) /\ leftFrame' = Left1(v)
      /\ SetFrame(v) /\ rewindTo' = rewindTo
  BY DEF NextIteration, Go
<1>2. PICK f : f = Lp(v)
  OBVIOUS
<1>3. /\ Did(v) /\ f \in Loops(R) /\ v \in Part(f, "NextIteration")
      /\ flow'.executed = flow.executed \cup {v}
      /\ FrameOnly(f) /\ flow'.frame[f].activated = flow.frame[f].activated
      /\ flow'.frame[f].rewindPlanned
      /\ flow'.frame[f].rewindPosition =
           IF flow.frame[f].rewindPlanned THEN flow.frame[f].rewindPosition
           ELSE rewindTo[v] - 1
      /\ \A k : Now(v, k) => Al(Out(v), k)
  BY <1>2, NextDid DEF Kept
<1>4. v \in Nodes
  BY <1>1, HereFacts
<1>5. ASSUME NEW k \in Steps(f), Turning(f, k) PROVE Flags(v, k)
  <2>1. Inner(g, R, v)
    BY <1>3, LoopParts
  <2>2. Now(v, k)
    BY <1>2, <1>5, <2>1 DEF Now, Due
  <2>3. Al(Out(v), k)
    BY <1>3, <2>2
  <2> QED
    BY <1>1, <1>2, <1>3, <2>3 DEF Flags
<1>6. \A u \in Nodes : u # v /\ u \in flow'.executed => u \in flow.executed
  BY <1>3
<1>7. FrameInv' /\ WalkInv'
  BY <1>1, <1>2, <1>3, <1>5, <1>6, PartStep DEF Kept
<1>8. FirstInv'
  BY <1>1, <1>3, FirstKept DEF Kept
<1> QED
  BY <1>3, <1>7, <1>8 DEF Kept, Did

\* Once all its Exits are passed the loop is not on its way.
LEMMA LeftQuiet ==
  ASSUME TypeInv, Reads(g, R), WalkInv, NEW v, At(v), Kind(v) = "Exit",
         NEW k \in Steps(Lp(v)), Turning(Lp(v), k), k + 1 \notin Steps(Lp(v))
  PROVE  Quiet(Lp(v))
<1>1. PICK f : f = Lp(v)
  OBVIOUS
<1>2. /\ f \in Loops(R) /\ \A b \in Part(f, "NextIteration") : Done(b)
      /\ ~flow.frame[f].rewindPlanned
  BY <1>1, ExitFacts
<1>3. ASSUME NEW b \in Part(f, "NextIteration") PROVE b \notin flow.executed
  <2>1. b \in Nodes /\ Kind(b) = "NextIteration" /\ Lp(b) = f /\ Inner(g, R, b)
    BY <1>2, LoopParts
  <2>2. Due(b, k)
    BY <1>1, <2>1 DEF Due
  <2>3. ~Al(Out(b), k)
    BY <1>1, <2>1, <2>2, BackAt
  <2> QED
    BY <1>1, <1>2, <2>3 DEF Turning
<1> QED
  BY <1>1, <1>2, <1>3 DEF Quiet

LEMMA ExitKept ==
  ASSUME TypeInv, Reads(g, R), Kept, NEW v, ExitLoop(v)
  PROVE  Kept'
<1>1. /\ At(v) /\ Kind(v) = "Exit" /\ frames' = frames /\ leftFrame' = TRUE
      /\ SetFrame(v) /\ rewindTo' = rewindTo
  BY DEF ExitLoop, Go
<1>2. PICK f : f = Lp(v)
  OBVIOUS
<1>3. /\ Did(v) /\ flow'.executed = flow.executed \cup {v} /\ flow'.frame = flow.frame
      /\ content' = content
      /\ \A k \in Steps(f) : Turning(f, k) => k + 1 \notin Steps(f)
  BY <1>2, ExitDid DEF Kept
<1>4. v \in Nodes /\ Moves(v) /\ g' = g /\ feed' = feed
  BY <1>1, <1>3, HereFacts DEF Did, Moves
<1>5. f \in Loops(R) /\ f \in Frames /\ \E k \in Steps(f) : Turning(f, k)
  BY <1>1, <1>2, ExitFacts DEF Kept
<1>6. PICK k \in Steps(f) : Turning(f, k) /\ k + 1 \notin Steps(f)
  BY <1>3, <1>5
<1>7. /\ Steps(f)' = Steps(f) /\ Part(f, "NextIteration")' = Part(f, "NextIteration")
      /\ Lp(v)' = f
  BY <1>2, <1>4, Unmoved
<1>8. \A b \in Part(f, "NextIteration") : b # v
  BY <1>1, <1>5, LoopParts
<1>9. LoopInv(f)'
  <2>1. CASE Left(f)'
    <3>1. Quiet(f)
      BY <1>1, <1>2, <1>6, LeftQuiet DEF Kept
    <3>2. Quiet(f)'
      BY <1>3, <1>7, <1>8, <3>1 DEF Quiet
    <3> QED
      BY <2>1, <3>2 DEF LoopInv
  <2>2. CASE ~Left(f)'
    <3>1. Flags(v, k)
      BY <1>1, <1>2, <1>3, <1>8 DEF Flags
    <3>2. Turning(f, k)'
      BY <1>1, <1>2, <1>3, <1>5, <1>6, <2>2, <3>1, TurningKept DEF Kept
    <3> QED
      BY <1>7, <3>2 DEF LoopInv
  <2> QED
    BY <2>1, <2>2
<1>10. LoopInv(Lp(v))'
  BY <1>7, <1>9
<1>11. OpenInv'
  BY <1>1, <1>4, OpenExit DEF Kept
<1>12. FrameOnly(f) /\ \A u \in Nodes : u # v /\ u \in flow'.executed => u \in flow.executed
  BY <1>3 DEF FrameOnly
<1>13. WalkInv'
  BY <1>1, <1>2, <1>3, <1>5, <1>10, <1>11, <1>12, WalkInside DEF Kept
<1>14. \A c \in Frames : ~flow'.frame[c].rewindPlanned => flow'.frame[c].rewindPosition = -1
  BY <1>3 DEF Kept, FrameInv
<1>15. FrameInv'
  BY <1>1, <1>4, <1>14, FrameKept DEF Kept
<1>16. FirstInv'
  BY <1>1, <1>3, FirstKept DEF Kept
<1> QED
  BY <1>3, <1>13, <1>15, <1>16 DEF Kept, Did

---------------------------------------------------------------------------
(* The rewind *)

LEMMA RewindFacts ==
  ASSUME TypeInv, Reads(g, R), Kept, NEW v, ExitRewind(v)
  PROVE  /\ v \in Nodes /\ At(v) /\ Kind(v) = "Exit" /\ Lp(v) \in Loops(R) /\ Lp(v) \in Frames
         /\ g' = g /\ feed' = feed /\ runs' = runs /\ status' = status
         /\ frames' = frames /\ leftFrame' = leftFrame /\ rewindTo' = rewindTo /\ memory' = memory
         /\ SetFrame(v) /\ flow.frame[Lp(v)].rewindPlanned
         /\ flow'.inactive = flow.inactive \ {v} /\ flow'.executed = flow.executed
         /\ flow'.branch = flow.branch /\ FrameOnly(Lp(v))
         /\ ~flow'.frame[Lp(v)].rewindPlanned /\ flow'.frame[Lp(v)].rewindPosition = -1
         /\ l' = flow.frame[Lp(v)].rewindPosition + 1 /\ n' = 0
         /\ \A k \in Steps(Lp(v)) : Turning(Lp(v), k) => k + 1 \in Steps(Lp(v))
<1>1. v \in Nodes /\ At(v) /\ Kind(v) = "Exit"
  BY HereFacts DEF ExitRewind
<1>2. PICK f : f = Lp(v)
  OBVIOUS
<1>3. f \in Loops(R) /\ f \in Frames /\ Last(frames) = f /\ Flow1(v) = flow
  BY <1>1, <1>2, ExitFacts DEF Kept
<1>4. /\ flow.frame[f].rewindPlanned /\ l' = flow.frame[f].rewindPosition + 1 /\ n' = 0
      /\ flow' = CancelRewind(Live(v), f) /\ SetFrame(v)
      /\ g' = g /\ feed' = feed /\ runs' = runs /\ status' = status
      /\ frames' = frames /\ leftFrame' = leftFrame /\ rewindTo' = rewindTo /\ memory' = memory
  BY <1>3 DEF ExitRewind
<1>5. /\ IsFlow(Live(v)) /\ Live(v).inactive = flow.inactive \ {v}
      /\ Live(v).executed = flow.executed /\ Live(v).branch = flow.branch
      /\ Live(v).frame = flow.frame
  <2>1. IsFlow(Flow1(v)) /\ Same(flow, Flow1(v))
    BY <1>1, HeadFacts
  <2> QED
    BY <1>1, <1>3, <2>1, ActiveFlow DEF Live, Same
<1>6. Same(Live(v), CancelRewind(Live(v), f))
  BY <1>3, <1>5, CancelFlow
<1>7. /\ \A c \in Frames : c # f => flow'.frame[c] = flow.frame[c]
      /\ ~flow'.frame[f].rewindPlanned /\ flow'.frame[f].rewindPosition = -1
  BY <1>3, <1>4, <1>5, Cancelled
<1>8. \A k \in Steps(f) : Turning(f, k) => k + 1 \in Steps(f)
  BY <1>1, <1>2, <1>4, ExitFacts DEF Kept
<1> QED
  BY <1>1, <1>2, <1>3, <1>4, <1>5, <1>6, <1>7, <1>8 DEF Same, FrameOnly

\* The walk is back at the head.
LEMMA RewindTo ==
  ASSUME TypeInv, Reads(g, R), Kept, NEW v, ExitRewind(v)
  PROVE  \E m \in Part(Lp(v), "Merge") :
           /\ IsHead(g, R, m)
           /\ \E i \in DOMAIN g.layers :
                /\ LayersWith(g, m) = {i} /\ i \in Nat \ {0} /\ l' = i - 1
                /\ 1 \in DOMAIN g.layers[i] /\ g.layers[i][1] = m
           /\ \A w \in Nodes : Done(w)' <=> Bf(w, m)
<1>1. PICK f : f = Lp(v)
  OBVIOUS
<1>2. /\ At(v) /\ Kind(v) = "Exit" /\ f \in Loops(R) /\ g' = g
      /\ flow.frame[f].rewindPlanned /\ l' = flow.frame[f].rewindPosition + 1 /\ n' = 0
  BY <1>1, RewindFacts
<1>3. PICK k \in Steps(f) : Turning(f, k)
  BY <1>1, <1>2, ExitFacts DEF Kept
<1>4. PICK m \in Part(f, "Merge") : IsHead(g, R, m)
  BY <1>2, LoopParts
<1>5. m \in Nodes
  BY <1>2, <1>4, LoopParts
<1>6. PICK i \in DOMAIN g.layers : /\ LayersWith(g, m) = {i} /\ i \in Nat \ {0}
                                   /\ 1 \in DOMAIN g.layers[i] /\ g.layers[i][1] = m
  BY <1>4, <1>5, Heads
<1>7. flow.frame[f].rewindPosition = i - 2
  BY <1>2, <1>3, <1>4, <1>6 DEF Turning
<1>8. l' = i - 1
  BY <1>2, <1>6, <1>7
<1>9. \A w \in Nodes : Done(w)' <=> Bf(w, m)
  BY <1>2, <1>6, <1>8, BackDone
<1> QED
  BY <1>1, <1>4, <1>6, <1>8, <1>9

\* What the walk has gone back over: the parts of the loop after its Enters.
LEMMA RewindDone ==
  ASSUME TypeInv, Reads(g, R), Kept, NEW v, ExitRewind(v), NEW m \in Part(Lp(v), "Merge"),
         IsHead(g, R, m), \A w \in Nodes : Done(w)' <=> Bf(w, m)
  PROVE  /\ \A w \in Nodes : Lp(w) = Lp(v) => (Done(w)' <=> Kind(w) = "Enter")
         /\ \A w \in Nodes : Lp(w) # Lp(v) => (Done(w)' <=> Done(w))
<1>1. PICK f : f = Lp(v)
  OBVIOUS
<1>2. v \in Nodes /\ At(v) /\ Kind(v) = "Exit" /\ f \in Loops(R) /\ f # -1
  BY <1>1, RewindFacts, LoopNumbers
<1>3. m \in Nodes /\ Lp(m) = f /\ Kind(m) = "Merge"
  BY <1>1, <1>2, LoopParts
<1>4. Bf(m, v)
  BY <1>1, <1>2, <1>3, Stages
<1>5. ASSUME NEW w \in Nodes, Lp(w) = f PROVE Done(w)' <=> Kind(w) = "Enter"
  <2>1. CASE Kind(w) = "Enter"
    <3>1. w \in Part(f, "Enter")
      BY <1>5, <2>1, InPart
    <3>2. Bf(w, m)
      BY <1>2, <1>3, <3>1, Stages
    <3> QED
      BY <2>1, <3>2
  <2>2. CASE Kind(w) = "Merge"
    <3>1. w \in Part(f, "Merge")
      BY <1>5, <2>2, InPart
    <3>2. w = m \/ Bf(m, w)
      BY <1>1, <1>3, <3>1, Heads
    <3>3. ~Bf(w, m)
      BY <1>3, <3>2, BeforeAsymmetric, BeforeIrreflexive
    <3> QED
      BY <2>2, <3>3
  <2>3. CASE Kind(w) \notin {"Enter", "Merge"}
    <3>1. Bf(m, w)
      BY <1>1, <1>2, <1>5, <2>3, Stages
    <3>2. ~Bf(w, m)
      BY <3>1, BeforeAsymmetric
    <3> QED
      BY <2>3, <3>2
  <2> QED
    BY <2>1, <2>2, <2>3
<1>6. ASSUME NEW w \in Nodes, Lp(w) # f PROVE Done(w)' <=> Done(w)
  <2>1. ASSUME Bf(w, m) PROVE Done(w)
    <3>1. Bf(w, v)
      BY <1>4, <2>1, BeforeTransitive
    <3> QED
      BY <1>2, <3>1, DoneBefore
  <2>2. ASSUME Done(w), ~Bf(w, m) PROVE FALSE
    <3>1. Bf(w, v)
      BY <1>2, <2>2, DoneBefore
    <3>2. Bf(m, w)
      BY <1>3, <1>6, <2>2, BeforeTotal
    <3> QED
      BY <1>1, <1>2, <1>3, <1>6, <3>1, <3>2, BetweenParts
  <2> QED
    BY <2>1, <2>2
<1> QED
  BY <1>1, <1>5, <1>6

\* What the iteration has left for the next one.
LEMMA RewindReady ==
  ASSUME TypeInv, Reads(g, R), Kept, NEW v, ExitRewind(v), NEW f, f = Lp(v),
         NEW k \in Steps(f), Turning(f, k), NEW b \in Part(f, "NextIteration")
  PROVE  b \in flow.executed /\ slot[Out(b)] # Nil /\ content[slot[Out(b)]] = Vl(Out(b), k)
<1>1. /\ v \in Nodes /\ At(v) /\ Kind(v) = "Exit" /\ f \in Loops(R) /\ f # -1
      /\ k + 1 \in Steps(f)
  BY RewindFacts, LoopNumbers
<1>2. Done(b)
  BY <1>1, ExitFacts DEF Kept
<1>3. b \in Nodes /\ Kind(b) = "NextIteration" /\ Lp(b) = f /\ Inner(g, R, b)
  BY <1>1, LoopParts
<1>4. Al(Out(b), k)
  <2>1. Due(b, k)
    BY <1>3 DEF Due
  <2> QED
    BY <1>1, <1>3, <2>1, BackAt
<1>5. b \in flow.executed
  BY <1>2, <1>4 DEF Turning
<1>6. Good(Out(b), k)
  <2>1. Passed(b, k)
    BY <1>2, <1>3 DEF Turning
  <2> QED
    BY <1>3, <2>1, OutputAddress DEF Passed
<1>7. Fresh(Out(b), k)
  <2> SUFFICES ASSUME NEW c \in Nodes, Kind(c) = "Op", Done(c), Bf(b, c) PROVE FALSE
    BY DEF Fresh, Out
  <2>1. Bf(c, v)
    BY <1>1, DoneBefore
  <2>2. Lp(c) = f
    BY <1>1, <1>3, <2>1, BetweenParts
  <2>3. Bf(c, b)
    BY <1>1, <2>2, Stages
  <2> QED
    BY <2>3, BeforeAsymmetric
<1> QED
  BY <1>4, <1>5, <1>6, <1>7 DEF Good

\* The parts of the loops after a rewind.
LEMMA RewindParts ==
  ASSUME TypeInv, Reads(g, R), Kept, NEW v, ExitRewind(v), NEW m \in Part(Lp(v), "Merge"),
         IsHead(g, R, m), \A w \in Nodes : Done(w)' <=> Bf(w, m)
  PROVE  /\ ~Begun(Lp(v))' /\ ~Ending(Lp(v))' /\ ~Leaving(Lp(v))' /\ ~Left(Lp(v))' /\ Entered(Lp(v))'
         /\ \A c \in Loops(R) \ {Lp(v)} :
              (Begun(c)' <=> Begun(c)) /\ (Left(c)' <=> Left(c)) /\ (Entered(c)' <=> Entered(c))
<1>1. PICK f : f = Lp(v)
  OBVIOUS
<1>2. /\ v \in Nodes /\ At(v) /\ Kind(v) = "Exit" /\ f \in Loops(R) /\ f # -1
      /\ g' = g /\ feed' = feed
  BY <1>1, RewindFacts, LoopNumbers
<1>3. \A c, k : Part(c, k)' = Part(c, k)
  BY <1>2, Unmoved
<1>4. \A c, k : \A w \in Part(c, k) : w \in Nodes /\ Lp(w) = c /\ Kind(w) = k
  BY DEF Part, PartOf, Lp, Kind, Nodes, NodesOf
<1>5. /\ \A w \in Nodes : Lp(w) = f => (Done(w)' <=> Kind(w) = "Enter")
      /\ \A w \in Nodes : Lp(w) # f => (Done(w)' <=> Done(w))
  BY <1>1, RewindDone
<1>6. \A k : \A w \in Part(f, k) : Done(w)' <=> k = "Enter"
  BY <1>4, <1>5
<1>7. v \in Part(f, "Exit") /\ \E e \in Part(f, "Enter") : TRUE
  <2>1. \E e \in Part(f, "Enter") : TRUE
    BY <1>1, <1>2, LoopParts
  <2> QED
    BY <1>1, <1>2, <2>1, InPart
<1>8. ~Begun(f)'
  BY <1>3, <1>6 DEF Begun
<1>9. ~Ending(f)'
  BY <1>3, <1>6 DEF Ending
<1>10. ~Leaving(f)'
  BY <1>3, <1>6 DEF Leaving
<1>11. ~Left(f)'
  BY <1>3, <1>6, <1>7 DEF Left
<1>12. Entered(f)'
  BY <1>3, <1>6, <1>7 DEF Entered
<1>13. ASSUME NEW c \in Loops(R), c # f
       PROVE  (Begun(c)' <=> Begun(c)) /\ (Left(c)' <=> Left(c)) /\ (Entered(c)' <=> Entered(c))
  <2>1. \A k : \A w \in Part(c, k) : Done(w)' <=> Done(w)
    BY <1>4, <1>5, <1>13
  <2>2. Begun(c)' <=> Begun(c)
    BY <1>3, <2>1 DEF Begun
  <2>3. Left(c)' <=> Left(c)
    BY <1>3, <2>1 DEF Left
  <2>4. Entered(c)' <=> Entered(c)
    BY <1>3, <2>1 DEF Entered
  <2> QED
    BY <2>2, <2>3, <2>4
<1>14. \A c \in Loops(R) \ {f} :
         (Begun(c)' <=> Begun(c)) /\ (Left(c)' <=> Left(c)) /\ (Entered(c)' <=> Entered(c))
  BY <1>13
<1>15. ~Begun(Lp(v))' /\ ~Ending(Lp(v))' /\ ~Leaving(Lp(v))' /\ ~Left(Lp(v))' /\ Entered(Lp(v))'
  <2>1. Lp(v)' = f
    BY <1>1, <1>2, Unmoved
  <2> QED
    BY <1>8, <1>9, <1>10, <1>11, <1>12, <2>1 DEF Begun, Ending, Leaving, Left, Entered
<1> QED
  BY <1>1, <1>14, <1>15

\* The loop begins its next iteration.
LEMMA RewindTurning ==
  ASSUME TypeInv, Reads(g, R), Kept, NEW v, ExitRewind(v), NEW f, f = Lp(v),
         NEW m \in Part(f, "Merge"), IsHead(g, R, m), \A w \in Nodes : Done(w)' <=> Bf(w, m),
         NEW k \in Steps(f), Turning(f, k), ~Begun(f)', ~Ending(f)', ~Leaving(f)', ~Left(f)'
  PROVE  Turning(f, k + 1)' /\ k + 1 \in Steps(f)
<1>1. /\ v \in Nodes /\ At(v) /\ Kind(v) = "Exit" /\ f \in Loops(R) /\ f # -1
      /\ g' = g /\ feed' = feed /\ memory' = memory
      /\ flow'.executed = flow.executed /\ ~flow'.frame[f].rewindPlanned
      /\ k + 1 \in Steps(f)
  BY RewindFacts, LoopNumbers
<1>2. /\ Nodes' = Nodes /\ R' = R
      /\ \A c, q : Part(c, q)' = Part(c, q)
      /\ \A w : Lp(w)' = Lp(w) /\ Kind(w)' = Kind(w)
      /\ \A u, w : Bf(u, w)' = Bf(u, w)
      /\ \A a, q : Vl(a, q)' = Vl(a, q)
  BY <1>1, Unmoved
<1>3. \A w \in Nodes : Lp(w) = f => (Done(w)' <=> Kind(w) = "Enter")
  BY RewindDone
<1>4. k \in Nat
  BY <1>1, StepNumbers
<1>5. k + 1 # 0 /\ (k + 1) - 1 = k
  BY <1>4
<1>6. slot' = slot /\ content' = content
  BY <1>1 DEF memory
<1>7. ASSUME NEW w \in Part(f, "Merge") PROVE MergeReady(w, k + 1)'
  <2>1. PICK b \in Part(f, "NextIteration") : b = Back(g, w)
    BY <1>1, LoopParts
  <2>2. b \in flow.executed /\ slot[Out(b)] # Nil /\ content[slot[Out(b)]] = Vl(Out(b), k)
    BY RewindReady
  <2>3. ~Done(w)'
    BY <1>1, <1>3, LoopParts
  <2>4. Out(b)' = Out(b)
    BY DEF Out
  <2>5. Vl(Out(b), (k + 1) - 1)' = Vl(Out(b), k)
    BY <1>2, <1>5
  <2>6. Back(g, w)' = b
    BY <1>1, <2>1 DEF Back
  <2> QED
    BY <1>1, <1>5, <1>6, <2>2, <2>3, <2>4, <2>5, <2>6 DEF MergeReady, Nil
<1>8. ASSUME NEW w \in Part(f, "Merge"), NEW u \in Nodes, IsHead(g, R, w), Bf(u, w) PROVE Done(u)'
  <2>1. m \in Nodes /\ w \in Nodes /\ Lp(m) = f /\ Lp(w) = f
    BY <1>1, LoopParts
  <2>2. w # m => Bf(m, w) /\ Bf(w, m)
    BY <1>8, <2>1, Heads
  <2>3. w = m
    BY <2>2, BeforeAsymmetric
  <2> QED
    BY <1>8, <2>3
<1>9. \A u \in Nodes : Lp(u) = f /\ Inner(g, R, u) => ~Done(u)'
  BY <1>3, InPart
<1>10. \A b \in Part(f, "NextIteration") : ~Done(b)'
  BY <1>1, <1>3, LoopParts
<1> QED
  BY <1>1, <1>2, <1>7, <1>8, <1>9, <1>10 DEF Turning

LEMMA RewindWalk ==
  ASSUME TypeInv, Reads(g, R), Kept, NEW v, ExitRewind(v)
  PROVE  WalkInv'
<1>1. PICK f : f = Lp(v)
  OBVIOUS
<1>2. /\ v \in Nodes /\ At(v) /\ Kind(v) = "Exit" /\ f \in Loops(R) /\ f # -1
      /\ g' = g /\ feed' = feed /\ memory' = memory
      /\ frames' = frames /\ leftFrame' = leftFrame
      /\ flow'.inactive = flow.inactive \ {v} /\ flow'.executed = flow.executed
      /\ flow'.branch = flow.branch /\ FrameOnly(f)
      /\ \A k \in Steps(f) : Turning(f, k) => k + 1 \in Steps(f)
  BY <1>1, RewindFacts, LoopNumbers
<1>3. PICK k \in Steps(f) : Turning(f, k)
  BY <1>1, <1>2, ExitFacts DEF Kept
<1>4. PICK m \in Part(f, "Merge") : IsHead(g, R, m) /\ \A w \in Nodes : Done(w)' <=> Bf(w, m)
  BY <1>1, RewindTo
<1>5. Lp(v)' = f
  BY <1>1, <1>2, Unmoved
<1>6. /\ ~Begun(f)' /\ ~Ending(f)' /\ ~Leaving(f)' /\ ~Left(f)' /\ Entered(f)'
      /\ \A c \in Loops(R) \ {f} :
           (Begun(c)' <=> Begun(c)) /\ (Left(c)' <=> Left(c)) /\ (Entered(c)' <=> Entered(c))
  <2>1. PICK d : d = Lp(v)
    OBVIOUS
  <2>2. ~Begun(Lp(v))' /\ ~Ending(Lp(v))' /\ ~Leaving(Lp(v))' /\ ~Left(Lp(v))' /\ Entered(Lp(v))'
    BY <1>1, <1>4, RewindParts
  <2>3. ~Begun(f)' /\ ~Ending(f)' /\ ~Leaving(f)' /\ ~Left(f)' /\ Entered(f)'
    BY <1>5, <2>2 DEF Begun, Ending, Leaving, Left, Entered
  <2> QED
    BY <1>1, <1>4, <2>3, RewindParts
<1>7. /\ R' = R /\ Nodes' = Nodes /\ Frames' = Frames /\ Loops(R)' = Loops(R)
      /\ \A c : Steps(c)' = Steps(c) /\ \A q : Part(c, q)' = Part(c, q)
      /\ \A a, q : Vl(a, q)' = Vl(a, q) /\ Al(a, q)' = Al(a, q)
      /\ \A w : Kind(w)' = Kind(w)
  BY <1>2, Unmoved
<1>8. LoopInv(f)'
  <2>1. Turning(f, k + 1)' /\ k + 1 \in Steps(f)
    BY <1>1, <1>3, <1>4, <1>6, RewindTurning
  <2>2. PICK j : j = k + 1
    OBVIOUS
  <2>3. Turning(f, j)' /\ j \in Steps(f)
    BY <2>1, <2>2
  <2> QED
    BY <1>7, <2>3 DEF LoopInv
<1>9. ASSUME NEW c \in Loops(R), c # f PROVE LoopInv(c)'
  <2>1. (~Begun(c) \/ Left(c)) /\ Quiet(c)
    BY <1>1, <1>2, <1>9, OthersQuiet DEF Kept
  <2>2. c \in Frames
    BY LoopNumbers
  <2>3. Quiet(c)'
    BY <1>2, <1>7, <1>9, <2>1, <2>2 DEF Quiet, FrameOnly
  <2> QED
    BY <1>6, <1>9, <2>1, <2>3 DEF LoopInv
<1>10. \A c \in Loops(R) : LoopInv(c)'
  BY <1>8, <1>9
<1>11. \A c \in Frames \ Loops(R) : ~flow'.frame[c].rewindPlanned
  BY <1>2 DEF Kept, WalkInv, FrameOnly
<1>12. OuterInv'
  <2> SUFFICES ASSUME NEW w \in Nodes, Done(w)', ~Inner(g, R, w), NEW a \in OutputsOf(g, w)
               PROVE  Good(a, 0)'
    BY <1>2, <1>7 DEF OuterInv, Passed
  <2>1. Done(w) /\ w # v
    <3>1. Bf(w, m) /\ Bf(m, v)
      BY <1>1, <1>2, <1>4, LoopParts, Stages
    <3>2. Bf(w, v)
      BY <3>1, BeforeTransitive
    <3> QED
      BY <1>2, <3>2, DoneBefore, BeforeAsymmetric
  <2>2. Good(a, 0) /\ a[1] = w /\ a \in Addresses
    BY <2>1, OutputAddress DEF Kept, WalkInv, OuterInv, Passed
  <2>3. Fresh(a, 0)
    BY <2>2, OuterFresh
  <2>4. Off(a)' <=> Off(a)
    BY <1>2, <1>7, <2>1, <2>2 DEF Off
  <2>5. slot' = slot /\ content' = content
    BY <1>2 DEF memory
  <2> QED
    BY <1>2, <2>2, <2>3, <2>4, <2>5, GoodNow DEF Good
<1>13. OpenInv'
  <2>1. frames = <<f>> /\ ~leftFrame /\ \A c \in Loops(R) \ {f} : Shut(c)
    <3>1. ~Leaving(f)
      BY <1>2, <1>3 DEF Turning
    <3> QED
      BY <1>1, <1>2, <3>1, InsideFrame DEF Kept
  <2>2. \A c \in Loops(R) \ {f} : Shut(c)'
    BY <1>6, <2>1 DEF Shut
  <2> QED
    BY <1>2, <1>6, <1>7, <2>1, <2>2 DEF OpenInv
<1> QED
  BY <1>7, <1>10, <1>11, <1>12, <1>13 DEF WalkInv

LEMMA RewindKept ==
  ASSUME TypeInv, Reads(g, R), Kept, NEW v, ExitRewind(v)
  PROVE  Kept'
<1>1. PICK f : f = Lp(v)
  OBVIOUS
<1>2. /\ v \in Nodes /\ At(v) /\ Kind(v) = "Exit" /\ f \in Loops(R) /\ f \in Frames
      /\ g' = g /\ feed' = feed /\ memory' = memory /\ SetFrame(v)
      /\ FrameOnly(f) /\ ~flow'.frame[f].rewindPlanned /\ flow'.frame[f].rewindPosition = -1
      /\ \A k \in Steps(f) : Turning(f, k) => k + 1 \in Steps(f)
  BY <1>1, RewindFacts
<1>3. ArrayInv'
  BY <1>2, ArrayStill DEF Kept
<1>4. \A c \in Frames : ~flow'.frame[c].rewindPlanned => flow'.frame[c].rewindPosition = -1
  BY <1>2 DEF Kept, FrameInv, FrameOnly
<1>5. FrameInv'
  BY <1>2, <1>4, FrameKept DEF Kept
<1>6. FirstInv'
  <2>1. PICK k \in Steps(f) : Turning(f, k)
    BY <1>1, <1>2, ExitFacts DEF Kept
  <2>2. ~Leaving(f)
    BY <1>2, <2>1 DEF Turning
  <2>3. PICK m \in Part(f, "Merge") : IsHead(g, R, m) /\ \A w \in Nodes : Done(w)' <=> Bf(w, m)
    BY <1>1, RewindTo
  <2>4. /\ \A w \in Nodes : Lp(w) = f => (Done(w)' <=> Kind(w) = "Enter")
        /\ \A w \in Nodes : Lp(w) # f => (Done(w)' <=> Done(w))
    BY <1>1, <2>3, RewindDone
  <2>5. ASSUME NEW w \in Nodes, ~Inner(g, R, w), Done(w) PROVE Done(w)'
    <3>1. Lp(w) = f => Kind(w) # "Exit"
      <4>1. SUFFICES ASSUME Lp(w) = f, Kind(w) = "Exit" PROVE FALSE
        OBVIOUS
      <4>2. w \in Part(f, "Exit")
        BY <4>1, InPart
      <4> QED
        BY <2>2, <2>5, <4>2 DEF Leaving
    <3>2. Lp(w) = f => Kind(w) = "Enter"
      BY <1>2, <2>5, <3>1, InPart, LoopNumbers
    <3> QED
      BY <2>4, <2>5, <3>2
  <2>6. /\ R' = R /\ Nodes' = Nodes /\ \A a, i : Al(a, i)' = Al(a, i)
        /\ \A w : Kind(w)' = Kind(w)
    BY <1>2, Unmoved
  <2>7. slot' = slot
    BY <1>2 DEF memory
  <2> QED
    BY <1>2, <2>5, <2>6, <2>7 DEF Kept, FirstInv, Nil
<1> QED
  BY <1>3, <1>5, <1>6, RewindWalk DEF Kept

---------------------------------------------------------------------------
(* The steps between the visits *)

\* Steps that move no node into what is done, and change no flag, frame or array.
LEMMA WalkStill ==
  ASSUME TypeInv, Reads(g, R), WalkInv, g' = g, feed' = feed, flow' = flow, frames' = frames,
         leftFrame' = leftFrame, rewindTo' = rewindTo, memory' = memory,
         \A w \in Nodes : Done(w)' <=> Done(w)
  PROVE  WalkInv'
<1>1. /\ R' = R /\ Nodes' = Nodes /\ Frames' = Frames /\ Loops(R)' = Loops(R)
      /\ \A c : Steps(c)' = Steps(c) /\ \A q : Part(c, q)' = Part(c, q)
      /\ \A a, q : Vl(a, q)' = Vl(a, q) /\ Al(a, q)' = Al(a, q)
      /\ \A w : Kind(w)' = Kind(w) /\ Lp(w)' = Lp(w)
      /\ \A u, w : Bf(u, w)' = Bf(u, w)
  BY Unmoved
<1>2. slot' = slot /\ content' = content
  BY DEF memory
<1>3. \A c, k : \A w \in Part(c, k) : Done(w)' <=> Done(w)
  BY DEF Part, PartOf, Nodes, NodesOf
<1>4. ASSUME NEW c
      PROVE  /\ Left(c)' <=> Left(c)
             /\ Begun(c)' <=> Begun(c)
             /\ Entered(c)' <=> Entered(c)
             /\ Leaving(c)' <=> Leaving(c)
             /\ Ending(c)' <=> Ending(c)
             /\ Quiet(c)' <=> Quiet(c)
  <2>1. Left(c)' <=> Left(c)
    BY <1>1, <1>3 DEF Left
  <2>2. Begun(c)' <=> Begun(c)
    BY <1>1, <1>3 DEF Begun
  <2>3. Entered(c)' <=> Entered(c)
    BY <1>1, <1>3 DEF Entered
  <2>4. Leaving(c)' <=> Leaving(c)
    BY <1>1, <1>3 DEF Leaving
  <2>5. Ending(c)' <=> Ending(c)
    BY <1>1, <1>3 DEF Ending
  <2>6. Quiet(c)' <=> Quiet(c)
    BY <1>1 DEF Quiet
  <2> QED
    BY <2>1, <2>2, <2>3, <2>4, <2>5, <2>6
<1>5. ASSUME NEW v, NEW k, Passed(v, k) PROVE Passed(v, k)'
  <2> SUFFICES ASSUME NEW a \in OutputsOf(g, v) PROVE Good(a, k)'
    BY DEF Passed
  <2>1. Good(a, k)
    BY <1>5 DEF Passed
  <2>2. Off(a)' <=> Off(a)
    BY <1>1 DEF Off
  <2>3. Fresh(a, k)' <=> Fresh(a, k)
    <3>1. \A b : Out(b)' = Out(b)
      BY DEF Out
    <3> QED
      BY <1>1, <3>1 DEF Fresh
  <2> QED
    BY <1>1, <1>2, <2>1, <2>2, <2>3 DEF Good, Nil
<1>6. ASSUME NEW c \in Loops(R), NEW k, Turning(c, k) PROVE Turning(c, k)'
  <2>1. ASSUME NEW m \in Part(c, "Merge") PROVE MergeReady(m, k)'
    <3>1. PICK b : b = Back(g, m)
      OBVIOUS
    <3>2. Back(g, m)' = b /\ Out(b)' = Out(b)
      BY <3>1 DEF Out, Back
    <3>3. MergeReady(m, k)
      BY <1>6 DEF Turning
    <3>4. Done(m)' <=> Done(m)
      BY <1>3
    <3>5. Done(b)' <=> Done(b)
      BY <3>1, LoopParts
    <3> QED
      BY <1>1, <1>2, <3>1, <3>2, <3>3, <3>4, <3>5 DEF MergeReady, Nil
  <2>2. \A u \in Nodes : Lp(u) = c /\ Inner(g, R, u) /\ Done(u)' => Passed(u, k)'
    BY <1>5, <1>6 DEF Turning
  <2>3. \A b \in Part(c, "NextIteration") : Done(b)' => (b \in flow.executed <=> Al(Out(b), k))
    BY <1>3, <1>6 DEF Turning
  <2>4. \A m \in Part(c, "Merge") : \A u \in Nodes : IsHead(g, R, m) /\ Bf(u, m) => Done(u)'
    BY <1>6 DEF Turning
  <2> QED
    BY <1>1, <1>4, <1>6, <2>1, <2>2, <2>3, <2>4 DEF Turning, Out
<1>7. \A c \in Loops(R) : LoopInv(c)'
  <2> SUFFICES ASSUME NEW c \in Loops(R) PROVE LoopInv(c)'
    OBVIOUS
  <2>1. LoopInv(c)
    BY DEF WalkInv
  <2> QED
    BY <1>1, <1>4, <1>6, <2>1 DEF LoopInv
<1>8. OuterInv'
  BY <1>1, <1>5 DEF WalkInv, OuterInv
<1>9. OpenInv'
  <2>1. \A c \in Loops(R) : Shut(c)' <=> Shut(c)
    BY <1>4 DEF Shut
  <2> QED
    BY <1>1, <1>4, <2>1 DEF WalkInv, OpenInv
<1> QED
  BY <1>1, <1>7, <1>8, <1>9 DEF WalkInv

LEMMA FirstStill ==
  ASSUME FirstInv, g' = g, feed' = feed, memory' = memory, \A w \in Nodes : Done(w)' <=> Done(w)
  PROVE  FirstInv'
<1>1. /\ R' = R /\ Nodes' = Nodes /\ \A a, q : Al(a, q)' = Al(a, q)
      /\ \A w : Kind(w)' = Kind(w)
  BY Unmoved
<1>2. slot' = slot
  BY DEF memory
<1> QED
  BY <1>1, <1>2 DEF FirstInv, Nil

LEMMA FrameStill ==
  ASSUME FrameInv, g' = g, feed' = feed, flow' = flow, frameOf' = frameOf
  PROVE  FrameInv'
<1>1. /\ R' = R /\ Nodes' = Nodes /\ Frames' = Frames /\ \A w : Kind(w)' = Kind(w) /\ Lp(w)' = Lp(w)
  BY Unmoved
<1> QED
  BY <1>1 DEF FrameInv

LEMMA CleanStill ==
  ASSUME Clean, g' = g, feed' = feed, flow' = flow
  PROVE  Clean'
<1>1. Frames' = Frames /\ \A c, q : Part(c, q)' = Part(c, q)
  BY Unmoved
<1> QED
  BY <1>1 DEF Clean, Quiet

LEMMA RunsStill ==
  ASSUME RunsInv, g' = g, feed' = feed, runs' = runs, status' = "idle" <=> status = "idle",
         slot' = slot \/ status # "idle"
  PROVE  RunsInv'
<1>1. Addresses' = Addresses /\ Nodes' = Nodes
  BY Unmoved
<1> QED
  BY <1>1 DEF RunsInv, Nil

LEMMA StillMeans ==
  ASSUME TypeInv, Reads(g, R), MeaningInv, g' = g, feed' = feed, runs' = runs,
         status' = status, flow' = flow, framing' = framing, memory' = memory,
         \A w \in Nodes : Done(w)' <=> Done(w),
         l' = l \/ status = "running"
  PROVE  MeaningInv'
<1>1. /\ frames' = frames /\ leftFrame' = leftFrame /\ frameOf' = frameOf /\ rewindTo' = rewindTo
      /\ slot' = slot
  BY DEF framing, memory
<1>2. ArrayInv' /\ FrameInv' /\ RunsInv'
  BY <1>1, ArrayStill, FrameStill, RunsStill DEF MeaningInv
<1>3. Clean => Clean'
  BY CleanStill
<1>4. WalkInv /\ FirstInv => WalkInv' /\ FirstInv'
  BY <1>1, WalkStill, FirstStill
<1> QED
  BY <1>2, <1>3, <1>4 DEF MeaningInv

\* The end of the walk: every loop is left.
LEMMA FinishMeans ==
  ASSUME TypeInv, Reads(g, R), MeaningInv, Finish
  PROVE  MeaningInv'
<1>1. /\ status = "running" /\ l = Len(g.layers) /\ l' = l /\ n' = n /\ status' = "ok"
      /\ g' = g /\ feed' = feed /\ runs' = runs /\ flow' = flow /\ memory' = memory
      /\ frames' = frames /\ leftFrame' = leftFrame /\ frameOf' = frameOf /\ rewindTo' = rewindTo
      /\ slot' = slot
  BY DEF Finish, position, framing, memory
<1>2. \A w \in Nodes : Done(w)' <=> Done(w)
  BY <1>1 DEF Done
<1>3. ArrayInv /\ FrameInv /\ RunsInv /\ WalkInv /\ FirstInv
  BY <1>1 DEF MeaningInv
<1>4. ArrayInv' /\ FrameInv' /\ RunsInv'
  BY <1>1, <1>3, ArrayStill, FrameStill, RunsStill
<1>5. WalkInv' /\ FirstInv'
  BY <1>1, <1>2, <1>3, WalkStill, FirstStill
<1>6. ASSUME NEW f \in Loops(R) PROVE Quiet(f)
  <2>1. Left(f)
    BY <1>1, EndDone, LoopParts DEF Left
  <2> QED
    BY <1>3, <2>1 DEF WalkInv, LoopInv, Turning
<1>7. ASSUME NEW f \in Frames, f \notin Loops(R) PROVE Quiet(f)
  <2>1. \A b \in Part(f, "NextIteration") : b \in Nodes /\ Lp(b) = f
    BY DEF Part, PartOf, Lp, Nodes, NodesOf
  <2>2. f # -1
    BY FrameNumbers
  <2>3. Part(f, "NextIteration") = {}
    BY <1>7, <2>1, <2>2, LoopNumbers
  <2> QED
    BY <1>3, <1>7, <2>3 DEF WalkInv, Quiet
<1>8. Clean
  BY <1>6, <1>7 DEF Clean
<1>9. Clean'
  BY <1>1, <1>8, CleanStill
<1> QED
  BY <1>1, <1>4, <1>5, <1>9 DEF MeaningInv

\* A loop that an op of it fails in has planned no rewind yet.
LEMMA OpQuiet ==
  ASSUME TypeInv, Reads(g, R), WalkInv, NEW v, At(v), Kind(v) = "Op"
  PROVE  Clean
<1>1. v \in Nodes
  BY HereFacts
<1>2. ASSUME NEW f \in Frames, f \notin Loops(R) PROVE Quiet(f)
  <2>1. \A b \in Part(f, "NextIteration") : b \in Nodes /\ Lp(b) = f
    BY DEF Part, PartOf, Lp, Nodes, NodesOf
  <2>2. f # -1
    BY FrameNumbers
  <2>3. Part(f, "NextIteration") = {}
    BY <1>2, <2>1, <2>2, LoopNumbers
  <2> QED
    BY <1>2, <2>3 DEF WalkInv, Quiet
<1>3. ASSUME NEW f \in Loops(R), f # Lp(v) PROVE Quiet(f)
  BY <1>3, OthersQuiet
<1>4. ASSUME NEW f \in Loops(R), f = Lp(v) PROVE Quiet(f)
  <2>1. Inner(g, R, v)
    BY <1>1, <1>4, InPart, LoopNumbers
  <2>2. PICK k \in Steps(f) : Turning(f, k)
    BY <1>4, <2>1, LoopRuns
  <2>3. \A b \in Part(f, "NextIteration") : b \in Nodes /\ ~Done(b)
    <3> SUFFICES ASSUME NEW b \in Part(f, "NextIteration") PROVE b \in Nodes /\ ~Done(b)
      OBVIOUS
    <3>1. b \in Nodes /\ Bf(v, b)
      BY <1>1, <1>4, LoopParts, Stages
    <3> QED
      BY <3>1, DoneBefore, BeforeAsymmetric
  <2>4. ~flow.frame[f].rewindPlanned
    BY <2>2, <2>3 DEF Turning, Ending
  <2>5. ASSUME NEW b \in Part(f, "NextIteration") PROVE b \notin flow.executed
    <3>1. PICK m \in Part(f, "Merge") : Back(g, m) = b
      BY LoopParts
    <3>2. m \in Nodes /\ Bf(m, v)
      BY <1>1, <1>4, LoopParts, Stages
    <3>3. Done(m)
      BY <3>2, DoneBefore
    <3>4. MergeReady(m, k)
      BY <2>2 DEF Turning
    <3> QED
      BY <2>3, <3>1, <3>3, <3>4 DEF MergeReady
  <2> QED
    BY <2>4, <2>5 DEF Quiet
<1> QED
  BY <1>2, <1>3, <1>4 DEF Clean

LEMMA FailMeans ==
  ASSUME TypeInv, Reads(g, R), MeaningInv, NEW v, Fail(v)
  PROVE  MeaningInv'
<1>1. PICK how : /\ Stop(v, how)
                 /\ how \in (IF OpError(v) THEN {"error"} ELSE {})
                               \cup (IF Crash(v) THEN {"crashed"} ELSE {})
  BY DEF Fail
<1>2. /\ v \in Nodes /\ At(v) /\ status = "running" /\ g' = g /\ feed' = feed /\ runs' = runs
      /\ memory' = memory /\ SetFrame(v) /\ flow' = Live(v) /\ status' = how
      /\ how \in {"error", "crashed"} /\ (how = "error" => Kind(v) = "Op")
  BY <1>1, HereFacts DEF Fail, Stop, At, OpError
<1>3. ArrayInv /\ FrameInv /\ RunsInv /\ WalkInv
  BY <1>2 DEF MeaningInv
<1>4. /\ IsFlow(Flow1(v)) /\ Same(flow, Flow1(v))
      /\ \A c \in Frames : Flow1(v).frame[c] \in {flow.frame[c], FreshFrame}
  BY <1>2, HeadFacts
<1>5. flow'.executed = flow.executed /\ flow'.frame = Flow1(v).frame
  BY <1>2, <1>4, ActiveFlow DEF Live, Same
<1>6. \A c \in Frames : ~flow'.frame[c].rewindPlanned => flow'.frame[c].rewindPosition = -1
  BY <1>2, <1>3, <1>5, FramesRight
<1>7. FrameInv'
  BY <1>2, <1>3, <1>6, FrameKept
<1>8. ArrayInv' /\ RunsInv'
  BY <1>2, <1>3, ArrayStill, RunsStill
<1>9. ASSUME how = "error" PROVE Clean'
  <2>1. Clean
    BY <1>2, <1>3, <1>9, OpQuiet
  <2>2. Frames' = Frames /\ \A c, q : Part(c, q)' = Part(c, q)
    BY <1>2, Unmoved
  <2>3. \A c \in Frames : ~flow'.frame[c].rewindPlanned
    BY <1>4, <1>5, <2>1 DEF Clean, Quiet, FreshFrame
  <2> QED
    BY <1>5, <2>1, <2>2, <2>3 DEF Clean, Quiet
<1> QED
  BY <1>2, <1>7, <1>8, <1>9 DEF MeaningInv

\* A run that follows one that returned finds no loop on its way.
LEMMA ExecuteMeans ==
  ASSUME TypeInv, Reads(g, R), MeaningInv, NEW f \in g.feeds, Execute(f), status # "thrown"
  PROVE  MeaningInv'
<1>1. /\ status \in {"idle", "ok", "error"} /\ runs < MaxRuns(g)
      /\ status' \in {"running", "crashed"} /\ runs' = runs + 1 /\ feed' = f
      /\ content' = [a \in Addresses |-> IF a[1] \in Ext THEN f[a[1]] ELSE content[a]]
      /\ flow' \in {flow, FreshFlow} /\ l' = 0 /\ n' = 0
      /\ frames' = <<>> /\ leftFrame' = FALSE
      /\ g' = g /\ frameOf' = frameOf /\ rewindTo' = rewindTo /\ slot' = slot /\ freed' = freed
  BY DEF Execute
<1>2. ArrayInv /\ FrameInv /\ RunsInv /\ Clean
  BY <1>1 DEF MeaningInv
<1>3. R' = R /\ Nodes' = Nodes /\ Frames' = Frames /\ DOMAIN f = ExtOf(g) /\ Ext = ExtOf(g)
  BY <1>1, Readable DEF R, Nodes, Frames, Structured
<1>4. Ext' = Ext /\ Addresses' = Addresses
  <2>1. Ext' = Ext
    BY <1>1, <1>3 DEF Ext
  <2> QED
    BY <1>3, <2>1 DEF Addresses
<1>5. \A u : Kind(u)' = Kind(u) /\ Lp(u)' = Lp(u) /\ Out(u)' = Out(u)
  BY <1>1, <1>3 DEF Kind, Lp, Out
<1>6. \A c, q : Part(c, q)' = Part(c, q)
  BY <1>1, <1>3 DEF Part
<1>7. ArrayInv'
  <2>1. \A x \in Ext : <<x, 0>> \in Addresses /\ content'[<<x, 0>>] = f[x]
    BY <1>1 DEF Addresses
  <2> QED
    BY <1>1, <1>2, <1>3, <1>4, <1>5, <2>1 DEF ArrayInv, Nil
<1>8. \A c \in Frames : flow'.frame[c] \in {flow.frame[c], FreshFrame}
  BY <1>1 DEF FreshFlow
<1>9. FrameInv'
  <2>1. \A c \in Frames : ~flow'.frame[c].rewindPlanned => flow'.frame[c].rewindPosition = -1
    BY <1>2, <1>8 DEF FrameInv, FreshFrame
  <2> QED
    BY <1>1, <1>2, <1>3, <1>5, <2>1 DEF FrameInv
<1>10. RunsInv'
  BY <1>1, <1>2 DEF RunsInv
<1>11. \A c \in Frames : ~flow'.frame[c].rewindPlanned
  BY <1>2, <1>8 DEF Clean, Quiet, FreshFrame
<1>12. flow'.executed = flow.executed \/ flow'.executed = {}
  BY <1>1 DEF FreshFlow
<1>13. \A c \in Frames : Quiet(c)'
  BY <1>2, <1>6, <1>11, <1>12 DEF Clean, Quiet
<1>14. \A w \in Nodes : ~Done(w)'
  BY <1>1, StartDone
<1>15. \A c, q : \A w \in Part(c, q) : ~Done(w)'
  BY <1>14 DEF Part, PartOf, Nodes, NodesOf
<1>16. \A c \in Loops(R) : LoopInv(c)' /\ Shut(c)'
  <2> SUFFICES ASSUME NEW c \in Loops(R) PROVE LoopInv(c)' /\ Shut(c)'
    OBVIOUS
  <2>1. ~Begun(c)'
    BY <1>6, <1>15 DEF Begun
  <2>2. ~Entered(c)'
    BY <1>6, <1>15 DEF Entered
  <2>3. Quiet(c)'
    BY <1>13, LoopNumbers
  <2> QED
    BY <2>1, <2>2, <2>3 DEF LoopInv, Shut
<1>17. OuterInv'
  BY <1>3, <1>14 DEF OuterInv
<1>18. OpenInv'
  BY <1>1, <1>3, <1>16 DEF OpenInv
<1>19. WalkInv'
  BY <1>3, <1>11, <1>16, <1>17, <1>18 DEF WalkInv
<1>20. FirstInv'
  <2> SUFFICES ASSUME NEW m \in Nodes, Kind(m) = "Merge", ~IsLoopMerge(g, m),
                      NEW w \in Nodes, NEW a \in OutputsOf(g, w), slot[a] # Nil
               PROVE  FALSE
    BY <1>1, <1>3, <1>5 DEF FirstInv, Nil
  <2>1. MaxRuns(g) = 1
    BY Readable, Inputs DEF Structured
  <2>2. runs = 0
    BY <1>1, <1>2, <2>1 DEF RunsInv
  <2>3. a \in Addresses /\ a[1] = w
    BY OutputAddress
  <2> QED
    BY <1>2, <2>2, <2>3 DEF RunsInv
<1> QED
  BY <1>1, <1>7, <1>9, <1>10, <1>19, <1>20 DEF MeaningInv

\* Before the first call.
LEMMA InitMeans ==
  ASSUME Init, Denotes(g)
  PROVE  MeaningInv
<1>1. TypeInv /\ Reads(g, R)
  BY InitInv, ReadingOf
<1>2. /\ status = "idle" /\ runs = 0 /\ flow = FreshFlow /\ frameOf = g.frame
      /\ slot = [a \in Addresses |-> IF a[1] \in Ext /\ a[2] = 0 THEN a ELSE Nil]
      /\ content = [a \in Addresses |-> IF a[1] \in Ext THEN feed[a[1]] ELSE 0]
      /\ freed = {}
  BY DEF Init
<1>3. /\ Nodes = NodesOf(g) /\ Ext = ExtOf(g) /\ Addresses = AddressesOf(g) /\ Ext \cap Nodes = {}
      /\ Structured(g, R)
  BY <1>1, Readable
<1>4. \A a \in Addresses : a[1] \in Nodes => slot[a] = Nil
  BY <1>2, <1>3
<1>5. \A x \in Ext : <<x, 0>> \in Addresses /\ slot[<<x, 0>>] = <<x, 0>> /\ content[<<x, 0>>] = feed[x]
  <2>1. \A x \in Ext : <<x, 0>> \in Addresses
    BY DEF Addresses
  <2> QED
    BY <1>2, <2>1
<1>6. \A a \in Addresses : slot[a] # Nil => slot[a] \in R.src[a]
  <2> SUFFICES ASSUME NEW a \in Addresses, slot[a] # Nil PROVE slot[a] \in R.src[a]
    OBVIOUS
  <2>1. a[1] \in Ext /\ a[2] = 0 /\ slot[a] = a
    BY <1>2
  <2>2. a = <<a[1], 0>>
    BY <2>1 DEF Addresses
  <2>3. \A x \in Ext : <<x, 0>> \in R.src[<<x, 0>>]
    BY <1>3 DEF Structured, Flows
  <2> QED
    BY <2>1, <2>2, <2>3
<1>7. \A v \in Nodes : slot[Out(v)] = Nil
  BY <1>1, <1>4, OutputAddress DEF Out
<1>8. DOMAIN feed = ExtOf(g)
  BY <1>1, <1>3 DEF Structured, TypeInv
<1>9. slot \in [Addresses -> Addresses \cup {Nil}] /\ DOMAIN content = Addresses
  BY <1>2
<1>10. ArrayInv
  BY <1>2, <1>5, <1>6, <1>7, <1>8, <1>9 DEF ArrayInv
<1>11. \A v \in Nodes : GoodNode(g, R, v) /\ Kind(v) = g.kind[v]
  BY <1>1, <1>3, Inputs DEF Structured
<1>12. \A f \in Frames : flow.frame[f] = FreshFrame
  BY <1>2 DEF FreshFlow
<1>13. FrameInv
  <2>1. \A v \in Nodes : IsLoopMerge(g, v) => frameOf[v] \in {-1, Lp(v)}
    BY <1>2, <1>11 DEF GoodNode, Lp
  <2>2. \A v \in Nodes : Kind(v) = "Merge" /\ ~IsLoopMerge(g, v) => frameOf[v] = -1
    BY <1>2, <1>11 DEF GoodNode
  <2>3. \A v \in Nodes : Kind(v) = "Enter" => frameOf[v] = Lp(v)
    BY <1>2, <1>11 DEF GoodNode, Lp
  <2> QED
    BY <1>12, <2>1, <2>2, <2>3 DEF FrameInv, FreshFrame
<1>14. RunsInv
  BY <1>2, <1>4 DEF RunsInv
<1>15. Clean
  BY <1>2, <1>12 DEF Clean, Quiet, FreshFlow, FreshFrame
<1> QED
  BY <1>2, <1>10, <1>13, <1>14, <1>15 DEF MeaningInv

---------------------------------------------------------------------------
(* The results *)

LEMMA VisitMeans ==
  ASSUME TypeInv, Reads(g, R), MeaningInv, NEW v \in Nodes, Visit(v)
  PROVE  MeaningInv'
<1>1. CASE Fail(v)
  BY <1>1, FailMeans
<1>2. ASSUME ~Fail(v) PROVE MeaningInv'
  <2>1. status = "running" /\ status' = "running" /\ runs' = runs /\ g' = g /\ feed' = feed
    BY <1>2 DEF Visit, Skip, Enter, MergeLoop, Merge, Switch, LoopCond, NextIteration,
                ExitInactive, ExitRewind, ExitLoop, ExecuteOp, Go, At
  <2>2. Kept /\ RunsInv
    BY <2>1 DEF MeaningInv, Kept
  <2>3. ASSUME Skip(v) PROVE Kept'
    BY <2>2, <2>3, SkipKept
  <2>4. ASSUME ExecuteOp(v) \/ Switch(v) \/ LoopCond(v) \/ Merge(v) PROVE Kept'
    BY <2>2, <2>4, PlainsKept
  <2>5. ASSUME Enter(v) PROVE Kept'
    BY <2>2, <2>5, EnterKept
  <2>6. ASSUME MergeLoop(v) PROVE Kept'
    BY <2>2, <2>6, MergeLoopKept
  <2>7. ASSUME NextIteration(v) PROVE Kept'
    BY <2>2, <2>7, NextKept
  <2>8. ASSUME ExitRewind(v) PROVE Kept'
    BY <2>2, <2>8, RewindKept
  <2>9. ASSUME ExitLoop(v) PROVE Kept'
    BY <2>2, <2>9, ExitKept
  <2>10. ~ExitInactive(v)
    BY <2>2, NoExitInactive DEF Kept
  <2>11. Kept'
    BY <1>2, <2>3, <2>4, <2>5, <2>6, <2>7, <2>8, <2>9, <2>10 DEF Visit
  <2>12. RunsInv'
    BY <2>1, <2>2, RunsStill
  <2> QED
    BY <2>1, <2>11, <2>12 DEF MeaningInv, Kept
<1> QED
  BY <1>1, <1>2

\* The caller does not call execute again after it has thrown: the exception leaves
\* the flags of a loop that is on its way in the FlowPath, and in the nodes.
NoneAfterLimit == status = "thrown" => status' = "thrown"

LEMMA StepMeans ==
  ASSUME TypeInv, Reads(g, R), MeaningInv, Next \/ UNCHANGED vars, NoneAfterLimit \/ UNCHANGED vars
  PROVE  MeaningInv'
<1>1. ASSUME NEW v \in Nodes, Visit(v) PROVE MeaningInv'
  BY <1>1, VisitMeans
<1>2. CASE NextLayer
  <2>1. /\ g' = g /\ feed' = feed /\ runs' = runs /\ status' = status /\ flow' = flow
        /\ framing' = framing /\ memory' = memory /\ status = "running"
    BY <1>2 DEF NextLayer
  <2>2. \A w \in Nodes : Done(w)' <=> Done(w)
    BY <1>2, NextLayerDone
  <2> QED
    BY <2>1, <2>2, StillMeans
<1>3. CASE Finish
  BY <1>3, FinishMeans
<1>4. CASE EarlyTermination
  <2>1. /\ g' = g /\ feed' = feed /\ runs' = runs /\ status' = "thrown" /\ status = "running"
        /\ flow' = flow /\ frameOf' = frameOf /\ memory' = memory /\ slot' = slot
    BY <1>4 DEF EarlyTermination, framing, memory
  <2>2. ArrayInv' /\ FrameInv' /\ RunsInv'
    BY <2>1, ArrayStill, FrameStill, RunsStill DEF MeaningInv
  <2> QED
    BY <2>1, <2>2 DEF MeaningInv
<1>5. CASE Rest \/ UNCHANGED vars
  <2>1. /\ g' = g /\ feed' = feed /\ runs' = runs /\ status' = status /\ flow' = flow
        /\ framing' = framing /\ memory' = memory /\ l' = l /\ n' = n
    BY <1>5 DEF Rest, vars, position
  <2>2. \A w \in Nodes : Done(w)' <=> Done(w)
    BY <2>1 DEF Done
  <2> QED
    BY <2>1, <2>2, StillMeans
<1>6. ASSUME NEW f \in g.feeds, Execute(f) PROVE MeaningInv'
  <2>1. status' \in {"running", "crashed"}
    BY <1>6 DEF Execute
  <2>2. CASE status # "thrown"
    BY <1>6, <2>2, ExecuteMeans
  <2>3. CASE status = "thrown"
    <3>1. UNCHANGED vars
      BY <2>1, <2>3 DEF NoneAfterLimit
    <3> QED
      BY <1>5, <3>1
  <2> QED
    BY <2>2, <2>3
<1> QED
  BY <1>1, <1>2, <1>3, <1>4, <1>5, <1>6 DEF Next, Walk

\* A rewind goes to the layer of the loop's head, which lies behind.
LEMMA RewindsTo ==
  ASSUME TypeInv, Reads(g, R), Kept, NEW v, ExitRewind(v)
  PROVE  /\ Last(frames) \in Loops(R) /\ l' <= l
         /\ \E m \in Part(Last(frames), "Merge") :
              /\ IsHead(g, R, m)
              /\ \E i \in DOMAIN g.layers :
                   /\ i \in Nat \ {0} /\ l' = i - 1
                   /\ 1 \in DOMAIN g.layers[i] /\ g.layers[i][1] = m
<1>1. v \in Nodes /\ At(v) /\ Kind(v) = "Exit" /\ Lp(v) \in Loops(R)
  BY RewindFacts
<1>2. PICK f \in Loops(R) : f = Lp(v)
  BY <1>1
<1>3. Last(frames) = f
  BY <1>1, <1>2, ExitFacts DEF Kept
<1>4. PICK m \in Part(f, "Merge") :
        /\ IsHead(g, R, m)
        /\ \E i \in DOMAIN g.layers :
             /\ LayersWith(g, m) = {i} /\ i \in Nat \ {0} /\ l' = i - 1
             /\ 1 \in DOMAIN g.layers[i] /\ g.layers[i][1] = m
  BY <1>2, RewindTo
<1>5. PICK i \in DOMAIN g.layers : /\ i \in Nat \ {0} /\ l' = i - 1
                                   /\ 1 \in DOMAIN g.layers[i] /\ g.layers[i][1] = m
  BY <1>4
<1>6. Done(m)
  BY <1>1, <1>2, ExitFacts DEF Kept
<1>7. i <= l \/ (i = l + 1 /\ 1 <= n)
  BY <1>5, <1>6, DoneAt
<1>8. l' <= l
  BY <1>5, <1>7 DEF TypeInv
<1> QED
  BY <1>3, <1>4, <1>5, <1>8

\* The walk passes no node over.
LEMMA StepPasses ==
  ASSUME TypeInv, Reads(g, R), MeaningInv, Next \/ UNCHANGED vars
  PROVE  PassesNone
<1>1. l \in Nat
  BY DEF TypeInv
<1>2. ASSUME NEW v \in Nodes, Visit(v) PROVE PassesNone
  <2>1. CASE ExitRewind(v)
    <3>1. Kept
      BY <2>1 DEF ExitRewind, At, MeaningInv, Kept
    <3>2. l' <= l /\ l' \in Int
      BY <2>1, <3>1, RewindsTo
    <3> QED
      BY <1>1, <3>2 DEF PassesNone
  <2>2. CASE ~ExitRewind(v)
    <3>1. l' = l
      BY <1>2, <2>2, VisitStays
    <3> QED
      BY <1>1, <3>1 DEF PassesNone
  <2> QED
    BY <2>1, <2>2
<1>3. CASE NextLayer
  BY <1>3 DEF NextLayer, PassesNone
<1>4. CASE Finish \/ EarlyTermination \/ Rest \/ UNCHANGED vars
  <2>1. l' = l
    BY <1>4, StillSteps DEF position
  <2> QED
    BY <1>1, <2>1 DEF PassesNone
<1>5. ASSUME NEW f \in g.feeds, Execute(f) PROVE PassesNone
  <2>1. l' = 0
    BY <1>5 DEF Execute
  <2> QED
    BY <1>1, <2>1 DEF PassesNone
<1> QED
  BY <1>2, <1>3, <1>4, <1>5 DEF Next, Walk

LEMMA LayerIs ==
  ASSUME TypeInv, NEW i \in DOMAIN g.layers, NEW j \in DOMAIN g.layers[i]
  PROVE  LayerOf(g.layers[i][j]) = i - 1
<1>1. g.layers \in Seq(Seq(Nodes)) /\ i \in Nat \ {0}
  BY Laid, PlaceTypes
<1>2. i - 1 \in 0..Len(g.layers) - 1 /\ (i - 1) + 1 = i
  BY <1>1
<1>3. PICK k : k = i - 1
  OBVIOUS
<1>4. /\ k \in 0..Len(g.layers) - 1
      /\ \E q \in DOMAIN g.layers[k + 1] : g.layers[k + 1][q] = g.layers[i][j]
  BY <1>2, <1>3
<1>5. ASSUME NEW p \in 0..Len(g.layers) - 1,
             \E q \in DOMAIN g.layers[p + 1] : g.layers[p + 1][q] = g.layers[i][j]
      PROVE  p = k
  <2>1. p + 1 \in DOMAIN g.layers
    BY <1>1
  <2>2. PICK q \in DOMAIN g.layers[p + 1] : g.layers[p + 1][q] = g.layers[i][j]
    BY <1>5
  <2>3. p + 1 = i
    BY <2>1, <2>2, OnePlace
  <2> QED
    BY <1>3, <2>3
<1>6. LayerOf(g.layers[i][j]) = k
  BY <1>4, <1>5 DEF LayerOf
<1> QED
  BY <1>3, <1>6

\* The variables of a loop are its frame's Merges.
LEMMA RewindRestarts ==
  ASSUME TypeInv, Reads(g, R), Kept, NEW x, ExitRewind(x), NEW v \in Nodes,
         frameOf[v] = Last(frames)
  PROVE  /\ Kind(v) = "Merge" => LayerOf(v) >= l'
         /\ Kind(v) = "Enter" => LayerOf(v) < l'
<1>1. PICK f \in Loops(R) : f = Last(frames)
  BY RewindsTo
<1>2. PICK m \in Part(f, "Merge") :
        /\ IsHead(g, R, m)
        /\ \E i \in DOMAIN g.layers :
             /\ i \in Nat \ {0} /\ l' = i - 1
             /\ 1 \in DOMAIN g.layers[i] /\ g.layers[i][1] = m
  BY <1>1, RewindsTo
<1>3. PICK i \in DOMAIN g.layers : /\ i \in Nat \ {0} /\ l' = i - 1
                                   /\ 1 \in DOMAIN g.layers[i] /\ g.layers[i][1] = m
  BY <1>2
<1>4. PICK p \in DOMAIN g.layers : \E q \in DOMAIN g.layers[p] : g.layers[p][q] = v
  BY Places
<1>5. PICK q \in DOMAIN g.layers[p] : g.layers[p][q] = v
  BY <1>4
<1>6. p \in Nat \ {0} /\ q \in Nat \ {0} /\ LayerOf(v) = p - 1
  BY <1>5, PlaceTypes, LayerIs
<1>7. m \in Nodes /\ Lp(m) = f /\ Kind(m) = "Merge" /\ f # -1
  BY LoopParts, LoopNumbers
<1>8. CASE Kind(v) = "Merge"
  <2>1. IsLoopMerge(g, v)
    BY <1>1, <1>7, <1>8 DEF Kept, FrameInv
  <2>2. Lp(v) = f
    BY <1>1, <1>7, <2>1 DEF Kept, FrameInv
  <2>3. v \in Part(f, "Merge")
    BY <1>8, <2>2, InPart
  <2>4. v = m \/ Bf(m, v)
    BY <1>2, <1>7, <2>3, Heads
  <2>5. i <= p
    <3>1. CASE v = m
      BY <1>3, <1>5, <3>1, OnePlace
    <3>2. CASE Bf(m, v)
      <4>1. i < p \/ (i = p /\ 1 < q)
        BY <1>3, <1>5, <3>2, BeforePlaces
      <4> QED
        BY <1>3, <1>6, <4>1
    <3> QED
      BY <2>4, <3>1, <3>2
  <2> QED
    BY <1>3, <1>6, <1>8, <2>5
<1>9. CASE Kind(v) = "Enter"
  <2>1. Lp(v) = f
    BY <1>1, <1>9 DEF Kept, FrameInv
  <2>2. v \in Part(f, "Enter")
    BY <1>9, <2>1, InPart
  <2>3. Bf(v, m)
    BY <1>7, <2>2, Stages
  <2>4. p < i \/ (p = i /\ q < 1)
    BY <1>3, <1>5, <2>3, BeforePlaces
  <2> QED
    BY <1>3, <1>6, <1>9, <2>4
<1> QED
  BY <1>8, <1>9

\* What is left at the end.
LEMMA MeaningResults ==
  ASSUME TypeInv, Reads(g, R), MeaningInv
  PROVE  ResultsCorrect
<1> SUFFICES ASSUME status = "ok" PROVE ResultsCorrect
  BY DEF ResultsCorrect
<1>1. l = Len(g.layers) /\ WalkInv /\ Clean
  BY DEF MeaningInv
<1>2. ASSUME NEW o \in DOMAIN g.meaning[feed]
      PROVE  slot[o] # Nil /\ content[slot[o]] = g.meaning[feed][o]
  <2>1. /\ o[1] \in Nodes /\ o \in OutputsOf(g, o[1]) /\ ~Inner(g, R, o[1])
        /\ Al(o, 0) /\ g.meaning[feed][o] = Vl(o, 0)
    BY Readable DEF Means, Al, Vl
  <2>2. Done(o[1]) /\ o \in Addresses
    BY <1>1, <2>1, EndDone, OutputAddress
  <2>3. Good(o, 0)
    BY <1>1, <2>1, <2>2 DEF WalkInv, OuterInv, Passed
  <2>4. Fresh(o, 0)
    BY <2>1, <2>2, OuterFresh
  <2> QED
    BY <2>1, <2>3, <2>4 DEF Good
<1>3. Len(frames) = IF leftFrame THEN 1 ELSE 0
  <2>1. CASE frames = <<>> /\ ~leftFrame
    BY <2>1
  <2>2. ASSUME NEW f \in Loops(R), frames = <<f>>, leftFrame <=> Leaving(f)
        PROVE  Len(frames) = IF leftFrame THEN 1 ELSE 0
    <3>1. PICK x \in Part(f, "Exit") : x \in Nodes
      BY LoopParts
    <3>2. Done(x)
      BY <1>1, <3>1, EndDone
    <3>3. leftFrame
      BY <2>2, <3>1, <3>2 DEF Leaving
    <3>4. Len(<<f>>) = 1
      OBVIOUS
    <3> QED
      BY <2>2, <3>3, <3>4
  <2> QED
    BY <1>1, <2>1, <2>2 DEF WalkInv, OpenInv
<1>4. \A f \in Frames : ~flow.frame[f].rewindPlanned
  BY <1>1 DEF Clean, Quiet
<1> QED
  BY <1>2, <1>3, <1>4 DEF ResultsCorrect

\* Only a rewind goes back while a walk is under way.
LEMMA OnlyRewinds ==
  ASSUME TypeInv, Next \/ UNCHANGED vars, status = "running", l' < l
  PROVE  \E v \in Nodes : ExitRewind(v)
<1>1. l \in Nat
  BY DEF TypeInv
<1>2. ASSUME NEW v \in Nodes, Visit(v), ~ExitRewind(v) PROVE FALSE
  BY <1>1, <1>2, VisitStays
<1>3. ~NextLayer
  BY <1>1 DEF NextLayer
<1>4. ~(Finish \/ EarlyTermination \/ Rest \/ UNCHANGED vars)
  BY <1>1, StillSteps DEF position
<1>5. ASSUME NEW f \in g.feeds, Execute(f) PROVE FALSE
  BY <1>5 DEF Execute
<1> QED
  BY <1>2, <1>3, <1>4, <1>5 DEF Next, Walk

\* What one step of RewindRestartsLoop may not do.
Restarts ==
  /\ PassesNone
  /\ status = "running" /\ l' < l =>
       \A v \in Nodes : frameOf[v] = Last(frames) =>
          /\ Kind(v) = "Merge" => LayerOf(v) >= l'
          /\ Kind(v) = "Enter" => LayerOf(v) < l'

LEMMA StepRestarts ==
  ASSUME TypeInv, Reads(g, R), MeaningInv, Next \/ UNCHANGED vars
  PROVE  Restarts
<1>1. PassesNone
  BY StepPasses
<1>2. ASSUME status = "running", l' < l, NEW v \in Nodes, frameOf[v] = Last(frames)
      PROVE  /\ Kind(v) = "Merge" => LayerOf(v) >= l'
             /\ Kind(v) = "Enter" => LayerOf(v) < l'
  <2>1. PICK x \in Nodes : ExitRewind(x)
    BY <1>2, OnlyRewinds
  <2>2. Kept
    BY <1>2 DEF MeaningInv, Kept
  <2> QED
    BY <1>2, <2>1, <2>2, RewindRestarts
<1> QED
  BY <1>1, <1>2 DEF Restarts

LEMMA GraphStays == Next \/ UNCHANGED vars => g' = g
<1>1. ASSUME NEW v \in Nodes, Visit(v) PROVE g' = g
  BY <1>1 DEF Visit, Skip, Enter, MergeLoop, Merge, Switch, LoopCond, NextIteration, ExitInactive,
              ExitRewind, ExitLoop, ExecuteOp, Fail, Go, Stop
<1>2. ASSUME NEW f \in g.feeds, Execute(f) PROVE g' = g
  BY <1>2 DEF Execute
<1>3. CASE NextLayer \/ Finish \/ EarlyTermination \/ Rest \/ UNCHANGED vars
  BY <1>3, StillSteps DEF NextLayer
<1> QED
  BY <1>1, <1>2, <1>3 DEF Next, Walk

\* The inductive invariant.
Meaningful == Denotes(g) => TypeInv /\ DoneInv /\ MeaningInv

LEMMA InitMeaningful == Init => Meaningful
BY InitInv, InitMeans DEF Meaningful

LEMMA StepMeaningful ==
  ASSUME Meaningful, Next \/ UNCHANGED vars, NoneAfterLimit \/ UNCHANGED vars
  PROVE  Meaningful'
<1> SUFFICES ASSUME Denotes(g)' PROVE (TypeInv /\ DoneInv /\ MeaningInv)'
  BY DEF Meaningful
<1>1. Denotes(g)
  BY GraphStays
<1>2. TypeInv /\ DoneInv /\ MeaningInv /\ Reads(g, R)
  BY <1>1, ReadingOf DEF Meaningful
<1>3. PassesNone
  BY <1>2, StepPasses
<1>4. TypeInv' /\ DoneInv'
  BY <1>2, <1>3, StepInv
<1>5. MeaningInv'
  BY <1>2, StepMeans
<1> QED
  BY <1>4, <1>5

\* A call of execute that returns OK has left in the output variables what the graph
\* denotes for its inputs (GraphMeaning), and nothing in the FlowPath that would
\* change a later run: for every graph that denotes, of whatever ops, branches and
\* loops, through all its iterations, and when some runs before it have failed in an op.
THEOREM ExecutorResults ==
  Spec /\ [][NoneAfterLimit]_vars => [](Denotes(g) => ResultsCorrect)
<1>1. Init => Meaningful
  BY InitMeaningful
<1>2. Meaningful /\ [Next]_vars /\ [NoneAfterLimit]_vars => Meaningful'
  BY StepMeaningful
<1>3. Meaningful => (Denotes(g) => ResultsCorrect)
  BY ReadingOf, MeaningResults DEF Meaningful
<1> QED
  BY <1>1, <1>2, <1>3, PTL DEF Spec

\* Where all graphs denote every rewind goes back to the first layer of its own loop,
\* from which its Merges are visited again and its Enters are not, though the loops
\* follow one another; so no node is passed over, and no branch that was not taken is
\* executed.
THEOREM ExecutorLoops ==
  ASSUME \A h \in Graphs : Denotes(h)
  PROVE  Spec /\ [][NoneAfterLimit]_vars => RewindRestartsLoop /\ []BranchDisabled
<1> DEFINE Inv == Meaningful /\ Denotes(g)
<1>1. Init => Inv
  <2>1. Init => Denotes(g)
    BY InitInv DEF TypeInv
  <2> QED
    BY <2>1, InitMeaningful
<1>2. Inv /\ [Next]_vars /\ [NoneAfterLimit]_vars => Inv'
  BY StepMeaningful, GraphStays
<1>3. Inv /\ [Next]_vars => [Restarts]_vars
  BY ReadingOf, StepRestarts DEF Meaningful
<1>4. Inv => BranchDisabled
  BY InvDisables DEF Meaningful
<1> HIDE DEF Inv
<1>5. Spec /\ [][NoneAfterLimit]_vars => [][Restarts]_vars /\ []BranchDisabled
  BY <1>1, <1>2, <1>3, <1>4, PTL DEF Spec
<1> QED
  BY <1>5 DEF RewindRestartsLoop, Restarts
=============================================================================
