------------------------ MODULE VariableSpaceProofs -------------------------
(***************************************************************************)
(* A graph's variables are owned once, and their arrays are memory-safe    *)
(* and freed, for every graph and any number of clones.                    *)
(*                                                                         *)
(* The properties rest on three facts about the code.  A variable enters   *)
(* the handles once because a put of it happens only where the indexes do  *)
(* not know it (SpaceOK).  A variable marked removable has an array that   *)
(* was made for it and that it alone may delete (OwnArrays).  And whatever *)
(* a run may still read was made for a variable that no later node of the  *)
(* run writes (Readable).                                                  *)
(***************************************************************************)
EXTENDS VariableSpace, TLAPS

SpaceType == [paired : [Pairs -> Objs \cup {None}],
              byId : [Ids -> Objs \cup {None}],
              symbolic : [Names -> Objs \cup {None}],
              handles : [Objs -> Nat]]

\* Of the record S of space s: what the indexes hold is handled once, and what
\* is handled can still be found, or has been replaced under its pair.
SpaceOK(S, s) ==
  /\ \A p \in Pairs : S.paired[p] # None =>
       /\ S.paired[p].space = s /\ S.paired[p].pair = p
       /\ S.handles[S.paired[p]] = 1
  /\ \A i \in Ids : S.byId[i] # None =>
       /\ S.byId[i].space = s /\ S.byId[i].pair = <<i, 0>>
       /\ S.handles[S.byId[i]] = 1
  /\ \A n \in Names : S.symbolic[n] # None =>
       /\ S.symbolic[n].space = s /\ S.handles[S.symbolic[n]] = 1
  /\ \A o \in Objs : S.handles[o] # 0 =>
       /\ S.handles[o] = 1 /\ o.space = s /\ S.paired[o.pair] # None
       /\ o.late => S.paired[o.pair] = o
       /\ ~o.late /\ o.pair[2] = 0 => S.byId[o.pair[1]] = o
  /\ \A i \in Ids : S.byId[i] # None <=> S.paired[<<i, 0>>] # None
  /\ \A i \in ExtIds : S.byId[i] = S.paired[<<i, 0>>]

SpacesOK == \A s \in Spaces : SpaceOK(space[s], s)

\* The life of a space: what it holds before, during and after.
StageAt(s) ==
  /\ status[s] = "reading" => s = Own
  /\ status[s] \in {"none", "deleted"} => space[s] = EmptySpace
  /\ status[s] # "running" => done[s] = {}
  /\ status[s] \notin {"none", "deleted"} =>
       \A i \in NodeIds : node[i] # "none" => space[s].byId[i] # None
  /\ status[s] = "feeding" =>
       \A o \in Objs : o.space = s => var[o].removable

\* While the graph is built there is no clone, and what was created late belongs
\* to a node that has been added.
Reading ==
  status[Own] = "reading" =>
    /\ \A s \in Spaces \ {Own} : status[s] = "none"
    /\ \A o \in Objs : o.late /\ space[Own].handles[o] # 0 =>
         o.pair[1] \in NodeIds /\ node[o.pair[1]] # "none"

Stages ==
  /\ status[Own] \in {"reading", "running", "deleted"}
  /\ \A i \in inplace : node[i] = "single"
  /\ \A s \in Spaces : StageAt(s)
  /\ Reading

\* The variables that live are the ones in the handles of their space.
Living ==
  \A o \in Objs :
    /\ var[o].live <=> space[o.space].handles[o] # 0
    /\ ~var[o].live => var[o] = Blank
    /\ ~var[o].live /\ status[o.space] # "deleted" => made[o] = 0

\* Who may delete an array: the variable it was made for, when it is removable.
OwnArrays ==
  /\ \A o \in Objs : var[o].arr # NoArr =>
       /\ var[o].arr[1].space = o.space
       /\ var[o].removable =>
            var[o].arr = <<o, made[o]>> /\ var[o].arr \notin freed
       /\ ~var[o].removable /\ o.pair[1] \notin inplace =>
            var[o].arr[1].pair[1] \in ExtIds /\ var[o].arr \notin freed
  /\ \A o \in Objs : o.pair[1] \in ExtIds \/ o.pair[2] # 0 => var[o].removable
  /\ \A a \in freed : a[2] <= made[a[1]]

\* What the current run of a space may read.
ReadableAt(s) ==
  status[s] \in {"feeding", "running"} =>
    \A o \in Objs : (o.space = s /\ o.pair[1] \in ExtIds \cup done[s] /\
                     space[s].paired[o.pair] = o /\ var[o].arr # NoArr)
      => /\ var[o].arr \notin freed
         /\ var[o].arr[1].pair[1] \in ExtIds \cup done[s]

Readable == \A s \in Spaces : ReadableAt(s)

\* Every array made is deleted, or is the one its variable will delete.
Freeing ==
  \A o \in Objs : o.pair[1] \notin inplace =>
    \A k \in 1..made[o] : <<o, k>> \in freed \/ (var[o].removable /\ var[o].arr = <<o, k>>)

VarType == [live : BOOLEAN, arr : Arrays \cup {NoArr}, removable : BOOLEAN]

\* The type invariant, with names for the records.
TypeInv ==
  /\ status \in [Spaces -> {"none", "reading", "feeding", "running", "deleted"}]
  /\ space \in [Spaces -> SpaceType]
  /\ var \in [Objs -> VarType]
  /\ made \in [Objs -> 0..MaxArrays]
  /\ freed \subseteq Arrays
  /\ node \in [NodeIds -> AllKinds \cup {"none"}] /\ inplace \subseteq NodeIds
  /\ done \in [Spaces -> SUBSET NodeIds]
  /\ corrupted \in BOOLEAN

ArrayInv == OwnArrays /\ Readable /\ Freeing /\ FreedOnce

IndInv == TypeInv /\ SpacesOK /\ Stages /\ Living /\ ArrayInv

\* Every node is a custom op.
OpsOnly == \A i \in NodeIds : Kinds[i] \subseteq {"single", "double", "dynamic"}

\* The three indexes hold the same variables.
IndexedAt(S) ==
  \A i \in Ids :
    /\ S.byId[i] = S.paired[<<i, 0>>]
    /\ NameOf[i] # NoName =>
         S.symbolic[NameOf[i]] =
           IF S.byId[i] # None /\ ~S.byId[i].late THEN S.byId[i] ELSE None

Indexed == \A s \in Spaces : IndexedAt(space[s])

-----------------------------------------------------------------------------
(* Variables and their pairs *)

\* Ids are negative for external variables, positive for nodes.
LEMMA IdFacts ==
  /\ \A i \in Ids : i \in Int /\ (i \in ExtIds <=> i < 0) /\ (i \in NodeIds <=> ~(i < 0))
  /\ ExtIds \subseteq Ids /\ NodeIds \subseteq Ids /\ ExtIds \cap NodeIds = {}
  BY VariableSpaceAssumption DEF Ids

\* The pairs of an id.
LEMMA PairOf ==
  /\ \A i \in Ids : <<i, 0>> \in Pairs
  /\ \A i \in NodeIds : <<i, 1>> \in Pairs
  BY DEF Pairs, Ids

\* The id and the output of a pair; external variables have one output.
LEMMA PairFacts ==
  ASSUME NEW p \in Pairs
  PROVE  /\ p[1] \in Ids /\ p[2] \in {0, 1} /\ p = <<p[1], p[2]>>
         /\ p[1] \in ExtIds => p[2] = 0
<1>1. CASE p \in ExtIds \X {0}
  BY <1>1 DEF Ids
<1>2. CASE p \in NodeIds \X {0, 1}
  <2>1. p[1] \in NodeIds /\ p[2] \in {0, 1} /\ p = <<p[1], p[2]>>
    BY <1>2
  <2> QED
    BY <2>1, IdFacts
<1> QED
  BY <1>1, <1>2 DEF Pairs

\* A variable is known by its space, its pair and whether it was created late.
LEMMA ObjFacts ==
  /\ \A s \in Spaces, p \in Pairs, l \in BOOLEAN :
       /\ Obj(s, p, l) \in Objs
       /\ Obj(s, p, l).space = s /\ Obj(s, p, l).pair = p /\ Obj(s, p, l).late = l
  /\ \A o \in Objs : o.space \in Spaces /\ o.pair \in Pairs /\ o.late \in BOOLEAN
  /\ \A o, x \in Objs : o.space = x.space /\ o.pair = x.pair /\ o.late = x.late => o = x
  /\ None \notin Objs /\ NoArr \notin Arrays
  BY VariableSpaceAssumption DEF Objs, Obj

\* An array is a variable and a number.
LEMMA ArrayFacts ==
  /\ \A o \in Objs, k \in 1..MaxArrays : <<o, k>> \in Arrays
  /\ \A a \in Arrays : a[1] \in Objs /\ a[2] \in 1..MaxArrays /\ a = <<a[1], a[2]>>
  /\ MaxArrays \in Nat /\ MaxArrays >= 1
  BY VariableSpaceAssumption DEF Arrays

-----------------------------------------------------------------------------
(* putVariable *)

Named(S, o) == [n \in Names |-> IF n = Name(o) THEN o ELSE S.symbolic[n]]

\* putVariable(id) of a variable whose id is new: found under both keys.
LEMMA PutIdEffect ==
  ASSUME NEW S \in SpaceType, NEW s \in Spaces, SpaceOK(S, s),
         NEW i \in Ids, NEW o \in Objs, S.handles[o] = 0, ~HasId(S, i)
  PROVE  PutId(S, i, o) = [paired   |-> [S.paired EXCEPT ![<<i, 0>>] = o],
                           byId     |-> [S.byId EXCEPT ![i] = o],
                           symbolic |-> Named(S, o),
                           handles  |-> [S.handles EXCEPT ![o] = 1]]
<1>1. ~HasPair(S, <<i, 0>>)
  BY DEF SpaceOK, HasId, HasPair
<1>2. S.handles \in [Objs -> Nat]
  BY DEF SpaceType
<1>3. [S.handles EXCEPT ![o] = @ + 1] = [S.handles EXCEPT ![o] = 1]
  BY <1>2
<1> QED
  BY <1>1, <1>3 DEF PutId, Named

\* putVariable(pair): the pair and the handles in any case, the id if it is new.
LEMMA PutPairEffect ==
  ASSUME NEW S \in SpaceType, NEW p \in Pairs, NEW o \in Objs, S.handles[o] = 0
  PROVE  PutPair(S, p, o) = [paired   |-> [S.paired EXCEPT ![p] = o],
                             byId     |-> IF p[2] = 0 /\ ~HasId(S, p[1])
                                          THEN [S.byId EXCEPT ![p[1]] = o] ELSE S.byId,
                             symbolic |-> Named(S, o),
                             handles  |-> [S.handles EXCEPT ![o] = 1]]
<1> DEFINE Q == [S EXCEPT !.paired[p] = o]
<1>1. Q = [paired |-> [S.paired EXCEPT ![p] = o], byId |-> S.byId,
           symbolic |-> S.symbolic, handles |-> S.handles]
  BY DEF SpaceType
<1>2. S.handles \in [Objs -> Nat] /\ S.paired \in [Pairs -> Objs \cup {None}]
  BY DEF SpaceType
<1>3. [S.handles EXCEPT ![o] = @ + 1] = [S.handles EXCEPT ![o] = 1]
  BY <1>2
<1>4. CASE p[2] = 0 /\ ~HasId(S, p[1])
  <2>1. PutPair(S, p, o) = PutId(Q, p[1], o)
    BY <1>4 DEF PutPair
  <2> HIDE DEF Q
  <2>2. p = <<p[1], 0>> /\ p[1] \in Ids
    BY <1>4, PairFacts
  <2>3. HasPair(Q, p) /\ ~HasId(Q, p[1])
    BY <1>1, <1>2, <1>4, ObjFacts DEF HasPair, HasId
  <2>4. HasPair(Q, <<p[1], 0>>)
    BY <2>2, <2>3
  <2>5. PutId(Q, p[1], o) =
          [paired |-> Q.paired, byId |-> [Q.byId EXCEPT ![p[1]] = o],
           symbolic |-> Named(Q, o), handles |-> [Q.handles EXCEPT ![o] = @ + 1]]
    BY <2>3, <2>4 DEF PutId, Named
  <2>6. Named(Q, o) = Named(S, o)
    BY <1>1 DEF Named
  <2> QED
    BY <1>1, <1>3, <1>4, <2>1, <2>5, <2>6
<1>5. CASE ~(p[2] = 0 /\ ~HasId(S, p[1]))
  <2> DEFINE R == [Q EXCEPT !.symbolic = [n \in Names |-> IF n = Name(o) THEN o ELSE @[n]],
                            !.handles[o] = @ + 1]
  <2>1. PutPair(S, p, o) = R
    BY <1>5 DEF PutPair
  <2>a. Q \in SpaceType
    BY DEF SpaceType
  <2> HIDE DEF Q
  <2>2. R = [paired |-> Q.paired, byId |-> Q.byId, symbolic |-> Named(Q, o),
             handles |-> [Q.handles EXCEPT ![o] = @ + 1]]
    <3>1. R.paired = Q.paired /\ R.byId = Q.byId
      BY <2>a DEF SpaceType
    <3>2. R.symbolic = Named(Q, o)
      BY <2>a DEF SpaceType, Named
    <3>3. R.handles = [Q.handles EXCEPT ![o] = @ + 1]
      BY <2>a DEF SpaceType
    <3>4. R \in SpaceType
      <4>1. Named(Q, o) \in [Names -> Objs \cup {None}]
        BY <2>a DEF SpaceType, Named
      <4>2. [Q.handles EXCEPT ![o] = @ + 1] \in [Objs -> Nat]
        BY <2>a DEF SpaceType
      <4> QED
        BY <2>a, <4>1, <4>2 DEF SpaceType, Named
    <3> HIDE DEF R
    <3> QED
      BY <3>1, <3>2, <3>3, <3>4 DEF SpaceType
  <2>3. Named(Q, o) = Named(S, o)
    BY <1>1 DEF Named
  <2> QED
    BY <1>1, <1>3, <1>5, <2>1, <2>2, <2>3
<1> QED
  BY <1>4, <1>5

\* A put gives a space of the same type.
LEMMA PutPairType ==
  ASSUME NEW S \in SpaceType, NEW p \in Pairs, NEW o \in Objs, S.handles[o] = 0
  PROVE  PutPair(S, p, o) \in SpaceType
<1> DEFINE P == PutPair(S, p, o)
<1>1. P = [paired   |-> [S.paired EXCEPT ![p] = o],
           byId     |-> IF p[2] = 0 /\ ~HasId(S, p[1])
                        THEN [S.byId EXCEPT ![p[1]] = o] ELSE S.byId,
           symbolic |-> Named(S, o),
           handles  |-> [S.handles EXCEPT ![o] = 1]]
  BY PutPairEffect
<1> HIDE DEF P
<1>2. P \in SpaceType
  BY <1>1 DEF SpaceType, Named
<1> QED
  BY <1>2 DEF P

\* A put keeps a space in order, if the variable is new to it and replaces at
\* most one that was not created late.
LEMMA PutPairOK ==
  ASSUME NEW S \in SpaceType, NEW s \in Spaces, SpaceOK(S, s),
         NEW p \in Pairs, NEW o \in Objs, S.handles[o] = 0,
         o.space = s, o.pair = p,
         HasPair(S, p) => o.late /\ p[1] \in NodeIds
  PROVE  SpaceOK(PutPair(S, p, o), s)
<1> DEFINE P == PutPair(S, p, o)
<1>0. P = [paired   |-> [S.paired EXCEPT ![p] = o],
           byId     |-> IF p[2] = 0 /\ ~HasId(S, p[1])
                        THEN [S.byId EXCEPT ![p[1]] = o] ELSE S.byId,
           symbolic |-> Named(S, o),
           handles  |-> [S.handles EXCEPT ![o] = 1]]
  BY PutPairEffect
<1>1. /\ P.handles = [S.handles EXCEPT ![o] = 1]
      /\ P.paired = [S.paired EXCEPT ![p] = o]
      /\ P.byId = IF p[2] = 0 /\ ~HasId(S, p[1])
                  THEN [S.byId EXCEPT ![p[1]] = o] ELSE S.byId
      /\ P.symbolic = [n \in Names |-> IF n = Name(o) THEN o ELSE S.symbolic[n]]
  BY <1>0 DEF Named
<1> HIDE DEF P
<1> SUFFICES SpaceOK(P, s)
  BY DEF P
<1>2. /\ S.paired \in [Pairs -> Objs \cup {None}] /\ S.byId \in [Ids -> Objs \cup {None}]
      /\ S.symbolic \in [Names -> Objs \cup {None}] /\ S.handles \in [Objs -> Nat]
  BY DEF SpaceType
<1>3. ASSUME NEW q \in Pairs, P.paired[q] # None
      PROVE  P.paired[q].space = s /\ P.paired[q].pair = q /\ P.handles[P.paired[q]] = 1
  BY <1>1, <1>2, <1>3 DEF SpaceOK
<1>4. ASSUME NEW i \in Ids, P.byId[i] # None
      PROVE  P.byId[i].space = s /\ P.byId[i].pair = <<i, 0>> /\ P.handles[P.byId[i]] = 1
  BY <1>1, <1>2, <1>4, PairFacts DEF SpaceOK
<1>5. ASSUME NEW n \in Names, P.symbolic[n] # None
      PROVE  P.symbolic[n].space = s /\ P.handles[P.symbolic[n]] = 1
  BY <1>1, <1>2, <1>5 DEF SpaceOK
<1>6. ASSUME NEW x \in Objs, P.handles[x] # 0
      PROVE  /\ P.handles[x] = 1 /\ x.space = s /\ P.paired[x.pair] # None
             /\ x.late => P.paired[x.pair] = x
             /\ ~x.late /\ x.pair[2] = 0 => P.byId[x.pair[1]] = x
  <2>1. CASE x = o
    BY <1>1, <1>2, <2>1, ObjFacts, PairFacts DEF HasPair, HasId, SpaceOK
  <2>2. CASE x # o
    <3>1. S.handles[x] # 0
      BY <1>1, <1>2, <1>6, <2>2
    <3>2. P.handles[x] = 1 /\ x.space = s /\ P.paired[x.pair] # None
      BY <1>1, <1>2, <3>1, <2>2, ObjFacts DEF SpaceOK
    <3>3. ASSUME x.late PROVE P.paired[x.pair] = x
      <4>1. S.paired[x.pair] = x
        BY <3>1, <3>3 DEF SpaceOK
      <4>2. x.pair # p
        BY <4>1, <3>3, <3>2, <2>2, ObjFacts DEF HasPair
      <4> QED
        BY <4>1, <4>2, <1>1, <1>2, ObjFacts
    <3>4. ASSUME ~x.late, x.pair[2] = 0 PROVE P.byId[x.pair[1]] = x
      BY <3>1, <3>4, <1>1, <1>2, ObjFacts, PairFacts DEF SpaceOK, HasId
    <3> QED
      BY <3>2, <3>3, <3>4
  <2> QED
    BY <2>1, <2>2
<1>7. ASSUME NEW i \in Ids
      PROVE  /\ P.byId[i] # None <=> P.paired[<<i, 0>>] # None
             /\ i \in ExtIds => P.byId[i] = P.paired[<<i, 0>>]
  <2>1. <<i, 0>> \in Pairs /\ p = <<p[1], p[2]>> /\ p[1] \in Ids
    BY PairOf, PairFacts
  <2>2. /\ S.byId[i] # None <=> S.paired[<<i, 0>>] # None
        /\ i \in ExtIds => S.byId[i] = S.paired[<<i, 0>>]
    BY DEF SpaceOK
  <2>3. CASE p = <<i, 0>>
    <3>1. p[1] = i /\ p[2] = 0
      BY <2>3
    <3>2. i \in ExtIds => ~HasId(S, i)
      BY <2>2, <3>1, <2>3, IdFacts DEF HasPair, HasId
    <3> QED
      BY <1>1, <1>2, <2>1, <2>2, <2>3, <3>1, <3>2, ObjFacts DEF HasId
  <2>4. CASE p # <<i, 0>>
    <3>1. ~(p[1] = i /\ p[2] = 0)
      BY <2>1, <2>4
    <3> QED
      BY <1>1, <1>2, <2>1, <2>2, <2>4, <3>1
  <2> QED
    BY <2>3, <2>4
<1>8. \A i \in ExtIds : P.byId[i] = P.paired[<<i, 0>>]
  BY <1>7, IdFacts
<1> QED
  BY <1>3, <1>4, <1>5, <1>6, <1>7, <1>8 DEF SpaceOK

\* putVariable(id) of a variable new to the space puts it by its pair, too.
LEMMA PutIdIsPutPair ==
  ASSUME NEW S \in SpaceType, NEW s \in Spaces, SpaceOK(S, s),
         NEW i \in Ids, NEW o \in Objs, S.handles[o] = 0, ~HasId(S, i)
  PROVE  PutId(S, i, o) = PutPair(S, <<i, 0>>, o)
<1>1. <<i, 0>> \in Pairs /\ <<i, 0>>[1] = i /\ <<i, 0>>[2] = 0
  BY PairOf
<1>2. PutPair(S, <<i, 0>>, o) =
        [paired   |-> [S.paired EXCEPT ![<<i, 0>>] = o],
         byId     |-> IF <<i, 0>>[2] = 0 /\ ~HasId(S, <<i, 0>>[1])
                      THEN [S.byId EXCEPT ![<<i, 0>>[1]] = o] ELSE S.byId,
         symbolic |-> Named(S, o),
         handles  |-> [S.handles EXCEPT ![o] = 1]]
  BY <1>1, PutPairEffect
<1> QED
  BY <1>1, <1>2, PutIdEffect

\* What a put of a new variable changes, lookup by lookup.
LEMMA PutPairFacts ==
  ASSUME NEW S \in SpaceType, NEW p \in Pairs, NEW o \in Objs, S.handles[o] = 0
  PROVE  /\ \A x \in Objs :
              PutPair(S, p, o).handles[x] = IF x = o THEN 1 ELSE S.handles[x]
         /\ \A q \in Pairs :
              PutPair(S, p, o).paired[q] = IF q = p THEN o ELSE S.paired[q]
         /\ \A i \in Ids :
              PutPair(S, p, o).byId[i] =
                IF i = p[1] /\ p[2] = 0 /\ ~HasId(S, i) THEN o ELSE S.byId[i]
         /\ \A n \in Names :
              PutPair(S, p, o).symbolic[n] = IF n = Name(o) THEN o ELSE S.symbolic[n]
<1> DEFINE P == PutPair(S, p, o)
<1>1. P = [paired   |-> [S.paired EXCEPT ![p] = o],
           byId     |-> IF p[2] = 0 /\ ~HasId(S, p[1])
                        THEN [S.byId EXCEPT ![p[1]] = o] ELSE S.byId,
           symbolic |-> Named(S, o),
           handles  |-> [S.handles EXCEPT ![o] = 1]]
  BY PutPairEffect
<1>2. /\ S.paired \in [Pairs -> Objs \cup {None}] /\ S.byId \in [Ids -> Objs \cup {None}]
      /\ S.handles \in [Objs -> Nat] /\ p[1] \in Ids
  BY PairFacts DEF SpaceType
<1> HIDE DEF P
<1>3. \A x \in Objs : P.handles[x] = IF x = o THEN 1 ELSE S.handles[x]
  BY <1>1, <1>2
<1>4. \A q \in Pairs : P.paired[q] = IF q = p THEN o ELSE S.paired[q]
  BY <1>1, <1>2
<1>5. \A i \in Ids : P.byId[i] =
                IF i = p[1] /\ p[2] = 0 /\ ~HasId(S, i) THEN o ELSE S.byId[i]
  BY <1>1, <1>2
<1>6. \A n \in Names : P.symbolic[n] = IF n = Name(o) THEN o ELSE S.symbolic[n]
  BY <1>1 DEF Named
<1> QED
  BY <1>3, <1>4, <1>5, <1>6 DEF P

\* A name belongs to one id, and is carried by its first variable only.
LEMMA NameFacts ==
  /\ \A i \in Ids : NameOf[i] # NoName => NameOf[i] \in Names
  /\ \A n \in Names : n # NoName /\ \E i \in Ids : n = NameOf[i]
  /\ \A i \in Ids, o \in Objs : NameOf[i] # NoName /\ Name(o) = NameOf[i] =>
       ~o.late /\ o.pair = <<i, 0>>
  /\ \A i \in Ids, o \in Objs : ~o.late /\ o.pair = <<i, 0>> => Name(o) = NameOf[i]
<1>1. /\ \A i \in Ids : NameOf[i] # NoName => NameOf[i] \in Names
      /\ \A n \in Names : n # NoName /\ \E i \in Ids : n = NameOf[i]
  BY DEF Names
<1>2. ASSUME NEW i \in Ids, NEW o \in Objs, NameOf[i] # NoName, Name(o) = NameOf[i]
      PROVE  ~o.late /\ o.pair = <<i, 0>>
  <2>1. ~o.late /\ o.pair[2] = 0 /\ NameOf[o.pair[1]] = NameOf[i]
    BY <1>2 DEF Name
  <2>2. o.pair[1] \in Ids /\ o.pair = <<o.pair[1], o.pair[2]>>
    BY PairFacts, ObjFacts
  <2>3. o.pair[1] = i
    BY <1>2, <2>1, <2>2, VariableSpaceAssumption
  <2> QED
    BY <2>1, <2>2, <2>3
<1>3. ASSUME NEW i \in Ids, NEW o \in Objs, ~o.late, o.pair = <<i, 0>>
      PROVE  Name(o) = NameOf[i]
  BY <1>3 DEF Name
<1> QED
  BY <1>1, <1>2, <1>3

\* A put that does not replace a variable under (id, 0) keeps the indexes equal.
LEMMA PutIndexed ==
  ASSUME NEW S \in SpaceType, NEW s \in Spaces, SpaceOK(S, s), IndexedAt(S),
         NEW p \in Pairs, NEW o \in Objs, S.handles[o] = 0, o.pair = p,
         ~HasPair(S, p) \/ p[2] # 0
  PROVE  IndexedAt(PutPair(S, p, o))
<1> DEFINE P == PutPair(S, p, o)
<1>1. /\ \A q \in Pairs : P.paired[q] = IF q = p THEN o ELSE S.paired[q]
      /\ \A i \in Ids : P.byId[i] =
           IF i = p[1] /\ p[2] = 0 /\ ~HasId(S, i) THEN o ELSE S.byId[i]
      /\ \A n \in Names : P.symbolic[n] = IF n = Name(o) THEN o ELSE S.symbolic[n]
  BY PutPairFacts
<1> HIDE DEF P
<1> SUFFICES ASSUME NEW i \in Ids
             PROVE  /\ P.byId[i] = P.paired[<<i, 0>>]
                    /\ NameOf[i] # NoName =>
                         P.symbolic[NameOf[i]] =
                           IF P.byId[i] # None /\ ~P.byId[i].late THEN P.byId[i] ELSE None
  BY DEF IndexedAt, P
<1>2. /\ <<i, 0>> \in Pairs /\ S.byId[i] = S.paired[<<i, 0>>]
      /\ NameOf[i] # NoName => S.symbolic[NameOf[i]] =
            IF S.byId[i] # None /\ ~S.byId[i].late THEN S.byId[i] ELSE None
  BY PairOf DEF IndexedAt
<1>3. NameOf[i] # NoName => P.symbolic[NameOf[i]] =
        IF NameOf[i] = Name(o) THEN o ELSE S.symbolic[NameOf[i]]
  BY <1>1, NameFacts
<1>4. CASE p = <<i, 0>>
  <2>1. p[1] = i /\ p[2] = 0 /\ S.byId[i] = None
    BY <1>2, <1>4 DEF HasPair
  <2>2. P.byId[i] = o /\ P.paired[<<i, 0>>] = o
    BY <1>1, <1>2, <1>4, <2>1 DEF HasId
  <2>3. NameOf[i] # NoName => (NameOf[i] = Name(o) <=> ~o.late)
    BY <1>4, NameFacts
  <2> QED
    BY <1>2, <1>3, <2>1, <2>2, <2>3, ObjFacts
<1>5. CASE p # <<i, 0>>
  <2>1. p = <<p[1], p[2]>>
    BY PairFacts
  <2>2. ~(p[1] = i /\ p[2] = 0)
    BY <1>5, <2>1
  <2>3. P.byId[i] = S.byId[i] /\ P.paired[<<i, 0>>] = S.paired[<<i, 0>>]
    BY <1>1, <1>2, <1>5, <2>2
  <2>4. NameOf[i] # NoName => NameOf[i] # Name(o)
    BY <1>5, NameFacts
  <2> QED
    BY <1>2, <1>3, <2>3, <2>4
<1> QED
  BY <1>4, <1>5

-----------------------------------------------------------------------------
(* The constructor of the graph *)

\* A space without variables is in order.
LEMMA EmptyOK ==
  /\ EmptySpace \in SpaceType
  /\ \A s \in Spaces : SpaceOK(EmptySpace, s)
  /\ \A o \in Objs : EmptySpace.handles[o] = 0
  /\ \A i \in Ids : EmptySpace.byId[i] = None
  /\ \A p \in Pairs : EmptySpace.paired[p] = None
<1>1. EmptySpace \in SpaceType
  BY DEF EmptySpace, SpaceType
<1>2. /\ \A o \in Objs : EmptySpace.handles[o] = 0
      /\ \A i \in Ids : EmptySpace.byId[i] = None
      /\ \A p \in Pairs : EmptySpace.paired[p] = None
      /\ \A n \in Names : EmptySpace.symbolic[n] = None
  BY DEF EmptySpace
<1>3. ASSUME NEW s \in Spaces PROVE SpaceOK(EmptySpace, s)
  BY <1>2, PairOf, IdFacts DEF SpaceOK
<1> QED
  BY <1>1, <1>2, <1>3

\* A new graph has an empty space, and no clone has been made.
LEMMA InitInv == Init => IndInv
<1> SUFFICES ASSUME Init PROVE IndInv
  OBVIOUS
<1>1. TypeInv
  <2>1. Blank \in VarType
    BY DEF VarType, Blank
  <2>2. var \in [Objs -> VarType] /\ space \in [Spaces -> SpaceType]
    BY <2>1, EmptyOK DEF Init
  <2>3. made \in [Objs -> 0..MaxArrays]
    BY ArrayFacts DEF Init
  <2> QED
    BY <2>2, <2>3 DEF Init, TypeInv
<1>2. SpacesOK
  BY EmptyOK DEF Init, SpacesOK
<1>3. Stages
  BY EmptyOK, VariableSpaceAssumption DEF Init, Stages, StageAt, Reading, Blank
<1>4. Living
  BY EmptyOK, ObjFacts DEF Init, Living, Blank
<1>5. ArrayInv
  BY ArrayFacts DEF Init, ArrayInv, OwnArrays, Readable, ReadableAt, Freeing, FreedOnce, Blank
<1> QED
  BY <1>1, <1>2, <1>3, <1>4, <1>5 DEF IndInv

-----------------------------------------------------------------------------
(* Building the graph *)

\* The record of one space, as the type invariant and SpacesOK give it.
LEMMA SpaceFacts ==
  ASSUME IndInv, NEW s \in Spaces
  PROVE  /\ space[s] \in SpaceType /\ SpaceOK(space[s], s)
         /\ space[s].paired \in [Pairs -> Objs \cup {None}]
         /\ space[s].byId \in [Ids -> Objs \cup {None}]
         /\ space[s].handles \in [Objs -> Nat]
<1>1. space[s] \in SpaceType /\ SpaceOK(space[s], s)
  BY DEF IndInv, TypeInv, SpacesOK
<1> QED
  BY <1>1 DEF SpaceType

\* What a step does to other spaces, and to arrays of other spaces, leaves what
\* a run may read alone.
LEMMA ReadableElsewhere ==
  ASSUME NEW s \in Spaces, ReadableAt(s),
         status'[s] \in {"feeding", "running"} => status[s] \in {"feeding", "running"},
         space'[s] = space[s], done'[s] = done[s],
         \A o \in Objs : o.space = s => var'[o] = var[o],
         \A o \in Objs : o.space = s /\ var[o].arr \notin freed => var[o].arr \notin freed'
  PROVE  ReadableAt(s)'
  BY DEF ReadableAt

\* The same for the stage another space is in.
LEMMA StageElsewhere ==
  ASSUME NEW s \in Spaces, StageAt(s), status'[s] = status[s],
         space'[s] = space[s], done'[s] = done[s],
         \/ \A i \in NodeIds : node'[i] # "none" => node[i] # "none"
         \/ status[s] = "none",
         \A o \in Objs : o.space = s => var'[o] = var[o]
  PROVE  StageAt(s)'
  BY DEF StageAt

\* A variable read from the file is new, and comes with an array of its own.
LEMMA ReadVariableInv ==
  ASSUME IndInv, NEW p \in Pairs, ReadVariable(p)
  PROVE  IndInv'
<1> DEFINE S == space[Own]
           o == Obj(Own, p, FALSE)
           P == PutPair(S, p, o)
<1>1. /\ Own \in Spaces /\ o \in Objs /\ o.space = Own /\ o.pair = p /\ o.late = FALSE
      /\ S \in SpaceType /\ SpaceOK(S, Own) /\ status[Own] = "reading"
  <2>1. Own \in Spaces
    BY VariableSpaceAssumption
  <2>2. o \in Objs /\ o.space = Own /\ o.pair = p /\ o.late = FALSE
    BY <2>1 DEF Obj, Objs
  <2>3. S \in SpaceType /\ SpaceOK(S, Own)
    BY <2>1, SpaceFacts
  <2> QED
    BY <2>1, <2>2, <2>3 DEF ReadVariable
<1>2. S.handles[o] = 0 /\ ~HasPair(S, p)
  BY <1>1 DEF ReadVariable, HasPair, SpaceOK
<1>3. P \in SpaceType /\ SpaceOK(P, Own)
  BY <1>1, <1>2, PutPairType, PutPairOK
<1>4. /\ \A x \in Objs : P.handles[x] = IF x = o THEN 1 ELSE S.handles[x]
      /\ \A i \in Ids : P.byId[i] =
           IF i = p[1] /\ p[2] = 0 /\ ~HasId(S, i) THEN o ELSE S.byId[i]
  <2> HIDE DEF S, o
  <2> QED
    BY <1>1, <1>2, PutPairFacts
<1>5. /\ space' = [space EXCEPT ![Own] = P]
      /\ var' = [var EXCEPT ![o] = Variable(<<o, 1>>, TRUE)]
      /\ made' = [made EXCEPT ![o] = 1]
      /\ status' = status /\ freed' = freed /\ corrupted' = corrupted /\ node' = node
      /\ inplace' = inplace /\ done' = done
      /\ \A i \in NodeIds : node[i] = "none"
  BY DEF ReadVariable
<1> HIDE DEF S, o, P
<1>6. /\ \A s \in Spaces : space'[s] = IF s = Own THEN P ELSE space[s]
      /\ \A x \in Objs : var'[x] = IF x = o THEN Variable(<<o, 1>>, TRUE) ELSE var[x]
      /\ \A x \in Objs : made'[x] = IF x = o THEN 1 ELSE made[x]
      /\ Variable(<<o, 1>>, TRUE) \in VarType /\ <<o, 1>> \in Arrays
  <2>1. <<o, 1>> \in Arrays
    BY <1>1, ArrayFacts
  <2>2. Variable(<<o, 1>>, TRUE) \in VarType
    BY <2>1 DEF Variable, VarType
  <2> QED
    BY <1>1, <1>5, <2>1, <2>2 DEF IndInv, TypeInv
<1>7. ~var[o].live /\ made[o] = 0
  BY <1>1, <1>2 DEF IndInv, Living, S
<1>8. TypeInv'
  <2>1. space' \in [Spaces -> SpaceType] /\ var' \in [Objs -> VarType]
    BY <1>3, <1>5, <1>6 DEF IndInv, TypeInv
  <2>2. made' \in [Objs -> 0..MaxArrays]
    BY <1>5, <1>6, ArrayFacts DEF IndInv, TypeInv
  <2> QED
    BY <1>5, <2>1, <2>2 DEF IndInv, TypeInv
<1>9. SpacesOK'
  BY <1>3, <1>6 DEF IndInv, SpacesOK
<1>10. Stages'
  <2>1. \A i \in Ids : S.byId[i] # None => P.byId[i] # None
    BY <1>1, <1>4, ObjFacts
  <2>2. \A x \in Objs : x.late /\ P.handles[x] # 0 => S.handles[x] # 0
    BY <1>1, <1>4
  <2>3. ASSUME NEW s \in Spaces PROVE StageAt(s)'
    <3>1. CASE s = Own
      BY <3>1, <1>1, <1>5, <1>6, <2>1, IdFacts DEF IndInv, Stages, StageAt, S
    <3>2. CASE s # Own
      <4>1. space'[s] = space[s] /\ \A x \in Objs : x.space = s => var'[x] = var[x]
        BY <3>2, <1>1, <1>6
      <4> QED
        BY <4>1, <1>5, StageElsewhere DEF IndInv, Stages
    <3> QED
      BY <3>1, <3>2
  <2>4. Reading'
    BY <1>1, <1>5, <1>6, <2>2 DEF IndInv, Stages, Reading, S
  <2> QED
    BY <1>5, <2>3, <2>4 DEF IndInv, Stages
<1>11. Living'
  BY <1>1, <1>4, <1>5, <1>6, ObjFacts DEF IndInv, Living, S, Variable
<1>12. OwnArrays'
  <2>1. <<o, 1>> \notin freed
    BY <1>7, <1>6 DEF IndInv, TypeInv, ArrayInv, OwnArrays
  <2> QED
    <3>1. ASSUME NEW x \in Objs, x # o, var'[x].arr # NoArr
          PROVE  /\ var[x].arr # NoArr /\ var'[x] = var[x] /\ made'[x] = made[x]
      BY <1>6, <3>1
    <3>2. var'[o].arr = <<o, 1>> /\ var'[o].removable /\ made'[o] = 1 /\ <<o, 1>>[1] = o
      BY <1>1, <1>6 DEF Variable
    <3>3. \A a \in freed : a[2] <= made[a[1]] /\ a[1] # o /\ a[1] \in Objs
      BY <1>7, ArrayFacts DEF IndInv, TypeInv, ArrayInv, OwnArrays
    <3> QED
      <4>1. ASSUME NEW x \in Objs, var'[x].arr # NoArr
            PROVE  /\ var'[x].arr[1].space = x.space
                   /\ var'[x].removable =>
                        var'[x].arr = <<x, made'[x]>> /\ var'[x].arr \notin freed
                   /\ ~var'[x].removable /\ x.pair[1] \notin inplace =>
                        var'[x].arr[1].pair[1] \in ExtIds /\ var'[x].arr \notin freed
        BY <3>1, <3>2, <2>1, <4>1 DEF IndInv, ArrayInv, OwnArrays
      <4>2. \A x \in Objs : x.pair[1] \in ExtIds \/ x.pair[2] # 0 => var'[x].removable
        BY <1>6, <3>2 DEF IndInv, ArrayInv, OwnArrays
      <4> QED
        BY <4>1, <4>2, <3>3, <1>6, <1>5 DEF OwnArrays
<1>13. Readable'
  <2> SUFFICES ASSUME NEW s \in Spaces PROVE ReadableAt(s)'
    BY DEF Readable
  <2>1. CASE s = Own
    BY <2>1, <1>1, <1>5 DEF ReadableAt
  <2>2. CASE s # Own
    <3>1. space'[s] = space[s] /\ \A x \in Objs : x.space = s => var'[x] = var[x]
      BY <2>2, <1>1, <1>6
    <3> QED
      BY <3>1, <1>5, ReadableElsewhere DEF IndInv, ArrayInv, Readable
  <2> QED
    BY <2>1, <2>2
<1>14. Freeing'
  BY <1>1, <1>5, <1>6 DEF IndInv, ArrayInv, Freeing, Variable
<1>15. FreedOnce'
  BY <1>5 DEF IndInv, ArrayInv, FreedOnce
<1> QED
  BY <1>8, <1>9, <1>10, <1>11, <1>12, <1>13, <1>14, <1>15 DEF IndInv, ArrayInv

\* The variables addNode makes ahead are new, belong to the node and have no name.
LEMMA DeepFacts ==
  ASSUME NEW i \in NodeIds, NEW k \in AllKinds
  PROVE  /\ \A d \in Deep(i, k) : /\ d \in Objs /\ d.space = Own /\ d.late
                                  /\ d.pair \in Pairs /\ d.pair[1] = i
                                  /\ k \in {"double", "while"}
                                  /\ k # "while" => d.pair[2] # 0
         /\ \/ Deep(i, k) = {}
            \/ \E d \in Deep(i, k) :
                 Deep(i, k) = {d} /\ \A S : PutDeep(S, i, k) = PutPair(S, d.pair, d)
<1>1. /\ Own \in Spaces /\ <<i, 0>> \in Pairs /\ <<i, 1>> \in Pairs
      /\ <<i, 0>>[1] = i /\ <<i, 1>>[1] = i /\ <<i, 1>>[2] # 0
  BY VariableSpaceAssumption, PairOf, IdFacts
<1>2. ASSUME NEW p \in Pairs
      PROVE  /\ Obj(Own, p, TRUE) \in Objs /\ Obj(Own, p, TRUE).space = Own
             /\ Obj(Own, p, TRUE).late /\ Obj(Own, p, TRUE).pair = p
  BY <1>1 DEF Obj, Objs
<1>3. ASSUME NEW d, Deep(i, k) = {d}
      PROVE  \A S : PutDeep(S, i, k) = PutPair(S, d.pair, d)
  <2>1. (CHOOSE x \in Deep(i, k) : TRUE) = d
    BY <1>3
  <2> QED
    BY <1>3, <2>1 DEF PutDeep
<1>4. CASE k = "double"
  <2>1. Deep(i, k) = {Obj(Own, <<i, 1>>, TRUE)}
    BY <1>4 DEF Deep
  <2> QED
    BY <1>1, <1>2, <1>3, <1>4, <2>1
<1>5. CASE k = "while"
  <2>1. Deep(i, k) = {Obj(Own, <<i, 0>>, TRUE)}
    BY <1>5 DEF Deep
  <2> QED
    BY <1>1, <1>2, <1>3, <1>5, <2>1
<1>6. CASE k \notin {"double", "while"}
  BY <1>6 DEF Deep
<1> QED
  BY <1>4, <1>5, <1>6

\* The puts of addNode: the node's state if its id is new, and the one ahead.
LEMMA AddNodeSpace ==
  ASSUME IndInv, NEW i \in NodeIds, NEW k \in AllKinds,
         status[Own] = "reading", node[i] = "none"
  PROVE  LET S == space[Own]
             o == Obj(Own, <<i, 0>>, FALSE)
             P == PutDeep(PutId(S, i, o), i, k)
         IN  /\ P \in SpaceType /\ SpaceOK(P, Own)
             /\ \A x \in Objs : P.handles[x] =
                  IF (x = o /\ ~HasId(S, i)) \/ x \in Deep(i, k) THEN 1 ELSE S.handles[x]
             /\ \A j \in Ids : S.byId[j] # None => P.byId[j] # None
             /\ P.byId[i] # None
             /\ ~HasId(S, i) => S.handles[o] = 0
             /\ \A d \in Deep(i, k) : S.handles[d] = 0
             /\ k # "while" /\ IndexedAt(S) => IndexedAt(P)
<1> DEFINE S == space[Own]
           o == Obj(Own, <<i, 0>>, FALSE)
           Q == PutId(S, i, o)
           P == PutDeep(Q, i, k)
<1>1. /\ Own \in Spaces /\ i \in Ids /\ <<i, 0>> \in Pairs
      /\ <<i, 0>>[1] = i /\ <<i, 0>>[2] = 0
  BY VariableSpaceAssumption, PairOf, IdFacts
<1>2. o \in Objs /\ o.space = Own /\ o.pair = <<i, 0>> /\ o.late = FALSE
  BY <1>1 DEF Obj, Objs
<1>3. S \in SpaceType /\ SpaceOK(S, Own) /\ S.handles \in [Objs -> Nat]
  BY <1>1, SpaceFacts
<1> HIDE DEF S, o
<1>4. ~HasId(S, i) => S.handles[o] = 0
  BY <1>1, <1>2, <1>3, ObjFacts DEF HasId, SpaceOK
<1>5. \A d \in Deep(i, k) : S.handles[d] = 0
  BY DeepFacts DEF IndInv, Stages, Reading, S
<1>6. /\ Q \in SpaceType /\ SpaceOK(Q, Own)
      /\ \A x \in Objs : Q.handles[x] = IF x = o /\ ~HasId(S, i) THEN 1 ELSE S.handles[x]
      /\ \A j \in Ids : S.byId[j] # None => Q.byId[j] # None
      /\ Q.byId[i] # None
      /\ IndexedAt(S) => IndexedAt(Q)
  <2>1. CASE HasId(S, i)
    <3>1. Q = S
      BY <2>1 DEF PutId
    <3> QED
      BY <2>1, <3>1, <1>3 DEF HasId
  <2>2. CASE ~HasId(S, i)
    <3>1. Q = PutPair(S, <<i, 0>>, o)
      BY <1>1, <1>2, <1>3, <1>4, <2>2, PutIdIsPutPair
    <3>2. ~HasPair(S, <<i, 0>>)
      BY <1>1, <1>3, <2>2 DEF SpaceOK, HasPair, HasId
    <3>3. Q \in SpaceType /\ SpaceOK(Q, Own)
      BY <1>1, <1>2, <1>3, <1>4, <2>2, <3>1, <3>2, PutPairType, PutPairOK
    <3>4. \A x \in Objs : Q.handles[x] = IF x = o THEN 1 ELSE S.handles[x]
      BY <1>1, <1>2, <1>3, <1>4, <2>2, <3>1, PutPairFacts
    <3>5. \A j \in Ids : Q.byId[j] = IF j = <<i, 0>>[1] /\ <<i, 0>>[2] = 0 /\ ~HasId(S, j)
                                     THEN o ELSE S.byId[j]
      BY <1>1, <1>2, <1>3, <1>4, <2>2, <3>1, PutPairFacts
    <3>6. IndexedAt(S) => IndexedAt(Q)
      BY <1>1, <1>2, <1>3, <1>4, <2>2, <3>1, <3>2, PutIndexed
    <3> QED
      BY <1>1, <1>2, <2>2, <3>3, <3>4, <3>5, <3>6, ObjFacts
  <2> QED
    BY <2>1, <2>2
<1> HIDE DEF Q
<1>7. /\ P \in SpaceType /\ SpaceOK(P, Own)
      /\ \A x \in Objs : P.handles[x] = IF x \in Deep(i, k) THEN 1 ELSE Q.handles[x]
      /\ \A j \in Ids : Q.byId[j] # None => P.byId[j] # None
      /\ k # "while" /\ IndexedAt(Q) => IndexedAt(P)
  <2>1. CASE Deep(i, k) = {}
    <3>1. P = Q
      BY <2>1 DEF PutDeep
    <3> QED
      BY <2>1, <3>1, <1>6
  <2>2. CASE Deep(i, k) # {}
    <3>1. PICK d \in Deep(i, k) : Deep(i, k) = {d} /\ P = PutPair(Q, d.pair, d)
      BY <2>2, DeepFacts
    <3>2. /\ d \in Objs /\ d.space = Own /\ d.late /\ d.pair \in Pairs /\ d.pair[1] = i
          /\ k # "while" => d.pair[2] # 0
      BY DeepFacts
    <3>3. d # o
      BY <3>2, <1>2
    <3>4. Q.handles[d] = 0
      BY <1>5, <1>6, <3>2, <3>3
    <3>5. P \in SpaceType /\ SpaceOK(P, Own)
      BY <1>1, <1>6, <3>1, <3>2, <3>4, PutPairType, PutPairOK
    <3>6. \A x \in Objs : P.handles[x] = IF x = d THEN 1 ELSE Q.handles[x]
      BY <1>6, <3>1, <3>2, <3>4, PutPairFacts
    <3>7. \A j \in Ids : P.byId[j] = IF j = d.pair[1] /\ d.pair[2] = 0 /\ ~HasId(Q, j)
                                     THEN d ELSE Q.byId[j]
      BY <1>6, <3>1, <3>2, <3>4, PutPairFacts
    <3>8. k # "while" /\ IndexedAt(Q) => IndexedAt(P)
      BY <1>1, <1>6, <3>1, <3>2, <3>4, PutIndexed
    <3> QED
      BY <3>1, <3>2, <3>5, <3>6, <3>7, <3>8, ObjFacts
  <2> QED
    BY <2>1, <2>2
<1> HIDE DEF P
<1>8. \A x \in Objs : P.handles[x] =
        IF (x = o /\ ~HasId(S, i)) \/ x \in Deep(i, k) THEN 1 ELSE S.handles[x]
  BY <1>6, <1>7
<1> QED
  BY <1>1, <1>4, <1>5, <1>6, <1>7, <1>8 DEF P, Q, S, o

\* addNode keeps the space in order; the state it makes owns no array.
LEMMA AddNodeInv ==
  ASSUME IndInv, NEW i \in NodeIds, NEW k \in Kinds[i], NEW inp \in BOOLEAN,
         NEW to \in ExtIds \cup {0}, AddNode(i, k, inp, to)
  PROVE  IndInv'
<1> DEFINE S == space[Own]
           o == Obj(Own, <<i, 0>>, FALSE)
           P == PutDeep(PutId(S, i, o), i, k)
           D == Deep(i, k)
           shared == IF to \in ExtIds /\ k # "double" THEN var[S.byId[to]].arr ELSE NoArr
<1>1. /\ Own \in Spaces /\ i \in Ids /\ k \in AllKinds /\ k # "none"
      /\ status[Own] = "reading" /\ node[i] = "none"
  BY VariableSpaceAssumption, IdFacts DEF AddNode, AllKinds
<1>2. o \in Objs /\ o.space = Own /\ o.pair[1] = i /\ o.pair[2] = 0 /\ o.late = FALSE
  BY <1>1, PairOf DEF Obj, Objs
<1>3. /\ P \in SpaceType /\ SpaceOK(P, Own)
      /\ \A x \in Objs : P.handles[x] =
           IF (x = o /\ ~HasId(S, i)) \/ x \in D THEN 1 ELSE S.handles[x]
      /\ \A j \in Ids : S.byId[j] # None => P.byId[j] # None
      /\ P.byId[i] # None
      /\ ~HasId(S, i) => S.handles[o] = 0
      /\ \A d \in D : S.handles[d] = 0
  BY <1>1, AddNodeSpace
<1>4. \A d \in D : d \in Objs /\ d.space = Own /\ d.late /\ d.pair[1] = i /\ ~inp
  BY <1>1, DeepFacts DEF AddNode
<1>5. /\ space' = [space EXCEPT ![Own] = P]
      /\ var' = [x \in Objs |->
                   IF x = o /\ ~HasId(S, i) THEN Variable(shared, FALSE)
                   ELSE IF x \in D THEN Variable(NoArr, ~inp)
                   ELSE var[x]]
      /\ node' = [node EXCEPT ![i] = k]
      /\ inplace' = IF inp THEN inplace \cup {i} ELSE inplace
      /\ made' = made /\ status' = status /\ freed' = freed /\ corrupted' = corrupted
      /\ done' = done /\ (to \in ExtIds => HasId(S, to))
  BY DEF AddNode
<1>6. shared # NoArr =>
        shared \in Arrays /\ shared[1].space = Own /\ shared[1].pair[1] \in ExtIds /\ shared \notin freed
  <2> SUFFICES ASSUME shared # NoArr, to \in ExtIds, shared = var[S.byId[to]].arr
               PROVE  shared \in Arrays /\ shared[1].space = Own
                      /\ shared[1].pair[1] \in ExtIds /\ shared \notin freed
    OBVIOUS
  <2> DEFINE b == S.byId[to]
  <2>1. b # None /\ to \in Ids
    BY <1>5, IdFacts DEF HasId
  <2>2. b \in Objs /\ b.space = Own /\ b.pair = <<to, 0>>
    BY <1>1, <2>1, SpaceFacts DEF SpaceOK
  <2>3. b.pair[1] \in ExtIds
    BY <2>2
  <2> HIDE DEF b
  <2>4. var[b].arr \in Arrays /\ var[b].arr = <<b, made[b]>> /\ var[b].arr \notin freed
    BY <2>2, <2>3 DEF IndInv, TypeInv, VarType, ArrayInv, OwnArrays, b
  <2> QED
    BY <2>2, <2>3, <2>4 DEF b
<1> HIDE DEF S, o, P, D, shared
<1>7. /\ \A s \in Spaces : space'[s] = IF s = Own THEN P ELSE space[s]
      /\ \A j \in NodeIds : node'[j] = IF j = i THEN k ELSE node[j]
  BY <1>1, <1>5 DEF IndInv, TypeInv
<1>8. /\ ~HasId(S, i) => ~var[o].live /\ made[o] = 0
      /\ \A d \in D : ~var[d].live /\ made[d] = 0
  BY <1>1, <1>2, <1>3, <1>4 DEF IndInv, Living, S
<1>9. TypeInv'
  <2>1. space' \in [Spaces -> SpaceType]
    BY <1>3, <1>5 DEF IndInv, TypeInv
  <2>2. Variable(shared, FALSE) \in VarType /\ Variable(NoArr, ~inp) \in VarType
    BY <1>6 DEF Variable, VarType
  <2>3. var' \in [Objs -> VarType]
    BY <1>5, <2>2 DEF IndInv, TypeInv
  <2>4. node' \in [NodeIds -> AllKinds \cup {"none"}] /\ inplace' \subseteq NodeIds
    BY <1>1, <1>5 DEF IndInv, TypeInv
  <2> QED
    BY <1>5, <2>1, <2>3, <2>4 DEF IndInv, TypeInv
<1>10. SpacesOK'
  BY <1>3, <1>7 DEF IndInv, SpacesOK
<1>11. Stages'
  <2>1. ASSUME NEW j \in NodeIds, node'[j] # "none"
        PROVE  P.byId[j] # None
    BY <2>1, <1>1, <1>3, <1>7, IdFacts DEF IndInv, Stages, StageAt, S
  <2>2. ASSUME NEW s \in Spaces, s # Own
        PROVE  status[s] = "none"
    BY <2>2, <1>1 DEF IndInv, Stages, Reading
  <2>3. \A x \in Objs : x.late /\ P.handles[x] # 0 =>
          x.pair[1] \in NodeIds /\ node'[x.pair[1]] # "none"
    BY <1>1, <1>2, <1>3, <1>4, <1>7 DEF IndInv, Stages, Reading, S
  <2>4. ASSUME NEW s \in Spaces PROVE StageAt(s)'
    <3>1. CASE s = Own
      <4>1. status'[Own] = "reading" /\ space'[Own] = P /\ done'[Own] = {}
        BY <1>1, <1>5, <1>7 DEF IndInv, Stages, StageAt
      <4> QED
        BY <3>1, <2>1, <4>1 DEF StageAt
    <3>2. CASE s # Own
      BY <3>2, <2>2, <1>5, <1>7 DEF IndInv, Stages, StageAt
    <3> QED
      BY <3>1, <3>2
  <2>5. Reading'
    BY <1>1, <1>5, <1>7, <2>2, <2>3 DEF Reading
  <2>6. \A j \in inplace' : node'[j] = "single"
    BY <1>5, <1>7 DEF AddNode, IndInv, Stages, TypeInv
  <2> QED
    BY <1>1, <1>5, <2>4, <2>5, <2>6 DEF Stages
<1>12. Living'
  <2> SUFFICES ASSUME NEW x \in Objs
               PROVE  /\ var'[x].live <=> space'[x.space].handles[x] # 0
                      /\ ~var'[x].live => var'[x] = Blank
                      /\ ~var'[x].live /\ status[x.space] # "deleted" => made[x] = 0
    BY <1>5 DEF Living
  <2>1. CASE (x = o /\ ~HasId(S, i)) \/ x \in D
    <3>1. var'[x].live
      BY <1>5, <2>1 DEF Variable
    <3> QED
      BY <3>1, <2>1, <1>1, <1>2, <1>3, <1>4, <1>7
  <2>2. CASE ~((x = o /\ ~HasId(S, i)) \/ x \in D)
    <3>1. var'[x] = var[x]
      BY <1>5, <2>2
    <3>2. space'[x.space].handles[x] = space[x.space].handles[x]
      BY <2>2, <1>3, <1>7, ObjFacts DEF S
    <3> QED
      BY <3>1, <3>2 DEF IndInv, Living
  <2> QED
    BY <2>1, <2>2
<1>13. OwnArrays'
  <2>1. i \notin ExtIds
    BY IdFacts
  <2>2. ASSUME NEW x \in Objs
        PROVE  /\ x.pair[1] \in ExtIds \/ x.pair[2] # 0 => var'[x].removable
               /\ var'[x].arr # NoArr =>
                  /\ var'[x].arr[1].space = x.space
                  /\ var'[x].removable =>
                       var'[x].arr = <<x, made[x]>> /\ var'[x].arr \notin freed
                  /\ ~var'[x].removable /\ x.pair[1] \notin inplace' =>
                       var'[x].arr[1].pair[1] \in ExtIds /\ var'[x].arr \notin freed
    <3>1. CASE x = o /\ ~HasId(S, i)
      <4>1. var'[x].arr = shared /\ var'[x].removable = FALSE
        BY <1>5, <3>1 DEF Variable
      <4> QED
        BY <1>2, <1>6, <2>1, <3>1, <4>1
    <3>2. CASE ~(x = o /\ ~HasId(S, i)) /\ x \in D
      <4>1. var'[x].arr = NoArr /\ var'[x].removable
        BY <1>4, <1>5, <3>2 DEF Variable
      <4> QED
        BY <1>4, <2>1, <3>2, <4>1
    <3>3. CASE ~(x = o /\ ~HasId(S, i)) /\ x \notin D
      <4>1. var'[x] = var[x] /\ (x.pair[1] \notin inplace' => x.pair[1] \notin inplace)
        BY <1>5, <3>3
      <4> QED
        BY <4>1 DEF IndInv, ArrayInv, OwnArrays
    <3> QED
      BY <3>1, <3>2, <3>3
  <2> QED
    BY <1>5, <2>2 DEF IndInv, ArrayInv, OwnArrays
<1>14. Readable'
  BY <1>1, <1>5 DEF IndInv, Stages, Reading, Readable, ReadableAt
<1>15. Freeing'
  <2> SUFFICES ASSUME NEW x \in Objs, x.pair[1] \notin inplace', NEW m \in 1..made[x]
               PROVE  <<x, m>> \in freed \/ (var'[x].removable /\ var'[x].arr = <<x, m>>)
    BY <1>5 DEF Freeing
  <2>1. made[x] # 0
    OBVIOUS
  <2>2. var'[x] = var[x] /\ x.pair[1] \notin inplace
    BY <2>1, <1>5, <1>8
  <2> QED
    BY <2>2 DEF IndInv, ArrayInv, Freeing
<1>16. FreedOnce'
  BY <1>5 DEF IndInv, ArrayInv, FreedOnce
<1> QED
  BY <1>9, <1>10, <1>11, <1>12, <1>13, <1>14, <1>15, <1>16 DEF IndInv, ArrayInv

\* An external variable, and any variable of a space being fed, has an array of
\* its own that has not been deleted.
LEMMA OwnReadable ==
  ASSUME IndInv, NEW o \in Objs, var[o].arr # NoArr, o.pair[1] \in ExtIds \/ var[o].removable
  PROVE  var[o].arr \notin freed /\ var[o].arr[1] = o
<1>1. var[o].arr = <<o, made[o]>> /\ var[o].arr \notin freed
  BY DEF IndInv, ArrayInv, OwnArrays
<1> QED
  BY <1>1

\* Registering the graph only makes it runnable.
LEMMA BuiltInv == IndInv /\ Built => IndInv'
<1> SUFFICES ASSUME IndInv, Built PROVE IndInv'
  OBVIOUS
<1>1. /\ Own \in Spaces /\ status[Own] = "reading"
      /\ status' = [status EXCEPT ![Own] = "running"]
      /\ space' = space /\ var' = var /\ made' = made /\ freed' = freed
      /\ corrupted' = corrupted /\ node' = node /\ inplace' = inplace /\ done' = done
  BY VariableSpaceAssumption DEF Built, heap
<1>2. \A s \in Spaces : status'[s] = IF s = Own THEN "running" ELSE status[s]
  BY <1>1 DEF IndInv, TypeInv
<1>3. TypeInv' /\ SpacesOK'
  BY <1>1 DEF IndInv, TypeInv, SpacesOK
<1>4. Stages'
  <2>1. ASSUME NEW s \in Spaces PROVE StageAt(s)'
    <3>1. CASE s = Own
      BY <3>1, <1>1, <1>2 DEF IndInv, Stages, StageAt
    <3>2. CASE s # Own
      BY <3>2, <1>1, <1>2, StageElsewhere DEF IndInv, Stages
    <3> QED
      BY <3>1, <3>2
  <2> QED
    BY <1>1, <1>2, <2>1 DEF IndInv, Stages, Reading
<1>5. Living'
  BY <1>1, <1>2, ObjFacts DEF IndInv, Living
<1>6. OwnArrays' /\ Freeing' /\ FreedOnce'
  BY <1>1 DEF IndInv, ArrayInv, OwnArrays, Freeing, FreedOnce
<1>7. Readable'
  <2> SUFFICES ASSUME NEW s \in Spaces PROVE ReadableAt(s)'
    BY DEF Readable
  <2>1. CASE s = Own
    <3>1. done'[s] = {}
      BY <2>1, <1>1 DEF IndInv, Stages, StageAt
    <3> QED
      BY <3>1, <1>1, OwnReadable DEF ReadableAt
  <2>2. CASE s # Own
    BY <2>2, <1>1, <1>2, ReadableElsewhere DEF IndInv, ArrayInv, Readable
  <2> QED
    BY <2>1, <2>2
<1> QED
  BY <1>3, <1>4, <1>5, <1>6, <1>7 DEF IndInv, ArrayInv

-----------------------------------------------------------------------------
(* Runs and destruction *)

\* The next run may read what the callers put, and nothing else yet.
LEMMA NextRunInv ==
  ASSUME IndInv, NEW s \in Spaces, NextRun(s)
  PROVE  IndInv'
<1>1. /\ status[s] = "running" /\ done' = [done EXCEPT ![s] = {}]
      /\ status' = status /\ space' = space /\ var' = var /\ made' = made /\ freed' = freed
      /\ corrupted' = corrupted /\ node' = node /\ inplace' = inplace
  BY DEF NextRun, heap
<1>2. \A t \in Spaces : done'[t] = IF t = s THEN {} ELSE done[t]
  BY <1>1 DEF IndInv, TypeInv
<1>3. TypeInv' /\ SpacesOK' /\ Living'
  BY <1>1 DEF IndInv, TypeInv, SpacesOK, Living
<1>4. Stages'
  <2>1. ASSUME NEW t \in Spaces PROVE StageAt(t)'
    <3>1. CASE t = s
      BY <3>1, <1>1, <1>2 DEF IndInv, Stages, StageAt
    <3>2. CASE t # s
      BY <3>2, <1>1, <1>2, StageElsewhere DEF IndInv, Stages
    <3> QED
      BY <3>1, <3>2
  <2> QED
    BY <1>1, <2>1 DEF IndInv, Stages, Reading
<1>5. OwnArrays' /\ Freeing' /\ FreedOnce'
  BY <1>1 DEF IndInv, ArrayInv, OwnArrays, Freeing, FreedOnce
<1>6. Readable'
  <2> SUFFICES ASSUME NEW t \in Spaces PROVE ReadableAt(t)'
    BY DEF Readable
  <2>1. CASE t = s
    BY <2>1, <1>1, <1>2, OwnReadable DEF ReadableAt
  <2>2. CASE t # s
    BY <2>2, <1>1, <1>2, ReadableElsewhere DEF IndInv, ArrayInv, Readable
  <2> QED
    BY <2>1, <2>2
<1> QED
  BY <1>3, <1>4, <1>5, <1>6 DEF IndInv, ArrayInv

\* The destructor deletes the variables of its space and of no other, and the
\* arrays they own, each once.
LEMMA DestroyInv ==
  ASSUME IndInv, NEW s \in Spaces, Destroy(s)
  PROVE  IndInv'
<1> DEFINE Freed == {var[o].arr : o \in Owner(s)}
<1>1. /\ status[s] \in {"feeding", "running"}
      /\ status' = [status EXCEPT ![s] = "deleted"]
      /\ var' = [o \in Objs |-> IF o \in Held(s) THEN Blank ELSE var[o]]
      /\ freed' = freed \cup Freed
      /\ space' = [space EXCEPT ![s] = EmptySpace]
      /\ done' = [done EXCEPT ![s] = {}]
      /\ made' = made /\ node' = node /\ inplace' = inplace
  BY DEF Destroy
<1>2. \A o \in Objs : o \in Held(s) <=> o.space = s /\ var[o].live
  <2>1. \A o \in Objs : o \in Held(s) <=> space[s].handles[o] # 0
    BY SpaceFacts DEF Held
  <2>2. \A o \in Objs : space[s].handles[o] # 0 => o.space = s
    BY SpaceFacts DEF SpaceOK
  <2> QED
    BY <2>1, <2>2 DEF IndInv, Living
<1>3. \A o \in Objs : var'[o] = IF o.space = s THEN Blank ELSE var[o]
  BY <1>1, <1>2 DEF IndInv, Living
<1>4. \A o \in Owner(s) : /\ o \in Objs /\ o.space = s /\ var[o].arr \in Arrays
                          /\ var[o].arr = <<o, made[o]>> /\ var[o].arr \notin freed
  BY <1>2 DEF Owner, Held, IndInv, TypeInv, VarType, ArrayInv, OwnArrays
<1>5. \A a \in Freed : a \in Arrays /\ a[1].space = s /\ a[2] = made[a[1]]
  BY <1>4
<1>6. /\ \A t \in Spaces : status'[t] = IF t = s THEN "deleted" ELSE status[t]
      /\ \A t \in Spaces : space'[t] = IF t = s THEN EmptySpace ELSE space[t]
      /\ \A t \in Spaces : done'[t] = IF t = s THEN {} ELSE done[t]
  BY <1>1 DEF IndInv, TypeInv
<1>7. FreedOnce'
  <2>1. \A o \in Held(s) : ~(space[s].handles[o] > 1)
    BY SpaceFacts DEF SpaceOK, Held
  <2>2. \A o, x \in Owner(s) : o # x => var[o].arr # var[x].arr
    BY <1>4
  <2>3. ~corrupted
    BY DEF IndInv, ArrayInv, FreedOnce
  <2> QED
    BY <1>4, <2>1, <2>2, <2>3 DEF Destroy, FreedOnce
<1>8. TypeInv'
  <2>1. var' \in [Objs -> VarType]
    <3>1. Blank \in VarType
      BY DEF Blank, VarType
    <3> QED
      BY <1>1, <3>1 DEF IndInv, TypeInv
  <2>2. space' \in [Spaces -> SpaceType]
    BY <1>1, EmptyOK DEF IndInv, TypeInv
  <2>3. freed' \subseteq Arrays
    BY <1>1, <1>5 DEF IndInv, TypeInv
  <2>4. corrupted' \in BOOLEAN
    BY DEF Destroy
  <2> HIDE DEF Freed
  <2> QED
    BY <1>1, <2>1, <2>2, <2>3, <2>4 DEF IndInv, TypeInv
<1> HIDE DEF Freed
<1>9. SpacesOK'
  BY <1>6, EmptyOK DEF IndInv, SpacesOK
<1>10. Stages'
  <2>1. ASSUME NEW t \in Spaces PROVE StageAt(t)'
    <3>1. CASE t = s
      BY <3>1, <1>6 DEF StageAt
    <3>2. CASE t # s
      BY <3>2, <1>1, <1>3, <1>6, StageElsewhere DEF IndInv, Stages
    <3> QED
      BY <3>1, <3>2
  <2>2. status[Own] # "reading"
    BY <1>1 DEF IndInv, Stages, Reading
  <2>3. status'[Own] \in {"running", "deleted"}
    BY <1>6, <2>2, VariableSpaceAssumption DEF IndInv, Stages
  <2> QED
    BY <1>1, <2>1, <2>3 DEF IndInv, Stages, Reading
<1>11. Living'
  <2> SUFFICES ASSUME NEW o \in Objs
               PROVE  /\ var'[o].live <=> space'[o.space].handles[o] # 0
                      /\ ~var'[o].live => var'[o] = Blank
                      /\ ~var'[o].live /\ status'[o.space] # "deleted" => made[o] = 0
    BY <1>1 DEF Living
  <2>1. CASE o.space = s
    <3>1. var'[o] = Blank /\ Blank.live = FALSE
      BY <2>1, <1>3 DEF Blank
    <3>2. space'[o.space].handles[o] = 0 /\ status'[o.space] = "deleted"
      BY <2>1, <1>6, EmptyOK
    <3> QED
      BY <3>1, <3>2
  <2>2. CASE o.space # s
    BY <2>2, <1>3, <1>6, ObjFacts DEF IndInv, Living
  <2> QED
    BY <2>1, <2>2
<1>12. OwnArrays'
  <2>1. \A o \in Objs : var'[o].arr # NoArr => o.space # s /\ var'[o] = var[o]
    BY <1>3 DEF Blank
  <2>2. \A o \in Objs : o.space # s /\ var[o].arr # NoArr => var[o].arr \notin Freed
    BY <1>5 DEF IndInv, ArrayInv, OwnArrays
  <2>3. \A o \in Objs : o.pair[1] \in ExtIds \/ o.pair[2] # 0 => var'[o].removable
    BY <1>3 DEF Blank, IndInv, ArrayInv, OwnArrays
  <2>4. \A a \in freed' : a[2] <= made[a[1]]
    <3>1. \A o \in Objs : made[o] \in Int
      BY DEF IndInv, TypeInv
    <3> QED
      BY <3>1, <1>1, <1>5, ArrayFacts DEF IndInv, ArrayInv, OwnArrays
  <2> QED
    BY <1>1, <2>1, <2>2, <2>3, <2>4 DEF IndInv, ArrayInv, OwnArrays
<1>13. Readable'
  <2> SUFFICES ASSUME NEW t \in Spaces PROVE ReadableAt(t)'
    BY DEF Readable
  <2>1. CASE t = s
    BY <2>1, <1>6 DEF ReadableAt
  <2>2. CASE t # s
    <3>1. \A o \in Objs : o.space = t /\ var[o].arr \notin freed => var[o].arr \notin freed'
      <4>1. \A o \in Objs : o.space = t /\ var[o].arr # NoArr => var[o].arr[1].space # s
        BY <2>2 DEF IndInv, ArrayInv, OwnArrays
      <4>2. \A o \in Objs : o.space = t => var[o].arr \notin Freed
        BY <4>1, <1>5, ObjFacts
      <4> QED
        BY <4>2, <1>1
    <3> QED
      BY <2>2, <3>1, <1>1, <1>3, <1>6, ReadableElsewhere DEF IndInv, ArrayInv, Readable
  <2> QED
    BY <2>1, <2>2
<1>14. Freeing'
  <2> SUFFICES ASSUME NEW o \in Objs, o.pair[1] \notin inplace, NEW k \in 1..made[o]
               PROVE  <<o, k>> \in freed' \/ (var'[o].removable /\ var'[o].arr = <<o, k>>)
    BY <1>1 DEF Freeing
  <2>1. <<o, k>> \in freed \/ (var[o].removable /\ var[o].arr = <<o, k>>)
    BY DEF IndInv, ArrayInv, Freeing
  <2>2. <<o, k>> # NoArr
    BY ArrayFacts, ObjFacts DEF IndInv, TypeInv
  <2>3. CASE o.space = s /\ <<o, k>> \notin freed
    <3>1. var[o].live
      BY <2>1, <2>2, <2>3 DEF IndInv, Living, Blank
    <3>2. o \in Owner(s)
      BY <3>1, <2>1, <2>2, <2>3, <1>2 DEF Owner
    <3> QED
      BY <3>2, <2>1, <2>3, <1>1 DEF Freed
  <2>4. CASE o.space # s \/ <<o, k>> \in freed
    BY <2>1, <2>4, <1>1, <1>3
  <2> QED
    BY <2>3, <2>4
<1> QED
  BY <1>7, <1>8, <1>9, <1>10, <1>11, <1>12, <1>13, <1>14 DEF IndInv, ArrayInv

-----------------------------------------------------------------------------
(* Executing a stored graph: clone and feed *)

\* The copy of a variable in another space.
LEMMA TwinFacts ==
  ASSUME NEW c \in Spaces, NEW o \in Objs
  PROVE  /\ Twin(c, o) \in Objs /\ Twin(c, o).space = c
         /\ Twin(c, o).pair = o.pair /\ Twin(c, o).late = o.late
<1>1. o # None
  BY ObjFacts
<1> QED
  BY <1>1 DEF Twin, Objs

\* clone leaves a space in order that handles the copies of what the original
\* has under a pair.
LEMMA CloneSpace ==
  ASSUME IndInv, NEW c \in Spaces
  PROVE  /\ CloneOf(c) \in SpaceType /\ SpaceOK(CloneOf(c), c)
         /\ \A o \in Objs : CloneOf(c).handles[o] # 0 <=> o \in Cloned(c)
         /\ \A i \in Ids : space[Own].byId[i] # None => CloneOf(c).byId[i] # None
<1> DEFINE S == space[Own]
           P == [p \in Pairs |-> Twin(c, S.paired[p])]
           Sym == [n \in Names |->
                     LET N == {p \in Pairs : P[p] # None /\ Name(P[p]) = n}
                     IN  IF N = {} THEN None ELSE P[CHOOSE p \in N : TRUE]]
           H == [o \in Objs |-> IF o.space = c /\ P[o.pair] = o THEN 1 ELSE 0]
           Q == [paired |-> P, byId |-> [i \in Ids |-> P[<<i, 0>>]],
                 symbolic |-> Sym, handles |-> H]
<1>1. CloneOf(c) = Q
  BY DEF CloneOf
<1>2. Own \in Spaces /\ S \in SpaceType /\ SpaceOK(S, Own) /\ S.paired \in [Pairs -> Objs \cup {None}]
  BY VariableSpaceAssumption, SpaceFacts
<1>3. ASSUME NEW p \in Pairs
      PROVE  /\ P[p] = Twin(c, S.paired[p])
             /\ P[p] = None <=> S.paired[p] = None
             /\ P[p] # None => P[p] \in Objs /\ P[p].space = c /\ P[p].pair = p /\ S.paired[p] \in Objs
  <2>1. CASE S.paired[p] = None
    BY <2>1 DEF Twin
  <2>2. CASE S.paired[p] # None
    <3>1. S.paired[p] \in Objs /\ S.paired[p].pair = p
      BY <1>2, <2>2 DEF SpaceOK
    <3> QED
      BY <3>1, <2>2, TwinFacts, ObjFacts
  <2> QED
    BY <2>1, <2>2
<1>4. P \in [Pairs -> Objs \cup {None}]
  BY <1>3
<1> HIDE DEF S, P
<1>5. ASSUME NEW n \in Names
      PROVE  Sym[n] # None => \E p \in Pairs : Sym[n] = P[p]
  OBVIOUS
<1>6. Sym \in [Names -> Objs \cup {None}]
  <2>1. \A n \in Names : Sym[n] \in Objs \cup {None}
    BY <1>4, <1>5
  <2> QED
    BY <2>1
<1>7. \A o \in Objs : H[o] = IF o.space = c /\ P[o.pair] = o THEN 1 ELSE 0
  OBVIOUS
<1>8. H \in [Objs -> Nat]
  OBVIOUS
<1> HIDE DEF Sym, H
<1>9. Q \in SpaceType
  BY <1>4, <1>6, <1>8, PairOf DEF SpaceType
<1>10. \A i \in Ids : Q.byId[i] = P[<<i, 0>>] /\ <<i, 0>> \in Pairs
  BY PairOf
<1>11. Q.paired = P /\ Q.symbolic = Sym /\ Q.handles = H
  OBVIOUS
<1> HIDE DEF Q
<1>12. SpaceOK(Q, c)
  <2>1. \A p \in Pairs : P[p] # None => P[p].space = c /\ P[p].pair = p /\ H[P[p]] = 1
    BY <1>3, <1>7
  <2>2. \A o \in Objs : H[o] # 0 =>
          /\ H[o] = 1 /\ o.space = c /\ P[o.pair] = o
          /\ o.pair[2] = 0 => Q.byId[o.pair[1]] = o
    <3>1. \A o \in Objs : o.pair[2] = 0 => o.pair = <<o.pair[1], 0>> /\ o.pair[1] \in Ids
      BY PairFacts, ObjFacts
    <3> QED
      BY <3>1, <1>7, <1>10
  <2>3. \A n \in Names : Sym[n] # None => Sym[n].space = c /\ H[Sym[n]] = 1
    BY <1>5, <2>1
  <2> QED
    <3>1. \A p \in Pairs : Q.paired[p] # None =>
            /\ Q.paired[p].space = c /\ Q.paired[p].pair = p
            /\ Q.handles[Q.paired[p]] = 1
      BY <2>1, <1>11
    <3>2. \A i \in Ids : /\ Q.byId[i] = Q.paired[<<i, 0>>]
                         /\ Q.byId[i] # None =>
                              /\ Q.byId[i].space = c /\ Q.byId[i].pair = <<i, 0>>
                              /\ Q.handles[Q.byId[i]] = 1
      <4> TAKE i \in Ids
      <4>1. <<i, 0>> \in Pairs /\ Q.byId[i] = P[<<i, 0>>]
        BY <1>10
      <4> QED
        BY <4>1, <2>1, <1>11
    <3>3. \A n \in Names : Q.symbolic[n] # None =>
            Q.symbolic[n].space = c /\ Q.handles[Q.symbolic[n]] = 1
      BY <2>3, <1>11
    <3>4. \A o \in Objs : Q.handles[o] # 0 =>
            /\ Q.handles[o] = 1 /\ o.space = c /\ Q.paired[o.pair] # None
            /\ o.late => Q.paired[o.pair] = o
            /\ ~o.late /\ o.pair[2] = 0 => Q.byId[o.pair[1]] = o
      BY <2>2, <1>11, ObjFacts
    <3>5. \A i \in ExtIds : Q.byId[i] = Q.paired[<<i, 0>>]
      BY <3>2, IdFacts
    <3> QED
      BY <3>1, <3>2, <3>3, <3>4, <3>5 DEF SpaceOK
<1>13. ASSUME NEW o \in Objs PROVE H[o] # 0 <=> o \in Cloned(c)
  <2>1. o.pair \in Pairs
    BY ObjFacts
  <2>2. ASSUME o.space = c, P[o.pair] = o PROVE S.paired[o.pair] = Twin(Own, o)
    <3> DEFINE x == S.paired[o.pair]
    <3>1. x \in Objs /\ x.space = Own /\ Twin(c, x) = o
      BY <1>2, <1>3, <2>1, <2>2, ObjFacts DEF SpaceOK
    <3> HIDE DEF x
    <3>2. x = Twin(Own, o)
      BY <3>1, <1>2, TwinFacts, ObjFacts
    <3> QED
      BY <3>2 DEF x
  <2>3. ASSUME o.space = c, S.paired[o.pair] = Twin(Own, o) PROVE P[o.pair] = o
    <3>1. P[o.pair] = Twin(c, Twin(Own, o)) /\ Twin(Own, o) \in Objs
      BY <1>2, <1>3, <2>1, <2>3, TwinFacts
    <3> QED
      BY <3>1, <1>2, <2>3, TwinFacts, ObjFacts
  <2> QED
    BY <1>7, <2>2, <2>3 DEF Cloned, S
<1>14. \A i \in Ids : S.byId[i] # None => Q.byId[i] # None
  <2> SUFFICES ASSUME NEW i \in Ids, S.byId[i] # None PROVE Q.byId[i] # None
    OBVIOUS
  <2>1. S.paired[<<i, 0>>] # None
    BY <1>2 DEF SpaceOK
  <2> QED
    BY <2>1, <1>3, <1>10
<1> QED
  BY <1>1, <1>9, <1>11, <1>12, <1>13, <1>14 DEF S

\* A clone has variables of its own, with arrays of their own.
LEMMA CloneInv ==
  ASSUME IndInv, NEW c \in Spaces, Clone(c)
  PROVE  IndInv'
<1>1. /\ status[Own] = "running" /\ status[c] = "none" /\ Own \in Spaces /\ c # Own
      /\ status' = [status EXCEPT ![c] = "feeding"]
      /\ space' = [space EXCEPT ![c] = CloneOf(c)]
      /\ var' = [o \in Objs |-> IF o \in Cloned(c) THEN Dup(o) ELSE var[o]]
      /\ made' = [o \in Objs |-> IF o \in Cloned(c) /\ Dup(o).arr # NoArr THEN 1 ELSE made[o]]
      /\ freed' = freed /\ corrupted' = corrupted /\ node' = node
      /\ inplace' = inplace /\ done' = done
  BY VariableSpaceAssumption DEF Clone
<1>2. /\ CloneOf(c) \in SpaceType /\ SpaceOK(CloneOf(c), c)
      /\ \A o \in Objs : CloneOf(c).handles[o] # 0 <=> o \in Cloned(c)
      /\ \A i \in Ids : space[Own].byId[i] # None => CloneOf(c).byId[i] # None
  BY CloneSpace
<1>3. /\ \A t \in Spaces : status'[t] = IF t = c THEN "feeding" ELSE status[t]
      /\ \A t \in Spaces : space'[t] = IF t = c THEN CloneOf(c) ELSE space[t]
  BY <1>1 DEF IndInv, TypeInv
<1>4. \A o \in Objs : o.space = c =>
        var[o] = Blank /\ made[o] = 0 /\ \A k \in 1..MaxArrays : <<o, k>> \notin freed
  <2>1. space[c] = EmptySpace
    BY <1>1 DEF IndInv, Stages, StageAt
  <2>2. \A o \in Objs : o.space = c => var[o] = Blank /\ made[o] = 0
    BY <1>1, <2>1, EmptyOK DEF IndInv, Living
  <2> QED
    BY <2>2, ArrayFacts DEF IndInv, ArrayInv, OwnArrays
<1>5. ASSUME NEW o \in Objs, o \in Cloned(c)
      PROVE  /\ o.space = c /\ var'[o] \in VarType /\ var'[o].live /\ var'[o].removable
             /\ var'[o].arr # NoArr => var'[o].arr = <<o, 1>> /\ made'[o] = 1
             /\ made'[o] \in {0, 1}
             /\ var'[o].arr = NoArr => made'[o] = 0
  <2>1. o.space = c /\ var'[o] = Dup(o) /\ <<o, 1>> \in Arrays
    BY <1>1, <1>5, ArrayFacts DEF Cloned
  <2>2. Dup(o) \in VarType /\ Dup(o).live /\ Dup(o).removable /\ Dup(o).arr \in {NoArr, <<o, 1>>}
    BY <2>1 DEF Dup, VarType
  <2>3. made'[o] = IF Dup(o).arr # NoArr THEN 1 ELSE 0
    BY <1>1, <1>4, <1>5, <2>1
  <2> QED
    BY <2>1, <2>2, <2>3
<1>6. \A o \in Objs : o \notin Cloned(c) => var'[o] = var[o] /\ made'[o] = made[o]
  BY <1>1
<1>7. TypeInv'
  <2>1. space' \in [Spaces -> SpaceType]
    BY <1>1, <1>2 DEF IndInv, TypeInv
  <2>2. var' \in [Objs -> VarType]
    <3>1. \A o \in Objs : var'[o] \in VarType
      BY <1>5, <1>6 DEF IndInv, TypeInv
    <3> QED
      BY <1>1, <3>1
  <2>3. made' \in [Objs -> 0..MaxArrays]
    BY <1>1, ArrayFacts DEF IndInv, TypeInv
  <2> QED
    BY <1>1, <2>1, <2>2, <2>3 DEF IndInv, TypeInv
<1>8. SpacesOK'
  BY <1>2, <1>3 DEF IndInv, SpacesOK
<1>9. Stages'
  <2>1. ASSUME NEW t \in Spaces PROVE StageAt(t)'
    <3>1. CASE t = c
      <4>1. \A o \in Objs : o.space = c => var'[o].removable
        BY <1>4, <1>5, <1>6 DEF Blank
      <4>2. \A i \in NodeIds : node'[i] # "none" => space'[c].byId[i] # None
        BY <1>1, <1>2, <1>3, IdFacts DEF IndInv, Stages, StageAt
      <4>3. status'[c] = "feeding" /\ done'[c] = {}
        BY <1>1, <1>3 DEF IndInv, Stages, StageAt
      <4> QED
        BY <3>1, <4>1, <4>2, <4>3 DEF StageAt
    <3>2. CASE t # c
      <4>1. \A o \in Objs : o.space = t => var'[o] = var[o]
        BY <3>2, <1>5, <1>6
      <4> QED
        BY <3>2, <4>1, <1>1, <1>3, StageElsewhere DEF IndInv, Stages
    <3> QED
      BY <3>1, <3>2
  <2> QED
    BY <1>1, <1>3, <2>1 DEF IndInv, Stages, Reading
<1>10. Living'
  <2> SUFFICES ASSUME NEW o \in Objs
               PROVE  /\ var'[o].live <=> space'[o.space].handles[o] # 0
                      /\ ~var'[o].live => var'[o] = Blank
                      /\ ~var'[o].live /\ status'[o.space] # "deleted" => made'[o] = 0
    BY DEF Living
  <2>1. CASE o \in Cloned(c)
    BY <2>1, <1>2, <1>3, <1>5
  <2>2. CASE o \notin Cloned(c) /\ o.space = c
    <3>1. var'[o] = Blank /\ made'[o] = 0 /\ Blank.live = FALSE
      BY <2>2, <1>4, <1>6 DEF Blank
    <3>2. space'[o.space].handles[o] = 0
      BY <2>2, <1>2, <1>3
    <3> QED
      BY <3>1, <3>2
  <2>3. CASE o.space # c
    BY <2>3, <1>3, <1>5, <1>6, ObjFacts DEF IndInv, Living
  <2> QED
    BY <2>1, <2>2, <2>3
<1>11. OwnArrays'
  <2>1. ASSUME NEW o \in Objs, o \in Cloned(c), var'[o].arr # NoArr
        PROVE  /\ var'[o].arr = <<o, made'[o]>> /\ var'[o].arr \notin freed
               /\ var'[o].arr[1].space = o.space
    <3>1. var'[o].arr = <<o, 1>> /\ made'[o] = 1 /\ o.space = c
      BY <1>5, <2>1
    <3> QED
      BY <3>1, <1>4, ArrayFacts
  <2>2. \A a \in freed : a[1] \in Objs /\ a[1].space # c /\ a[2] <= made'[a[1]]
    <3>1. \A a \in freed : a[1] \in Objs /\ a[1].space # c /\ a[2] <= made[a[1]]
      BY <1>4, ArrayFacts DEF IndInv, TypeInv, ArrayInv, OwnArrays
    <3> QED
      BY <3>1, <1>5, <1>6
  <2>3. \A o \in Objs : o.pair[1] \in ExtIds \/ o.pair[2] # 0 => var'[o].removable
    BY <1>5, <1>6 DEF IndInv, ArrayInv, OwnArrays
  <2>4. ASSUME NEW o \in Objs, o \notin Cloned(c)
        PROVE  var'[o] = var[o] /\ made'[o] = made[o]
    BY <2>4, <1>6
  <2> QED
    BY <1>1, <1>5, <2>1, <2>2, <2>3, <2>4 DEF IndInv, ArrayInv, OwnArrays
<1>12. Readable'
  <2> SUFFICES ASSUME NEW t \in Spaces PROVE ReadableAt(t)'
    BY DEF Readable
  <2>1. CASE t = c
    <3>1. \A o \in Objs : o.space = c /\ var'[o].arr # NoArr =>
            var'[o].arr = <<o, 1>> /\ var'[o].arr \notin freed
      <4>1. \A o \in Objs : o.space = c /\ var'[o].arr # NoArr => o \in Cloned(c)
        BY <1>4, <1>6 DEF Blank
      <4>2. \A o \in Objs : o.space = c => <<o, 1>> \notin freed
        BY <1>4, ArrayFacts
      <4> QED
        BY <4>1, <4>2, <1>5
    <3> QED
      BY <2>1, <3>1, <1>1 DEF ReadableAt
  <2>2. CASE t # c
    <3>1. \A o \in Objs : o.space = t => var'[o] = var[o]
      BY <2>2, <1>5, <1>6
    <3> QED
      BY <2>2, <3>1, <1>1, <1>3, ReadableElsewhere DEF IndInv, ArrayInv, Readable
  <2> QED
    BY <2>1, <2>2
<1>13. Freeing'
  <2> SUFFICES ASSUME NEW o \in Objs, o.pair[1] \notin inplace, NEW k \in 1..made'[o]
               PROVE  <<o, k>> \in freed \/ (var'[o].removable /\ var'[o].arr = <<o, k>>)
    BY <1>1 DEF Freeing
  <2>1. CASE o \in Cloned(c)
    <3>1. made'[o] = 1 /\ k = 1 /\ var'[o].arr = <<o, 1>> /\ var'[o].removable
      BY <2>1, <1>5
    <3> QED
      BY <3>1
  <2>2. CASE o \notin Cloned(c)
    BY <2>2, <1>6 DEF IndInv, ArrayInv, Freeing
  <2> QED
    BY <2>1, <2>2
<1>14. FreedOnce'
  BY <1>1 DEF IndInv, ArrayInv, FreedOnce
<1> QED
  BY <1>7, <1>8, <1>9, <1>10, <1>11, <1>12, <1>13, <1>14 DEF IndInv, ArrayInv

\* A fed input replaces the array of a variable that owns it, or makes a new
\* variable: nothing else can hold the array that is deleted.
LEMMA FeedInv ==
  ASSUME IndInv, NEW c \in Spaces, NEW i \in Ids, Feed(c, i)
  PROVE  IndInv'
<1> DEFINE S == space[c]
           o == IF HasId(S, i) THEN S.byId[i] ELSE Obj(c, <<i, 0>>, TRUE)
           P == PutId(S, i, o)
           old == IF HasId(S, i) /\ var[o].arr # NoArr THEN {var[o].arr} ELSE {}
<1>1. /\ status[c] = "feeding" /\ made[o] < MaxArrays
      /\ space' = [space EXCEPT ![c] = P]
      /\ var' = [var EXCEPT ![o] = [live |-> TRUE, arr |-> <<o, made[o] + 1>>,
                                    removable |-> @.removable]]
      /\ made' = [made EXCEPT ![o] = @ + 1]
      /\ freed' = freed \cup old
      /\ corrupted' = (corrupted \/ old \cap freed # {})
      /\ status' = status /\ node' = node /\ inplace' = inplace /\ done' = done
  BY DEF Feed
<1>2. S \in SpaceType /\ SpaceOK(S, c) /\ S.handles \in [Objs -> Nat]
  BY SpaceFacts
<1>3. <<i, 0>> \in Pairs
  BY PairOf
<1>4. /\ o \in Objs /\ o.space = c /\ o.pair = <<i, 0>>
      /\ HasId(S, i) => S.handles[o] = 1
      /\ ~HasId(S, i) => S.handles[o] = 0 /\ o.late /\ ~HasPair(S, <<i, 0>>)
  <2>1. CASE HasId(S, i)
    <3>1. S.byId[i] \in Objs
      BY <2>1, <1>2, SpaceFacts DEF HasId
    <3> QED
      BY <2>1, <3>1, <1>2 DEF HasId, SpaceOK
  <2>2. CASE ~HasId(S, i)
    <3>1. o \in Objs /\ o.space = c /\ o.pair = <<i, 0>> /\ o.late
      BY <2>2, <1>3 DEF Obj, Objs
    <3>2. ~HasPair(S, <<i, 0>>)
      BY <2>2, <1>2 DEF SpaceOK, HasPair, HasId
    <3> HIDE DEF o
    <3>3. S.handles[o] = 0
      BY <3>1, <3>2, <1>2 DEF SpaceOK, HasPair
    <3> QED
      BY <2>2, <3>1, <3>2, <3>3
  <2> QED
    BY <2>1, <2>2
<1> HIDE DEF S, o
<1>5. /\ P \in SpaceType /\ SpaceOK(P, c)
      /\ \A x \in Objs : P.handles[x] # 0 <=> x = o \/ S.handles[x] # 0
      /\ \A j \in Ids : S.byId[j] # None => P.byId[j] # None
  <2>1. CASE HasId(S, i)
    <3>1. P = S
      BY <2>1 DEF PutId
    <3> QED
      BY <2>1, <3>1, <1>2, <1>4
  <2>2. CASE ~HasId(S, i)
    <3>1. P = PutPair(S, <<i, 0>>, o)
      BY <1>2, <1>4, <2>2, PutIdIsPutPair
    <3>2. P \in SpaceType /\ SpaceOK(P, c)
      BY <1>2, <1>3, <1>4, <2>2, <3>1, PutPairType, PutPairOK
    <3>3. /\ \A x \in Objs : P.handles[x] = IF x = o THEN 1 ELSE S.handles[x]
          /\ \A j \in Ids : P.byId[j] =
               IF j = <<i, 0>>[1] /\ <<i, 0>>[2] = 0 /\ ~HasId(S, j) THEN o ELSE S.byId[j]
      BY <1>2, <1>3, <1>4, <2>2, <3>1, PutPairFacts
    <3> QED
      BY <1>4, <3>2, <3>3, ObjFacts
  <2> QED
    BY <2>1, <2>2
<1> HIDE DEF P
<1>6. /\ \A x \in Objs : made[x] \in 0..MaxArrays
      /\ \A x \in Objs : var[x] \in VarType
      /\ \A x \in Objs : x.space = c => var[x].removable
  BY <1>1 DEF IndInv, TypeInv, Stages, StageAt
<1>7. /\ \A t \in Spaces : space'[t] = IF t = c THEN P ELSE space[t]
      /\ \A x \in Objs : made'[x] = IF x = o THEN made[o] + 1 ELSE made[x]
      /\ \A x \in Objs : x # o => var'[x] = var[x]
      /\ var'[o] = [live |-> TRUE, arr |-> <<o, made[o] + 1>>, removable |-> var[o].removable]
  BY <1>1, <1>4 DEF IndInv, TypeInv
<1>8. /\ <<o, made[o] + 1>> \in Arrays
      /\ var'[o].live /\ var'[o].arr = <<o, made[o] + 1>> /\ var'[o].removable
      /\ var'[o] \in VarType
  <2>1. <<o, made[o] + 1>> \in Arrays
    BY <1>1, <1>4, <1>6, ArrayFacts
  <2> QED
    BY <1>4, <1>6, <1>7, <2>1 DEF VarType
<1>9. \A a \in old : a \in Arrays /\ a = <<o, made[o]>> /\ a \notin freed
  BY <1>4, <1>6, OwnReadable DEF IndInv, TypeInv, VarType, ArrayInv, OwnArrays
<1>10. \A a \in freed : a[2] <= made[a[1]] /\ a[1] \in Objs
  BY ArrayFacts DEF IndInv, TypeInv, ArrayInv, OwnArrays
<1>11. \A x \in Objs : x # o /\ var[x].arr \notin freed => var[x].arr \notin freed'
  <2> SUFFICES ASSUME NEW x \in Objs, x # o PROVE var[x].arr \notin old
    BY <1>1
  <2>1. CASE x.space = c
    <3>1. var[x].arr # NoArr => var[x].arr[1] = x
      BY <2>1, <1>6, OwnReadable
    <3> QED
      BY <3>1, <1>9, ObjFacts
  <2>2. CASE x.space # c
    <3>1. var[x].arr # NoArr => var[x].arr[1].space # c
      BY <2>2 DEF IndInv, ArrayInv, OwnArrays
    <3> QED
      BY <3>1, <1>4, <1>9, ObjFacts
  <2> QED
    BY <2>1, <2>2
<1>12. <<o, made[o] + 1>> \notin freed'
  BY <1>1, <1>4, <1>6, <1>9, <1>10
<1>13. TypeInv'
  <2>1. space' \in [Spaces -> SpaceType]
    BY <1>1, <1>5 DEF IndInv, TypeInv
  <2>2. var' \in [Objs -> VarType]
    BY <1>1, <1>7, <1>8 DEF IndInv, TypeInv
  <2>3. made' \in [Objs -> 0..MaxArrays]
    BY <1>1, <1>4, <1>6, ArrayFacts DEF IndInv, TypeInv
  <2>4. freed' \subseteq Arrays
    BY <1>1, <1>9 DEF IndInv, TypeInv
  <2>5. corrupted' \in BOOLEAN
    BY <1>1
  <2> QED
    BY <1>1, <2>1, <2>2, <2>3, <2>4, <2>5 DEF IndInv, TypeInv
<1>14. SpacesOK'
  BY <1>5, <1>7 DEF IndInv, SpacesOK
<1>15. Stages'
  <2>1. ASSUME NEW t \in Spaces PROVE StageAt(t)'
    <3>1. CASE t = c
      <4>1. \A x \in Objs : x.space = c => var'[x].removable
        BY <1>6, <1>7, <1>8
      <4>2. \A j \in NodeIds : node'[j] # "none" => space'[c].byId[j] # None
        BY <1>1, <1>5, <1>7, IdFacts DEF IndInv, Stages, StageAt, S
      <4>3. status'[c] = "feeding" /\ done'[c] = {}
        BY <1>1 DEF IndInv, Stages, StageAt
      <4> QED
        BY <3>1, <4>1, <4>2, <4>3 DEF StageAt
    <3>2. CASE t # c
      <4>1. \A x \in Objs : x.space = t => var'[x] = var[x]
        BY <3>2, <1>4, <1>7
      <4> QED
        BY <3>2, <4>1, <1>1, <1>7, StageElsewhere DEF IndInv, Stages
    <3> QED
      BY <3>1, <3>2
  <2>2. status[Own] # "reading"
    BY <1>1 DEF IndInv, Stages, Reading
  <2> QED
    BY <1>1, <2>1, <2>2 DEF IndInv, Stages, Reading
<1>16. Living'
  <2> SUFFICES ASSUME NEW x \in Objs
               PROVE  /\ var'[x].live <=> space'[x.space].handles[x] # 0
                      /\ ~var'[x].live => var'[x] = Blank
                      /\ ~var'[x].live /\ status[x.space] # "deleted" => made'[x] = 0
    BY <1>1 DEF Living
  <2>1. CASE x = o
    BY <2>1, <1>4, <1>5, <1>7, <1>8
  <2>2. CASE x # o
    <3>1. space'[x.space].handles[x] # 0 <=> space[x.space].handles[x] # 0
      <4>1. CASE x.space = c
        BY <4>1, <2>2, <1>5, <1>7 DEF S
      <4>2. CASE x.space # c
        BY <4>2, <1>7, ObjFacts
      <4> QED
        BY <4>1, <4>2
    <3>2. var'[x] = var[x] /\ made'[x] = made[x]
      BY <2>2, <1>7
    <3> QED
      BY <3>1, <3>2 DEF IndInv, Living
  <2> QED
    BY <2>1, <2>2
<1>17. OwnArrays'
  <2>1. ASSUME NEW x \in Objs, x # o
        PROVE  /\ var'[x] = var[x] /\ made'[x] = made[x]
               /\ var[x].arr \notin freed => var[x].arr \notin freed'
    BY <2>1, <1>7, <1>11
  <2>2. /\ var'[o].arr = <<o, made'[o]>> /\ var'[o].arr[1] = o /\ var'[o].removable
        /\ var'[o].arr \notin freed'
    BY <1>4, <1>7, <1>8, <1>12
  <2>3. \A a \in freed' : a[2] <= made'[a[1]]
    <3>1. ASSUME NEW a \in freed PROVE a[2] <= made'[a[1]]
      BY <1>4, <1>6, <1>7, <1>10, ArrayFacts DEF IndInv, TypeInv
    <3>2. ASSUME NEW a \in old PROVE a[2] <= made'[a[1]]
      <4>1. a = <<o, made[o]>> /\ a[1] = o /\ a[2] = made[o]
        BY <1>9
      <4> QED
        BY <4>1, <1>4, <1>6, <1>7
    <3> QED
      BY <3>1, <3>2, <1>1
  <2>4. ASSUME NEW x \in Objs, var'[x].arr # NoArr
        PROVE  /\ var'[x].arr[1].space = x.space
               /\ var'[x].removable =>
                    var'[x].arr = <<x, made'[x]>> /\ var'[x].arr \notin freed'
               /\ ~var'[x].removable /\ x.pair[1] \notin inplace =>
                    var'[x].arr[1].pair[1] \in ExtIds /\ var'[x].arr \notin freed'
    <3>1. CASE x = o
      BY <3>1, <2>2
    <3>2. CASE x # o
      BY <3>2, <2>1, <2>4 DEF IndInv, ArrayInv, OwnArrays
    <3> QED
      BY <3>1, <3>2
  <2>5. \A x \in Objs : x.pair[1] \in ExtIds \/ x.pair[2] # 0 => var'[x].removable
    BY <2>1, <2>2 DEF IndInv, ArrayInv, OwnArrays
  <2> QED
    BY <1>1, <2>3, <2>4, <2>5 DEF OwnArrays
<1>18. Readable'
  <2> SUFFICES ASSUME NEW t \in Spaces PROVE ReadableAt(t)'
    BY DEF Readable
  <2>1. CASE t = c
    <3> SUFFICES ASSUME NEW x \in Objs, x.space = c, var'[x].arr # NoArr
                 PROVE  var'[x].arr \notin freed' /\ var'[x].arr[1] = x
      BY <2>1, <1>1 DEF ReadableAt
    <3>1. var'[x].removable
      BY <1>6, <1>7, <1>8
    <3>2. var'[x].arr = <<x, made'[x]>> /\ var'[x].arr \notin freed'
      BY <3>1, <1>17 DEF OwnArrays
    <3> QED
      BY <3>2
  <2>2. CASE t # c
    <3>1. \A x \in Objs : x.space = t =>
            var'[x] = var[x] /\ (var[x].arr \notin freed => var[x].arr \notin freed')
      BY <2>2, <1>4, <1>7, <1>11
    <3> QED
      BY <2>2, <3>1, <1>1, <1>7, ReadableElsewhere DEF IndInv, ArrayInv, Readable
  <2> QED
    BY <2>1, <2>2
<1>19. Freeing'
  <2> SUFFICES ASSUME NEW x \in Objs, x.pair[1] \notin inplace, NEW k \in 1..made'[x]
               PROVE  <<x, k>> \in freed' \/ (var'[x].removable /\ var'[x].arr = <<x, k>>)
    BY <1>1 DEF Freeing
  <2>1. CASE x # o
    BY <2>1, <1>1, <1>7 DEF IndInv, ArrayInv, Freeing
  <2>2. CASE x = o /\ k = made[o] + 1
    BY <2>2, <1>8
  <2>3. CASE x = o /\ k # made[o] + 1
    <3>1. k \in 1..made[o]
      BY <2>3, <1>4, <1>6, <1>7
    <3>2. <<x, k>> \in freed \/ (var[x].removable /\ var[x].arr = <<x, k>>)
      BY <3>1, <2>3 DEF IndInv, ArrayInv, Freeing
    <3>3. <<x, k>> # NoArr
      BY <3>1, <2>3, <1>6, ArrayFacts, ObjFacts
    <3>4. HasId(S, i)
      <4>1. ~HasId(S, i) => made[o] = 0
        BY <1>1, <1>4 DEF IndInv, Living, S
      <4> QED
        BY <3>1, <4>1
    <3> QED
      BY <2>3, <3>2, <3>3, <3>4, <1>1 DEF old
  <2> QED
    BY <2>1, <2>2, <2>3
<1>20. FreedOnce'
  BY <1>1, <1>9 DEF IndInv, ArrayInv, FreedOnce
<1> QED
  BY <1>13, <1>14, <1>15, <1>16, <1>17, <1>18, <1>19, <1>20 DEF IndInv, ArrayInv

-----------------------------------------------------------------------------
(* Executing a node *)

Targets(s, i) == {Target(s, i, p) : p \in Outputs(i)}

\* The outputs of a node.
LEMMA OutputFacts ==
  ASSUME NEW i \in NodeIds
  PROVE  /\ <<i, 0>> \in Outputs(i)
         /\ \A p \in Outputs(i) : p \in Pairs /\ p[1] = i /\ p \in {<<i, 0>>, <<i, 1>>}
         /\ node[i] = "single" => Outputs(i) = {<<i, 0>>}
<1>1. <<i, 0>> \in Pairs /\ <<i, 1>> \in Pairs /\ <<i, 0>>[1] = i /\ <<i, 1>>[1] = i
  BY PairOf, IdFacts
<1>2. Outputs(i) = IF node[i] = "single" THEN {<<i, 0>>} ELSE {<<i, 0>>, <<i, 1>>}
  BY DEF Outputs
<1> QED
  BY <1>1, <1>2

\* After ensureVariable the outputs of the node have variables of this space; a
\* variable it made is among them.
LEMMA EnsuredFacts ==
  ASSUME IndInv, NEW s \in Spaces, NEW i \in NodeIds,
         status[s] \in {"running", "feeding"}, node[i] # "none"
  PROVE  /\ Ensured(s, i) \in SpaceType /\ SpaceOK(Ensured(s, i), s)
         /\ \A x \in Targets(s, i) : x \in Objs /\ x.space = s /\ x.pair[1] = i
         /\ \A x \in Objs : Ensured(s, i).handles[x] # 0 <=>
                              space[s].handles[x] # 0 \/ x \in Targets(s, i)
         /\ \A j \in Ids : space[s].byId[j] # None => Ensured(s, i).byId[j] # None
         /\ \A q \in Pairs : q[1] # i => Ensured(s, i).paired[q] = space[s].paired[q]
         /\ node[i] = "single" => Ensured(s, i) = space[s]
         /\ IndexedAt(space[s]) => IndexedAt(Ensured(s, i))
<1> DEFINE S == space[s]
           P == Ensured(s, i)
           T == Targets(s, i)
           M == Missing(s, i)
           d == Obj(s, <<i, 1>>, TRUE)
<1>1. S \in SpaceType /\ SpaceOK(S, s)
  BY SpaceFacts
<1>2. /\ i \in Ids /\ <<i, 0>> \in Pairs /\ <<i, 1>> \in Pairs
      /\ <<i, 1>>[1] = i /\ <<i, 1>>[2] = 1
  BY PairOf, IdFacts
<1>3. HasPair(S, <<i, 0>>)
  BY <1>1, <1>2 DEF IndInv, Stages, StageAt, SpaceOK, HasPair
<1>4. M = {} \/ (M = {<<i, 1>>} /\ node[i] # "single" /\ ~HasPair(S, <<i, 1>>))
  BY <1>3, OutputFacts DEF Missing
<1>5. d \in Objs /\ d.space = s /\ d.pair = <<i, 1>> /\ d.late
  BY <1>2 DEF Obj, Objs
<1> HIDE DEF d
<1>6. /\ P \in SpaceType /\ SpaceOK(P, s)
      /\ \A j \in Ids : S.byId[j] # None => P.byId[j] # None
      /\ \A q \in Pairs : q[1] # i => P.paired[q] = S.paired[q]
      /\ \A q \in Pairs : S.paired[q] # None => P.paired[q] # None
      /\ \A p \in Outputs(i) : P.paired[p] # None
      /\ \A x \in Objs : S.handles[x] # 0 => P.handles[x] # 0
      /\ \A x \in Objs : P.handles[x] # 0 =>
           S.handles[x] # 0 \/ (<<i, 1>> \in Outputs(i) /\ x = P.paired[<<i, 1>>])
      /\ node[i] = "single" => P = S
      /\ IndexedAt(S) => IndexedAt(P)
  <2>1. CASE M = {}
    <3>1. P = S
      BY <2>1 DEF Ensured
    <3>2. \A p \in Outputs(i) : HasPair(S, p)
      BY <2>1 DEF Missing
    <3> HIDE DEF P
    <3> QED
      BY <3>1, <3>2, <1>1 DEF HasPair
  <2>2. CASE M # {}
    <3>1. (CHOOSE p \in M : TRUE) = <<i, 1>> /\ <<i, 1>> \in Outputs(i)
      BY <2>2, <1>4 DEF Missing
    <3>2. P = PutPair(S, <<i, 1>>, d)
      BY <2>2, <3>1 DEF Ensured, d
    <3>3. S.handles[d] = 0 /\ ~HasPair(S, <<i, 1>>) /\ node[i] # "single"
      BY <2>2, <1>1, <1>4, <1>5 DEF SpaceOK, HasPair
    <3> HIDE DEF P, S
    <3>4. P \in SpaceType /\ SpaceOK(P, s)
      BY <1>1, <1>2, <1>5, <3>2, <3>3, PutPairType, PutPairOK
    <3>5. /\ \A x \in Objs : P.handles[x] = IF x = d THEN 1 ELSE S.handles[x]
          /\ \A q \in Pairs : P.paired[q] = IF q = <<i, 1>> THEN d ELSE S.paired[q]
          /\ \A j \in Ids : P.byId[j] =
               IF j = <<i, 1>>[1] /\ <<i, 1>>[2] = 0 /\ ~HasId(S, j) THEN d ELSE S.byId[j]
      BY <1>1, <1>2, <1>5, <3>2, <3>3, PutPairFacts
    <3>6. \A p \in Outputs(i) : P.paired[p] # None
      <4>1. P.paired[<<i, 1>>] # None
        BY <1>2, <1>5, <3>5, ObjFacts
      <4>2. P.paired[<<i, 0>>] # None
        <5>1. S.paired[<<i, 0>>] # None
          BY <1>3 DEF HasPair
        <5>2. P.paired[<<i, 0>>] \in {d, S.paired[<<i, 0>>]}
          BY <1>2, <3>5
        <5> QED
          BY <5>1, <5>2, <1>5, ObjFacts
      <4> QED
        BY <4>1, <4>2, OutputFacts
    <3>7. \A q \in Pairs : /\ q[1] # i => P.paired[q] = S.paired[q]
                           /\ S.paired[q] # None => P.paired[q] # None
      BY <1>2, <1>5, <3>5, ObjFacts
    <3>8. IndexedAt(S) => IndexedAt(P)
      BY <1>1, <1>2, <1>5, <3>2, <3>3, PutIndexed
    <3> QED
      BY <1>2, <1>5, <3>1, <3>3, <3>4, <3>5, <3>6, <3>7, <3>8
  <2> QED
    BY <2>1, <2>2
<1> HIDE DEF P, S
<1>7. \A p \in Outputs(i) : /\ P.paired[p] \in Objs /\ P.paired[p].space = s
                            /\ P.paired[p].pair = p /\ P.handles[P.paired[p]] = 1
  <2> TAKE p \in Outputs(i)
  <2>1. p \in Pairs /\ P.paired[p] # None
    BY <1>6, OutputFacts
  <2>2. P.paired[p] \in Objs
    BY <1>6, <2>1 DEF SpaceType
  <2> QED
    BY <1>6, <2>1, <2>2 DEF SpaceOK
<1>8. T = {P.paired[p] : p \in Outputs(i)}
  BY DEF Targets, Target, P
<1>9. \A x \in T : x \in Objs /\ x.space = s /\ x.pair[1] = i /\ P.handles[x] = 1
  <2> SUFFICES ASSUME NEW p \in Outputs(i)
               PROVE  /\ P.paired[p] \in Objs /\ P.paired[p].space = s
                      /\ P.paired[p].pair[1] = i /\ P.handles[P.paired[p]] = 1
    BY <1>8
  <2>1. p[1] = i
    BY OutputFacts
  <2> QED
    BY <2>1, <1>7
<1>10. \A x \in Objs : P.handles[x] # 0 <=> S.handles[x] # 0 \/ x \in T
  BY <1>6, <1>8, <1>9
<1> QED
  BY <1>6, <1>9, <1>10 DEF P, S

\* The part of a node's execution that both kinds of nodes share: the space has
\* variables for the outputs, live ones, and the node is done.
LEMMA ExecuteSpace ==
  ASSUME IndInv, NEW s \in Spaces, NEW i \in NodeIds,
         status[s] \in {"running", "feeding"}, node[i] # "none",
         space' = [space EXCEPT ![s] = Ensured(s, i)],
         status' = [status EXCEPT ![s] = "running"],
         done' = [done EXCEPT ![s] = @ \cup {i}],
         node' = node, inplace' = inplace,
         \A x \in Targets(s, i) : var'[x].live,
         \A x \in Objs : x \notin Targets(s, i) => var'[x] = var[x] /\ made'[x] = made[x]
  PROVE  SpacesOK' /\ Stages' /\ Living'
<1> DEFINE P == Ensured(s, i)
           T == Targets(s, i)
<1>1. /\ P \in SpaceType /\ SpaceOK(P, s)
      /\ \A x \in T : x \in Objs /\ x.space = s /\ x.pair[1] = i
      /\ \A x \in Objs : P.handles[x] # 0 <=> space[s].handles[x] # 0 \/ x \in T
      /\ \A j \in Ids : space[s].byId[j] # None => P.byId[j] # None
  BY EnsuredFacts
<1> HIDE DEF P, T
<1>2. /\ \A t \in Spaces : space'[t] = IF t = s THEN P ELSE space[t]
      /\ \A t \in Spaces : status'[t] = IF t = s THEN "running" ELSE status[t]
      /\ \A t \in Spaces : t # s => done'[t] = done[t]
  BY DEF IndInv, TypeInv, P
<1>3. SpacesOK'
  BY <1>1, <1>2 DEF IndInv, SpacesOK
<1>4. Stages'
  <2>1. ASSUME NEW t \in Spaces PROVE StageAt(t)'
    <3>1. CASE t = s
      BY <3>1, <1>1, <1>2, IdFacts DEF IndInv, Stages, StageAt
    <3>2. CASE t # s
      <4>1. \A x \in Objs : x.space = t => var'[x] = var[x]
        BY <3>2, <1>1 DEF T
      <4> QED
        BY <3>2, <4>1, <1>2, StageElsewhere DEF IndInv, Stages
    <3> QED
      BY <3>1, <3>2
  <2>2. status[Own] # "reading"
    BY DEF IndInv, Stages, Reading
  <2>3. status'[Own] \in {"running", "deleted"}
    BY <1>2, <2>2, VariableSpaceAssumption DEF IndInv, Stages
  <2> QED
    BY <2>1, <2>3 DEF IndInv, Stages, Reading
<1>5. Living'
  <2> SUFFICES ASSUME NEW x \in Objs
               PROVE  /\ var'[x].live <=> space'[x.space].handles[x] # 0
                      /\ ~var'[x].live => var'[x] = Blank
                      /\ ~var'[x].live /\ status'[x.space] # "deleted" => made'[x] = 0
    BY DEF Living
  <2>1. CASE x \in T
    BY <2>1, <1>1, <1>2 DEF T
  <2>2. CASE x \notin T
    <3>1. space'[x.space].handles[x] # 0 <=> space[x.space].handles[x] # 0
      <4>1. CASE x.space = s
        BY <4>1, <2>2, <1>1, <1>2
      <4>2. CASE x.space # s
        BY <4>2, <1>2, ObjFacts
      <4> QED
        BY <4>1, <4>2
    <3>2. var'[x] = var[x] /\ made'[x] = made[x]
      BY <2>2 DEF T
    <3>3. status'[x.space] # "deleted" => status[x.space] # "deleted"
      BY <1>2, ObjFacts
    <3> QED
      BY <3>1, <3>2, <3>3 DEF IndInv, Living
  <2> QED
    BY <2>1, <2>2
<1> QED
  BY <1>3, <1>4, <1>5

\* What a run may read after a node: what it could read before, and the arrays of
\* the node's own variables, provided that nothing readable has been deleted.
LEMMA ExecuteReadable ==
  ASSUME IndInv, NEW s \in Spaces, NEW i \in NodeIds, i \notin done[s],
         status[s] \in {"running", "feeding"}, node[i] # "none",
         space' = [space EXCEPT ![s] = Ensured(s, i)],
         status' = [status EXCEPT ![s] = "running"],
         done' = [done EXCEPT ![s] = @ \cup {i}],
         \A x \in Objs : x \notin Targets(s, i) => var'[x] = var[x],
         \A a \in freed' : a \in freed \/ (a[1].space = s /\ a[1].pair[1] = i),
         NoArr \notin freed',
         \A x \in Objs : (x.space = s /\ x.pair[1] = i /\ var'[x].arr # NoArr /\
                          Ensured(s, i).paired[x.pair] = x)
           => var'[x].arr \notin freed' /\ var'[x].arr[1].pair[1] \in ExtIds \cup done[s] \cup {i}
  PROVE  Readable'
<1> DEFINE P == Ensured(s, i)
           T == Targets(s, i)
<1>1. /\ \A x \in T : x \in Objs /\ x.space = s /\ x.pair[1] = i
      /\ \A q \in Pairs : q[1] # i => P.paired[q] = space[s].paired[q]
  BY EnsuredFacts
<1>2. /\ \A t \in Spaces : space'[t] = IF t = s THEN P ELSE space[t]
      /\ \A t \in Spaces : status'[t] = IF t = s THEN "running" ELSE status[t]
      /\ \A t \in Spaces : done'[t] = IF t = s THEN done[s] \cup {i} ELSE done[t]
  BY DEF IndInv, TypeInv
<1> HIDE DEF P, T
<1> SUFFICES ASSUME NEW t \in Spaces PROVE ReadableAt(t)'
  BY DEF Readable
<1>3. CASE t = s
  <2> SUFFICES ASSUME NEW x \in Objs, x.space = s, x.pair[1] \in ExtIds \cup done[s] \cup {i},
                      P.paired[x.pair] = x, var'[x].arr # NoArr
               PROVE  /\ var'[x].arr \notin freed'
                      /\ var'[x].arr[1].pair[1] \in ExtIds \cup done[s] \cup {i}
    BY <1>2, <1>3 DEF ReadableAt
  <2>1. CASE x.pair[1] = i
    BY <2>1 DEF P
  <2>2. CASE x.pair[1] # i
    <3>1. var'[x] = var[x] /\ space[s].paired[x.pair] = x
      BY <2>2, <1>1, ObjFacts DEF T
    <3>2. var[x].arr \notin freed /\ var[x].arr[1].pair[1] \in ExtIds \cup done[s]
      BY <2>2, <3>1 DEF IndInv, ArrayInv, Readable, ReadableAt
    <3>3. i \notin ExtIds \cup done[s]
      BY IdFacts
    <3> QED
      BY <3>1, <3>2, <3>3
  <2> QED
    BY <2>1, <2>2
<1>4. CASE t # s
  <2>1. \A x \in Objs : x.space = t => var'[x] = var[x]
    BY <1>1, <1>4 DEF T
  <2>2. \A x \in Objs : x.space = t /\ var[x].arr \notin freed => var[x].arr \notin freed'
    BY <1>4 DEF IndInv, ArrayInv, OwnArrays
  <2> QED
    BY <1>2, <1>4, <2>1, <2>2, ReadableElsewhere DEF IndInv, ArrayInv, Readable
<1> QED
  BY <1>3, <1>4

\* An op deletes the array its result replaces only where the variable owns it.
LEMMA ExecuteInv ==
  ASSUME IndInv, NEW s \in Spaces, NEW i \in NodeIds, NEW over \in BOOLEAN,
         ExecuteNode(s, i, over), i \notin inplace
  PROVE  IndInv'
<1> DEFINE P == Ensured(s, i)
           T == Targets(s, i)
           Prepared(o) == IF var[o].arr = NoArr THEN 1 ELSE 0
           Total(o) == made[o] + Prepared(o) + IF over THEN 1 ELSE 0
           New == {x \in T : over \/ var[x].arr = NoArr}
           Deleting == {x \in T : over /\ (var[x].arr = NoArr \/ var[x].removable)}
           Gone(o) == IF var[o].arr = NoArr THEN <<o, made[o] + 1>> ELSE var[o].arr
           Old == {Gone(o) : o \in Deleting}
<1>1. /\ status[s] \in {"running", "feeding"} /\ node[i] # "none" /\ i \notin done[s]
      /\ \A o \in T : Total(o) <= MaxArrays
      /\ space' = [space EXCEPT ![s] = P]
      /\ var' = [o \in Objs |-> IF o \in T /\ (over \/ var[o].arr = NoArr)
                                THEN Variable(<<o, Total(o)>>, TRUE) ELSE var[o]]
      /\ made' = [o \in Objs |-> IF o \in T THEN Total(o) ELSE made[o]]
      /\ freed' = freed \cup Old
      /\ corrupted' = (corrupted \/ Old \cap freed # {})
      /\ done' = [done EXCEPT ![s] = @ \cup {i}]
      /\ status' = [status EXCEPT ![s] = "running"]
      /\ node' = node /\ inplace' = inplace
  BY DEF ExecuteNode, Execute, Targets
<1>2. /\ P \in SpaceType
      /\ \A x \in T : x \in Objs /\ x.space = s /\ x.pair[1] = i
      /\ \A x \in Objs : P.handles[x] # 0 <=> space[s].handles[x] # 0 \/ x \in T
  BY <1>1, EnsuredFacts
<1>3. \A x \in Objs : made[x] \in 0..MaxArrays /\ var[x] \in VarType
  BY DEF IndInv, TypeInv
<1>4. i \notin ExtIds /\ MaxArrays \in Nat
  BY IdFacts, ArrayFacts
<1>5. \A a \in freed : a \in Arrays /\ a[1] \in Objs /\ a[2] \in Int /\ a[2] <= made[a[1]]
  BY ArrayFacts DEF IndInv, TypeInv, ArrayInv, OwnArrays
<1> HIDE DEF P, T
<1>6. ASSUME NEW x \in New
      PROVE  /\ x \in T /\ x \in Objs /\ made[x] \in 0..MaxArrays /\ made'[x] \in 0..MaxArrays
             /\ made'[x] \in {made[x] + 1, made[x] + 2}
             /\ var'[x] = Variable(<<x, made'[x]>>, TRUE)
             /\ made'[x] = made[x] + 2 => x \in Deleting /\ var[x].arr = NoArr
             /\ x \in Deleting /\ var[x].arr = NoArr => made'[x] = made[x] + 2
             /\ var[x].arr # NoArr => made'[x] = made[x] + 1
             /\ var[x].arr # NoArr /\ var[x].removable => x \in Deleting
  <2>1. /\ x \in T /\ x \in Objs /\ made[x] \in 0..MaxArrays /\ Total(x) <= MaxArrays
    BY <1>1, <1>2, <1>3
  <2>2. made'[x] = Total(x) /\ var'[x] = Variable(<<x, Total(x)>>, TRUE)
    <3> HIDE DEF Total
    <3> QED
      BY <1>1, <2>1
  <2>3. CASE over
    <3>1. Total(x) = made[x] + IF var[x].arr = NoArr THEN 2 ELSE 1
      BY <2>1, <2>3
    <3> HIDE DEF Total
    <3> QED
      BY <2>1, <2>2, <2>3, <3>1, <1>4
  <2>4. CASE ~over
    <3>1. Total(x) = made[x] + 1 /\ var[x].arr = NoArr
      BY <2>1, <2>4
    <3> HIDE DEF Total
    <3> QED
      BY <2>1, <2>2, <2>4, <3>1, <1>4
  <2> QED
    BY <2>3, <2>4
<1>7. ASSUME NEW x \in Objs, x \notin New PROVE var'[x] = var[x] /\ made'[x] = made[x]
  <2>1. CASE x \in T
    <3>1. ~over /\ var[x].arr # NoArr
      BY <1>7, <2>1
    <3>2. Total(x) = made[x]
      BY <1>3, <3>1
    <3> HIDE DEF Total
    <3> QED
      BY <1>1, <2>1, <3>1, <3>2
  <2>2. CASE x \notin T
    <3> HIDE DEF Total
    <3> QED
      BY <1>1, <2>2
  <2> QED
    BY <2>1, <2>2
<1>8. ASSUME NEW x \in Deleting
      PROVE  /\ x \in New /\ Gone(x) \in Arrays /\ Gone(x)[1] = x /\ Gone(x) \notin freed
             /\ Gone(x)[2] \in Int /\ Gone(x)[2] < made'[x]
  <2>1. x \in New /\ x \in Objs /\ made[x] \in 0..MaxArrays /\ made'[x] \in 0..MaxArrays
    BY <1>2, <1>3, <1>6
  <2>2. CASE var[x].arr = NoArr
    <3>1. Gone(x) = <<x, made[x] + 1>> /\ made'[x] = made[x] + 2
      BY <2>1, <2>2, <1>6
    <3> HIDE DEF Gone
    <3>2. Gone(x) \in Arrays
      BY <3>1, <2>1, <1>4, ArrayFacts
    <3>3. Gone(x) \notin freed
      BY <3>1, <2>1, <1>5
    <3> QED
      BY <3>1, <3>2, <3>3, <2>1, <2>2
  <2>3. CASE var[x].arr # NoArr
    <3>1. /\ Gone(x) = var[x].arr /\ Gone(x) = <<x, made[x]>> /\ Gone(x) \notin freed
          /\ Gone(x) \in Arrays
      BY <2>1, <2>3, <1>3 DEF IndInv, ArrayInv, OwnArrays, VarType
    <3>2. made'[x] = made[x] + 1
      BY <2>1, <2>3, <1>6
    <3> HIDE DEF Gone
    <3> QED
      BY <3>1, <3>2, <2>1, <2>3
  <2> QED
    BY <2>2, <2>3
<1>a. \A x \in New : \A k \in 1..made[x] :
        var[x].removable /\ var[x].arr = <<x, k>> /\ <<x, k>> # NoArr => <<x, k>> \in Old
  <2> TAKE x \in New
  <2> TAKE k \in 1..made[x]
  <2> HAVE var[x].removable /\ var[x].arr = <<x, k>> /\ <<x, k>> # NoArr
  <2>1. x \in Deleting /\ Gone(x) = <<x, k>>
    BY <1>6
  <2> QED
    BY <2>1
<1>b. \A x \in New : made'[x] = made[x] + 2 => <<x, made[x] + 1>> \in Old
  <2> TAKE x \in New
  <2> HAVE made'[x] = made[x] + 2
  <2>1. x \in Deleting /\ Gone(x) = <<x, made[x] + 1>>
    BY <1>6
  <2> QED
    BY <2>1
<1>c. New \subseteq T /\ \A x \in T : x \notin New => var[x].arr # NoArr
  OBVIOUS
<1>9. \A a \in Old : /\ a \in Arrays /\ a[1] \in New /\ a \notin freed
                     /\ a[2] \in Int /\ a[2] < made'[a[1]]
  <2> SUFFICES ASSUME NEW x \in Deleting
               PROVE  /\ Gone(x) \in Arrays /\ Gone(x)[1] \in New /\ Gone(x) \notin freed
                      /\ Gone(x)[2] \in Int /\ Gone(x)[2] < made'[Gone(x)[1]]
    OBVIOUS
  <2> HIDE DEF Gone, Deleting, New
  <2> QED
    BY <1>8
<1>d. /\ freed' = freed \cup Old
      /\ corrupted' = (corrupted \/ Old \cap freed # {})
      /\ var' = [o \in Objs |-> var'[o]] /\ made' = [o \in Objs |-> made'[o]]
      /\ space' = [space EXCEPT ![s] = P]
  <2> HIDE DEF Old, Total
  <2> QED
    BY <1>1
<1>e. \A x \in New : x \in T /\ x \in Objs
  BY <1>6
<1>f. \A x \in New : made[x] \in Nat /\ made'[x] \in 1..MaxArrays /\ made[x] < made'[x]
  <2> TAKE x \in New
  <2>1. made[x] \in 0..MaxArrays /\ made'[x] \in 0..MaxArrays
    BY <1>6
  <2>2. made'[x] \in {made[x] + 1, made[x] + 2}
    BY <1>6
  <2> QED
    BY <2>1, <2>2, <1>4
<1>g. \A x \in New : made'[x] = made[x] + 1 \/ made'[x] = made[x] + 2
  BY <1>6
<1>h. \A x \in New : /\ var'[x] = [live |-> TRUE, arr |-> <<x, made'[x]>>, removable |-> TRUE]
                     /\ var'[x].live /\ var'[x].arr = <<x, made'[x]>> /\ var'[x].removable
  <2> TAKE x \in New
  <2>1. var'[x] = Variable(<<x, made'[x]>>, TRUE)
    BY <1>6
  <2> HIDE DEF New, Deleting
  <2> QED
    BY <2>1 DEF Variable
<1> HIDE DEF Total, Gone, Prepared, Deleting, Old, New
<1>10. TypeInv'
  <2>1. space' \in [Spaces -> SpaceType]
    BY <1>d, <1>2 DEF IndInv, TypeInv
  <2>2. \A x \in New : var'[x] \in VarType
    <3> TAKE x \in New
    <3>1. <<x, made'[x]>> \in Arrays
      BY <1>e, <1>f, ArrayFacts
    <3> QED
      <4>1. var'[x] = [live |-> TRUE, arr |-> <<x, made'[x]>>, removable |-> TRUE]
        BY <1>h
      <4> QED
        BY <3>1, <4>1 DEF VarType
  <2>3. var' \in [Objs -> VarType]
    <3>1. \A x \in Objs : var'[x] \in VarType
      BY <2>2, <1>3, <1>7
    <3> QED
      BY <3>1, <1>d
  <2>4. made' \in [Objs -> 0..MaxArrays]
    <3>1. \A x \in Objs : made'[x] \in 0..MaxArrays
      BY <1>3, <1>f, <1>7
    <3> QED
      BY <3>1, <1>d
  <2>5. freed' \subseteq Arrays
    BY <1>d, <1>9 DEF IndInv, TypeInv
  <2>6. corrupted' \in BOOLEAN
    BY <1>d
  <2>7. /\ done' \in [Spaces -> SUBSET NodeIds]
        /\ status' \in [Spaces -> {"none", "reading", "feeding", "running", "deleted"}]
    BY <1>1 DEF IndInv, TypeInv
  <2> QED
    BY <1>1, <2>1, <2>3, <2>4, <2>5, <2>6, <2>7 DEF IndInv, TypeInv
<1>11. SpacesOK' /\ Stages' /\ Living'
  <2>1. \A x \in T : var'[x].live
    <3> TAKE x \in T
    <3>1. CASE x \in New
      BY <3>1, <1>h
    <3>2. CASE x \notin New
      <4>1. x \in Objs /\ var'[x] = var[x]
        BY <3>2, <1>2, <1>7
      <4>2. var[x] # Blank
        BY <3>2, <1>c DEF Blank
      <4> QED
        BY <4>1, <4>2 DEF IndInv, Living
    <3> QED
      BY <3>1, <3>2
  <2>2. \A x \in Objs : x \notin T => var'[x] = var[x] /\ made'[x] = made[x]
    BY <1>7, <1>c
  <2> QED
    BY <1>1, <2>1, <2>2, ExecuteSpace DEF P, T
<1>12. OwnArrays'
  <2>1. \A a \in freed' : a[2] <= made'[a[1]]
    <3>1. ASSUME NEW a \in freed PROVE a[2] <= made'[a[1]]
      <4>1. a[1] \in Objs /\ a[2] \in Int /\ a[2] <= made[a[1]]
        BY <1>5
      <4>2. CASE a[1] \in New
        <5>1. made[a[1]] \in Int /\ made'[a[1]] \in Int /\ made[a[1]] < made'[a[1]]
          BY <4>2, <1>f
        <5> QED
          BY <4>1, <5>1
      <4>3. CASE a[1] \notin New
        BY <4>1, <4>3, <1>7
      <4> QED
        BY <4>2, <4>3
    <3>2. ASSUME NEW a \in Old PROVE a[2] <= made'[a[1]]
      <4>1. made'[a[1]] \in Int /\ a[2] \in Int /\ a[2] < made'[a[1]]
        BY <1>f, <1>9
      <4> QED
        BY <4>1
    <3> QED
      BY <3>1, <3>2, <1>d
  <2>2. ASSUME NEW x \in New
        PROVE  /\ var'[x].arr = <<x, made'[x]>> /\ var'[x].arr[1] = x /\ var'[x].removable
               /\ var'[x].arr \notin freed'
    <3>1. var'[x].arr = <<x, made'[x]>> /\ var'[x].removable
      BY <1>h
    <3>2. <<x, made'[x]>> \notin freed
      BY <1>5, <1>f
    <3>3. <<x, made'[x]>> \notin Old
      BY <1>f, <1>9
    <3> QED
      BY <3>1, <3>2, <3>3, <1>d
  <2>3. ASSUME NEW x \in Objs, var'[x].arr # NoArr
        PROVE  /\ var'[x].arr[1].space = x.space
               /\ var'[x].removable =>
                    var'[x].arr = <<x, made'[x]>> /\ var'[x].arr \notin freed'
               /\ ~var'[x].removable /\ x.pair[1] \notin inplace =>
                    var'[x].arr[1].pair[1] \in ExtIds /\ var'[x].arr \notin freed'
    <3>1. CASE x \in New
      BY <3>1, <2>2
    <3>2. CASE x \notin New
      <4>1. var'[x] = var[x] /\ made'[x] = made[x]
        BY <3>2, <1>7
      <4>2. /\ var[x].arr[1].space = x.space
            /\ var[x].removable => var[x].arr = <<x, made[x]>> /\ var[x].arr \notin freed
            /\ ~var[x].removable /\ x.pair[1] \notin inplace =>
                 var[x].arr[1].pair[1] \in ExtIds /\ var[x].arr \notin freed
        BY <2>3, <4>1 DEF IndInv, ArrayInv, OwnArrays
      <4>3. var[x].removable => var[x].arr \notin Old
        BY <3>2, <4>2, <1>9
      <4>4. var[x].arr[1].pair[1] \in ExtIds => var[x].arr \notin Old
        BY <1>2, <1>4, <1>9, <1>c
      <4> QED
        BY <4>1, <4>2, <4>3, <4>4, <1>d
    <3> QED
      BY <3>1, <3>2
  <2>4. ASSUME NEW x \in Objs, x.pair[1] \in ExtIds \/ x.pair[2] # 0
        PROVE  var'[x].removable
    <3>1. CASE x \in New
      BY <3>1, <2>2
    <3>2. CASE x \notin New
      BY <2>4, <3>2, <1>7 DEF IndInv, ArrayInv, OwnArrays
    <3> QED
      BY <3>1, <3>2
  <2> QED
    BY <1>1, <2>1, <2>3, <2>4 DEF OwnArrays
<1>13. Readable'
  <2>1. \A a \in freed' : a \in freed \/ (a[1].space = s /\ a[1].pair[1] = i)
    BY <1>d, <1>2, <1>9, <1>c
  <2>2. NoArr \notin freed'
    BY <1>10, ObjFacts DEF TypeInv
  <2>3. ASSUME NEW x \in Objs, x.pair[1] = i, var'[x].arr # NoArr
        PROVE  /\ var'[x].arr \notin freed'
               /\ var'[x].arr[1].pair[1] \in ExtIds \cup done[s] \cup {i}
    <3>1. CASE var'[x].removable
      <4>1. var'[x].arr = <<x, made'[x]>> /\ var'[x].arr \notin freed'
        BY <3>1, <2>3, <1>12 DEF OwnArrays
      <4> QED
        BY <4>1, <2>3
    <3>2. CASE ~var'[x].removable
      BY <3>2, <2>3, <1>1, <1>12 DEF OwnArrays
    <3> QED
      BY <3>1, <3>2
  <2>4. \A x \in Objs : x \notin T => var'[x] = var[x]
    BY <1>7, <1>c
  <2> QED
    BY <1>1, <2>1, <2>2, <2>3, <2>4, ExecuteReadable DEF P, T
<1>14. Freeing'
  <2> SUFFICES ASSUME NEW x \in Objs, x.pair[1] \notin inplace, NEW k \in 1..made'[x]
               PROVE  <<x, k>> \in freed' \/ (var'[x].removable /\ var'[x].arr = <<x, k>>)
    BY <1>1 DEF Freeing
  <2>1. ASSUME k \in 1..made[x]
        PROVE  <<x, k>> \in freed \/ (var[x].removable /\ var[x].arr = <<x, k>> /\ <<x, k>> # NoArr)
    <3>1. <<x, k>> \in Arrays
      BY <2>1, <1>3, <1>4, ArrayFacts
    <3>2. <<x, k>> \in freed \/ (var[x].removable /\ var[x].arr = <<x, k>>)
      BY <2>1 DEF IndInv, ArrayInv, Freeing
    <3> QED
      BY <3>1, <3>2, ObjFacts
  <2>2. CASE x \notin New
    BY <2>1, <2>2, <1>7, <1>d
  <2>3. CASE x \in New
    <3>1. /\ var'[x].arr = <<x, made'[x]>> /\ var'[x].removable
          /\ made[x] \in Nat /\ (made'[x] = made[x] + 1 \/ made'[x] = made[x] + 2)
      BY <2>3, <1>f, <1>g, <1>h
    <3>2. CASE k = made'[x]
      BY <3>1, <3>2
    <3>3. CASE k \in 1..made[x]
      BY <3>3, <2>1, <2>3, <1>a, <1>d
    <3>4. CASE k # made'[x] /\ k \notin 1..made[x]
      <4>1. made'[x] = made[x] + 2 /\ k = made[x] + 1
        BY <3>1, <3>4
      <4> QED
        BY <4>1, <2>3, <1>b, <1>d
    <3> QED
      BY <3>2, <3>3, <3>4
  <2> QED
    BY <2>2, <2>3
<1>15. FreedOnce'
  BY <1>d, <1>9 DEF IndInv, ArrayInv, FreedOnce
<1> QED
  BY <1>10, <1>11, <1>12, <1>13, <1>14, <1>15 DEF IndInv, ArrayInv

\* An in-place op takes over an array its run may read, and does not own it.
LEMMA ExecuteInplaceInv ==
  ASSUME IndInv, NEW s \in Spaces, NEW i \in NodeIds, NEW over \in BOOLEAN,
         ExecuteNode(s, i, over), i \in inplace
  PROVE  IndInv'
<1> DEFINE S == space[s]
           P == Ensured(s, i)
           o == Target(s, i, <<i, 0>>)
           q == Input[i]
           v == GetVariable(S, q)
           z == var[v].arr
<1>1. /\ status[s] \in {"running", "feeding"} /\ node[i] # "none" /\ i \notin done[s]
      /\ space' = [space EXCEPT ![s] = P]
      /\ var' = [var EXCEPT ![o] = Variable(z, FALSE)]
      /\ made' = made /\ freed' = freed /\ corrupted' = corrupted
      /\ done' = [done EXCEPT ![s] = @ \cup {i}]
      /\ status' = [status EXCEPT ![s] = "running"]
      /\ node' = node /\ inplace' = inplace
      /\ q[1] \in NodeIds => q[1] \in done[s]
      /\ HasPair(S, q) /\ z # NoArr
  BY DEF ExecuteNode, ExecuteInplace, InputReady
<1>2. Targets(s, i) = {o}
  <2>1. Outputs(i) = {<<i, 0>>}
    BY OutputFacts DEF IndInv, Stages
  <2> QED
    BY <2>1 DEF Targets
<1>3. /\ P = S /\ o \in Objs /\ o.space = s /\ o.pair[1] = i /\ S.paired[<<i, 0>>] = o
      /\ S \in SpaceType /\ SpaceOK(S, s)
  <2>1. P = S /\ o \in Objs /\ o.space = s /\ o.pair[1] = i
    BY <1>1, <1>2, EnsuredFacts DEF IndInv, Stages
  <2>2. S \in SpaceType /\ SpaceOK(S, s)
    BY SpaceFacts
  <2> QED
    BY <2>1, <2>2 DEF Target
<1>4. /\ q \in Pairs /\ v = S.paired[q] /\ v \in Objs /\ v.space = s /\ v.pair = q
      /\ q[1] \in ExtIds \cup done[s]
  <2>1. q \in Pairs /\ q[1] \in Ids
    BY VariableSpaceAssumption, PairFacts
  <2>2. v = S.paired[q]
    <3>1. CASE q[1] < 0
      <4>1. q[1] \in ExtIds /\ q = <<q[1], 0>>
        BY <2>1, <3>1, IdFacts, PairFacts
      <4> QED
        BY <3>1, <4>1, <1>3 DEF GetVariable, SpaceOK
    <3>2. CASE ~(q[1] < 0)
      BY <3>2, <1>1 DEF GetVariable
    <3> QED
      BY <3>1, <3>2
  <2>3. S.paired[q] \in Objs
    BY <1>1, <1>3, <2>1 DEF HasPair, SpaceType
  <2>4. S.paired[q].space = s /\ S.paired[q].pair = q
    BY <1>1, <1>3, <2>1 DEF HasPair, SpaceOK
  <2>5. q[1] \in ExtIds \cup done[s]
    BY <1>1, <2>1, IdFacts
  <2> QED
    BY <2>1, <2>2, <2>3, <2>4, <2>5
<1> HIDE DEF o, q, v, P
<1>5. /\ z \in Arrays /\ z \notin freed /\ z[1].space = s
      /\ z[1].pair[1] \in ExtIds \cup done[s]
  <2>1. z \in Arrays
    BY <1>1, <1>4 DEF IndInv, TypeInv, VarType
  <2>2. z \notin freed /\ z[1].pair[1] \in ExtIds \cup done[s]
    BY <1>1, <1>4 DEF IndInv, ArrayInv, Readable, ReadableAt
  <2>3. z[1].space = s
    BY <1>1, <1>4 DEF IndInv, ArrayInv, OwnArrays
  <2> QED
    BY <2>1, <2>2, <2>3
<1> HIDE DEF z, S
<1>6. /\ \A x \in Objs : var'[x] = IF x = o THEN Variable(z, FALSE) ELSE var[x]
      /\ Variable(z, FALSE).live /\ Variable(z, FALSE).arr = z
      /\ Variable(z, FALSE).removable = FALSE /\ Variable(z, FALSE) \in VarType
  <2>1. Variable(z, FALSE) \in VarType
    BY <1>5 DEF Variable, VarType
  <2> QED
    BY <1>1, <1>3, <2>1 DEF IndInv, TypeInv, Variable
<1>7. TypeInv'
  <2>1. space' \in [Spaces -> SpaceType]
    BY <1>1, <1>3 DEF IndInv, TypeInv
  <2>2. var' \in [Objs -> VarType]
    BY <1>1, <1>6 DEF IndInv, TypeInv
  <2>3. done' \in [Spaces -> SUBSET NodeIds] /\ status' \in [Spaces -> {"none", "reading", "feeding", "running", "deleted"}]
    BY <1>1 DEF IndInv, TypeInv
  <2> QED
    BY <1>1, <2>1, <2>2, <2>3 DEF IndInv, TypeInv
<1>8. SpacesOK' /\ Stages' /\ Living'
  <2>1. \A x \in Targets(s, i) : var'[x].live
    BY <1>2, <1>3, <1>6
  <2>2. \A x \in Objs : x \notin Targets(s, i) => var'[x] = var[x] /\ made'[x] = made[x]
    BY <1>1, <1>2, <1>6
  <2> QED
    BY <1>1, <2>1, <2>2, ExecuteSpace DEF P
<1>9. OwnArrays'
  <2>1. o.pair[2] = 0 /\ o.pair[1] \notin ExtIds
    <3>1. o.pair = <<i, 0>>
      BY <1>3, PairOf, IdFacts, ObjFacts DEF SpaceOK
    <3> QED
      BY <3>1, IdFacts
  <2>2. ASSUME NEW x \in Objs
        PROVE  /\ x.pair[1] \in ExtIds \/ x.pair[2] # 0 => var'[x].removable
               /\ var'[x].arr # NoArr =>
                  /\ var'[x].arr[1].space = x.space
                  /\ var'[x].removable =>
                       var'[x].arr = <<x, made[x]>> /\ var'[x].arr \notin freed
                  /\ ~var'[x].removable /\ x.pair[1] \notin inplace =>
                       var'[x].arr[1].pair[1] \in ExtIds /\ var'[x].arr \notin freed
    <3>1. CASE x = o
      <4>1. var'[x].arr = z /\ var'[x].removable = FALSE
        BY <3>1, <1>3, <1>6
      <4> QED
        BY <3>1, <4>1, <2>1, <1>3, <1>5
    <3>2. CASE x # o
      BY <3>2, <1>6 DEF IndInv, ArrayInv, OwnArrays
    <3> QED
      BY <3>1, <3>2
  <2> QED
    BY <1>1, <2>2 DEF IndInv, ArrayInv, OwnArrays
<1>10. Readable'
  <2>1. NoArr \notin freed'
    BY <1>1, ObjFacts DEF IndInv, TypeInv
  <2>2. ASSUME NEW x \in Objs, x.space = s, x.pair[1] = i, var'[x].arr # NoArr,
               P.paired[x.pair] = x
        PROVE  /\ var'[x].arr \notin freed'
               /\ var'[x].arr[1].pair[1] \in ExtIds \cup done[s] \cup {i}
    <3>1. CASE x = o
      <4>1. var'[x].arr = z
        BY <3>1, <1>3, <1>6
      <4> QED
        BY <4>1, <1>1, <1>5
    <3>2. CASE x # o
      <4>1. x.pair # <<i, 0>>
        BY <3>2, <2>2, <1>3
      <4>2. x.pair[2] # 0
        BY <4>1, <2>2, PairFacts, ObjFacts
      <4>3. var'[x] = var[x] /\ var[x].removable
        BY <3>2, <4>2, <1>6 DEF IndInv, ArrayInv, OwnArrays
      <4>4. var[x].arr \notin freed /\ var[x].arr[1] = x
        BY <4>3, <2>2, OwnReadable
      <4> QED
        BY <4>3, <4>4, <2>2, <1>1
    <3> QED
      BY <3>1, <3>2
  <2>3. \A x \in Objs : x \notin Targets(s, i) => var'[x] = var[x]
    BY <1>2, <1>6
  <2> QED
    BY <1>1, <2>1, <2>2, <2>3, ExecuteReadable DEF P
<1>11. Freeing'
  <2>1. \A x \in Objs : x.pair[1] \notin inplace => var'[x] = var[x]
    BY <1>3, <1>6
  <2> QED
    BY <1>1, <2>1 DEF IndInv, ArrayInv, Freeing
<1>12. FreedOnce'
  BY <1>1 DEF IndInv, ArrayInv, FreedOnce
<1> QED
  BY <1>7, <1>8, <1>9, <1>10, <1>11, <1>12 DEF IndInv, ArrayInv

-----------------------------------------------------------------------------
(* The invariant *)

\* Every step keeps the invariant.
LEMMA NextInv == IndInv /\ [Next]_vars => IndInv'
<1> SUFFICES ASSUME IndInv, [Next]_vars PROVE IndInv'
  OBVIOUS
<1>1. CASE \E p \in Pairs : ReadVariable(p)
  BY <1>1, ReadVariableInv
<1>2. CASE \E i \in NodeIds, inp \in BOOLEAN, to \in ExtIds \cup {0} :
             \E k \in Kinds[i] : AddNode(i, k, inp, to)
  BY <1>2, AddNodeInv
<1>3. CASE Built
  BY <1>3, BuiltInv
<1>4. CASE \E s \in Spaces, i \in NodeIds, over \in BOOLEAN : ExecuteNode(s, i, over)
  BY <1>4, ExecuteInv, ExecuteInplaceInv
<1>5. CASE \E s \in Spaces : NextRun(s) \/ Destroy(s)
  BY <1>5, NextRunInv, DestroyInv
<1>6. CASE \E c \in Spaces \ {Own} : Clone(c) \/ \E i \in Ids : Feed(c, i)
  BY <1>6, CloneInv, FeedInv
<1>7. CASE UNCHANGED vars
  BY <1>7 DEF vars, heap, IndInv, TypeInv, SpacesOK, Stages, StageAt, Reading, Living,
              ArrayInv, OwnArrays, Readable, ReadableAt, Freeing, FreedOnce
<1> QED
  BY <1>1, <1>2, <1>3, <1>4, <1>5, <1>6, <1>7 DEF Next

LEMMA Invariant == Spec => []IndInv
  BY InitInv, NextInv, PTL DEF Spec

\* The indexes hold variables, and every array is named by a variable it was made
\* for.
THEOREM VariablesTypeOK == Spec => []TypeOK
<1>1. IndInv => TypeOK
  BY DEF IndInv, TypeInv, TypeOK, SpaceType, VarType
<1> QED
  BY Invariant, <1>1, PTL

\* Whatever a lookup can return will be deleted by the destructor of this very
\* space, once, whatever the graph, its kinds of nodes and the number of clones.
THEOREM VariablesOwnedOnce == Spec => []OwnedOnce
<1>1. IndInv => OwnedOnce
  <2> SUFFICES ASSUME IndInv, NEW s \in Spaces, NEW o \in Objs,
                      \/ \E p \in Pairs : space[s].paired[p] = o
                      \/ \E i \in Ids : space[s].byId[i] = o
                      \/ \E n \in Names : space[s].symbolic[n] = o
               PROVE  o.space = s /\ var[o].live /\ space[s].handles[o] = 1
    BY DEF OwnedOnce
  <2>1. o.space = s /\ space[s].handles[o] = 1
    BY SpaceFacts, ObjFacts DEF SpaceOK
  <2> QED
    BY <2>1 DEF IndInv, Living
<1> QED
  BY Invariant, <1>1, PTL

\* Arrays are deleted once, never before the run that may read them is over, and
\* never shared between spaces.
THEOREM VariablesArraysSound == Spec => []ArraysSound
<1>1. IndInv => ResultsReadable
  <2> SUFFICES ASSUME IndInv, NEW s \in Spaces, status[s] \in {"feeding", "running"},
                      NEW p \in Pairs, p[1] \in ExtIds \cup done[s],
                      GetVariable(space[s], p) # None
               PROVE  var[GetVariable(space[s], p)].arr \notin freed
    BY DEF ResultsReadable
  <2> DEFINE S == space[s]
             v == GetVariable(S, p)
  <2>1. S.paired \in [Pairs -> Objs \cup {None}] /\ SpaceOK(S, s)
    BY SpaceFacts
  <2>2. p[1] \in Ids /\ p = <<p[1], p[2]>> /\ (p[1] \in ExtIds => p[2] = 0)
    BY PairFacts
  <2>3. v = S.paired[p]
    <3>1. CASE p[1] < 0
      <4>1. p[1] \in ExtIds /\ p = <<p[1], 0>>
        BY <2>2, <3>1, IdFacts
      <4> QED
        BY <2>1, <3>1, <4>1 DEF GetVariable, SpaceOK
    <3>2. CASE ~(p[1] < 0) /\ ~HasPair(S, p) /\ p[2] = 0
      <4>1. v = S.byId[p[1]] /\ p = <<p[1], 0>>
        BY <2>2, <3>2 DEF GetVariable
      <4> QED
        BY <2>1, <2>2, <3>2, <4>1 DEF SpaceOK, HasPair
    <3>3. CASE ~(p[1] < 0) /\ ~(~HasPair(S, p) /\ p[2] = 0)
      BY <3>3 DEF GetVariable
    <3> QED
      BY <3>1, <3>2, <3>3
  <2>4. v \in Objs /\ v.space = s /\ v.pair = p
    BY <2>1, <2>3 DEF SpaceOK
  <2> HIDE DEF v
  <2>5. var[v].arr # NoArr => var[v].arr \notin freed
    BY <2>3, <2>4 DEF IndInv, ArrayInv, Readable, ReadableAt
  <2>6. NoArr \notin freed
    BY ObjFacts DEF IndInv, TypeInv
  <2> QED
    BY <2>5, <2>6 DEF v
<1>2. IndInv => FreedOnce /\ NoSharing
  BY DEF IndInv, ArrayInv, OwnArrays, NoSharing
<1> QED
  BY Invariant, <1>1, <1>2, PTL DEF ArraysSound

\* A deleted space leaves no array of its variables behind, but for in-place nodes.
THEOREM VariablesNoLeak == Spec => []NoLeak
<1>1. IndInv => NoLeak
  <2> SUFFICES ASSUME IndInv, NEW o \in Objs, status[o.space] = "deleted",
                      o.pair[1] \notin inplace, NEW k \in 1..made[o]
               PROVE  <<o, k>> \in freed
    BY DEF NoLeak
  <2>1. space[o.space] = EmptySpace
    BY ObjFacts DEF IndInv, Stages, StageAt
  <2>2. var[o].arr = NoArr
    BY <2>1, EmptyOK DEF IndInv, Living, Blank
  <2>3. <<o, k>> # NoArr
    BY ArrayFacts, ObjFacts DEF IndInv, TypeInv
  <2> QED
    BY <2>2, <2>3 DEF IndInv, ArrayInv, Freeing
<1> QED
  BY Invariant, <1>1, PTL

-----------------------------------------------------------------------------
(* Lookups, in graphs without a While *)

\* clone rebuilds the indexes from the pairs: every one gives the copy of what
\* the original gives.
LEMMA CloneIndexed ==
  ASSUME IndInv, IndexedAt(space[Own]), NEW c \in Spaces
  PROVE  /\ IndexedAt(CloneOf(c))
         /\ \A p \in Pairs : CloneOf(c).paired[p] = Twin(c, space[Own].paired[p])
         /\ \A i \in Ids : CloneOf(c).byId[i] = Twin(c, space[Own].byId[i])
         /\ \A n \in Names : CloneOf(c).symbolic[n] = Twin(c, space[Own].symbolic[n])
<1> DEFINE S == space[Own]
           P == [p \in Pairs |-> Twin(c, S.paired[p])]
           N(n) == {p \in Pairs : P[p] # None /\ Name(P[p]) = n}
<1>1. /\ CloneOf(c).paired = P
      /\ CloneOf(c).byId = [i \in Ids |-> P[<<i, 0>>]]
      /\ CloneOf(c).symbolic =
           [n \in Names |-> IF N(n) = {} THEN None ELSE P[CHOOSE p \in N(n) : TRUE]]
  BY DEF CloneOf
<1>2. Own \in Spaces /\ SpaceOK(S, Own) /\ S.paired \in [Pairs -> Objs \cup {None}]
  BY VariableSpaceAssumption, SpaceFacts
<1>3. ASSUME NEW p \in Pairs
      PROVE  /\ P[p] = Twin(c, S.paired[p])
             /\ P[p] = None <=> S.paired[p] = None
             /\ P[p] # None => /\ P[p] \in Objs /\ P[p].pair = p
                               /\ P[p].late = S.paired[p].late
  <2>1. CASE S.paired[p] = None
    BY <2>1 DEF Twin
  <2>2. CASE S.paired[p] # None
    <3>1. S.paired[p] \in Objs /\ S.paired[p].pair = p
      BY <1>2, <2>2 DEF SpaceOK
    <3> QED
      BY <3>1, <2>2, TwinFacts, ObjFacts
  <2> QED
    BY <2>1, <2>2
<1>4. ASSUME NEW i \in Ids
      PROVE  /\ <<i, 0>> \in Pairs /\ S.byId[i] = S.paired[<<i, 0>>]
             /\ CloneOf(c).byId[i] = P[<<i, 0>>]
             /\ CloneOf(c).byId[i] = Twin(c, S.byId[i])
  BY <1>1, <1>3, PairOf DEF IndexedAt
<1> HIDE DEF P, S
<1>5. ASSUME NEW i \in Ids, NameOf[i] # NoName
      PROVE  CloneOf(c).symbolic[NameOf[i]] =
               IF P[<<i, 0>>] # None /\ ~P[<<i, 0>>].late THEN P[<<i, 0>>] ELSE None
  <2> DEFINE n == NameOf[i]
  <2>1. n \in Names
    BY <1>5, NameFacts
  <2>2. CloneOf(c).symbolic[n] = IF N(n) = {} THEN None ELSE P[CHOOSE p \in N(n) : TRUE]
    BY <1>1, <2>1
  <2>3. \A p \in N(n) : p = <<i, 0>> /\ ~P[p].late
    BY <1>3, <1>5, NameFacts
  <2>4. P[<<i, 0>>] # None /\ ~P[<<i, 0>>].late => <<i, 0>> \in N(n)
    BY <1>3, <1>4, NameFacts
  <2>5. CASE P[<<i, 0>>] # None /\ ~P[<<i, 0>>].late
    <3>1. N(n) = {<<i, 0>>}
      BY <2>3, <2>4, <2>5
    <3>2. (CHOOSE p \in N(n) : TRUE) = <<i, 0>>
      BY <3>1
    <3> HIDE DEF N, n
    <3>3. CloneOf(c).symbolic[n] = P[<<i, 0>>]
      BY <2>2, <3>1, <3>2
    <3> QED
      BY <2>5, <3>3 DEF n
  <2>6. CASE ~(P[<<i, 0>>] # None /\ ~P[<<i, 0>>].late)
    <3>1. N(n) = {}
      BY <2>3, <2>6
    <3> HIDE DEF N
    <3> QED
      BY <2>2, <2>6, <3>1
  <2> QED
    BY <2>5, <2>6
<1>6. IndexedAt(CloneOf(c))
  <2> DEFINE C == CloneOf(c)
  <2>1. \A i \in Ids : C.byId[i] = C.paired[<<i, 0>>]
    BY <1>1, <1>4
  <2>2. \A i \in Ids : NameOf[i] # NoName =>
          C.symbolic[NameOf[i]] = IF C.byId[i] # None /\ ~C.byId[i].late THEN C.byId[i] ELSE None
    BY <1>4, <1>5
  <2> HIDE DEF C
  <2>3. IndexedAt(C)
    BY <2>1, <2>2 DEF IndexedAt
  <2> QED
    BY <2>3 DEF C
<1>7. ASSUME NEW n \in Names
      PROVE  CloneOf(c).symbolic[n] = Twin(c, S.symbolic[n])
  <2>1. PICK i \in Ids : n = NameOf[i] /\ n # NoName
    BY NameFacts
  <2>2. S.symbolic[n] = IF S.byId[i] # None /\ ~S.byId[i].late THEN S.byId[i] ELSE None
    BY <2>1 DEF IndexedAt, S
  <2>3. CloneOf(c).symbolic[n] =
          IF P[<<i, 0>>] # None /\ ~P[<<i, 0>>].late THEN P[<<i, 0>>] ELSE None
    BY <2>1, <1>5
  <2>4. Twin(c, None) = None
    BY DEF Twin
  <2> QED
    BY <2>2, <2>3, <2>4, <1>3, <1>4
<1> QED
  BY <1>1, <1>3, <1>4, <1>6, <1>7 DEF S

\* The indexes of a space stay equal through every put of a graph of custom ops.
LEMMA IndexedNext ==
  ASSUME OpsOnly, IndInv, Indexed, [Next]_vars
  PROVE  Indexed'
<1>1. Own \in Spaces /\ IndexedAt(space[Own])
  BY VariableSpaceAssumption DEF Indexed
<1>2. space \in [Spaces -> SpaceType]
  BY DEF IndInv, TypeInv
<1>3. ASSUME NEW s \in Spaces, NEW S, IndexedAt(S), space' = [space EXCEPT ![s] = S]
      PROVE  Indexed'
  <2>1. \A t \in Spaces : space'[t] = IF t = s THEN S ELSE space[t]
    BY <1>2, <1>3
  <2> QED
    BY <2>1, <1>3 DEF Indexed
<1>4. ASSUME NEW p \in Pairs, ReadVariable(p) PROVE Indexed'
  <2> DEFINE o == Obj(Own, p, FALSE)
  <2>1. o \in Objs /\ o.space = Own /\ o.pair = p
    BY <1>1 DEF Obj, Objs
  <2>2. ~HasPair(space[Own], p) /\ space' = [space EXCEPT ![Own] = PutPair(space[Own], p, o)]
    BY <1>4 DEF ReadVariable
  <2> HIDE DEF o
  <2>3. space[Own] \in SpaceType /\ SpaceOK(space[Own], Own)
    BY <1>1, SpaceFacts
  <2>4. space[Own].handles[o] = 0
    BY <2>1, <2>2, <2>3 DEF SpaceOK, HasPair
  <2>5. IndexedAt(PutPair(space[Own], p, o))
    BY <1>1, <2>1, <2>2, <2>3, <2>4, PutIndexed
  <2> QED
    BY <1>1, <1>3, <2>2, <2>5
<1>5. ASSUME NEW i \in NodeIds, NEW inp \in BOOLEAN, NEW to \in ExtIds \cup {0},
             NEW k \in Kinds[i], AddNode(i, k, inp, to)
      PROVE  Indexed'
  <2> DEFINE Q == PutDeep(PutId(space[Own], i, Obj(Own, <<i, 0>>, FALSE)), i, k)
  <2>1. k \in AllKinds /\ k # "while"
    BY VariableSpaceAssumption DEF OpsOnly
  <2>2. IndexedAt(Q)
    BY <1>1, <1>5, <2>1, AddNodeSpace DEF AddNode
  <2>3. space' = [space EXCEPT ![Own] = Q]
    BY <1>5 DEF AddNode
  <2> HIDE DEF Q
  <2> QED
    BY <1>1, <1>3, <2>2, <2>3
<1>6. ASSUME NEW s \in Spaces, NEW i \in NodeIds, NEW over \in BOOLEAN, ExecuteNode(s, i, over)
      PROVE  Indexed'
  <2>1. space' = [space EXCEPT ![s] = Ensured(s, i)]
    BY <1>6 DEF ExecuteNode, Execute, ExecuteInplace
  <2>2. IndexedAt(Ensured(s, i))
    BY <1>6, EnsuredFacts DEF Indexed, ExecuteNode
  <2> QED
    BY <1>3, <2>1, <2>2
<1>7. ASSUME NEW s \in Spaces, NextRun(s) \/ Destroy(s) PROVE Indexed'
  <2>1. IndexedAt(EmptySpace)
    BY NameFacts, PairOf DEF IndexedAt, EmptySpace
  <2>2. CASE Destroy(s)
    BY <1>3, <2>1, <2>2 DEF Destroy
  <2>3. CASE NextRun(s)
    BY <2>3 DEF NextRun, Indexed
  <2> QED
    BY <1>7, <2>2, <2>3
<1>8. ASSUME NEW c \in Spaces, Clone(c) PROVE Indexed'
  <2>1. IndexedAt(CloneOf(c))
    BY <1>1, CloneIndexed
  <2> QED
    BY <1>3, <1>8, <2>1 DEF Clone
<1>9. ASSUME NEW c \in Spaces, NEW i \in Ids, Feed(c, i) PROVE Indexed'
  <2> DEFINE S == space[c]
             o == Obj(c, <<i, 0>>, TRUE)
  <2>1. CASE HasId(S, i)
    <3>1. space' = [space EXCEPT ![c] = S]
      BY <1>9, <2>1 DEF Feed, PutId
    <3> QED
      BY <3>1, <1>3 DEF Indexed
  <2>2. CASE ~HasId(S, i)
    <3>1. space' = [space EXCEPT ![c] = PutId(S, i, o)]
      BY <1>9, <2>2 DEF Feed
    <3>2. <<i, 0>> \in Pairs
      BY PairOf
    <3>3. o \in Objs /\ o.space = c /\ o.pair = <<i, 0>>
      BY <3>2 DEF Obj, Objs
    <3> HIDE DEF o
    <3>4. S \in SpaceType /\ SpaceOK(S, c) /\ IndexedAt(S)
      BY SpaceFacts DEF Indexed
    <3> HIDE DEF S
    <3>5. ~HasPair(S, <<i, 0>>)
      BY <2>2, <3>4 DEF SpaceOK, HasPair, HasId
    <3>6. S.handles[o] = 0
      BY <3>3, <3>4, <3>5 DEF SpaceOK, HasPair
    <3>7. PutId(S, i, o) = PutPair(S, <<i, 0>>, o)
      BY <2>2, <3>3, <3>4, <3>6, PutIdIsPutPair
    <3>8. IndexedAt(PutPair(S, <<i, 0>>, o))
      BY <3>2, <3>3, <3>4, <3>5, <3>6, PutIndexed
    <3> QED
      BY <1>3, <3>1, <3>7, <3>8
  <2> QED
    BY <2>1, <2>2
<1>10. CASE Built \/ UNCHANGED vars
  BY <1>10 DEF Built, vars, Indexed
<1> QED
  BY <1>4, <1>5, <1>6, <1>7, <1>8, <1>9, <1>10 DEF Next

\* Init gives empty indexes.
LEMMA IndexedInit == Init => Indexed
<1>1. IndexedAt(EmptySpace)
  BY NameFacts, PairOf DEF IndexedAt, EmptySpace
<1> QED
  BY <1>1 DEF Init, Indexed

\* In a graph whose nodes are all custom ops, a variable is the same by id, by the pair
\* (id, 0) and by name: the puts of the Graph constructor, addNode, ensureVariable and
\* executeStoredGraph keep it so, in spaces and their clones.  A While or a Conditional
\* of the scoped format puts a second variable under its pair and is no such node.
THEOREM VariablesLookupsAgree ==
  ASSUME OpsOnly
  PROVE  Spec => []LookupsAgree
<1>1. Indexed => LookupsAgree
  BY DEF Indexed, IndexedAt, LookupsAgree
<1>2. IndInv /\ Indexed /\ [Next]_vars => Indexed'
  BY IndexedNext
<1> QED
  BY Invariant, IndexedInit, <1>1, <1>2, PTL DEF Spec

\* In a graph whose nodes are all custom ops, VariableSpace::clone, which copies what is
\* under the pairs alone, answers every lookup as the original did when it was cloned.
THEOREM VariablesCloneFaithful ==
  ASSUME OpsOnly
  PROVE  Spec => CloneFaithful
<1> DEFINE Faithful ==
      \A c \in Spaces : (status[c] = "none" /\ status'[c] = "feeding") =>
         /\ \A i \in Ids : space'[c].byId[i] = Twin(c, space[Own].byId[i])
         /\ \A n \in Names : space'[c].symbolic[n] = Twin(c, space[Own].symbolic[n])
         /\ \A p \in Pairs : space'[c].paired[p] = Twin(c, space[Own].paired[p])
<1>1. ASSUME IndInv, Indexed, Next PROVE Faithful
  <2> SUFFICES ASSUME NEW c \in Spaces, status[c] = "none", status'[c] = "feeding"
               PROVE  /\ \A i \in Ids : space'[c].byId[i] = Twin(c, space[Own].byId[i])
                      /\ \A n \in Names : space'[c].symbolic[n] = Twin(c, space[Own].symbolic[n])
                      /\ \A p \in Pairs : space'[c].paired[p] = Twin(c, space[Own].paired[p])
    OBVIOUS
  <2>1. status \in [Spaces -> {"none", "reading", "feeding", "running", "deleted"}]
        /\ space \in [Spaces -> SpaceType]
    BY <1>1 DEF IndInv, TypeInv
  <2>2. Clone(c)
    <3>1. \A s \in Spaces : ~NextRun(s) /\ ~Destroy(s)
      BY <2>1 DEF NextRun, Destroy
    <3>2. \A s \in Spaces, i \in NodeIds, over \in BOOLEAN : ~ExecuteNode(s, i, over)
      BY <2>1 DEF ExecuteNode
    <3>3. \A s \in Spaces, i \in Ids : ~Feed(s, i)
      BY DEF Feed
    <3>4. ~Built /\ (\A p \in Pairs : ~ReadVariable(p))
      BY <2>1, VariableSpaceAssumption DEF Built, ReadVariable
    <3>5. \A i \in NodeIds, inp \in BOOLEAN, to \in ExtIds \cup {0}, k \in AllKinds :
            ~AddNode(i, k, inp, to)
      BY DEF AddNode
    <3>6. \A i \in NodeIds : Kinds[i] \subseteq AllKinds
      BY VariableSpaceAssumption
    <3>7. \A s \in Spaces \ {Own} : Clone(s) => s = c
      BY <2>1 DEF Clone
    <3> QED
      BY <1>1, <3>1, <3>2, <3>3, <3>4, <3>5, <3>6, <3>7 DEF Next
  <2>3. space'[c] = CloneOf(c)
    BY <2>1, <2>2 DEF Clone
  <2>4. IndexedAt(space[Own])
    BY <1>1, VariableSpaceAssumption DEF Indexed
  <2> QED
    BY <1>1, <2>3, <2>4, CloneIndexed
<1>2. IndInv /\ Indexed /\ [Next]_vars => [Faithful]_vars
  BY <1>1
<1>3. IndInv /\ Indexed /\ [Next]_vars => Indexed'
  BY IndexedNext
<1> HIDE DEF Faithful
<1>4. Spec => [][Faithful]_vars
  BY Invariant, IndexedInit, <1>2, <1>3, PTL DEF Spec
<1> QED
  BY <1>4 DEF CloneFaithful, Faithful
=============================================================================
