---------------------------- MODULE CanvasSafety ----------------------------
(***************************************************************************)
(* The safety properties of CanvasEditor, for every workflow the page may  *)
(* be opened on, every history limit and every number of edits.            *)
(*                                                                         *)
(* Part 1: every operation on the graph, on the cases of a switch step and *)
(* on a condition tree, and the loading of a definition, lead from a sound *)
(* graph to a sound graph, one lemma per operation.                        *)
(*                                                                         *)
(* Part 2: the invariant EditorInv says that every snapshot of the history,*)
(* and the graph an Apply in flight has captured, is a sound graph; the    *)
(* lemmas of part 1 carry it over every operation.  On top of it: what the *)
(* editor saves, and when it may be left: the guard, the review and the    *)
(* round trip of the graph through the posted definition.                  *)
(***************************************************************************)
EXTENDS CanvasEditor, FiniteSetTheorems, SequenceTheorems, FunctionTheorems,
        WellFoundedInduction, TLAPS

Steps == UNION {StepsOf(type) : type \in StepTypes}

(***************************************************************************)
(* The sound graphs: a set, so that there are sequences of them.           *)
(***************************************************************************)
GraphsOn(ids) ==
    [step : [ids -> Steps], place : [ids -> Nat], pos : [ids -> Positions],
     edges : SUBSET Edges, entry : Nat]

SoundGraphs ==
    UNION {{g \in GraphsOn(ids) : GraphIsSound(g)} : ids \in {S \in SUBSET StepKeys : IsFiniteSet(S)}}

LEMMA SoundGraph ==
    ASSUME NEW g \in SoundGraphs
    PROVE  /\ g \in GraphsOn(Ids(g)) /\ IsFiniteSet(Ids(g)) /\ Ids(g) \subseteq StepKeys
           /\ GraphIsSound(g)
BY DEF SoundGraphs, GraphsOn, Ids

LEMMA MakesSoundGraph ==
    ASSUME NEW g, g \in GraphsOn(Ids(g)), IsFiniteSet(Ids(g)), Ids(g) \subseteq StepKeys,
           GraphIsSound(g)
    PROVE  g \in SoundGraphs
BY DEF SoundGraphs

LEMMA SoundIsGraph ==
    ASSUME NEW g \in SoundGraphs
    PROVE  IsGraph(g)
<1>1. g \in GraphsOn(Ids(g)) /\ IsFiniteSet(Ids(g)) /\ Ids(g) \subseteq StepKeys
  BY SoundGraph
<1>2. \A id \in Ids(g) : g.step[id] \in Steps
  BY <1>1 DEF GraphsOn
<1>3. \A id \in Ids(g) : IsStep(g.step[id])
  BY <1>2 DEF Steps, IsStep
<1>4. g.step \in [Ids(g) -> {g.step[id] : id \in Ids(g)}]
  BY <1>1 DEF GraphsOn
<1> QED  BY <1>1, <1>3, <1>4 DEF IsGraph, GraphsOn
-----------------------------------------------------------------------------
(***************************************************************************)
(* Least elements                                                          *)
(***************************************************************************)
Below == {p \in Nat \X Nat : p[1] < p[2]}

LEMMA BelowIsWellFounded == IsWellFoundedOn(Below, Nat)
BY NatLessThanWellFounded DEF OpToRel, Below

LEMMA LeastExists ==
    ASSUME NEW T \in SUBSET Nat, T # {}
    PROVE  \E x \in T : \A y \in T : x <= y
<1>1. \E x \in T : \A y \in T : ~ (<<y, x>> \in Below)
  BY BelowIsWellFounded, WFMin
<1>2. \A x, y \in T : <<y, x>> \in Below <=> y < x
  BY DEF Below
<1>3. \A x, y \in T : x <= y <=> ~(y < x)
  OBVIOUS
<1> QED  BY <1>1, <1>2, <1>3

LEMMA MinIsLeast ==
    ASSUME NEW T \in SUBSET Nat, T # {}
    PROVE  Min(T) \in T /\ \A y \in T : Min(T) <= y
BY LeastExists DEF Min

\* A finite set leaves out one of as many numbers as it has elements, and one more.
LEMMA OneIsLeftOut ==
    ASSUME NEW S, IsFiniteSet(S), NEW a \in Nat, NEW n \in Nat, Cardinality(S) <= n
    PROVE  {k \in a .. a + n : k \notin S} # {}
<1> SUFFICES ASSUME a .. a + n \subseteq S
             PROVE  FALSE
  OBVIOUS
<1>1. Cardinality(a .. a + n) = n + 1
  BY FS_Interval
<1>2. Cardinality(a .. a + n) <= Cardinality(S)
  BY FS_Subset
<1>3. Cardinality(S) \in Nat
  BY FS_CardinalityType
<1> QED  BY <1>1, <1>2, <1>3

LEMMA FirstNodeIsNode ==
    ASSUME NEW ids \in SUBSET StepKeys, NEW place \in [ids -> Nat]
    PROVE  HasEntry(ids, FirstNode(place)) /\ FirstNode(place) \in Nat
<1>1. CASE ids = {}
  BY <1>1 DEF FirstNode, HasEntry, Null
<1>2. CASE ids # {}
  <2>1. {place[k] : k \in ids} \in SUBSET Nat /\ {place[k] : k \in ids} # {}
    BY <1>2
  <2>2. PICK n \in {place[k] : k \in ids} : \A m \in {place[k] : k \in ids} : n <= m
    BY <2>1, LeastExists
  <2>3. FirstNode(place) \in ids
    BY <1>2, <2>2 DEF FirstNode
  <2> QED  BY <1>2, <2>3 DEF HasEntry, StepKeys
<1> QED  BY <1>1, <1>2

LEMMA NextStepKeyIsFree ==
    ASSUME NEW g, IsFiniteSet(Ids(g)), NEW last \in Nat
    PROVE  NextStepKey(g, last) \in StepKeys \ Ids(g)
<1> DEFINE n == Cardinality(Ids(g))
           free == {k \in last + 1 .. last + 1 + n : k \notin Ids(g)}
<1>1. n \in Nat
  BY FS_CardinalityType
<1>2. free # {}
  BY <1>1, OneIsLeftOut
<1>3. free \in SUBSET Nat
  BY <1>1
<1> HIDE DEF n
<1>4. Min(free) \in free
  BY <1>2, <1>3, MinIsLeast
<1> QED  BY <1>1, <1>4 DEF NextStepKey, StepKeys, Null, n
-----------------------------------------------------------------------------
(***************************************************************************)
(* Steps                                                                   *)
(***************************************************************************)
LEMMA StepFacts ==
    ASSUME NEW s \in Steps
    PROVE  /\ s.type \in StepTypes /\ s \in StepsOf(s.type)
           /\ s.fields \in [EdgeFields(s.type) -> Nat]
           /\ s.cases \in Seq(Cases)
<1>1. PICK type \in StepTypes : s \in StepsOf(type)
  BY DEF Steps
<1>2. s.type = type
  BY <1>1 DEF StepsOf
<1>3. CASE type = "switch"
  BY <1>1, <1>2, <1>3 DEF StepsOf
<1>4. CASE type # "switch"
  <2>1. s.cases = <<>> /\ <<>> \in Seq(Cases)
    BY <1>1, <1>4 DEF StepsOf
  <2> QED  BY <1>1, <1>2, <2>1 DEF StepsOf
<1> QED  BY <1>3, <1>4

LEMMA HandlesOf ==
    ASSUME NEW s
    PROVE  Handles(s) = {Field(f) : f \in DOMAIN s.fields} \cup {CaseHandle(k) : k \in CaseKeys(s.cases)}
BY DEF Handles, StepEdges

LEMMA CaseIsNoField ==
    ASSUME NEW type \in StepTypes
    PROVE  "case" \notin EdgeFields(type)
<1>1. CASE type \in {"action", "delay"}
  BY <1>1 DEF EdgeFields
<1>2. CASE type = "branch"
  BY <1>2 DEF EdgeFields
<1>3. CASE type = "wait"
  BY <1>3 DEF EdgeFields
<1>4. CASE type = "approval"
  BY <1>4 DEF EdgeFields
<1>5. CASE type = "switch"
  BY <1>5 DEF EdgeFields
<1>6. CASE type = "stop"
  BY <1>6 DEF EdgeFields
<1> QED  BY <1>1, <1>2, <1>3, <1>4, <1>5, <1>6 DEF StepTypes

LEMMA HandleTypes ==
    ASSUME NEW s \in Steps
    PROVE  Handles(s) \subseteq HandleNames \X Nat
<1>1. DOMAIN s.fields \subseteq HandleNames
  BY StepFacts DEF HandleNames
<1>2. CaseKeys(s.cases) \subseteq Nat
  <2>1. s.cases \in Seq(Cases)
    BY StepFacts
  <2>2. \A i \in DOMAIN s.cases : s.cases[i] \in Cases
    BY <2>1
  <2> QED  BY <2>2 DEF CaseKeys, Cases
<1>3. \A f \in DOMAIN s.fields : Field(f) \in HandleNames \X Nat
  BY <1>1 DEF Field
<1>4. \A k \in CaseKeys(s.cases) : CaseHandle(k) \in HandleNames \X Nat
  BY <1>2 DEF CaseHandle, HandleNames
<1> QED  BY <1>3, <1>4, HandlesOf

\* A step may have its cases replaced by any other list, if it has cases at all.
LEMMA CasesReplaced ==
    ASSUME NEW s \in Steps, s.type = "switch", NEW cases \in Seq(Cases), cases # <<>>
    PROVE  /\ [s EXCEPT !.cases = cases] \in Steps
           /\ Handles([s EXCEPT !.cases = cases]) =
                {Field(f) : f \in DOMAIN s.fields} \cup {CaseHandle(k) : k \in CaseKeys(cases)}
<1>1. [s EXCEPT !.cases = cases] \in StepsOf("switch")
  BY StepFacts DEF StepsOf
<1> QED  BY <1>1, HandlesOf, StepFacts DEF Steps, StepTypes, StepsOf
-----------------------------------------------------------------------------
(***************************************************************************)
(* Graphs                                                                  *)
(***************************************************************************)
EdgesFit(step, edges) ==
    /\ edges \subseteq Edges
    /\ \A e \in edges : /\ {e.source, e.target} \subseteq DOMAIN step
                        /\ e.handle \in Handles(step[e.source])
    /\ \A e, f \in edges : e.source = f.source /\ e.handle = f.handle => e = f

LEMMA EdgesOfSound ==
    ASSUME NEW g \in SoundGraphs
    PROVE  EdgesFit(g.step, g.edges)
BY SoundGraph DEF EdgesFit, GraphIsSound, GraphsOn, Ids

\* A sound graph may be given other steps of the same keys and other edges.
LEMMA Rewired ==
    ASSUME NEW g \in SoundGraphs, NEW step \in [Ids(g) -> Steps], NEW edges,
           EdgesFit(step, edges)
    PROVE  [g EXCEPT !.step = step, !.edges = edges] \in SoundGraphs
<1> DEFINE h == [g EXCEPT !.step = step, !.edges = edges]
<1>1. g \in GraphsOn(Ids(g)) /\ IsFiniteSet(Ids(g)) /\ Ids(g) \subseteq StepKeys
      /\ HasEntry(Ids(g), g.entry)
  BY SoundGraph DEF GraphIsSound
<1>2. Ids(h) = Ids(g) /\ h.step = step /\ h.edges = edges /\ h.entry = g.entry
  BY <1>1 DEF GraphsOn, Ids
<1>3. h \in GraphsOn(Ids(h))
  BY <1>1, <1>2 DEF GraphsOn, EdgesFit
<1>4. GraphIsSound(h)
  <2> HIDE DEF h
  <2> QED  BY <1>1, <1>2 DEF GraphIsSound, EdgesFit, Ids
<1> HIDE DEF h
<1>5. h \in SoundGraphs
  BY <1>1, <1>2, <1>3, <1>4, MakesSoundGraph
<1> QED  BY <1>5 DEF h

LEMMA WithEdges ==
    ASSUME NEW g \in SoundGraphs, NEW edges, EdgesFit(g.step, edges)
    PROVE  [g EXCEPT !.edges = edges] \in SoundGraphs
<1>1. g \in GraphsOn(Ids(g))
  BY SoundGraph
<1>2. g.step \in [Ids(g) -> Steps]
  BY <1>1 DEF GraphsOn
<1>3. [g EXCEPT !.edges = edges] = [g EXCEPT !.step = g.step, !.edges = edges]
  BY <1>1 DEF GraphsOn
<1> QED  BY <1>2, <1>3, Rewired

LEMMA FewerEdges ==
    ASSUME NEW g \in SoundGraphs, NEW edges \in SUBSET g.edges
    PROVE  [g EXCEPT !.edges = edges] \in SoundGraphs
<1>1. EdgesFit(g.step, edges)
  BY EdgesOfSound DEF EdgesFit
<1> QED  BY <1>1, WithEdges

LEMMA WithStep ==
    ASSUME NEW g \in SoundGraphs, NEW id \in Ids(g), NEW s \in Steps,
           \A e \in Out(g, id) : e.handle \in Handles(s)
    PROVE  [g EXCEPT !.step[id] = s] \in SoundGraphs
<1> DEFINE step == [g.step EXCEPT ![id] = s]
<1>1. g \in GraphsOn(Ids(g))
  BY SoundGraph
<1>2. g.step \in [Ids(g) -> Steps] /\ step \in [Ids(g) -> Steps]
  BY <1>1 DEF GraphsOn
<1>3. EdgesFit(step, g.edges)
  <2>1. EdgesFit(g.step, g.edges)
    BY EdgesOfSound
  <2>2. DOMAIN step = DOMAIN g.step
    OBVIOUS
  <2>3. ASSUME NEW e \in g.edges
        PROVE  e.handle \in Handles(step[e.source])
    <3>1. CASE e.source = id
      BY <2>3, <3>1, <1>2 DEF Out
    <3>2. CASE e.source # id
      BY <2>1, <2>3, <3>2, <1>2 DEF EdgesFit
    <3> QED  BY <3>1, <3>2
  <2> QED  BY <2>1, <2>2, <2>3 DEF EdgesFit
<1>4. [g EXCEPT !.step[id] = s] = [g EXCEPT !.step = step, !.edges = g.edges]
  BY <1>1 DEF GraphsOn
<1> QED  BY <1>2, <1>3, <1>4, Rewired

LEMMA ConnectIsSound ==
    ASSUME NEW g \in SoundGraphs, NEW source, NEW handle, NEW target,
           CanConnect(g, source, handle, target)
    PROVE  Connect(g, source, handle, target) \in SoundGraphs
<1> DEFINE new == [source |-> source, handle |-> handle, target |-> target]
           edges == {e \in g.edges : ~(e.source = source /\ e.handle = handle)} \cup {new}
<1>1. source \in Ids(g) /\ target \in Ids(g) /\ handle \in Handles(g.step[source])
  BY DEF CanConnect
<1>2. g \in GraphsOn(Ids(g)) /\ Ids(g) \subseteq StepKeys
  BY SoundGraph
<1>3. handle \in HandleNames \X Nat
  BY <1>1, <1>2, HandleTypes DEF GraphsOn
<1>4. new \in Edges
  BY <1>1, <1>2, <1>3 DEF Edges
<1>5. EdgesFit(g.step, edges)
  BY <1>1, <1>4, EdgesOfSound DEF EdgesFit, Ids
<1>6. Connect(g, source, handle, target) = [g EXCEPT !.edges = edges]
  BY <1>2 DEF Connect, GraphsOn
<1> QED  BY <1>5, <1>6, WithEdges

LEMMA DisconnectIsSound ==
    ASSUME NEW g \in SoundGraphs, NEW edges
    PROVE  Disconnect(g, edges) \in SoundGraphs
<1>1. Disconnect(g, edges) = [g EXCEPT !.edges = g.edges \ edges]
  BY SoundGraph DEF Disconnect, GraphsOn
<1> QED  BY <1>1, FewerEdges

LEMMA DeleteNodesIsSound ==
    ASSUME NEW g \in SoundGraphs, NEW ids
    PROVE  DeleteNodes(g, ids) \in SoundGraphs
<1> DEFINE left == Ids(g) \ ids
           h == DeleteNodes(g, ids)
           place == [k \in left |-> g.place[k]]
<1>1. g \in GraphsOn(Ids(g)) /\ IsFiniteSet(Ids(g)) /\ Ids(g) \subseteq StepKeys
      /\ HasEntry(Ids(g), g.entry)
  BY SoundGraph DEF GraphIsSound
<1>2. /\ h.step = [k \in left |-> g.step[k]] /\ Ids(h) = left
      /\ h.edges = {e \in g.edges : e.source \notin ids /\ e.target \notin ids}
      /\ h.entry = IF g.entry \in ids THEN FirstNode(place) ELSE g.entry
  BY DEF DeleteNodes, Ids
<1>3. left \subseteq StepKeys /\ IsFiniteSet(left)
  BY <1>1, FS_Difference
<1>4. place \in [left -> Nat]
  BY <1>1 DEF GraphsOn
<1>5. HasEntry(left, FirstNode(place)) /\ FirstNode(place) \in Nat
  BY <1>3, <1>4, FirstNodeIsNode
<1>6. HasEntry(left, h.entry) /\ h.entry \in Nat
  <2>1. CASE g.entry \in ids
    BY <1>2, <1>5, <2>1
  <2>2. CASE g.entry \notin ids /\ Ids(g) # {}
    <3>1. g.entry \in left
      BY <1>1, <2>2 DEF HasEntry
    <3> QED  BY <1>2, <1>3, <2>2, <3>1 DEF HasEntry, StepKeys
  <2>3. CASE g.entry \notin ids /\ Ids(g) = {}
    BY <1>1, <1>2, <2>3 DEF HasEntry, Null
  <2> QED  BY <2>1, <2>2, <2>3
<1>7. h \in GraphsOn(left)
  <2>1. h.step \in [left -> Steps]
    BY <1>1, <1>2 DEF GraphsOn
  <2>2. [k \in left |-> g.pos[k]] \in [left -> Positions]
    BY <1>1 DEF GraphsOn
  <2>3. h.edges \subseteq Edges
    BY <1>1, <1>2 DEF GraphsOn
  <2> QED  BY <1>2, <1>4, <1>6, <2>1, <2>2, <2>3 DEF GraphsOn, DeleteNodes
<1>8. EdgesFit(h.step, h.edges)
  BY <1>2, EdgesOfSound DEF EdgesFit, Ids
<1> HIDE DEF h
<1>9. GraphIsSound(h)
  BY <1>2, <1>6, <1>8 DEF GraphIsSound, EdgesFit, Ids
<1>10. h \in SoundGraphs
  BY <1>2, <1>3, <1>7, <1>9, MakesSoundGraph
<1> QED  BY <1>10 DEF h

\* In a finite list of nodes one comes last.
LEMMA LastPlace ==
    ASSUME NEW ids, IsFiniteSet(ids), ids # {}, NEW place \in [ids -> Nat]
    PROVE  Max({place[k] : k \in ids}) \in Nat
<1> DEFINE from(k) == {j \in ids : place[k] <= place[j]}
           T == {from(k) : k \in ids}
<1>1. IsWellFoundedOn(StrictSubsetOrdering(ids), SUBSET ids)
  BY FS_StrictSubsetOrderingWellFounded, FS_FiniteSubsetsOfFinite
<1>2. T \subseteq SUBSET ids /\ T # {}
  <2>1. PICK k \in ids : TRUE
    OBVIOUS
  <2>2. from(k) \in T
    BY <2>1
  <2>3. \A k1 \in ids : from(k1) \subseteq ids
    OBVIOUS
  <2> QED  BY <2>2, <2>3
<1> HIDE DEF T
<1>3. PICK x \in T : \A y \in T : ~ (<<y, x>> \in StrictSubsetOrdering(ids))
  BY <1>1, <1>2, WFMin
<1> USE DEF T
<1>4. PICK k \in ids : x = from(k)
  OBVIOUS
<1>5. \A j \in ids : place[j] <= place[k]
  <2> SUFFICES ASSUME NEW j \in ids, place[k] < place[j]
               PROVE  FALSE
    OBVIOUS
  <2>1. from(j) \subseteq from(k) /\ k \in from(k) /\ k \notin from(j)
    OBVIOUS
  <2>2. <<from(j), from(k)>> \in StrictSubsetOrdering(ids)
    BY <2>1 DEF StrictSubsetOrdering
  <2> QED  BY <1>3, <1>4, <2>2
<1>6. \E m \in {place[j] : j \in ids} : \A n \in {place[j] : j \in ids} : m >= n
  BY <1>5
<1> QED  BY <1>6 DEF Max

LEMMA BlankStepIsStep ==
    ASSUME NEW type \in StepTypes
    PROVE  BlankStep(type) \in Steps
<1>1. BlankCase(1) \in Cases
  BY DEF BlankCase, Cases, Conditions, Null
<1>2. [f \in EdgeFields(type) |-> Null] \in [EdgeFields(type) -> Nat]
  BY DEF Null
<1>3. CASE type = "switch"
  <2>1. <<BlankCase(1)>> \in Seq(Cases) \ {<<>>}
    BY <1>1
  <2>2. BlankStep("switch") \in StepsOf("switch")
    BY <1>2, <1>3, <2>1 DEF BlankStep, StepsOf, Conditions
  <2> QED  BY <1>3, <2>2 DEF Steps
<1>4. CASE type # "switch"
  BY <1>2, <1>4 DEF BlankStep, StepsOf, Steps, Conditions
<1> QED  BY <1>3, <1>4

LEMMA AddNodeIsSound ==
    ASSUME NEW g \in SoundGraphs, NEW id \in StepKeys \ Ids(g), NEW step \in Steps,
           NEW pos \in Positions
    PROVE  AddNode(g, id, step, pos) \in SoundGraphs
<1> DEFINE ids == Ids(g) \cup {id}
           h == AddNode(g, id, step, pos)
           last == IF Ids(g) = {} THEN 1 ELSE 1 + Max({g.place[k] : k \in Ids(g)})
<1>1. g \in GraphsOn(Ids(g)) /\ IsFiniteSet(Ids(g)) /\ Ids(g) \subseteq StepKeys
      /\ HasEntry(Ids(g), g.entry)
  BY SoundGraph DEF GraphIsSound
<1>2. last \in Nat
  <2>1. g.place \in [Ids(g) -> Nat]
    BY <1>1 DEF GraphsOn
  <2> QED  BY <1>1, <2>1, LastPlace
<1>3. /\ h.step = [k \in ids |-> IF k = id THEN step ELSE g.step[k]]
      /\ h.place = [k \in ids |-> IF k = id THEN last ELSE g.place[k]]
      /\ h.pos = [k \in ids |-> IF k = id THEN pos ELSE g.pos[k]]
      /\ h.edges = g.edges /\ h.entry = IF Ids(g) = {} THEN id ELSE g.entry
      /\ h = [step |-> h.step, place |-> h.place, pos |-> h.pos, edges |-> h.edges, entry |-> h.entry]
  <2>1. g = [step |-> g.step, place |-> g.place, pos |-> g.pos, edges |-> g.edges, entry |-> g.entry]
        /\ DOMAIN g.step = Ids(g) /\ DOMAIN g.place = Ids(g) /\ DOMAIN g.pos = Ids(g)
    BY <1>1 DEF GraphsOn
  <2>2. h = [step |-> With(g.step, id, step), place |-> With(g.place, id, last),
             pos |-> With(g.pos, id, pos), edges |-> g.edges,
             entry |-> IF Ids(g) = {} THEN id ELSE g.entry]
    <3>1. h = [g EXCEPT !.step = With(g.step, id, step), !.place = With(g.place, id, last),
                        !.pos = With(g.pos, id, pos), !.entry = IF Ids(g) = {} THEN id ELSE g.entry]
      BY Zenon DEF AddNode
    <3> HIDE DEF h, last
    <3> QED  BY <2>1, <3>1
  <2> HIDE DEF h, last
  <2> QED  BY <2>1, <2>2 DEF With
<1>4. ids \subseteq StepKeys /\ IsFiniteSet(ids)
  BY <1>1, FS_AddElement
<1> HIDE DEF h, last
<1>5. Ids(h) = ids
  BY <1>3 DEF Ids
<1>6. h \in GraphsOn(ids)
  <2>1. h.step \in [ids -> Steps] /\ h.place \in [ids -> Nat] /\ h.pos \in [ids -> Positions]
    BY <1>1, <1>2, <1>3 DEF GraphsOn
  <2>2. h.edges \in SUBSET Edges /\ h.entry \in Nat
    BY <1>1, <1>3 DEF GraphsOn, StepKeys
  <2> QED  BY <1>3, <2>1, <2>2 DEF GraphsOn
<1>7. HasEntry(ids, h.entry)
  BY <1>1, <1>3 DEF HasEntry
<1>8. EdgesFit(h.step, h.edges)
  BY <1>3, EdgesOfSound DEF EdgesFit, Ids
<1>9. GraphIsSound(h)
  BY <1>5, <1>7, <1>8 DEF GraphIsSound, EdgesFit, Ids
<1>10. h \in SoundGraphs
  BY <1>4, <1>5, <1>6, <1>9, MakesSoundGraph
<1> QED  BY <1>10 DEF h

\* Only the positions change.
LEMMA Placed ==
    ASSUME NEW g \in SoundGraphs, NEW pos \in [Ids(g) -> Positions]
    PROVE  [g EXCEPT !.pos = pos] \in SoundGraphs
<1> DEFINE h == [g EXCEPT !.pos = pos]
<1>1. g \in GraphsOn(Ids(g)) /\ IsFiniteSet(Ids(g)) /\ Ids(g) \subseteq StepKeys
      /\ GraphIsSound(g)
  BY SoundGraph
<1>2. h.step = g.step /\ h.edges = g.edges /\ h.entry = g.entry /\ h \in GraphsOn(Ids(g))
  BY <1>1 DEF GraphsOn
<1> HIDE DEF h
<1>3. GraphIsSound(h) /\ Ids(h) = Ids(g)
  BY <1>1, <1>2 DEF GraphIsSound, Ids
<1>4. h \in SoundGraphs
  BY <1>1, <1>2, <1>3, MakesSoundGraph
<1> QED  BY <1>4 DEF h

LEMMA MoveNodeIsSound ==
    ASSUME NEW g \in SoundGraphs, NEW id \in Ids(g)
    PROVE  MoveNode(g, id) \in SoundGraphs
<1>1. g \in GraphsOn(Ids(g))
  BY SoundGraph
<1>2. [g.pos EXCEPT ![id] = "dragged"] \in [Ids(g) -> Positions]
  BY <1>1 DEF GraphsOn, Positions
<1>3. MoveNode(g, id) = [g EXCEPT !.pos = [g.pos EXCEPT ![id] = "dragged"]]
  BY <1>1 DEF MoveNode, GraphsOn
<1> QED  BY <1>2, <1>3, Placed

LEMMA MoveAllIsSound ==
    ASSUME NEW g \in SoundGraphs, NEW ids
    PROVE  MoveAll(g, ids) \in SoundGraphs
<1> DEFINE pos == [id \in Ids(g) |-> IF id \in ids THEN "laid" ELSE g.pos[id]]
<1>1. g \in GraphsOn(Ids(g))
  BY SoundGraph
<1>2. pos \in [Ids(g) -> Positions]
  BY <1>1 DEF GraphsOn, Positions
<1>3. MoveAll(g, ids) = [g EXCEPT !.pos = pos]
  BY <1>1 DEF MoveAll, GraphsOn
<1> QED  BY <1>2, <1>3, Placed
-----------------------------------------------------------------------------

(***************************************************************************)
(* Lists                                                                   *)
(***************************************************************************)
LEMMA RemoveAtProperties ==
    ASSUME NEW S, NEW s \in Seq(S), NEW i \in 1 .. Len(s)
    PROVE  /\ RemoveAt(s, i) \in Seq(S)
           /\ Len(RemoveAt(s, i)) = Len(s) - 1
           /\ \A j \in 1 .. Len(s) - 1 : RemoveAt(s, i)[j] = IF j < i THEN s[j] ELSE s[j + 1]
<1> DEFINE a == SubSeq(s, 1, i - 1)
           b == SubSeq(s, i + 1, Len(s))
<1>1. Len(s) \in Nat /\ \A j \in 1 .. Len(s) : s[j] \in S
  BY LenProperties, ElementOfSeq
<1>2. a \in Seq(S) /\ Len(a) = i - 1 /\ \A j \in 1 .. i - 1 : a[j] = s[j]
  <2>1. \A j \in 1 .. i - 1 : s[j] \in S
    BY <1>1
  <2>2. /\ a \in Seq(S) /\ Len(a) = IF 1 <= i - 1 THEN i - 1 - 1 + 1 ELSE 0
        /\ \A j \in 1 .. i - 1 - 1 + 1 : a[j] = s[1 + j - 1]
    BY <2>1, SubSeqProperties
  <2> QED  BY <2>2
<1>3. b \in Seq(S) /\ Len(b) = Len(s) - i /\ \A j \in 1 .. Len(s) - i : b[j] = s[i + j]
  <2>1. \A j \in i + 1 .. Len(s) : s[j] \in S
    BY <1>1
  <2>2. /\ b \in Seq(S) /\ Len(b) = IF i + 1 <= Len(s) THEN Len(s) - (i + 1) + 1 ELSE 0
        /\ \A j \in 1 .. Len(s) - (i + 1) + 1 : b[j] = s[i + 1 + j - 1]
    BY <1>1, <2>1, SubSeqProperties
  <2> QED  BY <1>1, <2>2
<1> HIDE DEF a, b
<1>4. /\ a \o b \in Seq(S) /\ Len(a \o b) = Len(a) + Len(b)
      /\ \A j \in 1 .. Len(a) + Len(b) : (a \o b)[j] = IF j <= Len(a) THEN a[j] ELSE b[j - Len(a)]
  BY <1>2, <1>3, ConcatProperties
<1>5. RemoveAt(s, i) = a \o b
  BY DEF RemoveAt, a, b
<1>6. Len(a \o b) = Len(s) - 1
  BY <1>1, <1>2, <1>3, <1>4
<1>7. ASSUME NEW j \in 1 .. Len(s) - 1
      PROVE  (a \o b)[j] = IF j < i THEN s[j] ELSE s[j + 1]
  <2>1. (a \o b)[j] = IF j <= i - 1 THEN a[j] ELSE b[j - (i - 1)]
    BY <1>1, <1>2, <1>3, <1>4
  <2>2. CASE j < i
    BY <1>2, <2>1, <2>2
  <2>3. CASE ~(j < i)
    <3>1. j - (i - 1) \in 1 .. Len(s) - i /\ i + (j - (i - 1)) = j + 1
      BY <1>1, <2>3
    <3> QED  BY <1>3, <2>1, <2>3, <3>1
  <2> QED  BY <2>2, <2>3
<1> QED  BY <1>4, <1>5, <1>6, <1>7

LEMMA InsertAtProperties ==
    ASSUME NEW S, NEW s \in Seq(S), NEW i \in 1 .. Len(s) + 1, NEW e \in S
    PROVE  /\ InsertAt(s, i, e) \in Seq(S)
           /\ Len(InsertAt(s, i, e)) = Len(s) + 1
           /\ \A j \in 1 .. Len(s) + 1 : InsertAt(s, i, e)[j] =
                IF j < i THEN s[j] ELSE IF j = i THEN e ELSE s[j - 1]
<1> DEFINE a == SubSeq(s, 1, i - 1)
           b == SubSeq(s, i, Len(s))
           c == Append(a, e)
<1>1. Len(s) \in Nat /\ \A j \in 1 .. Len(s) : s[j] \in S
  BY LenProperties, ElementOfSeq
<1>2. a \in Seq(S) /\ Len(a) = i - 1 /\ \A j \in 1 .. i - 1 : a[j] = s[j]
  <2>1. \A j \in 1 .. i - 1 : s[j] \in S
    BY <1>1
  <2>2. /\ a \in Seq(S) /\ Len(a) = IF 1 <= i - 1 THEN i - 1 - 1 + 1 ELSE 0
        /\ \A j \in 1 .. i - 1 - 1 + 1 : a[j] = s[1 + j - 1]
    BY <2>1, SubSeqProperties
  <2> QED  BY <1>1, <2>2
<1>3. b \in Seq(S) /\ Len(b) = Len(s) - i + 1 /\ \A j \in 1 .. Len(s) - i + 1 : b[j] = s[i + j - 1]
  <2>1. \A j \in i .. Len(s) : s[j] \in S
    BY <1>1
  <2>2. /\ b \in Seq(S) /\ Len(b) = IF i <= Len(s) THEN Len(s) - i + 1 ELSE 0
        /\ \A j \in 1 .. Len(s) - i + 1 : b[j] = s[i + j - 1]
    BY <1>1, <2>1, SubSeqProperties
  <2> QED  BY <1>1, <2>2
<1> HIDE DEF a, b
<1>4. c \in Seq(S) /\ Len(c) = i /\ c[i] = e /\ \A j \in 1 .. i - 1 : c[j] = s[j]
  <2>1. /\ c \in Seq(S) /\ Len(c) = Len(a) + 1
        /\ \A j \in 1 .. Len(a) : c[j] = a[j]
        /\ c[Len(a) + 1] = e
    BY <1>2, AppendProperties
  <2>2. Len(a) + 1 = i /\ Len(a) = i - 1
    BY <1>1, <1>2
  <2> QED  BY <1>2, <2>1, <2>2
<1>5. InsertAt(s, i, e) = c \o b
  <2>1. c = a \o <<e>>
    BY <1>2, AppendIsConcat
  <2> QED  BY <2>1 DEF InsertAt, a, b
<1> HIDE DEF c
<1>6. /\ c \o b \in Seq(S) /\ Len(c \o b) = Len(c) + Len(b)
      /\ \A j \in 1 .. Len(c) + Len(b) : (c \o b)[j] = IF j <= Len(c) THEN c[j] ELSE b[j - Len(c)]
  BY <1>3, <1>4, ConcatProperties
<1>7. Len(c \o b) = Len(s) + 1
  BY <1>1, <1>3, <1>4, <1>6
<1>8. ASSUME NEW j \in 1 .. Len(s) + 1
      PROVE  (c \o b)[j] = IF j < i THEN s[j] ELSE IF j = i THEN e ELSE s[j - 1]
  <2>1. (c \o b)[j] = IF j <= i THEN c[j] ELSE b[j - i]
    BY <1>1, <1>3, <1>4, <1>6
  <2>2. CASE j < i
    BY <1>4, <2>1, <2>2
  <2>3. CASE j = i
    BY <1>4, <2>1, <2>3
  <2>4. CASE j > i
    <3>1. j - i \in 1 .. Len(s) - i + 1 /\ i + (j - i) - 1 = j - 1
      BY <1>1, <2>4
    <3>2. b[j - i] = s[i + (j - i) - 1]
      BY <1>3, <3>1
    <3>3. (c \o b)[j] = s[j - 1]
      BY <2>1, <2>4, <3>1, <3>2
    <3> QED  BY <1>1, <2>4, <3>3
  <2>5. i \in Nat /\ j \in Nat
    BY <1>1
  <2>6. j < i \/ j = i \/ j > i
    BY <2>5
  <2> QED  BY <2>2, <2>3, <2>4, <2>6
<1> QED  BY <1>5, <1>6, <1>7, <1>8

\* Moving an element loses none.
Moved(s, i, to) == InsertAt(RemoveAt(s, i), to, s[i])

LEMMA MovedProperties ==
    ASSUME NEW S, NEW s \in Seq(S), NEW i \in 1 .. Len(s), NEW to \in 1 .. Len(s)
    PROVE  /\ Moved(s, i, to) \in Seq(S) /\ Len(Moved(s, i, to)) = Len(s)
           /\ \A j \in 1 .. Len(s) : \E k \in 1 .. Len(s) : Moved(s, i, to)[k] = s[j]
<1> DEFINE moved == Moved(s, i, to)
           rest == RemoveAt(s, i)
<1>1. Len(s) \in Nat /\ s[i] \in S
  BY LenProperties, ElementOfSeq
<1>2. /\ rest \in Seq(S) /\ Len(rest) = Len(s) - 1
      /\ \A j \in 1 .. Len(s) - 1 : rest[j] = IF j < i THEN s[j] ELSE s[j + 1]
  BY RemoveAtProperties
<1>3. moved = InsertAt(rest, to, s[i])
  BY DEF Moved
<1> HIDE DEF rest, moved
<1>4. to \in 1 .. Len(rest) + 1 /\ Len(rest) + 1 = Len(s)
  BY <1>1, <1>2
<1>5. /\ moved \in Seq(S) /\ Len(moved) = Len(rest) + 1
      /\ \A j \in 1 .. Len(rest) + 1 : moved[j] =
           IF j < to THEN rest[j] ELSE IF j = to THEN s[i] ELSE rest[j - 1]
  <2>1. PICK e \in S : e = s[i]
    BY <1>1
  <2>2. rest \in Seq(S)
    BY <1>2
  <2>3. /\ InsertAt(rest, to, e) \in Seq(S) /\ Len(InsertAt(rest, to, e)) = Len(rest) + 1
        /\ \A j \in 1 .. Len(rest) + 1 : InsertAt(rest, to, e)[j] =
             IF j < to THEN rest[j] ELSE IF j = to THEN e ELSE rest[j - 1]
    BY <1>4, <2>2, InsertAtProperties
  <2> QED  BY <1>3, <2>1, <2>3
<1>6. ASSUME NEW j \in 1 .. Len(s)
      PROVE  \E k \in 1 .. Len(s) : moved[k] = s[j]
  <2>1. CASE j = i
    <3>1. moved[to] = s[i]
      BY <1>4, <1>5
    <3> QED  BY <2>1, <3>1
  <2>2. CASE j # i
    <3> DEFINE r == IF j < i THEN j ELSE j - 1
               k == IF r < to THEN r ELSE r + 1
    <3>1. r \in 1 .. Len(s) - 1 /\ rest[r] = s[j]
      <4>1. CASE j < i
        BY <1>1, <1>2, <4>1
      <4>2. CASE j > i
        <5>1. j - 1 \in 1 .. Len(s) - 1 /\ ~(j - 1 < i) /\ j - 1 + 1 = j
          BY <1>1, <4>2
        <5>2. rest[j - 1] = s[j - 1 + 1]
          BY <1>2, <5>1
        <5> QED  BY <4>2, <5>1, <5>2
      <4> QED  BY <1>1, <2>2, <4>1, <4>2
    <3> HIDE DEF r
    <3>2. k \in 1 .. Len(s) /\ k \in 1 .. Len(rest) + 1
      BY <1>1, <1>4, <3>1
    <3>3. moved[k] = rest[r]
      <4>1. CASE r < to
        BY <1>5, <3>2, <4>1
      <4>2. CASE ~(r < to)
        <5>1. k = r + 1 /\ ~(k < to) /\ k # to /\ k - 1 = r
          BY <1>1, <3>1, <4>2
        <5>2. moved[k] = rest[k - 1]
          BY <1>5, <3>2, <5>1
        <5> QED  BY <5>1, <5>2
      <4> QED  BY <4>1, <4>2
    <3> QED  BY <3>1, <3>2, <3>3
  <2> QED  BY <2>1, <2>2
<1> QED  BY <1>4, <1>5, <1>6 DEF moved

\* The index SelectInSeq finds, for one test: the key is the one looked for.
LEMMA FoundByKey ==
    ASSUME NEW cases \in Seq(Cases), NEW key,
           NEW i, i = SelectInSeq(cases, LAMBDA c : c.key = key)
    PROVE  i = 0 \/ (i \in DOMAIN cases /\ cases[i].key = key)
<1> DEFINE T == {j \in 1 .. Len(cases) : cases[j].key = key}
<1>1. i = IF T # {} THEN Min(T) ELSE 0
  BY DEF SelectInSeq
<1>2. T \in SUBSET Nat /\ DOMAIN cases = 1 .. Len(cases)
  BY LenProperties
<1>3. CASE T # {}
  <2>1. Min(T) \in T
    BY <1>2, <1>3, MinIsLeast
  <2> QED  BY <1>1, <1>2, <1>3, <2>1
<1> QED  BY <1>1, <1>3
-----------------------------------------------------------------------------
(***************************************************************************)
(* The cases of a switch step                                              *)
(***************************************************************************)
LEMMA KeysOfCases ==
    ASSUME NEW cases \in Seq(Cases)
    PROVE  /\ IsFiniteSet(CaseKeys(cases)) /\ Cardinality(CaseKeys(cases)) <= Len(cases)
           /\ CaseKeys(cases) \subseteq Nat
<1> DEFINE f == [j \in 1 .. Len(cases) |-> cases[j].key]
<1>1. Len(cases) \in Nat /\ DOMAIN cases = 1 .. Len(cases) /\ \A j \in 1 .. Len(cases) : cases[j] \in Cases
  BY LenProperties, ElementOfSeq
<1>2. f \in Surjection(1 .. Len(cases), CaseKeys(cases))
  BY <1>1, Fun_IsSurj DEF CaseKeys
<1>3. IsFiniteSet(1 .. Len(cases)) /\ Cardinality(1 .. Len(cases)) = Len(cases)
  <2>1. /\ IsFiniteSet(1 .. Len(cases))
        /\ Cardinality(1 .. Len(cases)) = IF 1 > Len(cases) THEN 0 ELSE Len(cases) - 1 + 1
    BY <1>1, FS_Interval
  <2> QED  BY <1>1, <2>1
<1>4. IsFiniteSet(CaseKeys(cases)) /\ Cardinality(CaseKeys(cases)) <= Len(cases)
  BY <1>2, <1>3, FS_Surjection
<1> QED  BY <1>1, <1>4 DEF CaseKeys, Cases

\* A new case gets a key that no case has.
LEMMA NextCaseKeyIsFree ==
    ASSUME NEW cases \in Seq(Cases)
    PROVE  NextCaseKey(cases) \in Nat \ CaseKeys(cases)
<1> DEFINE n == Len(cases)
           free == {k \in n + 1 .. 2 * n + 1 : k \notin CaseKeys(cases)}
<1>1. n \in Nat
  BY LenProperties
<1>2. {k \in n + 1 .. n + 1 + n : k \notin CaseKeys(cases)} # {}
  BY <1>1, KeysOfCases, OneIsLeftOut
<1>3. 2 * n + 1 = n + 1 + n
  BY <1>1
<1>4. free # {} /\ free \in SUBSET Nat
  BY <1>1, <1>2, <1>3
<1>5. Min(free) \in free
  BY <1>4, MinIsLeast
<1> QED  BY <1>4, <1>5 DEF NextCaseKey

\* A switch of a sound graph, and what it keeps when its cases are replaced.
LEMMA SwitchFacts ==
    ASSUME NEW g \in SoundGraphs, NEW id \in Ids(g)
    PROVE  g.step[id] \in Steps /\ g.step[id].cases \in Seq(Cases)
BY SoundGraph, StepFacts DEF GraphsOn

LEMMA WithCasesIs ==
    ASSUME NEW g \in SoundGraphs, NEW id \in Ids(g), NEW cases
    PROVE  WithCases(g, id, cases) = [g EXCEPT !.step[id] = [g.step[id] EXCEPT !.cases = cases]]
BY SoundGraph DEF GraphsOn, WithCases

LEMMA WithCasesIsSound ==
    ASSUME NEW g \in SoundGraphs, NEW id \in Ids(g), g.step[id].type = "switch",
           NEW cases \in Seq(Cases), cases # <<>>,
           CaseKeys(g.step[id].cases) \subseteq CaseKeys(cases)
    PROVE  WithCases(g, id, cases) \in SoundGraphs
<1> DEFINE s == g.step[id]
           t == [s EXCEPT !.cases = cases]
<1>1. s \in Steps
  BY SwitchFacts
<1>2. t \in Steps
      /\ Handles(t) = {Field(f) : f \in DOMAIN s.fields} \cup {CaseHandle(k) : k \in CaseKeys(cases)}
  BY <1>1, CasesReplaced
<1>3. Handles(s) \subseteq Handles(t)
  BY <1>2, HandlesOf
<1>4. \A e \in Out(g, id) : e.handle \in Handles(s)
  BY EdgesOfSound DEF EdgesFit, Out
<1> HIDE DEF t
<1>5. [g EXCEPT !.step[id] = t] \in SoundGraphs
  BY <1>2, <1>3, <1>4, WithStep
<1> QED  BY <1>5, WithCasesIs DEF t

LEMMA AddCaseIsSound ==
    ASSUME NEW g \in SoundGraphs, NEW id \in Ids(g), g.step[id].type = "switch"
    PROVE  AddCase(g, id) \in SoundGraphs
<1> DEFINE cases == g.step[id].cases
           new == BlankCase(NextCaseKey(cases))
<1>1. cases \in Seq(Cases)
  BY SwitchFacts
<1>2. new \in Cases
  BY <1>1, NextCaseKeyIsFree DEF BlankCase, Cases, Conditions, Null
<1> HIDE DEF new
<1>3. /\ Append(cases, new) \in Seq(Cases) /\ Append(cases, new) # <<>>
      /\ Len(Append(cases, new)) = Len(cases) + 1
      /\ \A i \in 1 .. Len(cases) : Append(cases, new)[i] = cases[i]
  BY <1>1, <1>2, AppendProperties
<1>4. Len(cases) \in Nat /\ DOMAIN cases = 1 .. Len(cases)
      /\ DOMAIN Append(cases, new) = 1 .. Len(cases) + 1
  BY <1>1, <1>3, LenProperties
<1>5. CaseKeys(cases) \subseteq CaseKeys(Append(cases, new))
  BY <1>3, <1>4 DEF CaseKeys
<1>6. WithCases(g, id, Append(cases, new)) \in SoundGraphs
  BY <1>3, <1>5, WithCasesIsSound
<1> QED  BY <1>6 DEF AddCase, new

LEMMA MoveCaseIsSound ==
    ASSUME NEW g \in SoundGraphs, NEW id \in Ids(g), g.step[id].type = "switch",
           NEW i \in Int, NEW delta \in Int
    PROVE  MoveCase(g, id, i, delta) \in SoundGraphs
<1> DEFINE cases == g.step[id].cases
           to == i + delta
           moved == Moved(cases, i, to)
<1>1. cases \in Seq(Cases) /\ Len(cases) \in Nat /\ DOMAIN cases = 1 .. Len(cases)
  BY SwitchFacts, LenProperties
<1>2. CASE ~({i, to} \subseteq DOMAIN cases)
  BY <1>2 DEF MoveCase
<1>3. CASE {i, to} \subseteq DOMAIN cases
  <2>1. i \in 1 .. Len(cases) /\ to \in 1 .. Len(cases)
    BY <1>1, <1>3
  <2>2. /\ moved \in Seq(Cases) /\ Len(moved) = Len(cases)
        /\ \A j \in 1 .. Len(cases) : \E k \in 1 .. Len(cases) : moved[k] = cases[j]
    <3> HIDE DEF cases, to
    <3> QED  BY <1>1, <2>1, MovedProperties
  <2>3. MoveCase(g, id, i, delta) = WithCases(g, id, moved)
    BY <1>3 DEF MoveCase, Moved
  <2> HIDE DEF moved
  <2>4. DOMAIN moved = 1 .. Len(cases) /\ moved # <<>>
    <3>1. DOMAIN moved = 1 .. Len(moved)
      BY <2>2, LenProperties
    <3>2. Len(moved) # 0
      BY <1>1, <2>1, <2>2
    <3> QED  BY <2>2, <3>1, <3>2
  <2>5. CaseKeys(cases) \subseteq CaseKeys(moved)
    <3> HIDE DEF cases
    <3>1. \A j \in 1 .. Len(cases) : cases[j].key \in {moved[k].key : k \in 1 .. Len(cases)}
      BY <2>2
    <3> QED  BY <1>1, <2>4, <3>1 DEF CaseKeys
  <2> QED  BY <2>2, <2>3, <2>4, <2>5, WithCasesIsSound
<1> QED  BY <1>2, <1>3

\* Other cases and other edges at once.
LEMMA CasesAndEdges ==
    ASSUME NEW g \in SoundGraphs, NEW id \in Ids(g), g.step[id].type = "switch",
           NEW cases \in Seq(Cases), cases # <<>>, NEW edges \in SUBSET Edges,
           \A e \in edges : /\ {e.source, e.target} \subseteq Ids(g)
                            /\ e.source # id => e \in g.edges
                            /\ e.source = id =>
                                 \/ e.handle \in {Field(f) : f \in DOMAIN g.step[id].fields}
                                 \/ e.handle \in {CaseHandle(k) : k \in CaseKeys(cases)},
           \A e, f \in edges : e.source = f.source /\ e.handle = f.handle => e = f
    PROVE  [WithCases(g, id, cases) EXCEPT !.edges = edges] \in SoundGraphs
<1> DEFINE s == g.step[id]
           t == [s EXCEPT !.cases = cases]
           step == [g.step EXCEPT ![id] = t]
<1>1. g \in GraphsOn(Ids(g)) /\ s \in Steps
  BY SoundGraph, SwitchFacts
<1>2. t \in Steps
      /\ Handles(t) = {Field(f) : f \in DOMAIN s.fields} \cup {CaseHandle(k) : k \in CaseKeys(cases)}
  BY <1>1, CasesReplaced
<1> HIDE DEF t
<1>3. step \in [Ids(g) -> Steps] /\ DOMAIN step = Ids(g)
  BY <1>1, <1>2 DEF GraphsOn
<1>4. ASSUME NEW e \in edges
      PROVE  e.handle \in Handles(step[e.source])
  <2>1. CASE e.source = id
    BY <1>2, <1>3, <2>1
  <2>2. CASE e.source # id
    <3>1. e.handle \in Handles(g.step[e.source]) /\ e.source \in Ids(g)
      BY <2>2, EdgesOfSound DEF EdgesFit
    <3>2. step[e.source] = g.step[e.source]
      BY <1>1, <2>2, <3>1 DEF GraphsOn
    <3> QED  BY <3>1, <3>2
  <2> QED  BY <2>1, <2>2
<1>5. EdgesFit(step, edges)
  BY <1>3, <1>4 DEF EdgesFit
<1>6. [g EXCEPT !.step = step, !.edges = edges] \in SoundGraphs
  BY <1>3, <1>5, Rewired
<1>7. [WithCases(g, id, cases) EXCEPT !.edges = edges] = [g EXCEPT !.step = step, !.edges = edges]
  <2>1. WithCases(g, id, cases) = [g EXCEPT !.step = step]
    BY <1>1, WithCasesIs DEF GraphsOn, t
  <2> HIDE DEF step
  <2> QED  BY <1>1, <2>1 DEF GraphsOn
<1> QED  BY <1>6, <1>7

\* An edge that leaves a step of a sound graph leaves a field or a case of it.
LEMMA EdgeOfStep ==
    ASSUME NEW g \in SoundGraphs, NEW e \in g.edges
    PROVE  /\ e \in Edges /\ {e.source, e.target} \subseteq Ids(g)
           /\ \/ e.handle \in {Field(f) : f \in DOMAIN g.step[e.source].fields}
              \/ e.handle \in {CaseHandle(k) : k \in CaseKeys(g.step[e.source].cases)}
BY EdgesOfSound, HandlesOf DEF EdgesFit, Ids

LEMMA EdgeIsUnique ==
    ASSUME NEW g \in SoundGraphs
    PROVE  \A e, f \in g.edges : e.source = f.source /\ e.handle = f.handle => e = f
BY EdgesOfSound DEF EdgesFit

LEMMA WithCasesKeepsEdges ==
    ASSUME NEW g \in SoundGraphs, NEW id, NEW cases
    PROVE  WithCases(g, id, cases).edges = g.edges
BY SoundGraph DEF GraphsOn, WithCases

LEMMA RemoveCaseIsSound ==
    ASSUME NEW g \in SoundGraphs, NEW id \in Ids(g), g.step[id].type = "switch",
           NEW i, CaseRemovable(g, id, i)
    PROVE  RemoveCase(g, id, i) \in SoundGraphs
<1> DEFINE cases == g.step[id].cases
           gone == CaseHandle(cases[i].key)
           rest == RemoveAt(cases, i)
           edges == {e \in g.edges : ~(e.source = id /\ e.handle = gone)}
<1>1. cases \in Seq(Cases) /\ Len(cases) \in Nat /\ DOMAIN cases = 1 .. Len(cases)
  BY SwitchFacts, LenProperties
<1>2. i \in 1 .. Len(cases) /\ Len(cases) > 1
  BY <1>1 DEF CaseRemovable
<1>3. /\ rest \in Seq(Cases) /\ Len(rest) = Len(cases) - 1
      /\ \A j \in 1 .. Len(cases) - 1 : rest[j] = IF j < i THEN cases[j] ELSE cases[j + 1]
  <2> HIDE DEF cases
  <2> QED  BY <1>1, <1>2, RemoveAtProperties
<1> HIDE DEF rest
<1>4. rest # <<>> /\ DOMAIN rest = 1 .. Len(cases) - 1
  BY <1>1, <1>2, <1>3, LenProperties
<1>5. ASSUME NEW j \in 1 .. Len(cases), cases[j].key # cases[i].key
      PROVE  cases[j].key \in CaseKeys(rest)
  <2>1. CASE j < i
    <3>1. j \in 1 .. Len(cases) - 1 /\ rest[j] = cases[j]
      BY <1>1, <1>2, <1>3, <2>1
    <3> QED  BY <1>4, <3>1 DEF CaseKeys
  <2>2. CASE j > i
    <3>1. j - 1 \in 1 .. Len(cases) - 1 /\ ~(j - 1 < i) /\ j - 1 + 1 = j
      BY <1>1, <1>2, <2>2
    <3>2. rest[j - 1] = cases[j]
      BY <1>3, <3>1
    <3> QED  BY <1>4, <3>1, <3>2 DEF CaseKeys
  <2>3. j # i
    BY <1>5
  <2> QED  BY <1>1, <1>2, <2>1, <2>2, <2>3
<1>6. edges \in SUBSET Edges /\ \A e, f \in edges : e.source = f.source /\ e.handle = f.handle => e = f
  BY EdgeOfStep, EdgeIsUnique
<1>7. ASSUME NEW e \in edges
      PROVE  /\ {e.source, e.target} \subseteq Ids(g)
             /\ e.source # id => e \in g.edges
             /\ e.source = id =>
                  \/ e.handle \in {Field(f) : f \in DOMAIN g.step[id].fields}
                  \/ e.handle \in {CaseHandle(k) : k \in CaseKeys(rest)}
  <2>1. {e.source, e.target} \subseteq Ids(g)
    BY EdgeOfStep
  <2>2. ASSUME e.source = id, NEW k \in CaseKeys(cases), e.handle = CaseHandle(k)
        PROVE  k \in CaseKeys(rest)
    <3>1. PICK j \in 1 .. Len(cases) : k = cases[j].key
      BY <1>1 DEF CaseKeys
    <3>2. k # cases[i].key
      BY <2>2
    <3> QED  BY <1>5, <3>1, <3>2
  <2>3. e.source = id =>
            \/ e.handle \in {Field(f) : f \in DOMAIN g.step[id].fields}
            \/ e.handle \in {CaseHandle(k) : k \in CaseKeys(cases)}
    BY EdgeOfStep
  <2> HIDE DEF cases
  <2> QED  BY <2>1, <2>2, <2>3
<1> HIDE DEF edges
<1>8. [WithCases(g, id, rest) EXCEPT !.edges = edges] \in SoundGraphs
  BY <1>3, <1>4, <1>6, <1>7, CasesAndEdges
<1>9. RemoveCase(g, id, i) = [WithCases(g, id, rest) EXCEPT !.edges = edges]
  BY WithCasesKeepsEdges DEF RemoveCase, rest, edges
<1> QED  BY <1>8, <1>9

LEMMA RenameCaseIsSound ==
    ASSUME NEW g \in SoundGraphs, NEW id \in Ids(g), g.step[id].type = "switch",
           NEW i \in DOMAIN g.step[id].cases, NEW key \in Nat, KeyAccepted(g, id, i, key)
    PROVE  RenameCase(g, id, i, key) \in SoundGraphs
<1> DEFINE cases == g.step[id].cases
           old == cases[i].key
           named == [cases EXCEPT ![i].key = key]
           edges == Rehandle(g.edges, id, old, key)
           follow(e) == IF e.source = id /\ e.handle = CaseHandle(old)
                        THEN [e EXCEPT !.handle = CaseHandle(key)] ELSE e
<1>1. cases \in Seq(Cases) /\ Len(cases) \in Nat /\ DOMAIN cases = 1 .. Len(cases)
      /\ i \in 1 .. Len(cases) /\ cases[i] \in Cases
  BY SwitchFacts, LenProperties, ElementOfSeq
<1>2. \A j \in DOMAIN cases \ {i} : cases[j].key # key
  BY DEF KeyAccepted
<1>3. /\ named \in Seq(Cases) /\ named # <<>> /\ DOMAIN named = DOMAIN cases
      /\ named[i].key = key /\ \A j \in DOMAIN cases \ {i} : named[j] = cases[j]
  <2> DEFINE c == [cases[i] EXCEPT !.key = key]
  <2>1. c \in Cases /\ c.key = key
    BY <1>1 DEF Cases
  <2>2. named = [cases EXCEPT ![i] = c]
    OBVIOUS
  <2> HIDE DEF c, named, cases
  <2>3. named \in Seq(Cases) /\ Len(named) = Len(cases)
        /\ \A j \in 1 .. Len(cases) : named[j] = IF j = i THEN c ELSE cases[j]
    BY <1>1, <2>1, <2>2, ExceptSeq
  <2>4. DOMAIN named = DOMAIN cases
    BY <1>1, <2>3, LenProperties
  <2>5. named # <<>>
    BY <1>1, <2>3
  <2> QED  BY <1>1, <2>1, <2>3, <2>4, <2>5
<1> HIDE DEF named
<1>4. edges = {follow(e) : e \in g.edges}
  BY DEF Rehandle
<1>5. ASSUME NEW e \in g.edges
      PROVE  /\ follow(e) \in Edges /\ follow(e).source = e.source /\ follow(e).target = e.target
             /\ follow(e).handle = IF e.source = id /\ e.handle = CaseHandle(old)
                                   THEN CaseHandle(key) ELSE e.handle
  <2>1. e \in Edges
    BY EdgeOfStep
  <2>2. CaseHandle(key) \in HandleNames \X Nat
    BY DEF CaseHandle, HandleNames
  <2> QED  BY <2>1, <2>2 DEF Edges
<1>6. ASSUME NEW e \in g.edges, e.source = id, e.handle # CaseHandle(old)
      PROVE  e.handle # CaseHandle(key) /\
                \/ e.handle \in {Field(f) : f \in DOMAIN g.step[id].fields}
                \/ e.handle \in {CaseHandle(k) : k \in CaseKeys(named)}
  <2>1. CASE e.handle \in {Field(f) : f \in DOMAIN g.step[id].fields}
    <3>1. PICK f \in DOMAIN g.step[id].fields : e.handle = Field(f)
      BY <2>1
    <3>2. f # "case"
      BY SwitchFacts, StepFacts, CaseIsNoField
    <3> QED  BY <2>1, <3>1, <3>2 DEF Field, CaseHandle
  <2>2. CASE e.handle \in {CaseHandle(k) : k \in CaseKeys(cases)}
    <3>1. PICK j \in DOMAIN cases : e.handle = CaseHandle(cases[j].key)
      BY <2>2 DEF CaseKeys
    <3>2. j # i
      BY <1>6, <3>1
    <3>3. cases[j].key # key /\ cases[j].key \in CaseKeys(named)
      BY <1>2, <1>3, <3>2 DEF CaseKeys
    <3> HIDE DEF cases
    <3> QED  BY <3>1, <3>3 DEF CaseHandle
  <2> QED  BY <1>6, <2>1, <2>2, EdgeOfStep
<1>7. CaseHandle(key) \in {CaseHandle(k) : k \in CaseKeys(named)}
  BY <1>3 DEF CaseKeys
<1> HIDE DEF follow
<1>8. edges \in SUBSET Edges
  BY <1>4, <1>5
<1>9. ASSUME NEW e1 \in edges, NEW f1 \in edges, e1.source = f1.source, e1.handle = f1.handle
      PROVE  e1 = f1
  <2>1. PICK e \in g.edges : e1 = follow(e)
    BY <1>4
  <2>2. PICK f \in g.edges : f1 = follow(f)
    BY <1>4
  <2>3. e.source = f.source /\ follow(e).handle = follow(f).handle
    BY <1>5, <1>9, <2>1, <2>2
  <2>4. e.handle = f.handle
    <3>1. CASE e.source # id
      BY <1>5, <2>3, <3>1
    <3>2. CASE e.source = id /\ e.handle = CaseHandle(old) /\ f.handle # CaseHandle(old)
      BY <1>5, <1>6, <2>3, <3>2
    <3>3. CASE e.source = id /\ e.handle # CaseHandle(old) /\ f.handle = CaseHandle(old)
      BY <1>5, <1>6, <2>3, <3>3
    <3>4. CASE e.source = id /\ e.handle # CaseHandle(old) /\ f.handle # CaseHandle(old)
      BY <1>5, <2>3, <3>4
    <3> QED  BY <3>1, <3>2, <3>3, <3>4
  <2> QED  BY <2>1, <2>2, <2>3, <2>4, EdgeIsUnique
<1>10. ASSUME NEW e1 \in edges
       PROVE  /\ {e1.source, e1.target} \subseteq Ids(g)
              /\ e1.source # id => e1 \in g.edges
              /\ e1.source = id =>
                   \/ e1.handle \in {Field(f) : f \in DOMAIN g.step[id].fields}
                   \/ e1.handle \in {CaseHandle(k) : k \in CaseKeys(named)}
  <2>1. PICK e \in g.edges : e1 = follow(e)
    BY <1>4
  <2>2. {e1.source, e1.target} \subseteq Ids(g)
    BY <1>5, <2>1, EdgeOfStep
  <2>3. e.source # id => e1 = e
    BY <2>1 DEF follow
  <2>4. e1.source = id =>
           \/ e1.handle \in {Field(f) : f \in DOMAIN g.step[id].fields}
           \/ e1.handle \in {CaseHandle(k) : k \in CaseKeys(named)}
    BY <1>5, <1>6, <1>7, <2>1
  <2>5. e1.source = e.source
    BY <1>5, <2>1
  <2> QED  BY <2>2, <2>3, <2>4, <2>5
<1> HIDE DEF edges
<1>11. [WithCases(g, id, named) EXCEPT !.edges = edges] \in SoundGraphs
  BY <1>3, <1>8, <1>9, <1>10, CasesAndEdges
<1>12. RenameCase(g, id, i, key) = [WithCases(g, id, named) EXCEPT !.edges = edges]
  BY WithCasesKeepsEdges DEF RenameCase, named, edges
<1> QED  BY <1>11, <1>12
-----------------------------------------------------------------------------
(***************************************************************************)
(* Filling in a step, and writing conditions                               *)
(***************************************************************************)
LEMMA ReplaceIsSound ==
    ASSUME NEW g \in SoundGraphs, NEW id \in Ids(g), NEW s \in Steps,
           Handles(g.step[id]) \subseteq Handles(s)
    PROVE  ReplaceStep(g, id, s) \in SoundGraphs
<1>1. \A e \in Out(g, id) : e.handle \in Handles(g.step[id])
  BY EdgesOfSound DEF EdgesFit, Out
<1> QED  BY <1>1, WithStep DEF ReplaceStep

LEMMA FilledIsSound ==
    ASSUME NEW g \in SoundGraphs, NEW id \in Ids(g), NEW filled \in BOOLEAN
    PROVE  ReplaceStep(g, id, [g.step[id] EXCEPT !.filled = filled]) \in SoundGraphs
<1> DEFINE s == g.step[id]
           t == [s EXCEPT !.filled = filled]
<1>1. s \in Steps
  BY SwitchFacts
<1>2. PICK type \in StepTypes : s \in StepsOf(type)
  BY <1>1 DEF Steps
<1> HIDE DEF s
<1>3. t \in StepsOf(type) /\ t.fields = s.fields /\ t.cases = s.cases
  BY <1>2 DEF StepsOf
<1>4. t \in Steps /\ Handles(t) = Handles(s)
  BY <1>2, <1>3, HandlesOf DEF Steps
<1> HIDE DEF t
<1>5. ReplaceStep(g, id, t) \in SoundGraphs
  BY <1>4, ReplaceIsSound DEF s
<1> QED  BY <1>5 DEF t, s

\* The case conditions are written to has the key they were opened on.
LEMMA CaseIndexFits ==
    ASSUME NEW cases \in Seq(Cases), NEW target
    PROVE  LET i == CaseIndex(cases, target)
           IN  i = 0 \/ (i \in DOMAIN cases /\ cases[i].key = target.key)
<1> DEFINE found == SelectInSeq(cases, LAMBDA c : c.key = target.key)
<1>1. found = 0 \/ (found \in DOMAIN cases /\ cases[found].key = target.key)
  BY FoundByKey
<1> HIDE DEF found
<1>2. CaseIndex(cases, target) =
        IF target.index \in DOMAIN cases /\ cases[target.index].key = target.key
        THEN target.index ELSE found
  BY DEF CaseIndex, found
<1> QED  BY <1>1, <1>2

\* What an accepted tree makes of a step: the same step with other conditions, and only
\* the case with the target's key among them.
LEMMA WrittenStep ==
    ASSUME NEW s \in Steps, NEW target, NEW tree \in Conditions, NEW revalidate \in Revalidates
    PROVE  LET t == ApplyConditions(s, target, tree, revalidate)
           IN  /\ t \in Steps /\ Handles(t) = Handles(s)
               /\ DOMAIN t.cases = DOMAIN s.cases
               /\ \A j \in DOMAIN s.cases : s.cases[j].key # target.key => t.cases[j] = s.cases[j]
<1> DEFINE i == CaseIndex(s.cases, target)
           caseWritten == [s EXCEPT !.cases[i].conditions = tree]
           stepWritten == [s EXCEPT !.conditions = tree]
           Kin(t) == /\ t \in StepsOf(s.type) /\ t.fields = s.fields /\ t.type = s.type
                     /\ t.revalidate = s.revalidate
                     /\ DOMAIN t.cases = DOMAIN s.cases
                     /\ \A j \in DOMAIN s.cases : t.cases[j].key = s.cases[j].key
                     /\ \A j \in DOMAIN s.cases :
                          s.cases[j].key # target.key => t.cases[j] = s.cases[j]
<1>1. s.type \in StepTypes /\ s \in StepsOf(s.type) /\ s.cases \in Seq(Cases)
  BY StepFacts
<1>2. i = 0 \/ (i \in DOMAIN s.cases /\ s.cases[i].key = target.key)
  BY <1>1, CaseIndexFits
<1> HIDE DEF i
<1>3. Kin(s)
  BY <1>1
<1>4. Kin(stepWritten)
  BY <1>1 DEF StepsOf
<1>5. ASSUME i > 0, i # 0
      PROVE  Kin(caseWritten)
  <2> DEFINE c == [s.cases[i] EXCEPT !.conditions = tree]
             cases == [s.cases EXCEPT ![i] = c]
  <2>1. i \in 1 .. Len(s.cases) /\ DOMAIN s.cases = 1 .. Len(s.cases) /\ s.cases[i] \in Cases
    BY <1>1, <1>2, <1>5, LenProperties, ElementOfSeq
  <2>2. c \in Cases /\ c.key = s.cases[i].key
    BY <2>1 DEF Cases
  <2> HIDE DEF c
  <2>3. /\ cases \in Seq(Cases) /\ Len(cases) = Len(s.cases)
        /\ \A j \in 1 .. Len(s.cases) : cases[j] = IF j = i THEN c ELSE s.cases[j]
    BY <1>1, <2>1, <2>2, ExceptSeq
  <2>4. caseWritten = [s EXCEPT !.cases = cases]
    BY DEF c
  <2> HIDE DEF cases
  <2>5. s.type = "switch"
    BY <1>1, <2>1 DEF StepsOf
  <2>6. cases # <<>> /\ DOMAIN cases = DOMAIN s.cases
    <3>1. DOMAIN cases = 1 .. Len(cases)
      BY <2>3, LenProperties
    <3> QED  BY <2>1, <2>3, <3>1
  <2>7. [s EXCEPT !.cases = cases] \in StepsOf(s.type)
    BY <1>1, <2>3, <2>5, <2>6 DEF StepsOf
  <2>8. [s EXCEPT !.cases = cases].cases = cases
    BY <1>1 DEF StepsOf
  <2>9. \A j \in DOMAIN s.cases : cases[j].key = s.cases[j].key
    BY <2>1, <2>2, <2>3
  <2>10. \A j \in DOMAIN s.cases : s.cases[j].key # target.key => cases[j] = s.cases[j]
    BY <1>2, <1>5, <2>1, <2>3
  <2> DEFINE t == [s EXCEPT !.cases = cases]
  <2>11. t.fields = s.fields /\ t.type = s.type /\ t.revalidate = s.revalidate
    BY <1>1 DEF StepsOf
  <2> HIDE DEF t
  <2>12. Kin(t)
    BY <2>6, <2>7, <2>8, <2>9, <2>10, <2>11 DEF t
  <2> QED  BY <2>4, <2>12 DEF t
<1> DEFINE written == CASE target.scope = "case" /\ i > 0 -> caseWritten
                        [] target.scope = "step" -> stepWritten
                        [] OTHER -> s
<1>6. Kin(written)
  <2>1. CASE target.scope = "case" /\ i > 0
    <3>1. i # 0
      BY <2>1
    <3>2. written = caseWritten
      BY <2>1
    <3> HIDE DEF written, caseWritten
    <3> QED  BY <1>5, <2>1, <3>1, <3>2
  <2>2. CASE target.scope = "step"
    <3>1. written = stepWritten
      BY <2>2
    <3> HIDE DEF written, stepWritten
    <3> QED  BY <1>4, <3>1
  <2>3. CASE ~(target.scope = "case" /\ i > 0) /\ target.scope # "step"
    <3>1. written = s
      BY <2>3
    <3> HIDE DEF written
    <3> QED  BY <1>3, <3>1
  <2> QED  BY <2>1, <2>2, <2>3
<1> HIDE DEF written
<1> DEFINE stripped == IF s.type = "switch" THEN [written EXCEPT !.conditions = "always"] ELSE written
<1>7. Kin(stripped)
  BY <1>6 DEF StepsOf, Conditions
<1> HIDE DEF stripped
<1> DEFINE t == IF SupportsRevalidate(s) /\ (s.revalidate # "absent" \/ revalidate = "false")
                THEN [stripped EXCEPT !.revalidate = revalidate] ELSE stripped
<1>8. /\ t \in StepsOf(s.type) /\ t.fields = s.fields /\ t.cases = stripped.cases
  BY <1>7 DEF StepsOf
<1>9. t = ApplyConditions(s, target, tree, revalidate)
  BY DEF ApplyConditions, t, stripped, written, i
<1> HIDE DEF t
<1>10. t \in Steps
  BY <1>1, <1>8 DEF Steps
<1>11. CaseKeys(t.cases) = CaseKeys(s.cases)
  BY <1>7, <1>8 DEF CaseKeys
<1>12. Handles(t) = Handles(s)
  BY <1>8, <1>11, HandlesOf
<1>13. /\ DOMAIN t.cases = DOMAIN s.cases
       /\ \A j \in DOMAIN s.cases : s.cases[j].key # target.key => t.cases[j] = s.cases[j]
  BY <1>7, <1>8
<1> QED  BY <1>9, <1>10, <1>12, <1>13

LEMMA WrittenIsSound ==
    ASSUME NEW g \in SoundGraphs, NEW target, target.id \in Ids(g),
           NEW tree \in Conditions, NEW revalidate \in Revalidates
    PROVE  ReplaceStep(g, target.id, ApplyConditions(g.step[target.id], target, tree, revalidate))
             \in SoundGraphs
<1> DEFINE s == g.step[target.id]
           t == ApplyConditions(s, target, tree, revalidate)
<1>1. s \in Steps
  BY SwitchFacts
<1>2. t \in Steps /\ Handles(t) = Handles(s)
  BY <1>1, WrittenStep
<1> HIDE DEF t
<1>3. ReplaceStep(g, target.id, t) \in SoundGraphs
  BY <1>2, ReplaceIsSound
<1> QED  BY <1>3 DEF t
-----------------------------------------------------------------------------
(***************************************************************************)
(* Loading                                                                 *)
(***************************************************************************)
LEMMA LoadedIsSound ==
    ASSUME NEW m \in Mounts
    PROVE  ToGraph(m.def) \in SoundGraphs /\ Ids(ToGraph(m.def)) = DOMAIN m.def.steps
<1> DEFINE ids == DOMAIN m.def.steps
           g == ToGraph(m.def)
           place == [id \in ids |-> Cardinality({k \in ids : k <= id})]
           pos == [id \in ids |-> IF id \in DOMAIN m.def.ui THEN m.def.ui[id] ELSE "origin"]
<1>1. /\ m.def.steps = [id \in ids |-> m.def.steps[id]]
      /\ \A id \in ids : m.def.steps[id] \in Steps
      /\ IsFiniteSet(ids) /\ ids \subseteq StepKeys
      /\ HasEntry(ids, m.def.entry)
      /\ m.def.ui \in [DOMAIN m.def.ui -> {"stored"}]
  BY EditorAssumption DEF IsStep, Steps
<1>2. g.step = m.def.steps /\ g.place = place /\ g.pos = pos /\ g.entry = m.def.entry /\ Ids(g) = ids
      /\ g = [step |-> g.step, place |-> g.place, pos |-> g.pos, edges |-> g.edges, entry |-> g.entry]
  BY DEF ToGraph, Ids
<1>3. \A e \in g.edges : /\ e \in Edges /\ {e.source, e.target} \subseteq ids
                         /\ e.handle \in Handles(m.def.steps[e.source])
                         /\ e.target = StepEdges(m.def.steps[e.source])[e.handle]
                         /\ e = [source |-> e.source, handle |-> e.handle, target |-> e.target]
  <2> SUFFICES ASSUME NEW e \in g.edges
               PROVE  /\ e \in Edges /\ {e.source, e.target} \subseteq ids
                      /\ e.handle \in Handles(m.def.steps[e.source])
                      /\ e.target = StepEdges(m.def.steps[e.source])[e.handle]
                      /\ e = [source |-> e.source, handle |-> e.handle, target |-> e.target]
    OBVIOUS
  <2>1. /\ e \in [source : ids, handle : UNION {Handles(m.def.steps[k]) : k \in ids}, target : ids]
        /\ e.handle \in Handles(m.def.steps[e.source])
        /\ e.target = StepEdges(m.def.steps[e.source])[e.handle]
    BY DEF ToGraph
  <2>2. e.source \in ids /\ e.target \in ids
        /\ e = [source |-> e.source, handle |-> e.handle, target |-> e.target]
    BY <2>1
  <2>3. e.handle \in HandleNames \X Nat
    BY <1>1, <2>1, <2>2, HandleTypes
  <2> HIDE DEF g
  <2>4. e \in Edges
    BY <1>1, <2>2, <2>3 DEF Edges
  <2> QED  BY <2>1, <2>2, <2>4
<1> HIDE DEF g
<1>4. place \in [ids -> Nat]
  <2> SUFFICES ASSUME NEW id \in ids
               PROVE  Cardinality({k \in ids : k <= id}) \in Nat
    OBVIOUS
  <2>1. IsFiniteSet({k \in ids : k <= id})
    BY <1>1, FS_Subset
  <2> QED  BY <2>1, FS_CardinalityType
<1>5. pos \in [ids -> Positions]
  BY <1>1 DEF Positions
<1>6. g.entry \in Nat
  BY <1>1, <1>2 DEF HasEntry, StepKeys, Null
<1>7. g \in GraphsOn(ids)
  BY <1>1, <1>2, <1>3, <1>4, <1>5, <1>6 DEF GraphsOn
<1>8. GraphIsSound(g)
  <2>1. \A e, f \in g.edges : e.source = f.source /\ e.handle = f.handle => e = f
    BY <1>3
  <2> QED  BY <1>1, <1>2, <1>3, <2>1 DEF GraphIsSound
<1>9. g \in SoundGraphs
  BY <1>1, <1>2, <1>7, <1>8, MakesSoundGraph
<1> QED  BY <1>2, <1>9 DEF g

-----------------------------------------------------------------------------
(***************************************************************************)
(* Part 2: the editor                                                      *)
(***************************************************************************)
Histories == [past : Seq(SoundGraphs), present : SoundGraphs, future : Seq(SoundGraphs)]

HistoryOK(h) == h \in Histories /\ Len(h.past) + Len(h.future) <= HistoryLimit

EditorInv ==
    /\ mount \in Mounts
    /\ HistoryOK(hist)
    /\ conditions \in Conditions
    /\ settings \in SettingsSet \cup {mount.settings}
    /\ dirty \in BOOLEAN
    /\ apply.pending => /\ apply.graph \in SoundGraphs
                        /\ apply.tree \in Conditions
                        /\ apply.revalidate \in Revalidates
    /\ lastKey \in Nat
    /\ edits \in 0 .. MaxEdits
-----------------------------------------------------------------------------
(***************************************************************************)
(* History                                                                 *)
(***************************************************************************)
LEMMA PushOK ==
    ASSUME NEW h, HistoryOK(h), NEW g \in SoundGraphs
    PROVE  HistoryOK(Push(h, g))
<1> DEFINE past == Append(h.past, h.present)
           kept == IF Len(past) > HistoryLimit THEN Tail(past) ELSE past
<1>1. h.past \in Seq(SoundGraphs) /\ h.present \in SoundGraphs /\ Len(h.past) <= HistoryLimit
      /\ HistoryLimit \in Nat \ {0}
  <2>1. Len(h.past) \in Nat /\ Len(h.future) \in Nat
    BY LenProperties DEF HistoryOK, Histories
  <2> QED  BY <2>1, EditorAssumption DEF HistoryOK, Histories
<1>2. past \in Seq(SoundGraphs) /\ Len(past) = Len(h.past) + 1 /\ past # <<>>
  BY <1>1, AppendProperties
<1> HIDE DEF past
<1>3. kept \in Seq(SoundGraphs) /\ Len(kept) <= HistoryLimit
  BY <1>1, <1>2, HeadTailProperties
<1> HIDE DEF kept
<1>4. Push(h, g) = [past |-> kept, present |-> g, future |-> <<>>]
  BY DEF Push, kept, past
<1>5. <<>> \in Seq(SoundGraphs) /\ Len(<<>>) = 0 /\ Len(kept) \in Nat
  BY <1>3, EmptySeq, LenProperties
<1> QED  BY <1>1, <1>3, <1>4, <1>5 DEF HistoryOK, Histories

LEMMA UndoOK ==
    ASSUME NEW h, HistoryOK(h), h.past # <<>>
    PROVE  HistoryOK(UndoOf(h)) /\ RedoOf(UndoOf(h)) = h
<1> DEFINE past == Front(h.past)
           future == <<h.present>> \o h.future
           u == UndoOf(h)
<1>1. h.past \in Seq(SoundGraphs) /\ h.present \in SoundGraphs /\ h.future \in Seq(SoundGraphs)
      /\ Len(h.past) \in Nat \ {0} /\ Len(h.future) \in Nat
      /\ h = [past |-> h.past, present |-> h.present, future |-> h.future]
  BY EmptySeq, LenProperties DEF HistoryOK, Histories
<1>2. past \in Seq(SoundGraphs) /\ Len(past) = Len(h.past) - 1 /\ Last(h.past) \in SoundGraphs
      /\ Append(past, Last(h.past)) = h.past
  <2> DEFINE n == Len(h.past)
  <2>1. \A i \in 1 .. n : h.past[i] \in SoundGraphs
    BY <1>1, ElementOfSeq
  <2>2. past \in Seq(SoundGraphs) /\ Len(past) = n - 1 /\ \A i \in 1 .. n - 1 : past[i] = h.past[i]
    <3>1. /\ past \in Seq(SoundGraphs) /\ Len(past) = IF 1 <= n - 1 THEN n - 1 - 1 + 1 ELSE 0
          /\ \A i \in 1 .. n - 1 - 1 + 1 : past[i] = h.past[1 + i - 1]
      BY <1>1, <2>1, SubSeqProperties DEF Front
    <3>2. n \in Nat \ {0}
      BY <1>1
    <3> HIDE DEF n, past
    <3> QED  BY <3>1, <3>2
  <2>3. Last(h.past) \in SoundGraphs /\ Last(h.past) = h.past[n]
    BY <1>1, <2>1 DEF Last
  <2> HIDE DEF past
  <2>4. /\ Append(past, Last(h.past)) \in Seq(SoundGraphs)
        /\ Len(Append(past, Last(h.past))) = n
        /\ \A i \in 1 .. n : Append(past, Last(h.past))[i] = h.past[i]
    BY <1>1, <2>2, <2>3, AppendProperties
  <2>5. Append(past, Last(h.past)) = h.past
    BY <1>1, <2>4, SeqEqual
  <2> QED  BY <2>2, <2>3, <2>5
<1>3. future \in Seq(SoundGraphs) /\ Len(future) = Len(h.future) + 1 /\ future # <<>>
      /\ Head(future) = h.present /\ Tail(future) = h.future
  BY <1>1
<1>4. u = [past |-> past, present |-> Last(h.past), future |-> future]
  BY DEF UndoOf
<1> HIDE DEF past, future, u
<1>5. HistoryOK(u)
  BY <1>1, <1>2, <1>3, <1>4, EditorAssumption DEF HistoryOK, Histories
<1>6. RedoOf(u) = h
  BY <1>1, <1>2, <1>3, <1>4 DEF RedoOf
<1> QED  BY <1>5, <1>6 DEF u

LEMMA RedoOK ==
    ASSUME NEW h, HistoryOK(h), h.future # <<>>
    PROVE  HistoryOK(RedoOf(h))
<1> DEFINE past == Append(h.past, h.present)
<1>1. h.past \in Seq(SoundGraphs) /\ h.present \in SoundGraphs /\ h.future \in Seq(SoundGraphs)
      /\ Len(h.past) \in Nat /\ Len(h.future) \in Nat \ {0}
  BY EmptySeq, LenProperties DEF HistoryOK, Histories
<1>2. past \in Seq(SoundGraphs) /\ Len(past) = Len(h.past) + 1
  BY <1>1, AppendProperties
<1>3. Head(h.future) \in SoundGraphs /\ Tail(h.future) \in Seq(SoundGraphs)
      /\ Len(Tail(h.future)) = Len(h.future) - 1
  BY <1>1, HeadTailProperties
<1>4. RedoOf(h) = [past |-> past, present |-> Head(h.future), future |-> Tail(h.future)]
  BY DEF RedoOf
<1> HIDE DEF past
<1> QED  BY <1>1, <1>2, <1>3, <1>4, EditorAssumption DEF HistoryOK, Histories
-----------------------------------------------------------------------------
(***************************************************************************)
(* The edits of the graph                                                  *)
(***************************************************************************)
EditsGraph == \E g \in SoundGraphs : Edit(g)

GraphActions == AddStep \/ ConnectSteps \/ Delete \/ Drag \/ FillIn \/ EditCases

LEMMA GraphIsSoundNow ==
    ASSUME EditorInv
    PROVE  graph \in SoundGraphs
BY DEF EditorInv, HistoryOK, Histories, graph

LEMMA AddStepEdits == EditorInv /\ AddStep => EditsGraph /\ lastKey' \in Nat
<1> SUFFICES ASSUME EditorInv, AddStep
             PROVE  EditsGraph /\ lastKey' \in Nat
  OBVIOUS
<1>1. PICK type \in AddedTypes :
        /\ Edit(AddNode(graph, NextStepKey(graph, lastKey), BlankStep(type), "dragged"))
        /\ lastKey' = NextStepKey(graph, lastKey)
  BY DEF AddStep
<1>2. graph \in SoundGraphs /\ lastKey \in Nat /\ IsFiniteSet(Ids(graph)) /\ type \in StepTypes
  BY GraphIsSoundNow, SoundGraph, EditorAssumption DEF EditorInv
<1>3. NextStepKey(graph, lastKey) \in StepKeys \ Ids(graph)
  BY <1>2, NextStepKeyIsFree
<1>4. BlankStep(type) \in Steps /\ "dragged" \in Positions
  BY <1>2, BlankStepIsStep DEF Positions
<1>5. AddNode(graph, NextStepKey(graph, lastKey), BlankStep(type), "dragged") \in SoundGraphs
  BY <1>2, <1>3, <1>4, AddNodeIsSound
<1> QED  BY <1>1, <1>3, <1>5 DEF EditsGraph, StepKeys

LEMMA EditCasesEdits == EditorInv /\ EditCases => EditsGraph /\ UNCHANGED lastKey
<1> SUFFICES ASSUME EditorInv, EditCases
             PROVE  EditsGraph /\ UNCHANGED lastKey
  OBVIOUS
<1>1. PICK id \in {k \in Ids(graph) : graph.step[k].type = "switch"} :
         \/ Edit(AddCase(graph, id))
         \/ \E i \in DOMAIN graph.step[id].cases :
               \/ CaseRemovable(graph, id, i) /\ Edit(RemoveCase(graph, id, i))
               \/ \E key \in CaseNames :
                     KeyAccepted(graph, id, i, key) /\ Edit(RenameCase(graph, id, i, key))
               \/ \E delta \in {-1, 1} :
                     /\ i + delta \in DOMAIN graph.step[id].cases
                     /\ Edit(MoveCase(graph, id, i, delta))
  BY DEF EditCases
<1>2. graph \in SoundGraphs /\ id \in Ids(graph) /\ graph.step[id].type = "switch"
  BY GraphIsSoundNow
<1>3. ASSUME Edit(AddCase(graph, id))
      PROVE  EditsGraph
  BY <1>2, <1>3, AddCaseIsSound DEF EditsGraph
<1>4. ASSUME NEW i \in DOMAIN graph.step[id].cases, CaseRemovable(graph, id, i),
             Edit(RemoveCase(graph, id, i))
      PROVE  EditsGraph
  BY <1>2, <1>4, RemoveCaseIsSound DEF EditsGraph
<1>5. ASSUME NEW i \in DOMAIN graph.step[id].cases, NEW key \in CaseNames,
             KeyAccepted(graph, id, i, key), Edit(RenameCase(graph, id, i, key))
      PROVE  EditsGraph
  <2>1. key \in Nat
    BY EditorAssumption
  <2> QED  BY <1>2, <1>5, <2>1, RenameCaseIsSound DEF EditsGraph
<1>6. ASSUME NEW i \in DOMAIN graph.step[id].cases, NEW delta \in {-1, 1},
             Edit(MoveCase(graph, id, i, delta))
      PROVE  EditsGraph
  <2>1. i \in Int /\ delta \in Int
    BY <1>2, SwitchFacts, LenProperties
  <2> QED  BY <1>2, <1>6, <2>1, MoveCaseIsSound DEF EditsGraph
<1>7. UNCHANGED lastKey
  BY DEF EditCases
<1> QED  BY <1>1, <1>3, <1>4, <1>5, <1>6, <1>7

LEMMA EditsAreSound == EditorInv /\ GraphActions => EditsGraph /\ lastKey' \in Nat
<1> SUFFICES ASSUME EditorInv, GraphActions
             PROVE  EditsGraph /\ lastKey' \in Nat
  OBVIOUS
<1>1. graph \in SoundGraphs /\ lastKey \in Nat
  BY GraphIsSoundNow DEF EditorInv
<1>2. CASE AddStep
  BY <1>2, AddStepEdits
<1>3. CASE ConnectSteps
  BY <1>1, <1>3, ConnectIsSound DEF ConnectSteps, EditsGraph
<1>4. CASE Delete
  BY <1>1, <1>4, DisconnectIsSound, DeleteNodesIsSound DEF Delete, DeleteSelection, EditsGraph
<1>5. CASE Drag
  BY <1>1, <1>5, MoveNodeIsSound DEF Drag, EditsGraph
<1>6. CASE FillIn
  BY <1>1, <1>6, FilledIsSound DEF FillIn, EditsGraph
<1>7. CASE EditCases
  BY <1>1, <1>7, EditCasesEdits
<1> QED  BY <1>2, <1>3, <1>4, <1>5, <1>6, <1>7 DEF GraphActions
-----------------------------------------------------------------------------
(***************************************************************************)
(* The invariant                                                           *)
(***************************************************************************)
LEMMA RenderedKeepsType ==
    ASSUME NEW base, dirty \in BOOLEAN, Rendered(base)
    PROVE  dirty' \in BOOLEAN
BY DEF Rendered

LEMMA CommitKeepsHistory ==
    ASSUME EditorInv, NEW g \in SoundGraphs, Commit(g)
    PROVE  /\ HistoryOK(hist') /\ dirty' \in BOOLEAN
           /\ UNCHANGED <<mount, conditions, settings, posted>>
BY PushOK, RenderedKeepsType DEF Commit, SetHistory, EditorInv

LEMMA InitEditor == Init => EditorInv
<1> SUFFICES ASSUME Init
             PROVE  EditorInv
  OBVIOUS
<1>1. ToGraph(mount.def) \in SoundGraphs /\ mount \in Mounts
  BY LoadedIsSound DEF Init
<1>2. <<>> \in Seq(SoundGraphs) /\ Len(<<>>) = 0
  BY EmptySeq
<1>3. HistoryOK(hist)
  BY <1>1, <1>2, EditorAssumption DEF Init, HistoryOK, Histories
<1>4. mount.conditions \in Conditions /\ MaxEdits \in Nat
  BY <1>1, EditorAssumption
<1>5. conditions \in Conditions /\ settings = mount.settings /\ dirty = FALSE
      /\ lastKey \in Nat /\ edits \in 0 .. MaxEdits
  BY <1>4 DEF Init
<1>6. ~apply.pending
  BY DEF Init, Idle
<1> QED  BY <1>1, <1>3, <1>5, <1>6 DEF EditorInv

LEMMA StoredTreeIsTree ==
    ASSUME EditorInv
    PROVE  StoredTree \in Conditions
<1>1. conditions \in Conditions /\ "always" \in Conditions
  BY DEF EditorInv, Conditions
<1>2. ASSUME slideOut.id \in Ids(graph)
      PROVE  ReadConditions(graph.step[slideOut.id], slideOut) \in Conditions
  <2> DEFINE s == graph.step[slideOut.id]
             i == CaseIndex(s.cases, slideOut)
  <2>1. s \in Steps
    BY <1>2, GraphIsSoundNow, SwitchFacts
  <2>2. s.cases \in Seq(Cases) /\ s.conditions \in Conditions
    BY <2>1, StepFacts DEF StepsOf
  <2>3. i = 0 \/ i \in DOMAIN s.cases
    BY <2>2, CaseIndexFits
  <2>4. i # 0 => s.cases[i].conditions \in Conditions
    <3> HIDE DEF i, s
    <3>1. \A j \in DOMAIN s.cases : s.cases[j] \in Cases
      BY <2>2, LenProperties, ElementOfSeq
    <3> QED  BY <2>3, <3>1 DEF Cases
  <2> QED  BY <1>1, <2>2, <2>4 DEF ReadConditions
<1> QED  BY <1>1, <1>2 DEF StoredTree

LEMMA AcceptedKeepsEditor == EditorInv /\ Accepted => EditorInv'
<1> SUFFICES ASSUME EditorInv, Accepted
             PROVE  EditorInv'
  OBVIOUS
<1> DEFINE t == apply.target
           old == apply.graph
           new == ReplaceStep(old, t.id, ApplyConditions(old.step[t.id], t, apply.tree, apply.revalidate))
<1>1. apply' = Idle /\ apply.pending /\ UNCHANGED <<lastKey, edits>>
  BY DEF Accepted
<1>2. old \in SoundGraphs /\ apply.tree \in Conditions /\ apply.revalidate \in Revalidates
  BY <1>1 DEF EditorInv
<1>3. ~apply'.pending
  BY <1>1 DEF Idle
<1>4. CASE t.scope = "workflow"
  <2>1. conditions' = apply.tree /\ UNCHANGED <<mount, hist, settings>> /\ Rendered(saved)
    BY <1>4 DEF Accepted
  <2>2. dirty' \in BOOLEAN
    BY <2>1, RenderedKeepsType DEF EditorInv
  <2> QED  BY <1>1, <1>2, <1>3, <2>1, <2>2 DEF EditorInv
<1>5. CASE t.scope # "workflow" /\ t.id \in Ids(old)
  <2>1. Commit(new)
    BY <1>5 DEF Accepted
  <2>2. new \in SoundGraphs
    BY <1>2, <1>5, WrittenIsSound
  <2> HIDE DEF new
  <2>3. /\ HistoryOK(hist') /\ dirty' \in BOOLEAN
        /\ UNCHANGED <<mount, conditions, settings, posted>>
    BY <2>1, <2>2, CommitKeepsHistory
  <2> QED  BY <1>1, <1>3, <2>3 DEF EditorInv
<1>6. CASE t.scope # "workflow" /\ t.id \notin Ids(old)
  BY <1>1, <1>3, <1>6 DEF Accepted, EditorInv
<1> QED  BY <1>4, <1>5, <1>6

LEMMA NextEditor == EditorInv /\ [Next]_vars => EditorInv'
<1> SUFFICES ASSUME EditorInv, [Next]_vars
             PROVE  EditorInv'
  OBVIOUS
<1>1. CASE GraphActions
  <2>1. PICK g \in SoundGraphs : Edit(g)
    BY <1>1, EditsAreSound DEF EditsGraph
  <2>2. Commit(g) /\ UNCHANGED apply /\ edits < MaxEdits /\ edits' = edits + 1
    BY <2>1 DEF Edit, Counted
  <2>3. lastKey' \in Nat
    BY <1>1, EditsAreSound
  <2>4. edits' \in 0 .. MaxEdits
    BY <2>2, EditorAssumption DEF EditorInv
  <2> QED  BY <2>2, <2>3, <2>4, CommitKeepsHistory DEF EditorInv
<1>2. CASE ChangeSettings
  <2>1. /\ edits < MaxEdits /\ edits' = edits + 1 /\ settings' \in SettingsSet
        /\ UNCHANGED <<mount, hist, conditions, apply, lastKey>> /\ Rendered(saved)
    BY <1>2 DEF ChangeSettings, Counted
  <2>2. edits' \in 0 .. MaxEdits
    BY <2>1, EditorAssumption DEF EditorInv
  <2> QED  BY <2>1, <2>2, RenderedKeepsType DEF EditorInv
<1>3. CASE Undo
  <2>1. hist' = UndoOf(hist) /\ hist.past # <<>> /\ Rendered(saved)
        /\ UNCHANGED <<mount, conditions, settings, apply, lastKey, edits>>
    BY <1>3 DEF Undo, SetHistory
  <2> QED  BY <2>1, UndoOK, RenderedKeepsType DEF EditorInv
<1>4. CASE Redo
  <2>1. hist' = RedoOf(hist) /\ hist.future # <<>> /\ Rendered(saved)
        /\ UNCHANGED <<mount, conditions, settings, apply, lastKey, edits>>
    BY <1>4 DEF Redo, SetHistory
  <2> QED  BY <2>1, RedoOK, RenderedKeepsType DEF EditorInv
<1>5. CASE LayoutArrives
  <2>1. hist' = [hist EXCEPT !.present = MoveAll(hist.present, Ids(ToGraph(mount.def)))]
        /\ UNCHANGED <<mount, conditions, settings, apply, lastKey, edits>>
        /\ \E base : Rendered(base)
    BY <1>5 DEF LayoutArrives
  <2>2. hist.present \in SoundGraphs
    BY DEF EditorInv, HistoryOK, Histories
  <2>3. MoveAll(hist.present, Ids(ToGraph(mount.def))) \in SoundGraphs
    BY <2>2, MoveAllIsSound
  <2>4. HistoryOK(hist')
    BY <2>1, <2>3 DEF EditorInv, HistoryOK, Histories
  <2> QED  BY <2>1, <2>4, RenderedKeepsType DEF EditorInv
<1>6. CASE OpenConditions
  BY <1>6, EditorAssumption DEF OpenConditions, Counted, EditorInv
<1>7. CASE CancelConditions
  BY <1>7 DEF CancelConditions, EditorInv
<1>8. CASE ClickApply
  <2>1. PICK tree \in Trees \cup {StoredTree}, revalidate \in Revalidates :
          apply' = [pending |-> TRUE, target |-> slideOut, graph |-> graph,
                    tree |-> tree, revalidate |-> revalidate]
    BY <1>8 DEF ClickApply
  <2>2. tree \in Conditions
    BY StoredTreeIsTree DEF Conditions
  <2>3. graph \in SoundGraphs
    BY GraphIsSoundNow
  <2>4. UNCHANGED <<mount, hist, conditions, settings, dirty, lastKey, edits>>
    BY <1>8 DEF ClickApply
  <2> QED  BY <2>1, <2>2, <2>3, <2>4 DEF EditorInv
<1>9. CASE Rejected
  BY <1>9 DEF Rejected, EditorInv, Idle
<1>10. CASE Accepted
  BY <1>10, AcceptedKeepsEditor
<1>11. CASE Review
  BY <1>11 DEF Review, EditorInv
<1>12. CASE Save
  BY <1>12 DEF Save, EditorInv
<1>13. CASE UNCHANGED vars
  BY <1>13 DEF vars, EditorInv
<1> QED
  BY <1>1, <1>2, <1>3, <1>4, <1>5, <1>6, <1>7, <1>8, <1>9, <1>10, <1>11, <1>12, <1>13
     DEF Next, GraphActions

\* Every snapshot is a sound graph and every other variable holds what it should.
THEOREM EditorInvariant == Spec => []EditorInv
<1>1. Init => EditorInv
  BY InitEditor
<1>2. EditorInv /\ [Next]_vars => EditorInv'
  BY NextEditor
<1> QED  BY <1>1, <1>2, PTL DEF Spec

\* The variables hold what the handlers keep in them (Editor.tsx).
THEOREM EditorTypeIsOK == Spec => []EditorTypeOK
<1>1. EditorInv => EditorTypeOK
  BY GraphIsSoundNow, SoundIsGraph DEF EditorInv, EditorTypeOK
<1> QED  BY <1>1, EditorInvariant, PTL

\* Whatever was added, deleted, renamed, undone or answered late, no graph the editor
\* shows or can go back to has a dangling edge, two edges on one handle, an edge on a
\* handle its step does not have, or an entry that is not a step (graphOps, switchCases).
THEOREM SnapshotsAreSound == Spec => []GraphsAreSound
<1>1. EditorInv => GraphsAreSound
  <2> SUFFICES ASSUME EditorInv, NEW g \in Snapshots
               PROVE  GraphIsSound(g)
    BY DEF GraphsAreSound
  <2>1. g \in SoundGraphs
    BY ElementOfSeq, LenProperties DEF Snapshots, EditorInv, HistoryOK, Histories, graph
  <2> QED  BY <2>1, SoundGraph
<1> QED  BY <1>1, EditorInvariant, PTL

\* Undo can be taken back: redo leads to the very history one came from, and both
\* stacks together never outgrow the limit (history.ts).
THEOREM UndoIsTakenBack == Spec => UndoIsReversible
<1>1. EditorInv /\ EditorInv' /\ [Next]_vars =>
        [/\ hist' = UndoOf(hist) => hist.past = <<>> \/ RedoOf(hist') = hist
         /\ Len(hist'.past) + Len(hist'.future) <= HistoryLimit]_vars
  BY UndoOK DEF EditorInv, HistoryOK
<1> QED  BY <1>1, EditorInvariant, PTL DEF Spec, UndoIsReversible
-----------------------------------------------------------------------------

(***************************************************************************)
(* The round trip                                                          *)
(***************************************************************************)
LEMMA RebuiltStep ==
    ASSUME NEW g \in SoundGraphs, NEW id \in Ids(g)
    PROVE  LET s == g.step[id]
               t == RebuildStep(s, Out(g, id))
           IN  /\ t.type = s.type /\ t.filled = s.filled /\ Handles(t) = Handles(s)
               /\ DOMAIN t.fields = DOMAIN s.fields
               /\ \A e \in Out(g, id) : StepEdges(t)[e.handle] = e.target
               /\ \A f \in DOMAIN s.fields :
                    /\ StepEdges(t)[Field(f)] = t.fields[f]
                    /\ (\A e \in Out(g, id) : e.handle # Field(f)) => t.fields[f] = Null
                    /\ \A e \in Out(g, id) : e.handle = Field(f) => t.fields[f] = e.target
<1> DEFINE s == g.step[id]
           out == Out(g, id)
           wired == {e.handle : e \in out}
           target(h) == (CHOOSE e \in out : e.handle = h).target
           retarget(c) == IF CaseHandle(c.key) \in wired
                          THEN [c EXCEPT !.next = target(CaseHandle(c.key))] ELSE c
           fields == [f \in DOMAIN s.fields |-> IF Field(f) \in wired THEN target(Field(f)) ELSE Null]
           cases == [i \in DOMAIN s.cases |-> retarget(s.cases[i])]
           t == RebuildStep(s, out)
<1>1. s \in StepsOf(s.type) /\ s.type \in StepTypes /\ s.cases \in Seq(Cases)
  BY SwitchFacts, StepFacts
<1>2. t = [s EXCEPT !.fields = fields, !.cases = cases,
                    !.conditions = IF s.type = "switch" THEN "always" ELSE s.conditions]
  BY Zenon DEF RebuildStep
<1>3. \A e \in out : e \in Edges /\ e.handle \in Handles(s) /\ target(e.handle) = e.target
  <2> SUFFICES ASSUME NEW e \in out
               PROVE  e \in Edges /\ e.handle \in Handles(s) /\ target(e.handle) = e.target
    OBVIOUS
  <2>1. e \in g.edges /\ e.source = id
    BY DEF Out
  <2>2. \A f \in out : f.handle = e.handle => f = e
    BY <2>1, EdgeIsUnique DEF Out
  <2>3. (CHOOSE f \in out : f.handle = e.handle) = e
    BY <2>2
  <2>4. e \in Edges /\ e.handle \in Handles(s)
    BY <2>1, EdgesOfSound DEF EdgesFit
  <2> QED  BY <2>3, <2>4
<1>4. \A i \in DOMAIN s.cases : s.cases[i] \in Cases
  BY <1>1, LenProperties, ElementOfSeq
<1> HIDE DEF target, out, s
<1> HIDE DEF wired, fields, cases, t
<1>5. ASSUME NEW i \in DOMAIN s.cases
      PROVE  /\ cases[i].key = s.cases[i].key
             /\ CaseHandle(s.cases[i].key) \in wired => cases[i].next = target(CaseHandle(s.cases[i].key))
  BY <1>4 DEF Cases, cases
<1> HIDE DEF retarget
<1>6. /\ t.type = s.type /\ t.filled = s.filled /\ t.fields = fields /\ t.cases = cases
  BY <1>1, <1>2 DEF StepsOf
<1>7. DOMAIN fields = DOMAIN s.fields /\ DOMAIN cases = DOMAIN s.cases
  BY DEF fields, cases
<1>8. CaseKeys(cases) = CaseKeys(s.cases)
  <2>1. \A i \in DOMAIN s.cases : cases[i].key = s.cases[i].key
    BY <1>5
  <2>2. CaseKeys(cases) \subseteq CaseKeys(s.cases)
    BY <1>7, <2>1 DEF CaseKeys
  <2>3. CaseKeys(s.cases) \subseteq CaseKeys(cases)
    BY <1>7, <2>1 DEF CaseKeys
  <2> QED  BY <2>2, <2>3
<1>9. Handles(t) = Handles(s)
  BY <1>6, <1>7, <1>8, HandlesOf
<1> DEFINE fieldHandles == {Field(f) : f \in DOMAIN t.fields}
           caseHandles == {CaseHandle(k) : k \in CaseKeys(t.cases)}
           caseAt(h) == CHOOSE i \in DOMAIN t.cases : CaseHandle(t.cases[i].key) = h
<1>10. \A h \in fieldHandles \cup caseHandles : StepEdges(t)[h] =
         IF h \in fieldHandles THEN t.fields[h[1]] ELSE t.cases[caseAt(h)].next
  BY DEF StepEdges
<1>11. ASSUME NEW f \in DOMAIN s.fields
       PROVE  /\ StepEdges(t)[Field(f)] = t.fields[f]
              /\ (\A e \in out : e.handle # Field(f)) => t.fields[f] = Null
              /\ \A e \in out : e.handle = Field(f) => t.fields[f] = e.target
  <2>1. Field(f) \in fieldHandles /\ Field(f)[1] = f
    BY <1>6, <1>7 DEF Field
  <2>2. StepEdges(t)[Field(f)] = t.fields[f]
    BY <1>10, <2>1
  <2>3. t.fields[f] = IF Field(f) \in wired THEN target(Field(f)) ELSE Null
    BY <1>6 DEF fields
  <2> QED  BY <1>3, <2>2, <2>3 DEF wired
<1>12. ASSUME NEW e \in out
       PROVE  StepEdges(t)[e.handle] = e.target
  <2>1. e.handle \in Handles(t) /\ e.handle \in wired
    BY <1>3, <1>9 DEF wired
  <2>2. CASE e.handle \in fieldHandles
    <3>1. PICK f \in DOMAIN s.fields : e.handle = Field(f)
      BY <1>6, <1>7, <2>2
    <3> QED  BY <1>11, <3>1
  <2>3. CASE e.handle \notin fieldHandles
    <3>1. e.handle \in caseHandles
      BY <2>1, <2>3, HandlesOf
    <3> DEFINE i == caseAt(e.handle)
    <3>2. i \in DOMAIN t.cases /\ CaseHandle(t.cases[i].key) = e.handle
      BY <3>1 DEF CaseKeys
    <3>3. StepEdges(t)[e.handle] = t.cases[i].next
      BY <1>10, <2>3, <3>1
    <3> HIDE DEF i
    <3>4. i \in DOMAIN s.cases /\ CaseHandle(s.cases[i].key) = e.handle
      BY <1>5, <1>6, <1>7, <3>2
    <3>5. t.cases[i].next = target(CaseHandle(s.cases[i].key))
      BY <1>5, <1>6, <2>1, <3>4
    <3>6. t.cases[i].next = target(e.handle)
      BY <3>4, <3>5
    <3> QED  BY <1>3, <3>3, <3>6
  <2> QED  BY <2>2, <2>3
<1>13. /\ t.type = s.type /\ t.filled = s.filled /\ Handles(t) = Handles(s)
       /\ DOMAIN t.fields = DOMAIN s.fields
       /\ \A e \in out : StepEdges(t)[e.handle] = e.target
       /\ \A f \in DOMAIN s.fields :
            /\ StepEdges(t)[Field(f)] = t.fields[f]
            /\ (\A e \in out : e.handle # Field(f)) => t.fields[f] = Null
            /\ \A e \in out : e.handle = Field(f) => t.fields[f] = e.target
  BY <1>6, <1>7, <1>9, <1>11, <1>12
<1> QED  BY <1>13 DEF t, s, out

\* A handle of a step is one of its fields, unless it is a case's.
LEMMA FieldOrCase ==
    ASSUME NEW s, NEW h \in Handles(s), h[1] # "case"
    PROVE  h \in {Field(f) : f \in DOMAIN s.fields}
BY HandlesOf DEF CaseHandle

LEMMA RoundTrip ==
    ASSUME NEW g \in SoundGraphs, NEW ui
    PROVE  LET r == ToGraph(ToDefinition(g, ui))
           IN  /\ Ids(r) = Ids(g) /\ r.entry = g.entry
               /\ g.edges \subseteq r.edges
               /\ \A e \in r.edges \ g.edges : e.handle[1] = "case"
<1> DEFINE def == ToDefinition(g, ui)
           ids == Ids(g)
           r == ToGraph(def)
<1>1. DOMAIN def.steps = ids /\ def.entry = g.entry
      /\ \A id \in ids : def.steps[id] = RebuildStep(g.step[id], Out(g, id))
  BY DEF ToDefinition
<1> HIDE DEF def
<1>2. Ids(r) = ids /\ r.entry = g.entry
      /\ r.edges = {e \in [source : ids, handle : UNION {Handles(def.steps[k]) : k \in ids}, target : ids] :
                        /\ e.handle \in Handles(def.steps[e.source])
                        /\ e.target = StepEdges(def.steps[e.source])[e.handle]}
  BY <1>1 DEF ToGraph, Ids
<1> HIDE DEF r
<1>3. ASSUME NEW e \in g.edges
      PROVE  e \in r.edges
  <2>1. e \in Edges /\ e.source \in ids /\ e.target \in ids
        /\ e.handle \in Handles(g.step[e.source]) /\ e \in Out(g, e.source)
    BY EdgesOfSound DEF EdgesFit, Ids, Out
  <2>2. e.handle \in Handles(def.steps[e.source])
        /\ e.target = StepEdges(def.steps[e.source])[e.handle]
    BY <1>1, <2>1, RebuiltStep
  <2>3. e \in [source : ids, handle : UNION {Handles(def.steps[k]) : k \in ids}, target : ids]
    BY <2>1, <2>2 DEF Edges
  <2> QED  BY <1>2, <2>2, <2>3
<1>4. ASSUME NEW e \in r.edges, e.handle[1] # "case"
      PROVE  e \in g.edges
  <2> DEFINE s == g.step[e.source]
             t == def.steps[e.source]
  <2>1. /\ e.source \in ids /\ e.target \in ids /\ e.handle \in Handles(t)
        /\ e.target = StepEdges(t)[e.handle]
        /\ e = [source |-> e.source, handle |-> e.handle, target |-> e.target]
    BY <1>2
  <2>2. t = RebuildStep(s, Out(g, e.source))
    BY <1>1, <2>1
  <2>3. PICK f \in DOMAIN s.fields : e.handle = Field(f)
    BY <1>4, <2>1, <2>2, FieldOrCase, RebuiltStep
  <2>4. e.target = t.fields[f]
    BY <2>1, <2>2, <2>3, RebuiltStep
  <2>5. e.target # Null
    BY <2>1, SoundGraph DEF StepKeys
  <2>6. PICK d \in Out(g, e.source) : d.handle = Field(f)
    BY <2>1, <2>2, <2>3, <2>4, <2>5, RebuiltStep
  <2>7. d.target = e.target
    BY <2>1, <2>2, <2>3, <2>4, <2>6, RebuiltStep
  <2>8. d \in g.edges /\ d.source = e.source
    BY <2>6 DEF Out
  <2>9. d = [source |-> d.source, handle |-> d.handle, target |-> d.target]
    BY <2>8, EdgeOfStep DEF Edges
  <2> QED  BY <2>1, <2>3, <2>6, <2>7, <2>8, <2>9
<1> QED  BY <1>2, <1>3, <1>4 DEF r, def
-----------------------------------------------------------------------------
(***************************************************************************)
(* Steps, by what they do to what is saved                                 *)
(***************************************************************************)
LEMMA ClosedIsFinal == [Next]_vars /\ ~Open => UNCHANGED vars
BY DEF Next, AddStep, ConnectSteps, Delete, Drag, FillIn, EditCases, Edit, ChangeSettings, Undo,
       Redo, LayoutArrives, OpenConditions, CancelConditions, ClickApply, Rejected, Accepted,
       Review, Save, vars

LEMMA StepKinds ==
    ASSUME EditorInv, [Next]_vars
    PROVE  /\ mount' = mount
           /\ \/ Rendered(saved) /\ UNCHANGED posted
              \/ LayoutArrives
              \/ UNCHANGED <<hist, conditions, settings, saved, dirty, warnings, posted>>
              \/ Review
              \/ Save
<1>1. CASE GraphActions
  BY <1>1, EditsAreSound DEF EditsGraph, Edit, Commit, SetHistory
<1>2. CASE ChangeSettings
  BY <1>2 DEF ChangeSettings
<1>3. CASE Undo \/ Redo
  BY <1>3 DEF Undo, Redo, SetHistory
<1>4. CASE LayoutArrives
  BY <1>4 DEF LayoutArrives
<1>5. CASE OpenConditions \/ CancelConditions \/ ClickApply \/ Rejected
  BY <1>5 DEF OpenConditions, CancelConditions, ClickApply, Rejected
<1>6. CASE Accepted
  BY <1>6 DEF Accepted, Commit, SetHistory
<1>7. CASE Review \/ Save
  BY <1>7 DEF Review, Save
<1>8. CASE UNCHANGED vars
  BY <1>8 DEF vars
<1> QED  BY <1>1, <1>2, <1>3, <1>4, <1>5, <1>6, <1>7, <1>8 DEF Next, GraphActions

LEMMA SameFingerprint ==
    ASSUME UNCHANGED <<mount, hist, conditions, settings>>
    PROVE  FingerprintNow' = FingerprintNow /\ Findings' = Findings
BY DEF FingerprintNow, Fingerprint, DefinitionOf, graph, Findings
-----------------------------------------------------------------------------
(***************************************************************************)
(* The unsaved-changes guard: the baseline always holds the work of the    *)
(* graph as mounted, whether or not the layout has moved it.               *)
(***************************************************************************)
GuardInv ==
    Open => /\ Work(saved) = Work(Mounted)
            /\ ~dirty => Work(FingerprintNow) = Work(Mounted)

MountedGraph == ToGraph(mount.def)
LaidOut == Fingerprint(MoveAll(MountedGraph, Ids(MountedGraph)), mount.conditions, mount.settings)

LEMMA LayoutIsNoWork ==
    ASSUME mount \in Mounts
    PROVE  Work(LaidOut) = Work(Mounted)
<1> DEFINE g == MountedGraph
           l == MoveAll(g, Ids(g))
           ui == mount.def.ui
<1>1. g \in SoundGraphs /\ ui \in [DOMAIN ui -> {"stored"}]
  BY LoadedIsSound, EditorAssumption DEF MountedGraph
<1>2. g.pos = [id \in DOMAIN mount.def.steps |-> IF id \in DOMAIN ui THEN ui[id] ELSE "origin"]
  BY DEF MountedGraph, ToGraph
<1> HIDE DEF g
<1>3. g \in GraphsOn(Ids(g))
  BY <1>1, SoundGraph
<1>4. /\ l.step = g.step /\ l.edges = g.edges /\ l.entry = g.entry /\ Ids(l) = Ids(g)
      /\ l.pos = [id \in DOMAIN g.pos |-> IF id \in Ids(g) THEN "laid" ELSE g.pos[id]]
  BY <1>3 DEF GraphsOn, MoveAll, Ids
<1> HIDE DEF l
<1>5. \A id : Out(l, id) = Out(g, id)
  BY <1>4 DEF Out
<1>6. ToDefinition(l, ui).steps = ToDefinition(g, ui).steps
      /\ ToDefinition(l, ui).entry = ToDefinition(g, ui).entry
  BY <1>4, <1>5 DEF ToDefinition
<1>7. \A id \in DOMAIN BuildUi(g.pos, ui) : BuildUi(g.pos, ui)[id] # "dragged"
  BY <1>1, <1>2 DEF BuildUi
<1>8. \A id \in DOMAIN BuildUi(l.pos, ui) : BuildUi(l.pos, ui)[id] # "dragged"
  <2>1. \A id \in DOMAIN l.pos : l.pos[id] # "dragged"
    BY <1>1, <1>2, <1>4
  <2> QED  BY <1>1, <2>1 DEF BuildUi
<1>9. \A h : /\ ToDefinition(h, ui).ui = BuildUi(h.pos, ui)
             /\ ToDefinition(h, ui) = [steps |-> ToDefinition(h, ui).steps,
                                       entry |-> ToDefinition(h, ui).entry,
                                       ui |-> ToDefinition(h, ui).ui]
  BY DEF ToDefinition
<1>10. \A h, c, s : Work(Fingerprint(h, c, s)) =
          [def |-> [steps |-> ToDefinition(h, ui).steps, entry |-> ToDefinition(h, ui).entry,
                    ui |-> {id \in DOMAIN BuildUi(h.pos, ui) : BuildUi(h.pos, ui)[id] = "dragged"}],
           conditions |-> c, settings |-> s]
  <2> SUFFICES ASSUME NEW h, NEW c, NEW s
               PROVE  Work(Fingerprint(h, c, s)) =
                        [def |-> [steps |-> ToDefinition(h, ui).steps, entry |-> ToDefinition(h, ui).entry,
                                  ui |-> {id \in DOMAIN BuildUi(h.pos, ui) :
                                            BuildUi(h.pos, ui)[id] = "dragged"}],
                         conditions |-> c, settings |-> s]
    OBVIOUS
  <2> DEFINE steps == ToDefinition(h, ui).steps
             entry == ToDefinition(h, ui).entry
             places == BuildUi(h.pos, ui)
  <2>1. Fingerprint(h, c, s) = [def |-> ToDefinition(h, ui), conditions |-> c, settings |-> s]
    BY DEF Fingerprint, DefinitionOf
  <2>2. ToDefinition(h, ui) = [steps |-> steps, entry |-> entry, ui |-> places]
    BY <1>9
  <2> HIDE DEF steps, entry, places, ui
  <2>3. Fingerprint(h, c, s)
          = [def |-> [steps |-> steps, entry |-> entry, ui |-> places], conditions |-> c, settings |-> s]
    BY <2>1, <2>2
  <2>4. Work(Fingerprint(h, c, s))
          = [def |-> [steps |-> steps, entry |-> entry,
                      ui |-> {id \in DOMAIN places : places[id] = "dragged"}],
             conditions |-> c, settings |-> s]
    BY <2>3 DEF Work
  <2> QED  BY <2>4 DEF steps, entry, places
<1>11. {id \in DOMAIN BuildUi(g.pos, ui) : BuildUi(g.pos, ui)[id] = "dragged"} = {}
       /\ {id \in DOMAIN BuildUi(l.pos, ui) : BuildUi(l.pos, ui)[id] = "dragged"} = {}
  BY <1>7, <1>8
<1>12. Work(Fingerprint(l, mount.conditions, mount.settings))
         = Work(Fingerprint(g, mount.conditions, mount.settings))
  BY <1>6, <1>10, <1>11
<1> QED  BY <1>12 DEF LaidOut, Mounted, g, l, MountedGraph

LEMMA InitGuard == Init => GuardInv
BY DEF Init, GuardInv, Mounted, FingerprintNow, graph

LEMMA NextGuard == EditorInv /\ GuardInv /\ [Next]_vars => GuardInv'
<1> SUFFICES ASSUME EditorInv, GuardInv, [Next]_vars, Open'
             PROVE  /\ Work(saved)' = Work(Mounted)'
                    /\ ~dirty' => Work(FingerprintNow)' = Work(Mounted)'
  BY DEF GuardInv
<1>1. Open
  BY ClosedIsFinal DEF Open, vars
<1>2. mount' = mount /\ Mounted' = Mounted
  BY StepKinds DEF Mounted, Fingerprint, DefinitionOf
<1>3. Work(saved) = Work(Mounted) /\ (~dirty => Work(FingerprintNow) = Work(Mounted))
  BY <1>1 DEF GuardInv
<1>4. ASSUME NEW base, Rendered(base), Work(base) = Work(Mounted)
      PROVE  /\ Work(saved)' = Work(Mounted)'
             /\ ~dirty' => Work(FingerprintNow)' = Work(Mounted)'
  <2>1. saved' = base
    BY <1>4 DEF Rendered
  <2>2. CASE FingerprintNow' = FingerprintNow
    BY <1>2, <1>3, <1>4, <2>1, <2>2 DEF Rendered, Work
  <2>3. CASE FingerprintNow' # FingerprintNow
    <3>1. dirty' = (FingerprintNow' # base)
      BY <1>4, <2>3 DEF Rendered
    <3>2. ~dirty' => FingerprintNow' = base
      BY <3>1
    <3>3. Work(saved)' = Work(Mounted)'
      BY <1>2, <1>4, <2>1 DEF Work
    <3>4. ASSUME ~dirty'
          PROVE  Work(FingerprintNow)' = Work(Mounted)'
      <4>1. FingerprintNow' = base
        BY <3>2, <3>4
      <4> QED  BY <1>2, <1>4, <4>1 DEF Work
    <3> QED  BY <3>3, <3>4
  <2> QED  BY <2>2, <2>3
<1>5. CASE Rendered(saved)
  BY <1>3, <1>4, <1>5
<1>6. CASE LayoutArrives
  <2>1. Rendered(LaidOut)
    BY <1>6 DEF LayoutArrives, LaidOut, MountedGraph
  <2>2. Work(LaidOut) = Work(Mounted)
    BY LayoutIsNoWork DEF EditorInv
  <2> QED  BY <1>4, <2>1, <2>2
<1>7. CASE UNCHANGED <<hist, conditions, settings, saved, dirty>>
  <2>1. FingerprintNow' = FingerprintNow
    BY <1>2, <1>7, SameFingerprint
  <2> QED  BY <1>2, <1>3, <1>7, <2>1 DEF Work
<1>8. CASE Review
  BY <1>7, <1>8 DEF Review
<1>9. CASE Save
  BY <1>9 DEF Save, Open
<1> QED  BY <1>5, <1>6, <1>7, <1>8, <1>9, StepKinds

\* The page cannot be left without a prompt while work would be lost, however the late
\* layout and the edits interleave (the unsaved-changes guard of Editor.tsx).
THEOREM WorkIsGuarded == Spec => []UnsavedWorkIsGuarded
<1>1. Init => EditorInv /\ GuardInv
  BY InitEditor, InitGuard
<1>2. EditorInv /\ GuardInv /\ [Next]_vars => EditorInv' /\ GuardInv'
  BY NextEditor, NextGuard
<1>3. GuardInv => UnsavedWorkIsGuarded
  BY DEF GuardInv, UnsavedWorkIsGuarded
<1> QED  BY <1>1, <1>2, <1>3, PTL DEF Spec
-----------------------------------------------------------------------------
(***************************************************************************)
(* Opening is no edit: until something is edited there is no history to go *)
(* through, no slide-out to apply, and the baseline follows the layout.    *)
(***************************************************************************)
OpeningInv ==
    edits = 0 =>
        /\ hist.past = <<>> /\ hist.future = <<>>
        /\ slideOut = NoTarget /\ ~apply.pending
        /\ conditions = mount.conditions /\ settings = mount.settings
        /\ layout = "running" => graph = MountedGraph
        /\ saved = FingerprintNow /\ ~dirty

LEMMA InitOpening == Init => OpeningInv
BY DEF Init, OpeningInv, MountedGraph, graph, Idle

LEMMA NextOpening == EditorInv /\ OpeningInv /\ [Next]_vars => OpeningInv'
<1> SUFFICES ASSUME EditorInv, OpeningInv, [Next]_vars, edits' = 0
             PROVE  OpeningInv'
  BY DEF OpeningInv
<1>1. edits \in Nat
  BY EditorAssumption DEF EditorInv
<1>2. ~GraphActions /\ ~ChangeSettings /\ ~OpenConditions
  <2>1. ~Counted
    BY <1>1 DEF Counted
  <2>2. ~GraphActions
    BY <2>1, EditsAreSound DEF EditsGraph, Edit
  <2> QED  BY <2>1, <2>2 DEF ChangeSettings, OpenConditions
<1>3. edits = 0
  BY <1>2 DEF Next, GraphActions, Undo, Redo, LayoutArrives, CancelConditions, ClickApply, Rejected,
              Accepted, Review, Save, vars
<1>4. ~Undo /\ ~Redo /\ ~CancelConditions /\ ~ClickApply /\ ~Rejected /\ ~Accepted
  BY <1>3 DEF OpeningInv, Undo, Redo, CancelConditions, ClickApply, Rejected, Accepted
<1>5. CASE LayoutArrives
  <2> DEFINE laid == MoveAll(MountedGraph, Ids(MountedGraph))
  <2>1. graph = MountedGraph
    BY <1>3, <1>5 DEF OpeningInv, LayoutArrives
  <2>2. hist' = [hist EXCEPT !.present = laid] /\ layout' = "idle" /\ Rendered(LaidOut)
        /\ UNCHANGED <<mount, conditions, settings, slideOut, apply>>
    BY <1>5, <2>1 DEF LayoutArrives, LaidOut, MountedGraph, graph
  <2>3. hist.past = <<>> /\ hist.future = <<>> /\ hist \in Histories
        /\ slideOut = NoTarget /\ ~apply.pending /\ ~dirty
        /\ conditions = mount.conditions /\ settings = mount.settings
    BY <1>3 DEF OpeningInv, EditorInv, HistoryOK
  <2>4. graph' = laid /\ hist'.past = <<>> /\ hist'.future = <<>>
    BY <2>2, <2>3 DEF graph, Histories
  <2>5. FingerprintNow' = LaidOut
    BY <2>2, <2>3, <2>4 DEF FingerprintNow, LaidOut, Fingerprint, DefinitionOf
  <2>6. saved' = FingerprintNow' /\ ~dirty'
    BY <2>2, <2>3, <2>5 DEF Rendered
  <2> QED  BY <2>2, <2>3, <2>4, <2>6 DEF OpeningInv
<1>6. CASE Review
  <2>1. FingerprintNow' = FingerprintNow
    BY <1>6, SameFingerprint DEF Review
  <2> QED  BY <1>3, <1>6, <2>1 DEF Review, OpeningInv, MountedGraph, graph
<1>7. CASE Save
  <2>1. FingerprintNow' = FingerprintNow
    BY <1>7, SameFingerprint DEF Save
  <2> QED  BY <1>3, <1>7, <2>1 DEF Save, OpeningInv, MountedGraph, graph
<1>8. CASE UNCHANGED vars
  <2>1. FingerprintNow' = FingerprintNow
    BY <1>8, SameFingerprint DEF vars
  <2> QED  BY <1>3, <1>8, <2>1 DEF vars, OpeningInv, MountedGraph, graph
<1> QED  BY <1>2, <1>4, <1>5, <1>6, <1>7, <1>8 DEF Next, GraphActions

\* Opening a workflow, laid out late or not, is no edit: the guard stays silent (Editor.tsx).
THEOREM OpeningIsSilent == Spec => []OpeningIsNoEdit
<1>1. Init => EditorInv /\ OpeningInv
  BY InitEditor, InitOpening
<1>2. EditorInv /\ OpeningInv /\ [Next]_vars => EditorInv' /\ OpeningInv'
  BY NextEditor, NextOpening
<1>3. OpeningInv => OpeningIsNoEdit
  BY DEF OpeningInv, OpeningIsNoEdit
<1> QED  BY <1>1, <1>2, <1>3, PTL DEF Spec
-----------------------------------------------------------------------------
(***************************************************************************)
(* The review: what it points out of the steps is decided by what would be *)
(* posted, but for the exits of the cases.                                 *)
(***************************************************************************)
Unreviewed == {f \in Findings \ warnings : f[2][1] # "case"}

ReviewInv == Open /\ warnings # {} => Unreviewed = {}

LEMMA SameFindings ==
    ASSUME NEW g \in SoundGraphs, NEW h \in SoundGraphs, NEW ui,
           ToDefinition(g, ui) = ToDefinition(h, ui),
           NEW x \in StepFindings(h), x[2][1] # "case"
    PROVE  x \in StepFindings(g)
<1>1. Ids(g) = Ids(h) /\ \A id \in Ids(g) :
         RebuildStep(g.step[id], Out(g, id)) = RebuildStep(h.step[id], Out(h, id))
  <2>1. ToDefinition(g, ui).steps = ToDefinition(h, ui).steps
    OBVIOUS
  <2>2. [id \in Ids(g) |-> RebuildStep(g.step[id], Out(g, id))]
          = [id \in Ids(h) |-> RebuildStep(h.step[id], Out(h, id))]
    BY <2>1 DEF ToDefinition
  <2> QED  BY <2>2
<1>2. ASSUME NEW id \in Ids(g)
      PROVE  /\ g.step[id].type = h.step[id].type /\ g.step[id].filled = h.step[id].filled
             /\ Handles(g.step[id]) = Handles(h.step[id])
  BY <1>1, RebuiltStep
<1>3. ASSUME NEW id \in Ids(h), h.step[id].type = "action", ~h.step[id].filled,
             x = <<id, Field("config")>>
      PROVE  x \in StepFindings(g)
  BY <1>1, <1>2, <1>3 DEF StepFindings
<1>4. ASSUME NEW id \in Ids(h), NEW hd \in Handles(h.step[id]), x = <<id, hd>>,
             Cardinality(Handles(h.step[id])) > 1, \A e \in Out(h, id) : e.handle # hd
      PROVE  x \in StepFindings(g)
  <2>1. hd[1] # "case"
    BY <1>4
  <2>2. PICK f \in DOMAIN h.step[id].fields : hd = Field(f)
    BY <2>1, FieldOrCase
  <2> DEFINE t == RebuildStep(h.step[id], Out(h, id))
  <2>3. t.fields[f] = Null /\ DOMAIN t.fields = DOMAIN h.step[id].fields
    BY <1>4, <2>2, RebuiltStep
  <2>4. t = RebuildStep(g.step[id], Out(g, id)) /\ id \in Ids(g)
    BY <1>1
  <2> HIDE DEF t
  <2>5. f \in DOMAIN g.step[id].fields
    BY <2>2, <2>3, <2>4, RebuiltStep
  <2>6. ASSUME NEW e \in Out(g, id)
        PROVE  e.handle # hd
    <3>1. e.target \in StepKeys
      BY EdgeOfStep DEF Out, Edges
    <3>2. e.handle = Field(f) => t.fields[f] = e.target
      BY <2>4, <2>5, RebuiltStep
    <3> QED  BY <2>2, <2>3, <3>1, <3>2 DEF StepKeys
  <2>7. hd \in Handles(g.step[id]) /\ Cardinality(Handles(g.step[id])) > 1
    BY <1>2, <1>4, <2>4
  <2> QED  BY <1>4, <2>4, <2>6, <2>7 DEF StepFindings
<1> QED  BY <1>3, <1>4 DEF StepFindings

LEMMA SameUnreviewed ==
    ASSUME EditorInv, EditorInv', mount' = mount, FingerprintNow' = FingerprintNow,
           warnings' = warnings, Unreviewed = {}
    PROVE  Unreviewed' = {}
<1>1. graph \in SoundGraphs /\ graph' \in SoundGraphs
  BY DEF EditorInv, HistoryOK, Histories, graph
<1>2. settings' = settings /\ ToDefinition(graph, mount.def.ui) = ToDefinition(graph', mount.def.ui)
  BY DEF FingerprintNow, Fingerprint, DefinitionOf
<1>3. ASSUME NEW x \in Findings', x[2][1] # "case"
      PROVE  x \in Findings
  <2>1. CASE x \in StepFindings(graph')
    BY <1>1, <1>2, <1>3, <2>1, SameFindings DEF Findings
  <2>2. CASE x \notin StepFindings(graph')
    BY <1>2, <2>2 DEF Findings
  <2> QED  BY <2>1, <2>2
<1> QED  BY <1>3 DEF Unreviewed

LEMMA NextReview == EditorInv /\ EditorInv' /\ ReviewInv /\ [Next]_vars => ReviewInv'
<1> SUFFICES ASSUME EditorInv, EditorInv', ReviewInv, [Next]_vars, Open', warnings' # {}
             PROVE  Unreviewed' = {}
  BY DEF ReviewInv
<1>1. Open /\ mount' = mount
  BY ClosedIsFinal, StepKinds DEF Open, vars
<1>2. ASSUME NEW base, Rendered(base)
      PROVE  Unreviewed' = {}
  <2>1. FingerprintNow' = FingerprintNow /\ warnings' = warnings
    BY <1>2 DEF Rendered
  <2> QED  BY <1>1, <2>1, SameUnreviewed DEF ReviewInv
<1>3. CASE LayoutArrives
  BY <1>2, <1>3 DEF LayoutArrives
<1>4. CASE UNCHANGED <<hist, conditions, settings, warnings>>
  <2>1. FingerprintNow' = FingerprintNow
    BY <1>1, <1>4, SameFingerprint
  <2> QED  BY <1>1, <1>4, <2>1, SameUnreviewed DEF ReviewInv
<1>5. CASE Review
  BY <1>5, SameFingerprint DEF Review, Unreviewed
<1>6. CASE Save
  BY <1>6 DEF Save, Open
<1> QED  BY <1>2, <1>3, <1>4, <1>5, <1>6, StepKinds

\* A save posts nothing whose findings were not on the screen: any edit after the
\* review, an undo or a late answer included, has it reviewed again (Editor.tsx).
THEOREM NothingIsUnreviewed == Spec => NothingUnreviewed
<1>1. Init => EditorInv /\ ReviewInv
  BY InitEditor DEF Init, ReviewInv
<1>2. EditorInv /\ ReviewInv /\ [Next]_vars => EditorInv' /\ ReviewInv'
  BY NextEditor, NextReview
<1>3. EditorInv /\ ReviewInv /\ [Next]_vars =>
        [posted' # posted => \A f \in Findings \ warnings : f[2][1] = "case"]_vars
  <2> SUFFICES ASSUME EditorInv, ReviewInv, [Next]_vars, posted' # posted,
                      NEW f \in Findings \ warnings
               PROVE  f[2][1] = "case"
    OBVIOUS
  <2>1. Save
    BY StepKinds DEF LayoutArrives, Review
  <2>2. Open /\ (warnings # {} \/ Findings = {})
    BY <2>1 DEF Save
  <2> QED  BY <2>2 DEF ReviewInv, Unreviewed
<1> QED  BY <1>1, <1>2, <1>3, PTL DEF Spec, NothingUnreviewed
-----------------------------------------------------------------------------
(***************************************************************************)
(* The save and the accepted tree                                          *)
(***************************************************************************)
SavedInv == posted.submitted => posted.form.def = DefinitionOf(graph)

LEMMA NextSaved == EditorInv /\ SavedInv /\ [Next]_vars => SavedInv'
<1> SUFFICES ASSUME EditorInv, SavedInv, [Next]_vars, posted'.submitted
             PROVE  posted'.form.def = DefinitionOf(graph)'
  BY DEF SavedInv
<1>1. CASE Open
  <2>1. Save
    BY <1>1, StepKinds DEF LayoutArrives, Review, Open
  <2> QED  BY <2>1 DEF Save, FingerprintNow, Fingerprint, DefinitionOf, graph
<1>2. CASE ~Open
  BY <1>2, ClosedIsFinal DEF SavedInv, Open, vars, DefinitionOf, graph
<1> QED  BY <1>1, <1>2

\* The definition that is posted has the steps and the entry of the canvas, leads
\* wherever the canvas shows it to lead, and to nothing else but by way of a case
\* (serializeGraph.ts).
THEOREM SaveKeeps == Spec => []SaveKeepsTheGraph
<1>1. Init => EditorInv /\ SavedInv
  BY InitEditor DEF Init, SavedInv, NotPosted
<1>2. EditorInv /\ SavedInv /\ [Next]_vars => EditorInv' /\ SavedInv'
  BY NextEditor, NextSaved
<1>3. EditorInv /\ SavedInv => SaveKeepsTheGraph
  BY GraphIsSoundNow, RoundTrip DEF SavedInv, SaveKeepsTheGraph, DefinitionOf
<1> QED  BY <1>1, <1>2, <1>3, PTL DEF Spec

\* An accepted tree is written to the step, and among its cases only to the one with
\* the key it was opened on, even if cases moved or were undone meanwhile (conditions.ts).
THEOREM TargetIsWritten == Spec => OnlyTheTargetIsWritten
<1> DEFINE Written ==
      \A id \in Ids(graph') :
        apply.pending /\ ~apply'.pending /\ hist' # hist =>
            LET before == apply.graph.step[id]
                after == graph'.step[id]
            IN  \/ after = before
                \/ /\ id = apply.target.id
                   /\ \A i \in DOMAIN before.cases :
                        before.cases[i].key # apply.target.key => after.cases[i] = before.cases[i]
<1>1. EditorInv /\ [Next]_vars => [Written]_vars
  <2> SUFFICES ASSUME EditorInv, [Next]_vars, NEW id \in Ids(graph'),
                      apply.pending, ~apply'.pending, hist' # hist
               PROVE  LET before == apply.graph.step[id]
                          after == graph'.step[id]
                      IN  \/ after = before
                          \/ /\ id = apply.target.id
                             /\ \A i \in DOMAIN before.cases :
                                  before.cases[i].key # apply.target.key => after.cases[i] = before.cases[i]
    OBVIOUS
  <2> DEFINE t == apply.target
             old == apply.graph
             written == ApplyConditions(old.step[t.id], t, apply.tree, apply.revalidate)
  <2>1. Accepted
    <3>1. ~GraphActions
      BY EditsAreSound DEF EditsGraph, Edit
    <3> QED  BY <3>1 DEF Next, GraphActions, ChangeSettings, Undo, Redo, LayoutArrives, OpenConditions,
                         CancelConditions, ClickApply, Rejected, Review, Save, vars
  <2>2. t.id \in Ids(old) /\ Commit(ReplaceStep(old, t.id, written))
    BY <2>1 DEF Accepted
  <2>3. graph' = ReplaceStep(old, t.id, written)
    BY <2>2 DEF Commit, SetHistory, Push, graph
  <2>4. old \in SoundGraphs /\ apply.tree \in Conditions /\ apply.revalidate \in Revalidates
    BY DEF EditorInv
  <2>5. old.step[t.id] \in Steps
    BY <2>2, <2>4, SwitchFacts
  <2>6. \A j \in DOMAIN old.step[t.id].cases :
           old.step[t.id].cases[j].key # t.key => written.cases[j] = old.step[t.id].cases[j]
    <3> DEFINE s == old.step[t.id]
               tree == apply.tree
               revalidate == apply.revalidate
    <3>1. s \in Steps /\ tree \in Conditions /\ revalidate \in Revalidates
      BY <2>4, <2>5
    <3> HIDE DEF s, tree, revalidate
    <3>2. \A j \in DOMAIN s.cases : s.cases[j].key # t.key =>
             ApplyConditions(s, t, tree, revalidate).cases[j] = s.cases[j]
      BY <3>1, WrittenStep
    <3> QED  BY <3>2 DEF s, tree, revalidate
  <2> HIDE DEF written
  <2>7. graph'.step = [old.step EXCEPT ![t.id] = written] /\ Ids(graph') = Ids(old)
    BY <2>2, <2>3, <2>4, SoundGraph DEF ReplaceStep, GraphsOn, Ids
  <2>8. CASE id = t.id
    BY <2>2, <2>6, <2>7, <2>8 DEF Ids
  <2>9. CASE id # t.id
    BY <2>7, <2>9 DEF Ids
  <2> QED  BY <2>8, <2>9
<1> QED  BY <1>1, EditorInvariant, PTL DEF Spec, OnlyTheTargetIsWritten
=============================================================================
