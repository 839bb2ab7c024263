----------------------------- MODULE StepGraph ------------------------------
(***************************************************************************)
(* The canvas editor's graph and the pure operations on it: definition to  *)
(* graph and back, the connect rules, the graph edits and the case list of *)
(* a switch step, whose case keys are edge handles.                        *)
(*                                                                         *)
(* A graph is [step, place, pos, edges, entry].  The steps carry the data  *)
(* they were loaded or created with, the targets they had then included;   *)
(* the edges are what the canvas shows.  place is a node's position in the *)
(* node list.  A handle is a pair: <<"on_true", 0>> for a declared edge,   *)
(* <<"case", k>> for the case with key k.  Labels, summaries and the       *)
(* coordinates are left out; of a position only its origin is kept:        *)
(* nowhere yet, the automatic layout, the stored definition or the user.   *)
(***************************************************************************)
EXTENDS Naturals, Sequences, FiniteSets, FiniteSetsExt, SequencesExt

Null == 0                               \* JSON null where a step key may be
NoKey == 0                              \* a case key of which nothing is left
StepTypes == {"action", "delay", "branch", "wait", "approval", "switch", "stop"}
Positions == {"origin", "laid", "stored", "dragged"}

(***************************************************************************)
(* Steps and their handles                                                 *)
(***************************************************************************)
EdgeFields(type) ==
    CASE type \in {"action", "delay"} -> {"next"}
      [] type = "branch" -> {"on_true", "on_false"}
      [] type = "wait" -> {"on_event", "on_timeout"}
      [] type = "approval" -> {"on_approved", "on_rejected", "on_timeout"}
      [] type = "switch" -> {"default"}
      [] type = "stop" -> {}

Field(name) == <<name, 0>>
CaseHandle(key) == <<"case", key>>

CaseKeys(cases) == {cases[i].key : i \in DOMAIN cases}

\* The step's declared edges and the target each of them names.
StepEdges(step) ==
    LET fields == {Field(f) : f \in DOMAIN step.fields}
        cases == {CaseHandle(k) : k \in CaseKeys(step.cases)}
        caseAt(h) == CHOOSE i \in DOMAIN step.cases : CaseHandle(step.cases[i].key) = h
    IN  [h \in fields \cup cases |->
            IF h \in fields THEN step.fields[h[1]] ELSE step.cases[caseAt(h)].next]

Handles(step) == DOMAIN StepEdges(step)

BlankCase(key) == [key |-> key, conditions |-> "always", next |-> Null]

\* A step as the palette drops it; the operator still has to fill in its fields.
BlankStep(type) ==
    [type |-> type, filled |-> FALSE, conditions |-> "always", revalidate |-> "absent",
     fields |-> [f \in EdgeFields(type) |-> Null],
     cases |-> IF type = "switch" THEN <<BlankCase(1)>> ELSE <<>>]

(***************************************************************************)
(* Editing                                                                 *)
(***************************************************************************)
Ids(g) == DOMAIN g.step

Out(g, id) == {e \in g.edges : e.source = id}

With(f, k, v) == [x \in DOMAIN f \cup {k} |-> IF x = k THEN v ELSE f[x]]

\* The first node of the list, Null if there is none.
FirstNode(place) ==
    IF DOMAIN place = {} THEN Null
    ELSE CHOOSE k \in DOMAIN place : \A j \in DOMAIN place : place[k] <= place[j]

\* The first key beyond the last one handed out that the graph does not use.
NextStepKey(g, last) == Min({k \in last + 1 .. last + 1 + Cardinality(Ids(g)) : k \notin Ids(g)})

AddNode(g, id, step, pos) ==
    [g EXCEPT !.step = With(@, id, step),
              !.place = With(@, id, IF Ids(g) = {} THEN 1 ELSE 1 + Max({@[k] : k \in Ids(g)})),
              !.pos = With(@, id, pos),
              !.entry = IF Ids(g) = {} THEN id ELSE @]

DeleteNodes(g, ids) ==
    LET left == Ids(g) \ ids
        place == [k \in left |-> g.place[k]]
    IN  [step |-> [k \in left |-> g.step[k]],
         place |-> place,
         pos |-> [k \in left |-> g.pos[k]],
         edges |-> {e \in g.edges : e.source \notin ids /\ e.target \notin ids},
         entry |-> IF g.entry \in ids THEN FirstNode(place) ELSE g.entry]

CanConnect(g, source, handle, target) ==
    /\ source \in Ids(g)
    /\ target \in Ids(g)
    /\ handle \in Handles(g.step[source])
    /\ source # target
    /\ target # g.entry

\* A handle carries one edge: the new one replaces the old.
Connect(g, source, handle, target) ==
    [g EXCEPT !.edges =
        {e \in @ : ~(e.source = source /\ e.handle = handle)}
        \cup {[source |-> source, handle |-> handle, target |-> target]}]

Disconnect(g, edges) == [g EXCEPT !.edges = @ \ edges]

MoveNode(g, id) == [g EXCEPT !.pos[id] = "dragged"]

\* Deleting what is selected: the edges first, then the nodes with what touches them.
DeleteSelection(g, ids, edges) == DeleteNodes(Disconnect(g, edges), ids)

ReplaceStep(g, id, step) ==
    IF id \in Ids(g) THEN [g EXCEPT !.step[id] = step] ELSE g

(***************************************************************************)
(* The cases of a switch step                                              *)
(***************************************************************************)
NextCaseKey(cases) ==
    Min({n \in Len(cases) + 1 .. 2 * Len(cases) + 1 : n \notin CaseKeys(cases)})

WithCases(g, id, cases) == [g EXCEPT !.step[id].cases = cases]

AddCase(g, id) ==
    LET cases == g.step[id].cases
    IN  WithCases(g, id, Append(cases, BlankCase(NextCaseKey(cases))))

\* Mutant of CaseRemovable: the last case may go.
CaseRemovableAnyway(g, id, i) == i \in DOMAIN g.step[id].cases

CaseRemovable(g, id, i) == i \in DOMAIN g.step[id].cases /\ Len(g.step[id].cases) > 1

\* The case goes, and the edge its key owned.
RemoveCase(g, id, i) ==
    LET cases == g.step[id].cases
        gone == CaseHandle(cases[i].key)
    IN  [WithCases(g, id, RemoveAt(cases, i))
            EXCEPT !.edges = {e \in @ : ~(e.source = id /\ e.handle = gone)}]

KeyAccepted(g, id, i, key) ==
    /\ key # NoKey
    /\ \A j \in DOMAIN g.step[id].cases \ {i} : g.step[id].cases[j].key # key

\* The case keeps its conditions and its target, and its edge follows the key.
Rehandle(edges, id, old, new) ==
    {IF e.source = id /\ e.handle = CaseHandle(old) THEN [e EXCEPT !.handle = CaseHandle(new)]
     ELSE e : e \in edges}

\* Mutant of RenameCase: the edge stays on the old handle.
RenameCaseOnly(g, id, i, key) ==
    WithCases(g, id, [g.step[id].cases EXCEPT ![i].key = key])

RenameCase(g, id, i, key) ==
    LET old == g.step[id].cases[i].key
    IN  [WithCases(g, id, [g.step[id].cases EXCEPT ![i].key = key])
            EXCEPT !.edges = Rehandle(@, id, old, key)]

\* First match wins: the order is what the cases mean, and no edge depends on it.
MoveCase(g, id, i, delta) ==
    LET cases == g.step[id].cases
        to == i + delta
    IN  IF {i, to} \subseteq DOMAIN cases
        THEN WithCases(g, id, InsertAt(RemoveAt(cases, i), to, cases[i]))
        ELSE g

(***************************************************************************)
(* Conditions: where a tree lives, and writing it there                    *)
(***************************************************************************)
\* Mutant of CaseIndex: the position the case had when the slide-out opened.
CaseIndexByPosition(cases, target) ==
    IF target.index \in DOMAIN cases THEN target.index ELSE 0

CaseIndex(cases, target) ==
    IF target.index \in DOMAIN cases /\ cases[target.index].key = target.key
    THEN target.index
    ELSE SelectInSeq(cases, LAMBDA c : c.key = target.key)

ReadConditions(step, target) ==
    IF target.scope = "case"
    THEN LET i == CaseIndex(step.cases, target)
         IN  IF i = 0 THEN "always" ELSE step.cases[i].conditions
    ELSE step.conditions

SupportsRevalidate(step) == step.type \in {"branch", "switch"}

ApplyConditions(step, target, tree, revalidate) ==
    LET i == CaseIndex(step.cases, target)
        written ==
            CASE target.scope = "case" /\ i > 0 -> [step EXCEPT !.cases[i].conditions = tree]
              [] target.scope = "step" -> [step EXCEPT !.conditions = tree]
              [] OTHER -> step
        stripped ==
            IF step.type = "switch" THEN [written EXCEPT !.conditions = "always"] ELSE written
    IN  IF SupportsRevalidate(step) /\ (step.revalidate # "absent" \/ revalidate = "false")
        THEN [stripped EXCEPT !.revalidate = revalidate]
        ELSE stripped

(***************************************************************************)
(* Definition to graph and back                                            *)
(***************************************************************************)
ToGraph(def) ==
    LET ids == DOMAIN def.steps
    IN  [step |-> def.steps,
         place |-> [id \in ids |-> Cardinality({k \in ids : k <= id})],
         pos |-> [id \in ids |-> IF id \in DOMAIN def.ui THEN def.ui[id] ELSE "origin"],
         edges |-> {e \in [source : ids, handle : UNION {Handles(def.steps[k]) : k \in ids}, target : ids] :
                        /\ e.handle \in Handles(def.steps[e.source])
                        /\ e.target = StepEdges(def.steps[e.source])[e.handle]},
         entry |-> def.entry]

\* Mutant of RebuildStep: the cases keep the targets they were loaded with.
RebuildStepStaleCases(step, out) ==
    [step EXCEPT
        !.fields = [f \in DOMAIN @ |->
            IF \E e \in out : e.handle = Field(f)
            THEN (CHOOSE e \in out : e.handle = Field(f)).target ELSE Null]]

\* A declared edge is written or cleared; a case is only ever given a new target.
RebuildStep(step, out) ==
    LET wired == {e.handle : e \in out}
        target(h) == (CHOOSE e \in out : e.handle = h).target
        retarget(c) == IF CaseHandle(c.key) \in wired
                       THEN [c EXCEPT !.next = target(CaseHandle(c.key))] ELSE c
    IN  [step EXCEPT
            !.fields = [f \in DOMAIN @ |-> IF Field(f) \in wired THEN target(Field(f)) ELSE Null],
            !.cases = [i \in DOMAIN @ |-> retarget(@[i])],
            !.conditions = IF step.type = "switch" THEN "always" ELSE @]

\* Positions are merged over the stored ones: what was stored of a deleted step stays.
BuildUi(pos, existing) ==
    [id \in DOMAIN existing \cup {k \in DOMAIN pos : pos[k] # "origin"} |->
        IF id \in DOMAIN pos THEN pos[id] ELSE existing[id]]

ToDefinition(g, existing) ==
    [steps |-> [id \in Ids(g) |-> RebuildStep(g.step[id], Out(g, id))],
     entry |-> g.entry,
     ui |-> BuildUi(g.pos, existing)]

(***************************************************************************)
(* Layout and review                                                       *)
(***************************************************************************)
NeedsLayout(g) == \E id \in Ids(g) : g.pos[id] = "origin"

MoveAll(g, ids) == [g EXCEPT !.pos = [id \in DOMAIN @ |-> IF id \in ids THEN "laid" ELSE @[id]]]

\* What the first click on Save points out about the steps.
StepFindings(g) ==
    {<<id, Field("config")>> : id \in {k \in Ids(g) : g.step[k].type = "action" /\ ~g.step[k].filled}}
    \cup UNION {{<<id, h>> : h \in {x \in Handles(g.step[id]) :
                                        /\ Cardinality(Handles(g.step[id])) > 1
                                        /\ \A e \in Out(g, id) : e.handle # x}} : id \in Ids(g)}
=============================================================================
