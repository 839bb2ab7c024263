---------------------------- MODULE CanvasEditor ----------------------------
(***************************************************************************)
(* The canvas editor (Editor.tsx): one history of graphs, the workflow     *)
(* settings and root conditions beside it, the automatic layout and the    *)
(* condition slide-out that answer late, the unsaved-changes guard and the *)
(* review before a save.                                                   *)
(*                                                                         *)
(* An action is one handler together with the render and the effects it    *)
(* causes.  Which step is selected, status texts, labels and the pinned    *)
(* validation messages are left out: they are shown and never saved.       *)
(***************************************************************************)
EXTENDS StepGraph, Integers

CONSTANTS
    Mounts,       \* what the page may be opened on: [def, conditions, settings]
    AddedTypes,   \* the palette's step types
    CaseNames,    \* the case keys an operator may type
    Trees,        \* condition trees
    Revalidates,  \* what the revalidate box may be left at: subset of {"true", "false"}
    SettingsSet,  \* values of the settings panel: [named, trigger]
    MaxSelected,  \* bound on what is deleted at once
    HistoryLimit, \* snapshots the undo stack keeps
    MaxEdits      \* bound on the edits of one session

(***************************************************************************)
(* What steps, edges and graphs are, and what the page may be opened on:   *)
(* the mount's definition has been validated on its way in.                *)
(***************************************************************************)
Conditions == Trees \cup {"always"}

Cases == [key : Nat, conditions : Conditions, next : Nat]

StepsOf(type) ==
    [type : {type}, filled : BOOLEAN, conditions : Conditions,
     revalidate : {"absent"} \cup Revalidates, fields : [EdgeFields(type) -> Nat],
     cases : IF type = "switch" THEN Seq(Cases) \ {<<>>} ELSE {<<>>}]

IsStep(s) == \E type \in StepTypes : s \in StepsOf(type)

StepKeys == Nat \ {Null}

HandleNames == {"case"} \cup UNION {EdgeFields(type) : type \in StepTypes}

Edges == [source : StepKeys, handle : HandleNames \X Nat, target : StepKeys]

IsGraph(g) ==
    /\ IsFiniteSet(Ids(g)) /\ Ids(g) \subseteq StepKeys
    /\ \A id \in Ids(g) : IsStep(g.step[id])
    /\ g \in [step : [Ids(g) -> {g.step[id] : id \in Ids(g)}], place : [Ids(g) -> Nat],
             pos : [Ids(g) -> Positions], edges : SUBSET Edges, entry : Nat]

HasEntry(ids, entry) == IF ids = {} THEN entry = Null ELSE entry \in ids

ASSUME EditorAssumption ==
    /\ HistoryLimit \in Nat \ {0} /\ MaxEdits \in Nat
    /\ AddedTypes \subseteq StepTypes /\ CaseNames \subseteq Nat
    /\ \A m \in Mounts :
        /\ m.def.steps = [id \in DOMAIN m.def.steps |-> m.def.steps[id]]
        /\ \A id \in DOMAIN m.def.steps : IsStep(m.def.steps[id])
        /\ IsFiniteSet(DOMAIN m.def.steps) /\ DOMAIN m.def.steps \subseteq StepKeys
        /\ HasEntry(DOMAIN m.def.steps, m.def.entry)
        /\ m.def.ui \in [DOMAIN m.def.ui -> {"stored"}]
        /\ m.conditions \in Conditions

VARIABLES
    mount,        \* the bootstrap: what is stored on the server
    hist,         \* [past, present, future] of graphs
    conditions,   \* the workflow's root condition tree
    settings,     \* the settings panel
    saved,        \* the fingerprint dirtiness is measured against
    dirty,        \* whether leaving the page prompts
    warnings,     \* the findings under review, {} when none are shown
    layout,       \* "idle" or "running"
    slideOut,     \* the target the condition slide-out is open on
    apply,        \* the Apply in flight, with what its handler captured
    posted,       \* the submitted form, once the page navigates away
    lastKey,      \* the last step key number handed out
    edits         \* how many edits were made

vars == <<mount, hist, conditions, settings, saved, dirty, warnings, layout,
          slideOut, apply, posted, lastKey, edits>>

graph == hist.present

NoTarget == [scope |-> "none", id |-> Null, index |-> 0, key |-> NoKey]
Idle == [pending |-> FALSE]
NotPosted == [submitted |-> FALSE]

\* The definition a save would post and, with what is saved beside it, the fingerprint.
DefinitionOf(g) == ToDefinition(g, mount.def.ui)
Fingerprint(g, c, s) == [def |-> DefinitionOf(g), conditions |-> c, settings |-> s]
FingerprintNow == Fingerprint(graph, conditions, settings)

Findings ==
    StepFindings(graph)
    \cup {<<Null, Field("trigger")>> : x \in {y \in {settings} : y.trigger = "unregistered"}}

Open == ~posted.submitted

Init ==
    /\ mount \in Mounts
    /\ hist = [past |-> <<>>, present |-> ToGraph(mount.def), future |-> <<>>]
    /\ conditions = mount.conditions
    /\ settings = mount.settings
    /\ saved = FingerprintNow
    /\ dirty = FALSE
    /\ warnings = {}
    /\ layout = IF NeedsLayout(graph) THEN "running" ELSE "idle"
    /\ slideOut = NoTarget
    /\ apply = Idle
    /\ posted = NotPosted
    /\ lastKey = 0
    /\ edits = 0

(***************************************************************************)
(* History                                                                 *)
(***************************************************************************)
\* Mutant of Push: what had been undone can still be redone.
PushKeepsFuture(h, g) ==
    LET past == Append(h.past, h.present)
    IN  [past |-> IF Len(past) > HistoryLimit THEN Tail(past) ELSE past,
         present |-> g, future |-> h.future]

Push(h, g) ==
    LET past == Append(h.past, h.present)
    IN  [past |-> IF Len(past) > HistoryLimit THEN Tail(past) ELSE past,
         present |-> g, future |-> <<>>]

UndoOf(h) ==
    IF h.past = <<>> THEN h
    ELSE [past |-> Front(h.past), present |-> Last(h.past), future |-> <<h.present>> \o h.future]

RedoOf(h) ==
    IF h.future = <<>> THEN h
    ELSE [past |-> Append(h.past, h.present), present |-> Head(h.future), future |-> Tail(h.future)]

(***************************************************************************)
(* The effect that follows a render: once the fingerprint has changed, the *)
(* guard is set by comparison with the baseline and a pending "Save        *)
(* anyway" is withdrawn.                                                   *)
(***************************************************************************)
\* Mutant of Rendered: an edit leaves "Save anyway" where it is.
RenderedKeepsReview(base) ==
    /\ saved' = base
    /\ UNCHANGED warnings
    /\ IF FingerprintNow' = FingerprintNow
       THEN UNCHANGED dirty ELSE dirty' = (FingerprintNow' # base)

Rendered(base) ==
    /\ saved' = base
    /\ IF FingerprintNow' = FingerprintNow
       THEN UNCHANGED <<dirty, warnings>>
       ELSE /\ dirty' = (FingerprintNow' # base)
            /\ warnings' = {}

SetHistory(h) ==
    /\ hist' = h
    /\ UNCHANGED <<mount, conditions, settings, posted>>
    /\ Rendered(saved)

Commit(g) == SetHistory(Push(hist, g))

Counted == edits < MaxEdits /\ edits' = edits + 1

\* An edit of the graph from the canvas, the palette or the panel.
Edit(g) ==
    /\ Open /\ slideOut = NoTarget
    /\ Counted
    /\ Commit(g)
    /\ UNCHANGED <<layout, slideOut, apply>>

(***************************************************************************)
(* Canvas and palette                                                      *)
(***************************************************************************)
AddStep ==
    \E type \in AddedTypes :
        LET id == NextStepKey(graph, lastKey)
        IN  /\ Edit(AddNode(graph, id, BlankStep(type), "dragged"))
            /\ lastKey' = id

ConnectSteps ==
    \E source, target \in Ids(graph) : \E h \in Handles(graph.step[source]) :
        /\ CanConnect(graph, source, h, target)
        /\ Edit(Connect(graph, source, h, target))
        /\ UNCHANGED lastKey

\* The selected steps go with the edges that touch them, the selected edges on their own.
Delete ==
    \E ids \in SUBSET Ids(graph), edges \in SUBSET graph.edges :
        /\ Cardinality(ids) + Cardinality(edges) \in 1 .. MaxSelected
        /\ Edit(DeleteSelection(graph, ids, edges))
        /\ UNCHANGED lastKey

Drag ==
    \E id \in Ids(graph) :
        /\ Edit(MoveNode(graph, id))
        /\ UNCHANGED lastKey

(***************************************************************************)
(* The configuration panel                                                 *)
(***************************************************************************)
FillIn ==
    \E id \in Ids(graph), filled \in BOOLEAN :
        /\ graph.step[id].type = "action"
        /\ Edit(ReplaceStep(graph, id, [graph.step[id] EXCEPT !.filled = filled]))
        /\ UNCHANGED lastKey

\* A rename that leaves the key as it was is committed like any other.
EditCases ==
    \E id \in {k \in Ids(graph) : graph.step[k].type = "switch"} :
        /\ \/ Edit(AddCase(graph, id))
           \/ \E i \in DOMAIN graph.step[id].cases :
                 \/ CaseRemovable(graph, id, i) /\ Edit(RemoveCase(graph, id, i))
                 \/ \E key \in CaseNames :
                       KeyAccepted(graph, id, i, key) /\ Edit(RenameCase(graph, id, i, key))
                 \/ \E delta \in {-1, 1} :
                       /\ i + delta \in DOMAIN graph.step[id].cases
                       /\ Edit(MoveCase(graph, id, i, delta))
        /\ UNCHANGED lastKey

(***************************************************************************)
(* Settings, keyboard and layout                                           *)
(***************************************************************************)
ChangeSettings ==
    /\ Open /\ Counted
    /\ settings' \in SettingsSet \ {settings}
    /\ UNCHANGED <<mount, hist, conditions, layout, slideOut, apply, posted, lastKey>>
    /\ Rendered(saved)

\* The shortcuts work whatever has the focus, an open slide-out included.
Undo ==
    /\ Open /\ hist.past # <<>>
    /\ SetHistory(UndoOf(hist))
    /\ UNCHANGED <<layout, slideOut, apply, lastKey, edits>>

Redo ==
    /\ Open /\ hist.future # <<>>
    /\ SetHistory(RedoOf(hist))
    /\ UNCHANGED <<layout, slideOut, apply, lastKey, edits>>

\* Mutant of LayoutArrives: the baseline is whatever the operator has made by then.
LayoutForgivesEdits ==
    /\ Open /\ layout = "running"
    /\ layout' = "idle"
    /\ hist' = [hist EXCEPT !.present = MoveAll(@, Ids(ToGraph(mount.def)))]
    /\ UNCHANGED <<mount, conditions, settings, slideOut, apply, posted, lastKey, edits>>
    /\ Rendered(FingerprintNow')

\* Mutant of LayoutArrives: the layout counts as an edit.
LayoutIsAnEdit ==
    /\ Open /\ layout = "running"
    /\ layout' = "idle"
    /\ hist' = [hist EXCEPT !.present = MoveAll(@, Ids(ToGraph(mount.def)))]
    /\ UNCHANGED <<mount, conditions, settings, slideOut, apply, posted, lastKey, edits>>
    /\ Rendered(saved)

\* The layout of the graph as mounted arrives; it is no edit, so the baseline moves with it.
LayoutArrives ==
    /\ Open /\ layout = "running"
    /\ layout' = "idle"
    /\ LET mounted == ToGraph(mount.def)
       IN  /\ hist' = [hist EXCEPT !.present = MoveAll(@, Ids(mounted))]
           /\ UNCHANGED <<mount, conditions, settings, slideOut, apply, posted, lastKey, edits>>
           /\ Rendered(Fingerprint(MoveAll(mounted, Ids(mounted)), mount.conditions, mount.settings))

(***************************************************************************)
(* The condition slide-out                                                 *)
(***************************************************************************)
Targets ==
    {[scope |-> "workflow", id |-> Null, index |-> 0, key |-> NoKey]}
    \cup {[scope |-> "step", id |-> k, index |-> 0, key |-> NoKey] :
            k \in {j \in Ids(graph) : graph.step[j].type = "branch"}}
    \cup UNION {{[scope |-> "case", id |-> k, index |-> i, key |-> graph.step[k].cases[i].key] :
                    i \in DOMAIN graph.step[k].cases} : k \in Ids(graph)}

OpenConditions ==
    /\ Open /\ slideOut = NoTarget
    /\ Counted
    /\ slideOut' \in Targets
    /\ UNCHANGED <<mount, hist, conditions, settings, saved, dirty, warnings, layout,
                   apply, posted, lastKey>>

CancelConditions ==
    /\ Open /\ slideOut # NoTarget
    /\ slideOut' = NoTarget
    /\ UNCHANGED <<mount, hist, conditions, settings, saved, dirty, warnings, layout,
                   apply, posted, lastKey, edits>>

\* The tree the slide-out was opened with.
StoredTree ==
    IF slideOut.scope = "workflow" THEN conditions
    ELSE IF slideOut.id \in Ids(graph) THEN ReadConditions(graph.step[slideOut.id], slideOut)
    ELSE "always"

\* The request leaves with the tree, edited or not; the handler that will take the
\* answer is the one of this render, with its target and its graph.
ClickApply ==
    /\ Open /\ slideOut # NoTarget /\ ~apply.pending
    /\ \E tree \in Trees \cup {StoredTree}, revalidate \in Revalidates :
          apply' = [pending |-> TRUE, target |-> slideOut, graph |-> graph,
                    tree |-> tree, revalidate |-> revalidate]
    /\ UNCHANGED <<mount, hist, conditions, settings, saved, dirty, warnings, layout,
                   slideOut, posted, lastKey, edits>>

Rejected ==
    /\ Open /\ apply.pending
    /\ apply' = Idle
    /\ UNCHANGED <<mount, hist, conditions, settings, saved, dirty, warnings, layout,
                   slideOut, posted, lastKey, edits>>

\* Accepted, or the server could not be reached: the tree is written to its target in
\* the captured graph, and whatever slide-out is open closes.
Accepted ==
    /\ Open /\ apply.pending
    /\ apply' = Idle
    /\ slideOut' = NoTarget
    /\ LET t == apply.target
           old == apply.graph
       IN  IF t.scope = "workflow"
           THEN /\ conditions' = apply.tree
                /\ UNCHANGED <<mount, hist, settings, posted>>
                /\ Rendered(saved)
           ELSE IF t.id \in Ids(old)
           THEN Commit(ReplaceStep(old, t.id,
                           ApplyConditions(old.step[t.id], t, apply.tree, apply.revalidate)))
           ELSE UNCHANGED <<mount, hist, conditions, settings, saved, dirty, warnings, posted>>
    /\ UNCHANGED <<layout, lastKey, edits>>

(***************************************************************************)
(* Saving                                                                  *)
(***************************************************************************)
Review ==
    /\ Open /\ settings.named
    /\ warnings = {} /\ Findings # {}
    /\ warnings' = Findings
    /\ UNCHANGED <<mount, hist, conditions, settings, saved, dirty, layout, slideOut,
                   apply, posted, lastKey, edits>>

Save ==
    /\ Open /\ settings.named
    /\ warnings # {} \/ Findings = {}
    /\ saved' = FingerprintNow
    /\ dirty' = FALSE
    /\ posted' = [submitted |-> TRUE, form |-> FingerprintNow]
    /\ UNCHANGED <<mount, hist, conditions, settings, warnings, layout, slideOut,
                   apply, lastKey, edits>>

Next ==
    \/ AddStep \/ ConnectSteps \/ Delete \/ Drag \/ FillIn \/ EditCases
    \/ ChangeSettings \/ Undo \/ Redo \/ LayoutArrives
    \/ OpenConditions \/ CancelConditions \/ ClickApply \/ Rejected \/ Accepted
    \/ Review \/ Save

Spec == Init /\ [][Next]_vars

-----------------------------------------------------------------------------
(***************************************************************************)
(* Properties                                                              *)
(***************************************************************************)
\* The variables hold what the handlers keep in them.
EditorTypeOK ==
    /\ IsGraph(graph)
    /\ conditions \in Conditions
    /\ settings \in SettingsSet \cup {mount.settings}
    /\ dirty \in BOOLEAN
    /\ edits \in 0 .. MaxEdits

Snapshots == {graph} \cup {hist.past[i] : i \in DOMAIN hist.past}
                     \cup {hist.future[i] : i \in DOMAIN hist.future}

GraphIsSound(g) ==
    /\ \A e \in g.edges : /\ {e.source, e.target} \subseteq Ids(g)
                          /\ e.handle \in Handles(g.step[e.source])
    /\ \A e, f \in g.edges : e.source = f.source /\ e.handle = f.handle => e = f
    /\ HasEntry(Ids(g), g.entry)

\* Whatever was added, deleted, renamed, undone or answered late, no graph the editor
\* shows or can go back to has a dangling edge, two edges on one handle, an edge on a
\* handle its step does not have, or an entry that is not a step (graphOps, switchCases).
GraphsAreSound == \A g \in Snapshots : GraphIsSound(g)

\* Undo can be taken back: redo leads to the very history one came from, and both
\* stacks together never outgrow the limit (history.ts).
UndoIsReversible ==
    [][/\ hist' = UndoOf(hist) => hist.past = <<>> \/ RedoOf(hist') = hist
       /\ Len(hist'.past) + Len(hist'.future) <= HistoryLimit]_vars

\* What an operator made: everything saved but the places nobody chose.
Work(f) ==
    [f EXCEPT !.def.ui = {id \in DOMAIN f.def.ui : f.def.ui[id] = "dragged"}]

Mounted == Fingerprint(ToGraph(mount.def), mount.conditions, mount.settings)

\* The page cannot be left without a prompt while work would be lost, however the late
\* layout and the edits interleave (the unsaved-changes guard).
UnsavedWorkIsGuarded == Open /\ ~dirty => Work(FingerprintNow) = Work(Mounted)

\* Opening a workflow, laid out late or not, is no edit: the guard stays silent.
OpeningIsNoEdit == edits = 0 => ~dirty

\* A save posts nothing whose findings were not on the screen: any edit after the
\* review, an undo or a late answer included, has it reviewed again.  The exit of a case
\* is no part of it: losing its edge changes nothing of what is posted.
NothingUnreviewed ==
    [][posted' # posted => \A f \in Findings \ warnings : f[2][1] = "case"]_vars

\* The definition that is posted has the steps and the entry of the canvas, leads
\* wherever the canvas shows it to lead, and to nothing else but by way of a case.
SaveKeepsTheGraph ==
    posted.submitted =>
        LET reread == ToGraph(posted.form.def)
        IN  /\ Ids(reread) = Ids(graph) /\ reread.entry = graph.entry
            /\ graph.edges \subseteq reread.edges
            /\ \A e \in reread.edges \ graph.edges : e.handle[1] = "case"

\* An accepted tree is written to the step, and among its cases only to the one with
\* the key it was opened on, even if cases moved or were undone meanwhile.
OnlyTheTargetIsWritten ==
    [][\A id \in Ids(graph') :
        apply.pending /\ ~apply'.pending /\ hist' # hist =>
            LET before == apply.graph.step[id]
                after == graph'.step[id]
            IN  \/ after = before
                \/ /\ id = apply.target.id
                   /\ \A i \in DOMAIN before.cases :
                        before.cases[i].key # apply.target.key => after.cases[i] = before.cases[i]]_vars

\* A save posts what the canvas shows: an edge that was removed stays removed.
SaveIsWhatIsShown ==
    posted.submitted => ToGraph(posted.form.def).edges = graph.edges

\* An accepted tree costs no edit: the other steps and all edges stay as they are shown.
ApplyKeepsOtherEdits ==
    [][apply.pending /\ ~apply'.pending /\ hist' # hist =>
        /\ graph'.edges = graph.edges
        /\ \A id \in Ids(graph) \ {apply.target.id} :
              id \in Ids(graph') /\ graph'.step[id] = graph.step[id]]_vars
=============================================================================
