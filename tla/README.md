# A TLA+ model of magento-workflows

This directory models the two parts of magento-workflows that carry its logic: the
execution engine, which runs workflows on the server, and the canvas editor, the
React application in which they are made. It checks them on small instances with
TLC and proves their central invariants with TLAPS.
`PROJECT.json` is the machine-readable index: components, runs, mutants, the map
from definitions to source lines, findings, hazards and theorems.

Paths below are relative to the repository root; `engine/` abbreviates
`src/module-workflows/` and `app/` abbreviates
`src/module-workflows-canvas/app/src/`.

## 1. The system

A *workflow* is a versioned graph of typed steps. An observer, a schedule or an
inbound webhook hands an event to the dispatcher, which creates an *execution*
(a row with a pinned definition snapshot) and publishes its id on the topic
`workflow.execute`. A queue consumer loads the row and walks the graph. Steps of
type `delay`, `wait` and `approval` *park* the execution: the step row gets a
`resume_at`, the execution gets status `waiting`, and the consumer lets go of it.
Something later *wakes* it: it claims the row with a conditional UPDATE
`waiting -> pending`, may write an outcome into the step row, and publishes the
id on `workflow.resume`; a consumer of that topic closes the waiting rows, routes
the execution by the outcome and walks on. The database row and the messages
are all that the processes share; there are no transactions around these
statements.

The graph is drawn in the *canvas editor*, a page of the admin. It is mounted on
the stored definition, keeps one history of graphs that undo and redo walk through,
and posts the definition back with an ordinary form. Beside the canvas stand a
configuration panel with a control per field, a settings panel, and a slide-out in
which condition trees are built or typed as JSON. One browser tab has no threads,
but it does have answers that come late: the automatic layout, the metadata of
condition types, the check of a tree by the server, searches. Each is taken over by
a callback that remembers the state of the render it was made in.

### Inventory

| Component | State it keeps | Operations | Hard behaviour | What makes it correct | Module |
|---|---|---|---|---|---|
| Definition snapshot (`engine/Model/Definition`) | steps, edges by type | parse, `nextKeys`, `entry` | definitions that got past validation may loop | edges lead to steps or end the walk | `WorkflowDefinition` |
| Executor (`engine/Model/Engine/Executor.php`) | execution row, step rows, an in-memory copy | `execute`, `walk`, one handler per step type, `failStep` | redelivery after a crash between any two statements; whole-model saves | one owner; one row per step; effects bounded by redeliveries; terminal means terminal | `Executor` |
| Queue consumers (`engine/Model/Queue`) | none of their own | `process` of the execute and the resume topic | duplicated, late and lost messages | only a park that was claimed is ended | `Executor`, `ResumePath` |
| Resume sweeper (`engine/Cron/ResumeSweeper.php`) | none; reads the tables each minute | `resumeDueDelays`, `recoverZombies` | runs against consumers, deliveries and deciders; select-then-claim; failing publish | claims are exclusive; a vanished consumer's step is taken up again, a live one's is not | `ResumePath` |
| Dispatcher (`engine/Model/Engine/Dispatcher.php`) | debounce slots, executions | `dispatch`, `resumeWaiting` | duplicate events; failure after the debounce slot was taken | an awaited event ends its own wait only | `ResumePath` (resumeWaiting); `dispatch` is not modelled |
| Persistence (`engine/Model/WorkflowExecutionRepository.php`, `etc/db_schema.xml`) | the tables | get, save of dirty fields | no unique key on (execution, step) | a save undoes nothing | `ExecutionStore` |
| Approvals (`src/module-workflows-approvals`) | task table | `createTask`, `decide`, `expireTask`, `orphanTasks`, reconciliation cron | two deciders, SLA timeout, crash and rollback of three claims | first decision wins and is honoured; no gate without a decidable task; no task left open | `Approvals` |
| Circuit breaker (`engine/Model/Engine/CircuitBreaker.php`) | failure counter per workflow | record, trip, reset | read-modify-write counter | trips exactly when the threshold is passed | not modelled |
| Batch aggregation (`engine/Model/Aggregation`, `engine/Cron/FlushBatches.php`) | batches, items | accumulate, claim, flush, reclaim, carry over | accumulator against flusher; slow flusher taken for dead | a window has one digest, with all it held when it closed; every due window is closed | `Batches` |
| Scheduler (`src/module-workflows-scheduler`) | per-schedule state, watermarks | cron run, query run, advance | overlapping runs; rows equal to the watermark | no row skipped; a slot fires once | not modelled |
| Triggers core (`src/module-workflows-triggers-core`) | wait and trigger subscriptions | ensure, notify, fan out | subscription removed while an execution waits | an awaited event reaches its execution | not modelled |
| Validation (`engine/Model/Validation`) | none | graph, reference and policy checks | cycles, unreachable steps | agrees with reachability in the graph | not modelled |
| Dry run (`engine/Model/DryRun`) | none | path exploration with bounds | cycles, forks | covers every path up to its bound | not modelled |
| Delays (`engine/Model/Engine/DelayCalculator.php`) | none | offsets, calendars, clamp | day boundaries | never before now, never beyond the ceiling | not modelled |
| Workflow repository, suppression, pruning | versions, windows | save, publish, prune | order of deletions | pruning spares what is referenced | not modelled |
| Conditions, variables, secrets, templates | none | pure evaluation and interpolation | - | tested as functions | not modelled |
| Canvas graph editing (`app/components/Editor.tsx`, `mapping.ts`, `graphOps.ts`, `history.ts`, `switchCases.ts`, `conditionTarget.ts`, `unsavedGuard.ts`, `preSave.ts`) | one history of graphs, root conditions, settings, the guard's baseline, the findings under review | connect, add, delete, drag, configure, edit cases, undo, redo, lay out, apply conditions, review, save | a layout and an Apply that answer after further edits; case keys that are edge handles; steps that remember the targets they were loaded with | every graph and snapshot is sound; what is saved is what is drawn; no work is lost without a prompt | `StepGraph`, `CanvasEditor` |
| Canvas condition builder (`app/conditionTree.ts`, `conditionsClient.ts`, `components/ConditionSlideOut.tsx`, `components/conditions`) | a tree, its text, the metadata cache of the page, what the dialog took from it | edit rows, add children, type JSON, change the entity type, retry, apply | requests that answer late, fail, are shared, or outlive their dialog | text and tree agree; nothing the server did not describe is lost | `ConditionTree`, `ConditionDialog` |
| Canvas configuration panel (`app/components/ConfigPanel.tsx`, `configPanel.ts`, `duration.ts`, `approvalFields.ts`, `listEdit.ts`) | per control: drafts, picker state, search options and labels | each control's edits; search and label look-up | undo under a control that keeps a draft; stored values that are no longer offered; answers out of order | the duration picker shows what is stored; options answer the query shown; an edit of a list touches one entry | `FieldValues`, `ConfigFields` (partly) |
| Canvas workflow settings (`app/components/WorkflowSettings.tsx`) | the settings | field edits | - | part of the fingerprint and of the review | `CanvasEditor` (partly) |
| Canvas viewer, execution overlay, live validation | what is pinned on the canvas | fetch and show | answers are applied in the order they come | shown, never saved | not modelled |
| Admin UI widgets, admin controllers and extension | form fields, grids | jQuery widgets, request handlers | answers are applied in the order they come | - | not modelled |
| Health and operations, actions core, domain packs, templates and suite | none of the engine's | reports, adapters, observers | - | outside the engine's state | not modelled |

### How the components interact

    event --> Dispatcher::dispatch --(execute)--> Executor::execute --> walk
                                                       | park
                                                       v
      ResumeSweeper (timeout) ----+             execution row: waiting
      Dispatcher::resumeWaiting --+-- claim waiting->pending, publish (resume)
      ApprovalService::decide ----+                    |
                                                       v
                                   ResumeConsumer::process --> Executor::execute
      ResumeSweeper (zombie) -- renew claim, publish (execute)
      ReconcileApprovals -- closes tasks whose gate is not where the execution is

      aggregated workflow:
      event --> Dispatcher::dispatch --> BatchAccumulator --> batch and its items
      BatchFlusher (cron) -- claim open->flushing, create and record the digest
                             execution, publish (execute), mark flushed

      canvas:
      stored definition --> mount: graph, baseline, layout request
      canvas, palette, panel --> push on the history --> fingerprint --> guard, review
      slide-out: open on a target --> Apply (target, graph and tree of that render)
                 --> answer --> tree written to the captured graph, pushed
      Save --> findings? review first --> posted form --> stored definition

The behaviours of the engine that are hard to test are of one kind: a process
reads or writes one of these rows, another does the same, one of them dies or its
message comes twice, and no lock spans two statements. Those of the canvas are of
another: something remembers a state (a callback its render, a step its targets, a
control its draft, a slide-out its target), and the state moves on. They are listed, line by line,
under "hazards" in `PROJECT.json`.

## 2. The modules

Each module of the engine extends the one before it; `Batches` stands beside
them and ends where they begin, with an execution that is published. An action of
the engine is at most one database statement and the computation around it, so that
every interleaving of the processes' statements is explored. An action of the canvas
is one event handler or the settling of one request, together with the render and
the effects that follow, since nothing runs in between. `CanvasEditor`,
`ConditionDialog` and `ConfigFields` are three views of one page: the editor takes
the slide-out's result as any tree and a control's as a field that is filled in, the
dialog and the controls take the rest of the editor as something that stores a value,
undoes and redoes.

| Module | Models | State |
|---|---|---|
| `WorkflowDefinition` | the parsed snapshot: constants `Steps`, `StepType`, `Edge`, `Entry`, `EventOf`, with `DefinitionAssumption` saying what the parser guarantees | - |
| `ExecutionStore` | the shared tables and topics; the statements on them; the budget of faults | `exec`, `snapshotOk`, `rows`, `task`, `queue`, `faults` |
| `Executor` | `Executor::execute` and the walk, run by the consumers | `worker[c]`: program counter, the step, the iteration count, the loaded model (`mem`) and what Magento's resource model believes is in the row (`snap`); `effects` |
| `ResumePath` | `ResumeSweeper`, `Dispatcher::resumeWaiting`, `ResumeConsumer::process` | `sweeper`, `delivery[d]` |
| `Approvals` | `ApprovalService::decide` with its rollbacks, `ReconcileApprovals` | `approver[a]`, `reconciler` |
| `Engine` | their composition with crashes, lost and duplicated messages and time; `Spec`, `FairSpec`; the properties | - |
| `WorkflowRun` | the abstract specification: what one execution may do, as seen in its row | `phase`, `at` |
| `MCEngine` | instances for TLC: two definitions, symmetry | - |
| `Batches` | window-mode aggregation: `BatchAccumulator`, `BatchStore`, `BatchFlusher`; its own `Spec`, `FairSpec` and properties | `batch`, `digest`, `published`, `acc[a]`, `flusher[f]`, `now`; `policy`; the history `sealed` |
| `MCBatches` | instances of it for TLC | - |
| `StepGraph` | the canvas graph and the pure operations on it: definition to graph and back, connect rules, edits, the cases of a switch, where conditions live | - |
| `CanvasEditor` | the editor: history, settings, late layout, slide-out and Apply, unload guard, review and save; its `Spec` and properties | `hist`, `conditions`, `settings`, `saved`, `dirty`, `warnings`, `layout`, `slideOut`, `apply`, `posted` |
| `MCCanvas` | instances of it for TLC | - |
| `ConditionTree` | condition trees as functions from places to nodes, their text, the edits a row offers | - |
| `ConditionDialog` | the slide-out: builder and text over one tree, metadata requests, Apply; its `DialogSpec` and properties | `entity`, `cache`, `flight`, `waiting`, `answer`, `dlg`, `stored`, `sent` |
| `MCDialog` | instances of it for TLC | - |
| `FieldValues` | what the panel's controls store and show: durations, comma lists, decision-form rows | - |
| `ConfigFields` | one control of the panel over its value, with undo, redo and search; its `Spec` and properties | `field`, `stored`, `past`, `future`, `ctl` |
| `MCFields` | instances of it for TLC | - |
| `EngineSafety` | proofs of type correctness, and what every step does to the owner of the execution | - |
| `EngineRows` | proofs of one owner at a time and how an execution ends, and about the step rows: one per step, clean on completion, fitting a park | - |
| `EngineRuns` | proofs of how parks end, of the refinement of `WorkflowRun`, and that actions are not repeated | - |
| `EngineGates` | proofs about approval gates | - |
| `BatchesSafety` | proofs of the safety properties of `Batches` | - |
| `CanvasSafety` | proof that every operation of `StepGraph` leads from a sound graph to a sound graph; proofs of the editor's invariants: types, sound snapshots, undo; what is guarded, reviewed, posted and written | - |
| `DialogSafety` | proofs of every property of `ConditionDialog` | - |
| `FieldsSafety` | proofs about the duration picker and the searches of `ConfigFields` | - |

How state corresponds to code:

* `exec` is the row of `mageos_workflow_execution` with the columns the engine
  branches on: `status`, `current_step`, `waiting_event`. Executions do not
  interact in the engine, so one is modelled. The model starts where
  `dispatch()` ends: saved as `pending`, with one message on `workflow.execute`.
* `rows[s][i]` is the i-th row of step `s`. The table has no unique key on
  (execution, step), and `upsertStepRow` is a SELECT and then an UPDATE or INSERT;
  the model inserts into the next free slot so that a race *could* leave two rows
  (`OneRowPerStep` says it does not). `due` stands for `resume_at <= now`,
  `stale` for `claimed_at` more than `ZOMBIE_CLAIM_MINUTES` old.
* `worker[c].snap` and `mem` model Magento's original and current data: a save
  writes the columns in which they differ (`DirtyFields`), so a stale copy
  overwrites exactly the columns it changed.
* `queue` counts messages per topic; they all carry the one execution's id. The
  code runs separate consumers for the two topics; in the model any consumer
  takes from either, which includes every behaviour of separate ones.
* `faults` counts the faults that occurred, bounded by `MaxFaults`, of the kinds
  in `FaultKinds` that the instance permits. An exception that leaves `process()`
  makes the queue deliver the message again, as the code's comments rely on; so
  does the death of a consumer (`consumer_crash`), unless the message goes with
  it (`lost_message`). `lost_ack` is a consumer that dies after its last write:
  the message is delivered although it was handled.

* In `Batches`, `batch[b]` is a row of `mageos_workflow_batch` with its items, of
  one workflow; `flusher[f].claimed` holds what a sweep read of the rows it has
  claimed, and `process` goes by that, not by the table. One tick of `now` is one
  window: the time between two cron fires, or the second of an opening event with
  the window it opens, so a batch keyed `t` is due at `t + 1`. `stale` stands for
  `flushing_at` more than `FLUSH_GRACE_MINUTES` ago. `sealed[b]` records, for the
  properties only, the entities of `b` whose `accumulate()` calls had returned
  when a sweep claimed it. An error that leaves `flush()` ends the sweep, as
  `FlushBatches::execute` catches it, and is the same as its death.

* In `CanvasEditor`, `mount` is the bootstrap in the page; `hist` is `history.ts`;
  `saved` is the fingerprint the guard compares with and `dirty` the guard's flag,
  both kept by the effect after a render (`Rendered`); `warnings` is the review that
  the first click on Save puts up and any change withdraws. `apply` holds what the
  handler closed over when Apply was clicked: its target, its graph, its tree. A step
  keeps the targets it was loaded with (`fields`, `cases[i].next`) beside the edges
  that are drawn, as in the code, and `RebuildStep` decides which of the two is
  posted. A handle is a pair, `<<"on_true", 0>>` or `<<"case", k>>`. Of a node's
  position only its origin is kept: none, laid out, stored, or put there by hand.
* In `ConditionDialog`, `cache` is the map of `conditionsClient.ts`, which lives as
  long as the page, `dlg.meta` what this dialog has been told; `flight` are the
  requests, which outlive a dialog, and `waiting` is what the open one does with their
  answers, in the order in which it began to wait. When a request is settled its
  continuations run one after the other before any other event: `answer` is the one
  being handed out, `Callback` the next continuation, and the effects follow the last.
  A tree maps places to nodes, where the code nests objects: a place is the path of
  child positions from the root, so that the code's recursive walks (`findNode`,
  `updateNode`, `removeNode`) become statements about all places. A node keeps every key
  of the object it came from, known or not, and has an id made of the act that made it
  and the place it was made for (the code counts); ids are new whenever text is parsed.
* In `ConfigFields`, `field` is the one control a behaviour is about, `stored` the
  value in the step, `ctl` the component's own state: the picker's amount, unit and
  mode, the drafts of case keys, the search's query, options, labels and requests. A
  text is its meaning: a duration its form, a comma list its pieces.

Left out because no property tells the cases apart: the context blob and step
outputs, the texts of tasks and errors, `finished_at`/`attempts` columns, the
circuit breaker's counters (they touch no state of the execution), shadow
simulation (it replaces an action's effect, not its protocol), the sweeper's
batch limits (one execution never fills a batch), and calls of `decide` that are
refused, which change nothing. Within one sweep the order in which candidates
are handled is arbitrary. Consecutive saves of context only are merged with the
save they precede. Of the canvas: labels, summaries, coordinates, the selection,
status texts and what live validation pins to a step are shown and never saved.

`MAX_STEPS_PER_RUN` is 1000 in the code (`Executor.php:46`) and a constant here.
It does not stop the acyclic definition of the journey (the longest walk between
two parks has fewer steps than the bound of 6), and does stop the cyclic one of
`bypass`.

## 3. What is checked

The *journey* is a definition with one step of each kind that matters, arranged
so that an execution can park up to three times, at a wait, a gate and a delay,
in each order the edges permit, and every way of ending a park has an edge of
its own. *Bypass* is a definition that save-time validation would refuse: a loop
through a switch and a branch, and a gate without the approvals add-on.

| Run | Instance | Faults | Question | Properties |
|---|---|---|---|---|
| `races` | journey, 2 consumers, 2 event deliveries, 2 deciders, sweep, reconciliation; 2 row slots | publish or task manager fails, once | do the wakers, racing for the same park, agree on its outcome, and does the row behave as the abstract run? | `TypeOK`, `NeverAbandoned`, `GateIsDecidable`, `GateFollowsDecision`, `ParkEndsByClaim`, `ImplementsRun` |
| `crashes` | journey, 2 consumers, 1 delivery, 1 decider; 2 row slots | one of: consumer crash with or without its message, waker crash, retry, publish, task manager; claims of idle executions age | does recovery after a crash between any two statements leave a consistent execution with one owner? | `SingleToken`, `WalkerViewIsFresh`, `ParkedWhereItWaits`, `OneRowPerStep`, `CompletionIsClean`, `OnlyResumeWakes` |
| `progress` | journey, 1 consumer, 1 delivery, 1 decider; fairness | one of: consumer crash, retry, publish, task manager | does every execution end and every task close? | `EventuallyTerminal`, `TasksAreClosed` |
| `bypass` | bypass, 1 consumer; fairness | two of: consumer crash, lost message, publish, a handled message delivered again, waker crash; claims of idle executions age | does a loop let go of the consumer, is a step whose consumer and message vanished taken up again, and what do faults cost an execution that has ended or an action that was performed? | `EffectsPerDelivery`, `TerminalIsFinal`, `WalksEnd`, `ClaimsAreReleased` |
| `windows` | both window policies, 2 dispatchers, 2 entities, 2 sweeps, 2 batches, clock 0..1 | a sweep crashes or a publish fails, once | does a window get one digest, with everything in it? | `BatchTypeOK`, `OneDigest`, `ClosedWithDigest`, `DigestHoldsTheWindow`, `FlushedIsFinal` |
| `carried` | both policies, 2 dispatchers, 1 entity, 2 sweeps, 1 batch, clock 0..2; fairness | the same | is every due, abandoned or carried window closed? | `WindowsClose` |
| `editing` | a stored switch and branch, a gate never laid out, or an empty canvas; 3 edits, a history of 2, up to 2 things deleted at once, one Apply at a time | Apply refused or answered late, layout late | is every graph sound, is what is saved what is drawn, and is no work lost without a prompt? | `EditorTypeOK`, `GraphsAreSound`, `UnsavedWorkIsGuarded`, `OpeningIsNoEdit`, `SaveKeepsTheGraph`, `UndoIsReversible`, `NothingUnreviewed`, `OnlyTheTargetIsWritten` |
| `dialog` | 2 entity types, 6 node types of every kind, one of which the server does not describe; trees stored or unparsable; 3 acts | answers late or out of order, one request fails | is what Apply posts what the text shows, and does everything nobody described survive? | `EveryTypeIsAskedFor`, `ApplySendsTheText`, `LateChildrenOnlyAdd`, `ForeignDataSurvives`, `FormerRootIsDropped` |
| `fields` | one control of each kind, values offered and not; 3 commits, undos or redos; lists of up to 3 rows | search and label answers late, out of order or empty | does the duration picker show what is stored, do options belong to the query shown, and does an edit of a list touch one entry only? | `NothingUncommitted`, `OptionsAnswerTheQuery`, `EditsAreLocal` |

Why the bounds are enough. A race is between two processes of a kind, or of two
kinds, for one row: two of each is the smallest instance with both. Two row
slots are what two consumers can leave behind. One fault at a time is what each
piece of recovery code is written for; with one fault per behaviour and every
statement an action, the fault is tried after every statement of every
interleaving. `bypass` takes two because losing the message and failing to
publish the recovery are independent. The walk bound of `bypass` is 5, more than
its loop of two steps and the way out of it. Symmetry is used in safety runs only. Two
batches let a sweep die between the two it claimed; three clock values let a
batch be carried into the next window and released there.

On the canvas nothing depends on numbers but the history limit, which is 100 in the
code (`history.ts`) and 2 in the run, so that it is reached. Three edits make the
triples a stale closure needs (one before it, one during, one after); undo, redo,
layout, Apply and save are not counted. The switch has two cases, so that keys can
collide and swap, and one of them leads to a step of its own. Three acts on the
dialog are an act, one while its request is under way, and one after; opening and
closing count. What `editing` checks within these bounds is proved without them in
section 5.

Deadlock is checked in `windows` and `carried`, where an event may always come,
and in `races` and `progress`: the only state in which the engine
may rest is `Finished` (terminal, no message, no consumer at work), which the
next-state relation contains as a stuttering step. The engine's other runs say
`CHECK_DEADLOCK FALSE` because the system really may stop there: a message that
vanishes before the first step is claimed strands the execution, as the design
accepts (it relies on the queue for that), and so does a waker that dies after
its claim. The canvas runs say so too: the page navigates away with the save, and
an operator who has used up the bound simply stops.

Fairness. Consumers are kept running by Magento's consumer runner and drain
their topic; cron runs the sweep every minute and the reconciliation
periodically; time passes (timeouts fall due). A delivery or decision that has
*started* runs on; nobody is obliged to deliver an event or to decide. Each of
these is weak fairness of one process's next step; no fault is fair. In `Batches`
cron starts every sweep again and again and five minutes do pass over an
abandoned claim; no event need come and no dispatcher need finish.

The deep properties, in words:

* `SingleToken`: messages, consumers and wakers hand one token around: at most
  one of them acts on the execution, and none while it is parked.
* `NeverAbandoned`: an execution that is neither over nor parked has somebody
  who will carry it on.
* `WalkerViewIsFresh`: what a consumer holds is what is in the row, so no save of
  a whole model undoes another process's statement.
* `GateIsDecidable`, `GateFollowsDecision`: while an execution is parked on a gate
  somebody can decide it; it leaves by the edge of the accepted decision, and by
  `on_timeout` only if there was none.
* `ParkEndsByClaim`: a park is ended only on behalf of a waker that claimed it.
* `TerminalIsFinal`, `OnlyResumeWakes`: an ended execution stays as it is, and a
  parked one is continued by the resume consumer only.
* `WalksEnd`, `ClaimsAreReleased`: neither a loop in the definition nor a vanished
  consumer holds on to anything for ever.
* `EffectsPerDelivery`, `CompletionIsClean`, `OneRowPerStep`: what is left of a
  walk that crashed is finished, not doubled and not forgotten.
* `ImplementsRun`: the row, seen from outside, moves along the definition's edges,
  stops at parks, and ends once (`WorkflowRun`).

* `OneDigest`, `ClosedWithDigest`: no two executions of one window are published,
  whatever dies, and no failure closes a window without its digest.
* `DigestHoldsTheWindow`: an entity that had been accumulated when its batch was
  claimed is in the digest, although the count the sweep goes by is written by
  statements of other processes (`min_items` is 1 in these runs).
* `WindowsClose`: a window that is due is released, dropped or carried, also when
  the sweep that claimed it is gone.

* `GraphsAreSound`: no sequence of edits, undos and late answers leaves, in the graph
  or anywhere in the history, an edge without its steps or its handle, two edges on a
  handle, or an entry that is gone.
* `UndoIsReversible`: redo leads back to the very history an undo came from, and the
  two stacks together stay within the limit.
* `UnsavedWorkIsGuarded`, `OpeningIsNoEdit`: while the guard is silent nothing an
  operator made differs from what is stored, and looking at a workflow does not set
  it, although the layout changes the graph at some moment of its own.
* `NothingUnreviewed`: "Save anyway" confirms what is on the screen and nothing else,
  except for the exits of cases, whose edges are no part of what is posted (section 4,
  `removed_edge`).
* `SaveKeepsTheGraph`: what is posted, read back, has the steps, the entry and the
  edges of the canvas; only through a case may it lead further (section 4).
* `OnlyTheTargetIsWritten`: a tree reaches the case with the key it was opened on,
  wherever that case is by then, and no other.
* `ApplySendsTheText`: what Apply posts is what the text shows, and it posts nothing
  while the text does not parse. The one exception is the childless root that "Add
  conditions" put up: the text shows it, and null is posted, "always run"
  (`conditionTree.ts:289-305`).
* `LateChildrenOnlyAdd`, `EveryTypeIsAskedFor`: answers of the metadata service cost no
  edit, and none is forgotten.
* `FormerRootIsDropped`: the answer about the root of a former entity type is dropped
  when it arrives. It says nothing of the former root that is on hand already, which
  stays in use until the new answer is in (section 4, `NewTreeFromItsRoot`).
* `ForeignDataSurvives`: keys and nodes the builder does not know pass through it.
* `NothingUncommitted`: what a duration picker shows is what is stored, whatever undo
  and the ISO input did beneath it.
* `OptionsAnswerTheQuery`: an overtaken search answer is dropped.
* `EditsAreLocal`: an edit of chips, recipients, rows or cases takes out one entry and
  brings in one at most, also when stored values are repeated or of unknown type. A
  multiple select is left out on purpose: it commits all that the browser reports as
  selected, and a plain click there replaces the selection, values that are no longer
  offered included.

Every property has a mutant of a mapped definition, in the modules as
"Mutant of ..." next to the original, that breaks it in the same run.

## 4. What the code does otherwise than its documentation says

Three runs end in a counterexample of a statement the documentation or a comment
makes. Each is the shortest behaviour TLC finds.

| Run | Statement | What happens |
|---|---|---|
| `early_wake` | a waker that lost the race "loses the race cleanly" (`docs/08-execution-model.md:34`) | the sweep selects an execution whose wait is due; before it claims, the event wakes the execution, which parks at the next step; the claim, by execution id and status alone, succeeds and ends a park that is not due |
| `lost_decision` | "No event path" to a gate, and "`resolution: 'approved' -> on_approved`, `'rejected' -> on_rejected`, no decision result -> `on_timeout`" (`docs/08-execution-model.md:53` and `55`) | it takes a crash and a stale delivery. The row with the verdict is closed before the route is saved; the consumer dies in between, and the resume message that comes back finds no waiting row, so that the gate parks again. An event delivery that selected the execution at an earlier wait then claims it by id and status alone and writes its event over the verdict: the approved gate leaves by `on_timeout`. The crash alone ends in `on_approved`, since the row that is parked again keeps its result (`Executor.php:449-452`) |
| `removed_edge` | "a bare edge delete must reach the graph too" so that a save does not re-post "the visually-removed edge" (`app/components/Editor.tsx:654-656`) | the edge of a switch case is deleted; `rebuildStep` (`app/mapping.ts:165`) clears declared fields whose edge is gone, but gives a case a target only when there is an edge, so the case is posted with the target it was loaded with. Nothing that is posted has changed, so the guard is silent too |

More behaviours are in the models and have no run of their own. Each of the
engine's appears when one fault kind is added to a configuration:

* `consumer_crash` in `races`: a resumed execution parks again and its consumer dies
  between the step row and the execution row; the resume message comes back and
  closes the fresh row as timed out (`ParkEndsByClaim`), where "redelivery re-parks
  cleanly" is said (`docs/discovery/approval-gate.md:72-73`, `Executor.php:435-436`).
  And a gate that timed out and whose consumer dies before the routed execution is
  saved parks again with a task that is expired already (`GateIsDecidable`).
* `lost_ack` in `races`: a resume message handled and delivered once more ends the
  park its first delivery reached (`ParkEndsByClaim`); only the execute topic guards
  against parked executions (`ResumeConsumer.php:66-73`). An execute message delivered
  once more, after a waker's claim and before the resume message, meets a `pending`
  execution, takes it for a first run, evaluates the root conditions anew and may skip
  it although its gate was decided (`OnlyResumeWakes`; `Executor.php:94-96` says only
  the resume path may wake it).
* `waker_crash` in `progress`: a waker that dies between its claim and its publish
  leaves an execution that is `pending`, has no message, and is looked for by
  neither half of the sweep (`EventuallyTerminal`).
* `slow_flusher` in `windows`: a sweep claims up to 200 batches at once and releases
  them one by one; a batch whose turn has not come, or whose execution is not yet
  recorded, after five minutes is reclaimed by the next sweep, and both publish a
  digest (`OneDigest`), where "overlapping cron ticks never double-flush" and "never
  a second one" are said (`docs/15-operations.md:219,223`).

Two more concern batches, and follow from `UpsertItem`, `CountItems` and `SyncCount`
being three statements. A schedule batch claimed between the first and the last,
with `min_items` at its default of 1, counts as empty and is dropped with the item
in it; `DigestHoldsTheWindow` is about calls that have returned for that reason.
And two interleaved counts may leave the smaller one in the row, so that the
digest's `count` is not "always accurate" (`docs/discovery/batch-aggregation.md:187`)
and a larger `min_items` may drop a batch that reached it.

On the canvas, each refutes a property that stands in its module without a run:

* `ApplyKeepsOtherEdits` (`CanvasEditor`): the answer to Apply is written into the
  graph of the render in which Apply was clicked. An undo or redo by keyboard while
  the answer is awaited is itself undone by it.
* `NewTreeFromItsRoot` (`ConditionDialog`): when the entity type is changed under the
  open dialog, `loadRoot` (`app/components/ConditionSlideOut.tsx:165`) clears the error
  and not `rootType`, and "Add conditions" is disabled only when there is no root. Until
  the new answer is in, the button builds a tree on the former entity type's root, and
  the answer does not correct it; `app/conditionTree.ts:309` says "the entity's root
  combine".
* `InvalidTextIsKept` (`ConditionDialog`): a child whose metadata arrives while the
  text does not parse is added to the last tree that did, and the text is rewritten
  from it; `app/conditionTree.ts:233-238` says text that does not parse is kept.
* `KeyShownIsKeyStored` (`ConfigFields`): a case key that was refused because another
  case has it stays on screen when that case is renamed or removed; the message goes,
  the key is not stored. `app/components/ConfigPanel.tsx:342-344` says otherwise.

Smaller things the models show, none of which the repository contradicts: a rename
of a case to its own key is pushed and clears redo; an undo to the very beginning
leaves the guard set if the layout arrived after the first edit; an answer to Retry
is taken although the entity type has changed; a metadata request that fails for a
while hides what an earlier one had told the dialog; a child added to a tree that was
typed anew meanwhile is dropped without a word; two Applies in one slide-out and its
successor may commit in either order; a search whose query has become too short while
its answer was awaited goes on showing that it loads; a label that could not be looked
up once is not looked up again.

The passing runs show that these need the fault, or the second process, that
their run grants: `races` keeps `ParkEndsByClaim`, `GateIsDecidable` and
`GateFollowsDecision` without crashes, `crashes` keeps ownership with them, and
`progress` ends every execution as long as wakers do not die; `windows` keeps
`OneDigest` as long as no sweep outlives its grace; `editing` keeps
`SaveKeepsTheGraph`, which excepts the exits of cases, and `OnlyTheTargetIsWritten`,
which is about the graph Apply was clicked in.

## 5. What is proved

TLAPS checks all proofs to the last leaf. Of the 40 properties of the passing
runs 34 are proved; the other six are listed at the end of the section.

### The engine

`EngineSafety`, `EngineRows`, `EngineRuns` and `EngineGates`, each resting on the one
before, are about `Spec` of `Engine`, for every definition that satisfies
`DefinitionAssumption` (cyclic ones included, where `Acyclic` is not assumed), any
sets of consumers, deliveries and deciders, any number of row slots and any budget
of faults.

| Theorem | States | Assumes |
|---|---|---|
| `EngineSafety!TypeCorrect` | `Spec => []TypeOK` | nothing |
| `EngineRows!RowsFitTheRun` | `Spec => []RowsInv`, the invariant behind the next seven | `NoDuplicates` |
| `EngineRows!OneOwner` | `Spec => []SingleToken` | `NoDuplicates` |
| `EngineRows!NoLostUpdate` | `Spec => []WalkerViewIsFresh` | `NoDuplicates` |
| `EngineRows!NothingAfterTheEnd` | `Spec => TerminalIsFinal` | `NoDuplicates` |
| `EngineRows!CarriedOn` | `Spec => []NeverAbandoned` | `NoDuplicates`, `NoLosses` |
| `EngineRows!NoSecondRow` | `Spec => []OneRowPerStep` | `NoDuplicates` |
| `EngineRows!CompleteIsComplete` | `Spec => []CompletionIsClean` | `NoDuplicates` |
| `EngineRows!ParkedForItsRow` | `Spec => []ParkedWhereItWaits` | `NoDuplicates` |
| `EngineRuns!ClaimedIsNotStarted` | `Spec => OnlyResumeWakes` | `NoDuplicates` |
| `EngineRuns!ParksAreQuiet` | `Spec => []QuietInv`: nobody comes by between the two statements of a park | `NoRedelivery` |
| `EngineRuns!ClaimEndsThePark` | `Spec => ParkEndsByClaim` | `NoRedelivery` |
| `EngineRuns!EngineImplementsRun` | `Spec => ImplementsRun` | `NoRedelivery` |
| `EngineRuns!ActionsAreNotRepeated` | `Spec => []EffectsPerDelivery` | `NoDuplicates`, `Acyclic` |
| `EngineGates!ParkedGatesAreDecidable` | `Spec => []GateIsDecidable` | `NoRedelivery`, `Acyclic`, no `waker_crash` |
| `EngineGates!DecisionsAreFollowed` | `Spec => GateFollowsDecision` | `NoRedelivery`, `Acyclic`, no `waker_crash` |

What is assumed of the faults, and why. Everything that is not named may happen, at
any point, as often as the budget permits.

* `NoDuplicates` excludes `lost_ack` (a handled message is delivered again), under
  which ownership really is lost (section 4), and `slow_claim`: the sweep takes a
  claim for dead whose consumer is still at work. That it is dead is a matter of time
  (30 minutes), not of a guard. A claim that gets old when nobody works on it
  (`claim_ages`) is allowed, and so is what the sweep makes of it: consumers may
  die anywhere, with or without their message, have it redelivered, or have the
  execution published again by zombie recovery. These are the faults of `crashes`.
* `NoLosses` excludes a message that vanishes with its consumer and a waker that
  dies; both leave an execution with nobody, see section 4.
* `NoRedelivery` is `NoDuplicates` without `consumer_crash`. A consumer that dies
  between the row and the execution of a park, and whose message is redelivered,
  ends that park without a claim: section 4 shows it, so the theorems about how a
  park ends cannot do without. It is more than `races` allows: a consumer may
  still vanish with its message, and zombie recovery take over the step it left.
* No `waker_crash`, for gates: a decision whose process dies after it has claimed
  the task leaves a task that is decided and an execution nobody resumes for it.
* `Acyclic` says that the steps an execution can reach from its entry can be ranked so
  that edges lead down, which is what save-time validation sees to (`GraphCheck.php`
  refuses a cycle reached from the entry; steps that are not reached may loop). Around
  a loop an action may run again for no fault at all, and a gate may be met a second
  time with its task from the first, decided already: the properties of actions and
  gates are then false. The action of `bypass` stands outside its loop.

The argument, module by module:

1. `TypeInv` strengthens `TypeOK` by what the code takes for granted when it uses
   a step: a consumer whose program counter is inside a step handler has a step of
   the definition (not null), and it is an action step where the handler is the
   action's; a consumer that expires a gate has one; a waker that reclaims a row
   or decides a gate has one. `TypeOK` alone is not inductive: `Edge[s]["next"]`
   is a target only if `s` is an action or a delay.
2. `TokenInv` adds the token. `SingleToken` is inductive only together with three
   facts: the consumer's copy is the row (`WalkerViewIsFresh`, otherwise a save
   writes other columns than those the handler changed, and the row could become
   `waiting` under somebody's hands); a consumer that walks has status `running`
   in its copy (`StatusesOK`, otherwise the save that enters a step could park);
   and what the sweep may find old (`StaleFits`): no claim at all, or the
   one claim of an execution that is neither parked nor claimed nor in anybody's
   hands (`Stranded`), renewed already if the sweep is about to publish. That it is the
   only one is known from the step rows (`RunsOneStep`), so `TokenInv` is preserved
   only where `RowsInv` holds, and the two are proved together. A
   claim needs `waiting`, and `ParkIsUnowned` says nobody else is there then.
   The proof has a lemma for every way of moving (`GotoMoves`, `LoadMoves`,
   `SaveMoves`, `ContinueMoves`, `ConsumerStops`, `ReceiveMoves`, `WakerKeeps`,
   `WakerClaims`, `WakerPublishes`, `WakerRollsBack`); each action is an instance
   of one.
3. `OutcomeInv` adds `Settled`: a consumer that has loaded a row works on a live
   execution, until it has saved it as failed and only closes its tasks. A
   consumer's step is then one of four kinds (`Drops`, `Moves`, `Returns`,
   `Saves`) and a waker's one of three (`Keeps`, `Claims`, `Unclaims`), from which
   both theorems follow.
4. `RowsInv` ties the step rows to the execution: what each status of the execution
   says of all rows (`StatusRows`: while it runs, only the row at the cursor is
   unfinished; while it waits, one row waits and the cursor is where that row's type
   puts it), that a pending execution is either `New`, with no row and an execute
   message, or `Woken`, with rows and a resume message, and what a consumer has
   made of the row at each of its labels (`WalkerOK`). The three properties are
   consequences. None is inductive by itself: that an `insert` adds no second row
   follows from there having been none when the same consumer looked, and that from
   nobody else being there, which is `TokenInv`.
5. `QuietInv` adds that between the two statements of a park there is only its
   consumer, or nobody (`ParkIsQuiet`), and that a consumer that routes a woken
   execution holds the row a waker has claimed (`RoutesClaimed`). Every step of a
   consumer is then one of four kinds (`Acts`: it looks, works on the row of its
   step, closes the waiting rows, or saves the execution in one of seven ways), every
   step of anyone else claims, publishes, returns a claim, or leaves statuses alone.
   `EngineImplementsRun` maps the seven saves and the claim to the actions of
   `WorkflowRun` and everything else to stutters.
6. `EffectsFit(rank)` counts: an action has succeeded at most once more often than
   there were faults, an action below the cursor has not been performed yet, and the
   one at the cursor has a success to spare unless the consumer is done with it
   (`Spent`). The execution is at ranked steps only (`OnTheWay`), and that the cursor
   never climbs is `CursorMoves`.
7. `GatesFit(rank)` is about tasks. `TasksFit`: a task belongs to a gate that was
   reached, none lies ahead of the execution, a verdict in a row comes from a task,
   and a decision that has claimed a task is alone with it. `AtGateFits`: what is
   known of the gate at the cursor at each moment of its life, from before its task
   is opened (`NotOpenedYet`), through the park, during which its task stays open or
   in the hands of a decider and the reconciliation has not picked it (`ParkFits`),
   to the consumer that has read a result off the row, which tells the accepted
   decision or that there is none (`Tells`). A consumer that vanished after it had opened
   the task leaves it behind an execution that is still `running`: whoever takes the step
   over finds it open or in the hands of a decider, and no verdict in the row
   (`NewOrLeft`), because a decision cannot claim an execution that is not parked and
   gives its task back.

### Batches

`BatchesSafety` is about `Spec` of `Batches`, for any numbers of dispatchers, sweeps,
entities, batches and clock ticks. All safety properties of `windows` are proved.

| Theorem | States | Assumes |
|---|---|---|
| `BatchesTypeCorrect` | `Spec => []BatchTypeOK` | nothing |
| `OneDigestPerWindow` | `Spec => []OneDigest` | `NoSlowSweeps` |
| `ClosedBatchesHaveDigests` | `Spec => []ClosedWithDigest` | `NoSlowSweeps` |
| `FlushedStaysFlushed` | `Spec => FlushedIsFinal` | `NoSlowSweeps` |
| `DigestHoldsTheWindowAlways` | `Spec => []DigestHoldsTheWindow` | `NoSlowSweeps`, `MinItems = 1` |

`NoSlowSweeps` says that no sweep outlives the five minutes of its claim; one that does
publishes a second digest (section 4). With a larger minimum a batch that reached it
may be dropped, section 4 too, so `DigestHoldsTheWindow` needs the default of 1.
`ReleaseInv` says that a claimed batch that is not stale has one holder (`OneHolder`),
that what the holder read of the row is still what is in it (`HeldViewIsFresh`), and
that a published execution is the one recorded in its batch. `WindowInv` follows each
item until it is counted: an entity in a batch is in the row's count or there is a
dispatcher about to write a count that includes it (`ItemsCounted`), so that an entity
whose call has returned before the claim is never in a batch that counts as empty.

### The canvas editor

`CanvasSafety` is about `Spec` of `CanvasEditor`, for every set of workflows the page may be opened on, palette, case
names, trees, history limit and number of edits that satisfy `EditorAssumption`: the
stored definition has typed steps and an entry that is one of them (none if there
are none), as the server's validation sees to on the way in.
Targets that are no step are allowed; they are not drawn. All eight properties of
`editing` are proved.

| Theorem | States |
|---|---|
| `RenameCaseIsSound`, `WrittenStep` | what renaming a case, and writing conditions to a target, do to a graph and a step |
| `EditorTypeIsOK` | `Spec => []EditorTypeOK` |
| `SnapshotsAreSound` | `Spec => []GraphsAreSound` |
| `UndoIsTakenBack` | `Spec => UndoIsReversible` |
| `RoundTrip` | what is read back from the posted definition of a sound graph |
| `WorkIsGuarded` | `Spec => []UnsavedWorkIsGuarded` |
| `OpeningIsSilent` | `Spec => []OpeningIsNoEdit` |
| `NothingIsUnreviewed` | `Spec => NothingUnreviewed` |
| `SaveKeeps` | `Spec => []SaveKeepsTheGraph` |
| `TargetIsWritten` | `Spec => OnlyTheTargetIsWritten` |

The argument:

1. `SoundGraphs` is the set of typed graphs that are sound. The first part shows of
   every operation, from `ConnectIsSound` to `LoadedIsSound`,
   that it leads from the set into it. The hard one is `RenameCaseIsSound`: the
   edge follows the key, and lands on a handle nobody else has because a key that
   another case has is refused and a case's handle is never a field's.
2. `EditorInv` says that the whole history is in `SoundGraphs` and within its limit,
   and so is the graph an Apply has captured. Soundness of what is shown is not
   inductive: undo brings back older graphs, and an answer commits an older one.
3. `GuardInv` adds that the baseline always holds the work of the graph as mounted.
   Without it the comparison that sets the guard says nothing about what was
   mounted, since the baseline moves when the layout arrives (`LayoutIsNoWork`).
4. `OpeningInv` says what the editor is like while nothing has been edited: empty
   stacks, no slide-out, and the mounted graph until the layout arrives.
5. `ReviewInv` says that while a review stands it covers everything found. A change
   withdraws it only if the fingerprint changes, so the proof needs that findings
   follow from what would be posted (`SameFindings`), which is true but for the exits
   of cases: deleting such an edge changes a finding and nothing that is posted.
6. `SavedInv` says that after the save the posted form is still that of the graph;
   `RoundTrip` does the rest.

### The condition dialog

`DialogSafety` is about `DialogSpec` of `ConditionDialog`, for every metadata, every set
of entity types, stored and typed trees of any depth and width, and any number of acts
and failures. All five properties of `dialog` are proved.

| Theorem | States |
|---|---|
| `DialogInvariance` | `DialogSpec => []DialogInv`, the invariant behind the others |
| `TextIsSent` | `DialogSpec => ApplySendsTheText` |
| `TypesAreAskedFor` | `DialogSpec => []EveryTypeIsAskedFor` |
| `LateChildren` | `DialogSpec => LateChildrenOnlyAdd` |
| `ForeignData` | `DialogSpec => ForeignDataSurvives` |
| `RootsAreCancelled` | `DialogSpec => FormerRootIsDropped` |

`DialogAssumption` says of the constants what parsing and the server see to. What is
stored or typed is a JSON tree: with a place there are all places above it, and a child
stands within the width of its parent. The types it names are among those of `Meta`,
which is finite and holds those nobody describes as well; so are the types a menu
offers. The server describes the root class it names, since name and description come
in one answer (`conditionsClient.ts:151-160`). Widths need not be exact and children
need not be adjacent, which is less than JSON gives.

The argument:

1. Places. `UpTo`, `FrontOf`, `AppendTo` and the lemmas after them say what a prefix, a
   parent and a child are; those on `MovedUp` say that removing a place maps the
   places that stay one to one onto places, keeps who is above whom, and moves nothing
   but later siblings and what is below them. This is what takes the place of induction
   over the tree: an ancestor is a prefix, so that "all below" and "all above" are
   quantifiers.
2. `TreeOK(tree, n)`: the places are closed upwards and fit the widths, ids are unique
   and made by one of the first `n` acts. It is kept by parsing, by a changed node, by
   an added child (`ChildAdded`) and by a removal (`NodeRemoved`). Unique ids are what
   makes `findNode` find the node that was clicked.
3. `WaitsOK(tree, w)`: the children that wait for their metadata have ids that are
   neither in the tree nor each other's, and the way down to the parent of one, if it is
   still there, passes no type that is refused (`Reachable`). Without the first a late
   child could be a second node with an id, without the second it could be added inside
   data nobody describes. That only described rows offer a menu gives both at the start,
   and `WayKept` says no edit puts a refused type above a node that stays.
4. `DlgOK` says that the text is the tree unless it does not parse, which with `BareRoot`
   (what Apply makes of the builder's own root) gives `ApplySendsTheText`, and that
   nothing refused counts as known; `RootsFit` that a request for the root is live only for the
   entity type of now, unless Retry made it.
5. `DialogInv` is these, what the cache and the answer being handed out may hold, and
   that every type of the tree is asked for. That last part is not restored by each
   continuation but only by the effects after the last (`Render`); in between, a type is
   accounted for because it waits, is known, or is the one just being answered
   (`TypesAsked`).
6. `TextIsSent` needs of a step only that nothing but Apply posts (`OnlyApplySends`). The
   three other properties of steps are proved together with the invariant (`DialogMoves`
   concludes `DialogStep`). An edit is of one of the kinds for which `Steady` (nothing
   moves or changes when nobody acts) and `Foreign` (a node that stays keeps its type
   and keys, and one of a refused type all below it) are shown of the operation.

### The configuration panel

`FieldsSafety` is about `Spec` of `ConfigFields`, for every kind of control, stored
value, option source and number of edits that satisfies `FieldsAssumption` (a
duration field is opened on a duration, an amount is empty or one integer, and the
empty query is one of the queries).

| Theorem | States |
|---|---|
| `PickerHoldsNothingBack` | `Spec => []NothingUncommitted` |
| `OptionsAreCurrent` | `Spec => []OptionsAnswerTheQuery` |

`PickerInv` says that the picker's amount and unit are those of the stored value
whenever they make a duration, also while the ISO input covers them: without that,
toggling back would show what was typed long ago. `SearchInv` says that options on
screen are an answer to the debounced query and that only its latest request can still
replace them; an answer to an older one finds that it is not awaited.

### How the invariants were found, and what is only model-checked

Each inductive invariant was an invariant of a TLC run before it was proved (`RowsInv`
on 2.9 million states, `QuietInv` on 558,691, `EffectsFit` and `GatesFit` on 984,750,
`WindowInv` on 1.83 million, `DialogInv` on 312,166, on instances of the size of the runs of section 3); the
runs kept here check the properties that follow.

Not proved, and left to TLC:

* `EventuallyTerminal`, `TasksAreClosed`, `WalksEnd`, `ClaimsAreReleased` and
  `WindowsClose`: liveness. Fairness is stated with ENABLED, which this prover does not
  reason about.
* `EditsAreLocal` of `ConfigFields`: what the list controls keep and drop is a fold
  over the list, which needs the same induction.
* Beyond the hypotheses above: what of gates and of the end of a park survives a
  crash between the two statements of a park.

## 6. Plan

Done: the engine (`WorkflowDefinition` to `Engine`, `WorkflowRun`, `Batches`); the canvas
(`StepGraph`, `CanvasEditor`, `ConditionTree`, `ConditionDialog`, `FieldValues`,
`ConfigFields`); the proofs of every safety property of theirs that is within reach
(section 5).

Proofs to come: gates and the ends of parks under `consumer_crash`, for the parks whose
two statements were both executed.

Components that deserve a module, in this order (their hazards are in
`PROJECT.json`):

1. `Dispatch`: scope match, debounce slot, creation and publish, fan-out, wait
   subscriptions and notification. Property: an event that matches is not
   swallowed by a debounce slot whose execution does not exist.
2. `Schedule`: overlapping cron runs, saved state, the query runner's watermark.
   Property: no row is skipped; a slot fires once per saved state.
3. `CircuitBreaker`: the counter's read-modify-write from several consumers, the
   trip and the reset; how many failures may pass before it trips.
4. `GraphCheck` and `PathExplorer` as pure algorithms against reachability, for TLC
   only (recursive), and `Delays` (calendar arithmetic, clamp) over small ranges.
5. `Publishing`: workflow versions, suppression windows, the order of pruning.

## 7. What is not modelled, and why

Pure evaluation (conditions, variables, templates, secrets), read-only reports
(health), stateless adapters (actions), observers of the domain packs and the admin
controllers keep no state of the engine or of the editor: the models take every
outcome they may report as a nondeterministic choice. The viewer, the execution
overlay and live validation show what other components hold; nothing they show is
saved. The jQuery widgets of the classic form (parameter search, conditions
slide-out, definition preview) are older counterparts of the canvas controls; like
the overlay they apply answers in the order they come, and that is listed as a
hazard. The components of section 6 that have no module yet are left out of the
engine's model where it touches them: it starts where `dispatch()` ends, and a
timeout falls due at any time.

Of the modelled canvas: a `conditions` that is no list is lost when it is parsed and
is not represented; the trigger reference of a step, the insertion of variables and
declared defaults of the panel are plain inputs; what the server finds wrong with a
tree is a refusal without a text.

Cancellation is a status the code
treats as terminal but that no code path of the engine sets; the model has it as
a status no action writes. Database failures in the middle of a statement are
not distinguished from the death of the process that issued it.
