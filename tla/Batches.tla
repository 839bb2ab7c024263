------------------------------ MODULE Batches -------------------------------
(***************************************************************************)
(* Window-mode aggregation of one workflow.  Dispatchers that take the     *)
(* batch branch (Accumulators) put entities into the open batch; flush     *)
(* sweeps (Flushers) release a due batch as one execution, the digest.     *)
(* Every action is one database statement or one publish, with the local   *)
(* work that surrounds it; a claim and a new batch also read back the row  *)
(* they wrote.  A sweep takes at most 200 batches: here it takes them all. *)
(* A workflow that is deleted takes its batches along, and is left out.    *)
(*                                                                         *)
(* One tick of the clock is a window: the time from one cron fire to the   *)
(* next (schedule policy), or the second of the opening event together     *)
(* with the window it opens (interval policy).                             *)
(***************************************************************************)
EXTENDS Integers, FiniteSets

CONSTANTS
    Entities,      \* subjects of the events, members of the workflow's filter
    Accumulators,  \* dispatching processes
    Flushers,      \* cron processes that run the flush sweep
    Policies,      \* the window policies of this instance
    MinItems,      \* aggregation.min_items
    MaxClock,      \* bound: windows that pass
    MaxBatches,    \* bound: batch rows
    MaxExecs,      \* bound: digest executions
    FaultKinds,    \* the faults that may occur in this instance
    MaxFaults      \* bound: how many of them in one behaviour

VARIABLES
    policy,        \* window policy of the workflow; never changes
    now,           \* the clock
    batch,         \* batch[b]: the row with batch_id b, and its items
    digest,        \* digest[x]: the execution with id x
    published,     \* executions of which an execute message was published
    faults,        \* faults that occurred so far
    acc,           \* acc[a]: the accumulate() call dispatcher a is in
    flusher,       \* flusher[f]: the flush() call cron process f is in
    sealed         \* history: sealed[b] is what b's window held when it was claimed

dataVars == <<batch, digest, published>>
vars == <<policy, now, batch, digest, published, faults, acc, flusher, sealed>>

BatchIds == 1..MaxBatches
ExecIds == 1..MaxExecs
NoBatch == 0
NoExec == 0

ASSUME BatchAssumption ==
    /\ Policies \subseteq {"schedule", "interval"}
    /\ IsFiniteSet(Entities)
    /\ MinItems \in Nat \ {0}
    /\ MaxClock \in Nat /\ MaxBatches \in Nat /\ MaxExecs \in Nat /\ MaxFaults \in Nat
    /\ FaultKinds \subseteq {"flusher_crash",  \* a sweep dies, or a statement of it throws
                             "publish",        \* publishing to the queue throws
                             "slow_flusher"}   \* a sweep outlives its five minutes of grace
-----------------------------------------------------------------------------
BatchRow == [status: {"none", "open", "flushing", "flushed"},
             key: 0..MaxClock,
             due: 0..MaxClock + 1,
             count: 0..Cardinality(Entities),
             exec: ExecIds \cup {NoExec},
             stale: BOOLEAN,            \* flushing_at is before the cutoff
             items: SUBSET Entities]    \* its rows of mageos_workflow_batch_item

AbsentBatch == [status |-> "none", key |-> 0, due |-> 0, count |-> 0, exec |-> NoExec,
                stale |-> FALSE, items |-> {}]

\* What a sweep remembers of a batch row it claimed, from the row it read back.
ClaimedRow == [id: BatchIds, count: 0..Cardinality(Entities), exec: ExecIds \cup {NoExec}]

IdleAcc == [pc |-> "idle", entity |-> NoBatch, time |-> 0, id |-> NoBatch, count |-> 0]

NoRow == [id |-> NoBatch, exec |-> NoExec]

IdleFlusher == [pc |-> "idle", pass |-> "due", ids |-> {}, claimed |-> {}, row |-> NoRow,
                items |-> {}]

Absent == {b \in BatchIds : batch[b].status = "none"}
OpenBatches == {b \in BatchIds : batch[b].status = "open"}

Digest == [batch: BatchIds, items: SUBSET Entities]
NoDigest == [batch |-> NoBatch, items |-> {}]

Fault(kind) ==
    /\ kind \in FaultKinds
    /\ faults < MaxFaults
    /\ faults' = faults + 1

BatchesInit ==
    /\ policy \in Policies
    /\ now = 0
    /\ batch = [b \in BatchIds |-> AbsentBatch]
    /\ digest = [x \in ExecIds |-> NoDigest]
    /\ published = {}
    /\ faults = 0
    /\ acc = [a \in Accumulators |-> IdleAcc]
    /\ flusher = [f \in Flushers |-> IdleFlusher]
    /\ sealed = [b \in BatchIds |-> {}]
-----------------------------------------------------------------------------
(***************************************************************************)
(* The window a moment belongs to, and when it is due.                     *)
(***************************************************************************)
WindowKey(t) == t
FlushDueAt(t) == t + 1

(***************************************************************************)
(* BatchAccumulator::accumulate.                                           *)
(***************************************************************************)
AccUnchanged == UNCHANGED <<policy, now, digest, published, faults, flusher, sealed>>

\* resolveBatchId: an interval workflow reuses its open batch, whatever its
\* due time; otherwise the key is computed from the time it is now.
Accumulate(a, e) ==
    /\ acc[a].pc = "idle"
    /\ \/ /\ policy = "interval"
          /\ \E b \in OpenBatches :
                /\ \A other \in OpenBatches : other <= b
                /\ acc' = [acc EXCEPT ![a] = [IdleAcc EXCEPT !.pc = "upsert", !.entity = e,
                                                             !.id = b]]
       \/ /\ policy = "schedule" \/ OpenBatches = {}
          /\ acc' = [acc EXCEPT ![a] = [IdleAcc EXCEPT !.pc = "open", !.entity = e,
                                                       !.time = now]]
    /\ UNCHANGED batch
    /\ AccUnchanged

\* The unique key finds a batch of this window in any status.
OpenBatch(a) ==
    LET key == WindowKey(acc[a].time)
        Found == {b \in BatchIds \ Absent : batch[b].key = key}
    IN  /\ acc[a].pc = "open"
        /\ \/ /\ \E b \in Found :
                    acc' = [acc EXCEPT ![a].pc = "upsert", ![a].id = b, ![a].time = 0]
              /\ UNCHANGED batch
           \/ /\ Found = {}
              /\ \E b \in Absent :
                    /\ \A other \in Absent : b <= other
                    /\ batch' = [batch EXCEPT ![b] =
                            [AbsentBatch EXCEPT !.status = "open", !.key = key,
                                                !.due = FlushDueAt(acc[a].time)]]
                    /\ acc' = [acc EXCEPT ![a].pc = "upsert", ![a].id = b, ![a].time = 0]
        /\ AccUnchanged

\* An entity the batch has already is refreshed, and is not counted again.
UpsertItem(a) ==
    LET b == acc[a].id
    IN  /\ acc[a].pc = "upsert"
        /\ batch' = [batch EXCEPT ![b].items = @ \cup {acc[a].entity}]
        /\ acc' = IF acc[a].entity \in batch[b].items
                  THEN [acc EXCEPT ![a] = IdleAcc]
                  ELSE [acc EXCEPT ![a].pc = "count"]
        /\ AccUnchanged

CountItems(a) ==
    /\ acc[a].pc = "count"
    /\ acc' = [acc EXCEPT ![a].pc = "sync", ![a].count = Cardinality(batch[acc[a].id].items)]
    /\ UNCHANGED batch
    /\ AccUnchanged

SyncCount(a) ==
    /\ acc[a].pc = "sync"
    /\ batch' = [batch EXCEPT ![acc[a].id].count = acc[a].count]
    /\ acc' = [acc EXCEPT ![a] = IdleAcc]
    /\ AccUnchanged
-----------------------------------------------------------------------------
(***************************************************************************)
(* BatchFlusher::flush: two passes, over due and over stale batches.  A    *)
(* pass claims all its batches before it releases the first of them.       *)
(***************************************************************************)
FlusherAt(f, label) == flusher[f].pc = label

\* The claims of this pass are made, and the sweep is between two batches.
BetweenBatches(f) == FlusherAt(f, "claim") /\ flusher[f].ids = {}

PassDone(f, pass) == BetweenBatches(f) /\ flusher[f].claimed = {} /\ flusher[f].pass = pass

FlusherUnchanged == UNCHANGED <<policy, now, acc>>

SelectDue(f) ==
    /\ FlusherAt(f, "idle") \/ PassDone(f, "stale")
    /\ flusher' = [flusher EXCEPT ![f] =
            [IdleFlusher EXCEPT !.pc = "claim",
                                !.ids = {b \in OpenBatches : batch[b].due <= now}]]
    /\ UNCHANGED <<dataVars, faults, sealed>>
    /\ FlusherUnchanged

SelectStale(f) ==
    /\ PassDone(f, "due")
    /\ flusher' = [flusher EXCEPT ![f] =
            [IdleFlusher EXCEPT !.pc = "claim", !.pass = "stale",
                 !.ids = {b \in BatchIds : batch[b].status = "flushing" /\ batch[b].stale}]]
    /\ UNCHANGED <<dataVars, faults, sealed>>
    /\ FlusherUnchanged

\* The entities of b that no accumulate() call is still busy with.
Settled(b) == {e \in batch[b].items : \A a \in Accumulators :
                  acc[a].pc = "idle" \/ acc[a].id # b \/ acc[a].entity # e}

\* Mutant of Claimable: the claim does not look at the status any more.
ClaimableAnyway(pass, b) == TRUE

\* Mutant of Claimable: the stale pass asks for an open batch as the due pass does.
ClaimableOnce(pass, b) == batch[b].status = "open"

\* The condition of the claiming UPDATE.
Claimable(pass, b) ==
    \/ pass = "due" /\ batch[b].status = "open"
    \/ pass = "stale" /\ batch[b].status = "flushing" /\ batch[b].stale

\* UPDATE and SELECT of one batch; the loser of the UPDATE passes over it.
ClaimBatch(f) ==
    /\ FlusherAt(f, "claim")
    /\ \E b \in flusher[f].ids :
          \/ /\ Claimable(flusher[f].pass, b)
             /\ batch' = [batch EXCEPT ![b].status = "flushing", ![b].stale = FALSE]
             /\ flusher' = [flusher EXCEPT ![f].ids = @ \ {b},
                    ![f].claimed = @ \cup {[id |-> b, count |-> batch[b].count,
                                            exec |-> batch[b].exec]}]
             /\ sealed' = [sealed EXCEPT ![b] = IF flusher[f].pass = "due" THEN Settled(b) ELSE @]
          \/ /\ ~Claimable(flusher[f].pass, b)
             /\ flusher' = [flusher EXCEPT ![f].ids = @ \ {b}]
             /\ UNCHANGED <<batch, sealed>>
    /\ UNCHANGED <<digest, published, faults>>
    /\ FlusherUnchanged

-----------------------------------------------------------------------------
(***************************************************************************)
(* BatchFlusher::process, on the row the claim read.                       *)
(***************************************************************************)
\* Flusher f is through with its row and turns to the next one.
RowDone(f) ==
    flusher' = [flusher EXCEPT ![f].pc = "claim", ![f].row = NoRow]

\* Mutant of UnderMinimum: a batch of just min_items is under the minimum.
AtMinimum(row) == row.count <= MinItems

UnderMinimum(row) == row.count < MinItems

\* What becomes of a claimed row, by what the claim read of it.  The items are
\* loaded here when a digest is to be created.
ConsiderBatch(f) ==
    /\ BetweenBatches(f)
    /\ \E row \in flusher[f].claimed :
          flusher' = [flusher EXCEPT
              ![f].claimed = @ \ {row},
              ![f].row = [id |-> row.id, exec |-> row.exec],
              ![f].items = IF row.exec = NoExec /\ ~UnderMinimum(row)
                           THEN batch[row.id].items ELSE {},
              ![f].pc = IF row.exec # NoExec THEN "publish"
                        ELSE IF ~UnderMinimum(row) THEN "create"
                        ELSE IF policy = "interval" THEN "carry" ELSE "mark"]
    /\ UNCHANGED <<dataVars, faults, sealed>>
    /\ FlusherUnchanged

\* handleUnderMinimum, interval policy: the UPDATE has no condition.
CarryOver(f) ==
    /\ FlusherAt(f, "carry")
    /\ batch' = [batch EXCEPT ![flusher[f].row.id].status = "open",
                              ![flusher[f].row.id].due = FlushDueAt(now),
                              ![flusher[f].row.id].stale = FALSE]
    /\ RowDone(f)
    /\ UNCHANGED <<digest, published, faults, sealed>>
    /\ FlusherUnchanged

\* Mutant of CreateExecution: the id of the saved execution is not read back.
CreateUnread(f) ==
    LET Free == {x \in ExecIds : digest[x] = NoDigest}
    IN  /\ FlusherAt(f, "create")
        /\ \E x \in Free :
              digest' = [digest EXCEPT ![x] = [batch |-> flusher[f].row.id,
                                               items |-> flusher[f].items]]
        /\ flusher' = [flusher EXCEPT ![f].pc = "record", ![f].items = {}]
        /\ UNCHANGED <<batch, published, faults, sealed>>
        /\ FlusherUnchanged

\* BatchExecutionFactory::create saves a new execution under the next free id.
CreateExecution(f) ==
    LET Free == {x \in ExecIds : digest[x] = NoDigest}
    IN  /\ FlusherAt(f, "create")
        /\ \E x \in Free :
              /\ \A other \in Free : x <= other
              /\ digest' = [digest EXCEPT ![x] = [batch |-> flusher[f].row.id,
                                                  items |-> flusher[f].items]]
              /\ flusher' = [flusher EXCEPT ![f].pc = "record", ![f].row.exec = x,
                                            ![f].items = {}]
        /\ UNCHANGED <<batch, published, faults, sealed>>
        /\ FlusherUnchanged

\* Mutant of RecordExecution: the id stays in the memory of the sweep.
RecordNothing(f) ==
    /\ FlusherAt(f, "record")
    /\ flusher' = [flusher EXCEPT ![f].pc = "publish"]
    /\ UNCHANGED <<dataVars, faults, sealed>>
    /\ FlusherUnchanged

RecordExecution(f) ==
    /\ FlusherAt(f, "record")
    /\ batch' = [batch EXCEPT ![flusher[f].row.id].exec = flusher[f].row.exec]
    /\ flusher' = [flusher EXCEPT ![f].pc = "publish"]
    /\ UNCHANGED <<digest, published, faults, sealed>>
    /\ FlusherUnchanged

\* Mutant of PublishDigest: a failed publish is logged and the batch closed.
PublishAndClose(f) ==
    /\ FlusherAt(f, "publish")
    /\ \/ published' = published \cup {flusher[f].row.exec} /\ UNCHANGED faults
       \/ Fault("publish") /\ UNCHANGED published
    /\ flusher' = [flusher EXCEPT ![f].pc = "mark"]
    /\ UNCHANGED <<batch, digest, sealed>>
    /\ FlusherUnchanged

\* A publish that throws leaves the batch in flushing for the stale pass.
PublishDigest(f) ==
    /\ FlusherAt(f, "publish")
    /\ \/ /\ published' = published \cup {flusher[f].row.exec}
          /\ flusher' = [flusher EXCEPT ![f].pc = "mark"]
          /\ UNCHANGED faults
       \/ /\ Fault("publish")
          /\ RowDone(f)
          /\ UNCHANGED published
    /\ UNCHANGED <<batch, digest, sealed>>
    /\ FlusherUnchanged

\* markFlushed, after a publish and for a batch that is dropped; unconditional.
MarkFlushed(f) ==
    /\ FlusherAt(f, "mark")
    /\ batch' = [batch EXCEPT ![flusher[f].row.id].status = "flushed"]
    /\ RowDone(f)
    /\ UNCHANGED <<digest, published, faults, sealed>>
    /\ FlusherUnchanged
-----------------------------------------------------------------------------
\* The sweep dies, or an uncaught error ends it: whatever it claimed stays as it is.
FlusherCrash(f) ==
    /\ ~FlusherAt(f, "idle")
    /\ Fault("flusher_crash")
    /\ flusher' = [flusher EXCEPT ![f] = IdleFlusher]
    /\ UNCHANGED <<dataVars, sealed>>
    /\ FlusherUnchanged

Holds(f, b) == flusher[f].row.id = b \/ \E row \in flusher[f].claimed : row.id = b

Held(b) == \E f \in Flushers : Holds(f, b)

\* Five minutes pass over a claim.  They pass over a claim whose sweep is still
\* at work only where the instance has slow sweeps.
GraceElapses(b) ==
    /\ batch[b].status = "flushing"
    /\ ~batch[b].stale
    /\ \/ ~Held(b) /\ UNCHANGED faults
       \/ Held(b) /\ Fault("slow_flusher")
    /\ batch' = [batch EXCEPT ![b].stale = TRUE]
    /\ UNCHANGED <<policy, now, digest, published, acc, flusher, sealed>>

Tick ==
    /\ now < MaxClock
    /\ now' = now + 1
    /\ UNCHANGED <<policy, dataVars, faults, acc, flusher, sealed>>

AccumulatorStep(a) ==
    OpenBatch(a) \/ UpsertItem(a) \/ CountItems(a) \/ SyncCount(a)

FlusherStep(f) ==
    \/ SelectDue(f) \/ SelectStale(f) \/ ClaimBatch(f)
    \/ ConsiderBatch(f) \/ CarryOver(f) \/ CreateExecution(f) \/ RecordExecution(f)
    \/ PublishDigest(f) \/ MarkFlushed(f)

BatchesNext ==
    \/ Tick
    \/ \E a \in Accumulators : AccumulatorStep(a) \/ \E e \in Entities : Accumulate(a, e)
    \/ \E f \in Flushers : FlusherStep(f) \/ FlusherCrash(f)
    \/ \E b \in BatchIds : GraceElapses(b)

Spec == BatchesInit /\ [][BatchesNext]_vars

\* Cron starts every sweep again and again, and five minutes do pass.  Events
\* need not come, and no dispatcher need finish.
FairSpec ==
    /\ Spec
    /\ \A f \in Flushers : WF_vars(FlusherStep(f))
    /\ \A b \in BatchIds : WF_vars(GraceElapses(b))
-----------------------------------------------------------------------------
\* The variables keep their types, and a sweep that is about to record or to
\* publish knows an execution that was made for its batch.
BatchTypeOK ==
    /\ policy \in Policies /\ now \in 0..MaxClock /\ faults \in 0..MaxFaults
    /\ batch \in [BatchIds -> BatchRow]
    /\ digest \in [ExecIds -> Digest \cup {NoDigest}]
    /\ published \subseteq ExecIds
    /\ sealed \in [BatchIds -> SUBSET Entities]
    /\ \A a \in Accumulators :
          /\ acc[a].pc \in {"idle", "open", "upsert", "count", "sync"}
          /\ acc[a].pc \notin {"idle", "open"} => acc[a].id \in BatchIds
    /\ \A f \in Flushers :
          /\ flusher[f].pc \in {"idle", "claim", "carry", "create", "record", "publish", "mark"}
          /\ flusher[f].pass \in {"due", "stale"}
          /\ flusher[f].ids \subseteq BatchIds
          /\ flusher[f].claimed \subseteq ClaimedRow
          /\ flusher[f].items \subseteq Entities
          /\ flusher[f].row \in [id: BatchIds \cup {NoBatch}, exec: ExecIds \cup {NoExec}]
          /\ flusher[f].pc \in {"record", "publish"} =>
                /\ flusher[f].row.exec \in ExecIds
                /\ digest[flusher[f].row.exec].batch = flusher[f].row.id

\* One window, one digest: whatever crashes, and however often the batch is
\* claimed again, no two executions of one batch are ever published.
OneDigest ==
    \A x, y \in published : digest[x].batch = digest[y].batch => x = y

\* A batch is closed only with its digest published, or dropped by a schedule
\* policy that found it under the minimum: no failure closes it silently.
ClosedWithDigest ==
    \A b \in BatchIds : batch[b].status = "flushed" =>
        batch[b].exec \in published \/ (policy = "schedule" /\ batch[b].exec = NoExec)

\* Nothing that was in the window when it closed is left out: an entity whose
\* accumulate() calls had all returned when its batch was claimed is in the
\* published digest.  (With min_items = 1: a larger minimum may drop it.)
DigestHoldsTheWindow ==
    \A b \in BatchIds : batch[b].status = "flushed" =>
        \E x \in published \cup {NoExec} :
            /\ x = batch[b].exec
            /\ sealed[b] \subseteq IF x = NoExec THEN {} ELSE digest[x].items

\* A closed batch is never taken up again.
FlushedIsFinal ==
    [][\A b \in BatchIds : batch[b].status = "flushed" => batch'[b].status = "flushed"]_vars

\* A window that is due, or that a sweep has claimed and perhaps abandoned, is
\* released, dropped or carried into the next one.
Unreleased(b) ==
    batch[b].status = "flushing" \/ (batch[b].status = "open" /\ batch[b].due <= now)

WindowsClose == \A b \in BatchIds : Unreleased(b) ~> ~Unreleased(b)
=============================================================================
