---------------------------- MODULE BatchesSafety -----------------------------
(***************************************************************************)
(* Window-mode aggregation, proved: types, one holder for every claimed    *)
(* batch, one digest for every window, and nothing missing from it.        *)
(***************************************************************************)
EXTENDS Batches, FiniteSetTheorems, TLAPS

USE DEF NoBatch, NoExec

(***************************************************************************)
(* Types.                                                                  *)
(***************************************************************************)
AccRow == [pc: {"idle", "open", "upsert", "count", "sync"},
           entity: Entities \cup {NoBatch},
           time: 0..MaxClock,
           id: BatchIds \cup {NoBatch},
           count: 0..Cardinality(Entities)]

FlusherLabels == {"idle", "claim", "carry", "create", "record", "publish", "mark"}
RowInHand == [id: BatchIds \cup {NoBatch}, exec: ExecIds \cup {NoExec}]

FlusherRow == [pc: FlusherLabels,
               pass: {"due", "stale"},
               ids: SUBSET BatchIds,
               claimed: SUBSET ClaimedRow,
               row: RowInHand,
               items: SUBSET Entities]

\* x is no execution yet, or one that was created for batch b.
MadeFor(b, x) == x = NoExec \/ (x \in ExecIds /\ digest[x].batch = b)

DataOK ==
    /\ policy \in Policies /\ now \in 0..MaxClock /\ faults \in 0..MaxFaults
    /\ batch \in [BatchIds -> BatchRow]
    /\ digest \in [ExecIds -> Digest \cup {NoDigest}]
    /\ published \subseteq ExecIds
    /\ sealed \in [BatchIds -> SUBSET Entities]
    /\ \A b \in BatchIds : MadeFor(b, batch[b].exec)

AccsOK ==
    /\ acc \in [Accumulators -> AccRow]
    /\ \A a \in Accumulators :
          /\ acc[a].pc # "idle" => acc[a].entity \in Entities
          /\ acc[a].pc \notin {"idle", "open"} => acc[a].id \in BatchIds

\* A sweep knows executions by the batch they were made for, and has a row in
\* hand exactly while it works on one.
FlusherFine(f) ==
    /\ \A row \in flusher[f].claimed : MadeFor(row.id, row.exec)
    /\ MadeFor(flusher[f].row.id, flusher[f].row.exec)
    /\ flusher[f].pc \in {"idle", "claim"} => flusher[f].row = NoRow
    /\ flusher[f].pc \notin {"idle", "claim"} => flusher[f].row.id \in BatchIds
    /\ flusher[f].pc \in {"record", "publish"} => flusher[f].row.exec \in ExecIds
    /\ flusher[f].pc = "idle" => flusher[f].claimed = {}

FlushersOK ==
    /\ flusher \in [Flushers -> FlusherRow]
    /\ \A f \in Flushers : FlusherFine(f)

TypeInv == DataOK /\ AccsOK /\ FlushersOK

(***************************************************************************)
(* One holder.  A sweep that outlives its five minutes of grace has its    *)
(* claims taken over while it works, so sweeps are assumed to keep to it.  *)
(***************************************************************************)
NoSlowSweeps == "slow_flusher" \notin FaultKinds

Working(f) == flusher[f].pc \notin {"idle", "claim"}

\* A batch that a sweep holds is claimed, fresh, and held by nobody else.
OneHolder ==
    /\ \A f \in Flushers, b \in BatchIds : Holds(f, b) =>
          batch[b].status = "flushing" /\ ~batch[b].stale
    /\ \A f, g \in Flushers, b \in BatchIds : Holds(f, b) /\ Holds(g, b) => f = g
    /\ \A f \in Flushers :
          /\ \A r, s \in flusher[f].claimed : r.id = s.id => r = s
          /\ \A r \in flusher[f].claimed : r.id # flusher[f].row.id

\* What sweep f read of its batches still holds of their rows, save for the
\* execution it is about to record; it closes a batch only with its digest
\* published, or if a schedule policy drops it.
ViewIsFresh(f) ==
    /\ \A r \in flusher[f].claimed : r.exec = batch[r.id].exec
    /\ Working(f) => batch[flusher[f].row.id].exec =
          IF flusher[f].pc = "record" THEN NoExec ELSE flusher[f].row.exec
    /\ flusher[f].pc \in {"carry", "create"} => flusher[f].row.exec = NoExec
    /\ flusher[f].pc = "mark" =>
          \/ flusher[f].row.exec \in published
          \/ policy = "schedule" /\ flusher[f].row.exec = NoExec

HeldViewIsFresh == \A f \in Flushers : ViewIsFresh(f)

\* An execution is published only when the row of its batch names it.
PublishedIsRecorded ==
    /\ \A x \in published : digest[x] # NoDigest /\ batch[digest[x].batch].exec = x
    /\ \A b \in BatchIds : batch[b].status \in {"none", "open"} => batch[b].exec = NoExec

ReleaseInv == OneHolder /\ HeldViewIsFresh /\ PublishedIsRecorded /\ ClosedWithDigest

(***************************************************************************)
(* The window.                                                             *)
(***************************************************************************)
\* Nobody accumulates into a batch that is not there, and its window is empty.
BatchesKept ==
    /\ \A b \in BatchIds : batch[b].status = "none" => sealed[b] = {}
    /\ \A a \in Accumulators : acc[a].pc \notin {"idle", "open"} =>
          batch[acc[a].id].status # "none"

Counting(a) == acc[a].pc \in {"count", "sync"}

\* Item e of batch b has been counted, or a dispatcher is about to.
Counted(b, e) ==
    \/ batch[b].count >= 1
    \/ \E a \in Accumulators : Counting(a) /\ acc[a].id = b /\ acc[a].entity = e

ItemsCounted ==
    /\ \A b \in BatchIds : \A e \in batch[b].items : Counted(b, e)
    /\ \A a \in Accumulators :
          /\ Counting(a) => acc[a].entity \in batch[acc[a].id].items
          /\ acc[a].pc = "sync" => acc[a].count >= 1

\* What b's window held is among its items, has been counted, and is in its
\* digest; a batch dropped without a digest had an empty window.
RowHoldsSeal(b) ==
    /\ sealed[b] \subseteq batch[b].items
    /\ sealed[b] # {} => batch[b].count >= 1
    /\ batch[b].exec # NoExec => sealed[b] \subseteq digest[batch[b].exec].items
    /\ batch[b].status = "flushed" /\ batch[b].exec = NoExec => sealed[b] = {}

\* The same of what sweep f remembers of the batches it holds.
SweepHoldsSeal(f) ==
    /\ \A r \in flusher[f].claimed : sealed[r.id] # {} => r.count >= 1
    /\ flusher[f].pc = "create" => sealed[flusher[f].row.id] \subseteq flusher[f].items
    /\ flusher[f].pc = "record" =>
          sealed[flusher[f].row.id] \subseteq digest[flusher[f].row.exec].items
    /\ flusher[f].pc = "mark" /\ flusher[f].row.exec = NoExec => sealed[flusher[f].row.id] = {}

SealedIsHeld ==
    /\ \A b \in BatchIds : RowHoldsSeal(b)
    /\ \A f \in Flushers : SweepHoldsSeal(f)

WindowInv == ReleaseInv /\ BatchesKept /\ ItemsCounted /\ SealedIsHeld
-----------------------------------------------------------------------------
\* The bounds hold their zeros.
LEMMA Zeros ==
    /\ Cardinality(Entities) \in Nat
    /\ 0 \in 0..Cardinality(Entities) /\ 0 \in 0..MaxClock /\ 0 \in 0..MaxClock + 1
  BY BatchAssumption, FS_CardinalityType

LEMMA IdleAccType == IdleAcc \in AccRow
  BY Zeros DEF IdleAcc, AccRow

LEMMA IdleFlusherType == IdleFlusher \in FlusherRow
  BY DEF IdleFlusher, FlusherRow, NoRow, RowInHand, FlusherLabels

LEMMA AbsentBatchType == AbsentBatch \in BatchRow
  BY Zeros DEF AbsentBatch, BatchRow

\* What the assignments of accumulate() make of a dispatcher's state.
LEMMA AccJoins ==
    ASSUME NEW e \in Entities, NEW i \in BatchIds
    PROVE  LET w == [IdleAcc EXCEPT !.pc = "upsert", !.entity = e, !.id = i]
           IN  w \in AccRow /\ w.pc = "upsert" /\ w.entity = e /\ w.id = i
  BY IdleAccType DEF AccRow

LEMMA AccOpens ==
    ASSUME NEW e \in Entities, NEW t \in 0..MaxClock
    PROVE  LET w == [IdleAcc EXCEPT !.pc = "open", !.entity = e, !.time = t]
           IN  w \in AccRow /\ w.pc = "open" /\ w.entity = e
  BY IdleAccType DEF AccRow

LEMMA AccFinds ==
    ASSUME NEW r \in AccRow, NEW i \in BatchIds
    PROVE  LET w == [r EXCEPT !.pc = "upsert", !.id = i, !.time = 0]
           IN  w \in AccRow /\ w.pc = "upsert" /\ w.entity = r.entity /\ w.id = i
  BY Zeros DEF AccRow

LEMMA AccCounts ==
    ASSUME NEW r \in AccRow, NEW n \in 0..Cardinality(Entities)
    PROVE  LET w == [r EXCEPT !.pc = "sync", !.count = n]
           IN  w \in AccRow /\ w.pc = "sync" /\ w.entity = r.entity /\ w.id = r.id /\ w.count = n
  BY DEF AccRow

LEMMA AccTurns ==
    ASSUME NEW r \in AccRow
    PROVE  LET w == [r EXCEPT !.pc = "count"]
           IN  w \in AccRow /\ w.pc = "count" /\ w.entity = r.entity /\ w.id = r.id
  BY DEF AccRow

\* What the start of a pass makes of a sweep's state.
LEMMA FlusherSelects ==
    ASSUME NEW ids \in SUBSET BatchIds
    PROVE  LET w1 == [IdleFlusher EXCEPT !.pc = "claim", !.ids = ids]
               w2 == [IdleFlusher EXCEPT !.pc = "claim", !.pass = "stale", !.ids = ids]
           IN  /\ w1 \in FlusherRow /\ w1.pc = "claim"
               /\ w1.claimed = IdleFlusher.claimed /\ w1.row = IdleFlusher.row
               /\ w2 \in FlusherRow /\ w2.pc = "claim"
               /\ w2.claimed = IdleFlusher.claimed /\ w2.row = IdleFlusher.row
  BY IdleFlusherType DEF FlusherRow, FlusherLabels

-----------------------------------------------------------------------------
(***************************************************************************)
(* What each action does.                                                  *)
(***************************************************************************)
AccMoves(a) ==
    /\ acc' \in [Accumulators -> AccRow]
    /\ \A c \in Accumulators \ {a} : acc'[c] = acc[c]

FlusherMoves(f) ==
    /\ flusher' \in [Flushers -> FlusherRow]
    /\ \A g \in Flushers \ {f} : flusher'[g] = flusher[g]

BatchMoves(b) ==
    /\ batch' \in [BatchIds -> BatchRow]
    /\ \A c \in BatchIds \ {b} : batch'[c] = batch[c]

AccKeeps == UNCHANGED <<policy, now, digest, published, faults, flusher, sealed>>

LEMMA AccumulateStep ==
    ASSUME NEW a \in Accumulators, NEW e \in Entities, TypeInv, Accumulate(a, e)
    PROVE  /\ AccMoves(a) /\ UNCHANGED batch /\ AccKeeps
           /\ acc[a].pc = "idle" /\ acc'[a].pc \in {"open", "upsert"} /\ acc'[a].entity = e
           /\ acc'[a].pc = "upsert" => acc'[a].id \in OpenBatches
<1>1. /\ UNCHANGED batch /\ AccKeeps /\ acc[a].pc = "idle"
      /\ acc \in [Accumulators -> AccRow] /\ now \in 0..MaxClock
  BY DEF Accumulate, AccUnchanged, AccKeeps, TypeInv, AccsOK, DataOK
<1>2. ASSUME NEW b \in OpenBatches,
             acc' = [acc EXCEPT ![a] = [IdleAcc EXCEPT !.pc = "upsert", !.entity = e, !.id = b]]
      PROVE  AccMoves(a) /\ acc'[a].pc = "upsert" /\ acc'[a].entity = e /\ acc'[a].id = b
  <2>1. b \in BatchIds
    BY DEF OpenBatches
  <2> DEFINE w == [IdleAcc EXCEPT !.pc = "upsert", !.entity = e, !.id = b]
  <2>2. w \in AccRow /\ w.pc = "upsert" /\ w.entity = e /\ w.id = b
    BY <2>1, AccJoins
  <2> HIDE DEF w
  <2> QED
    BY <1>1, <1>2, <2>2 DEF AccMoves, w
<1>3. ASSUME acc' = [acc EXCEPT ![a] = [IdleAcc EXCEPT !.pc = "open", !.entity = e, !.time = now]]
      PROVE  AccMoves(a) /\ acc'[a].pc = "open" /\ acc'[a].entity = e
  <2> DEFINE w == [IdleAcc EXCEPT !.pc = "open", !.entity = e, !.time = now]
  <2>2. w \in AccRow /\ w.pc = "open" /\ w.entity = e
    BY <1>1, AccOpens
  <2> HIDE DEF w
  <2> QED
    BY <1>1, <1>3, <2>2 DEF AccMoves, w
<1> QED
  BY <1>1, <1>2, <1>3 DEF Accumulate

LEMMA OpenBatchStep ==
    ASSUME NEW a \in Accumulators, TypeInv, OpenBatch(a)
    PROVE  \E b \in BatchIds :
              /\ AccMoves(a) /\ AccKeeps
              /\ acc[a].pc = "open" /\ acc'[a].pc = "upsert"
              /\ acc'[a].entity = acc[a].entity /\ acc'[a].id = b
              /\ \/ UNCHANGED batch /\ batch[b].status # "none"
                 \/ /\ BatchMoves(b)
                    /\ batch[b].status = "none" /\ batch'[b].status = "open"
                    /\ batch'[b].items = {} /\ batch'[b].exec = NoExec /\ batch'[b].count = 0
<1>1. AccKeeps /\ acc[a].pc = "open" /\ acc[a] \in AccRow /\ acc \in [Accumulators -> AccRow]
      /\ acc[a].entity \in Entities /\ batch \in [BatchIds -> BatchRow]
  BY DEF OpenBatch, AccUnchanged, AccKeeps, TypeInv, AccsOK, DataOK
<1> DEFINE t == acc[a].time
           row == [AbsentBatch EXCEPT !.status = "open", !.key = t, !.due = t + 1]
<1>2. PICK b \in BatchIds :
          /\ acc' = [acc EXCEPT ![a].pc = "upsert", ![a].id = b, ![a].time = 0]
          /\ \/ UNCHANGED batch /\ batch[b].status # "none"
             \/ batch[b].status = "none" /\ batch' = [batch EXCEPT ![b] = row]
  BY DEF OpenBatch, Absent, WindowKey, FlushDueAt
<1> DEFINE w == [acc[a] EXCEPT !.pc = "upsert", !.id = b, !.time = 0]
<1>3. w \in AccRow /\ w.pc = "upsert" /\ w.entity = acc[a].entity /\ w.id = b
  BY <1>1, AccFinds
<1>4. acc' = [acc EXCEPT ![a] = w]
  BY <1>2
<1>5. t \in 0..MaxClock /\ t + 1 \in 0..MaxClock + 1
  BY <1>1, BatchAssumption DEF AccRow
<1>6. row \in BatchRow /\ row.status = "open" /\ row.items = {} /\ row.exec = NoExec
      /\ row.count = 0
  <2> HIDE DEF t
  <2> QED
    BY <1>5, AbsentBatchType DEF AbsentBatch, BatchRow
<1> HIDE DEF w, row
<1>7. AccMoves(a) /\ acc'[a] = w
  BY <1>1, <1>3, <1>4 DEF AccMoves
<1>8. CASE batch' = [batch EXCEPT ![b] = row]
  <2>1. BatchMoves(b) /\ batch'[b] = row
    BY <1>1, <1>6, <1>8 DEF BatchMoves
  <2> QED
    BY <1>1, <1>2, <1>3, <1>6, <1>7, <1>8, <2>1
<1>9. CASE UNCHANGED batch
  BY <1>1, <1>2, <1>3, <1>6, <1>7, <1>9
<1> QED
  BY <1>2, <1>8, <1>9

\* UpsertItem, CountItems and SyncCount write the items and the count of one
\* batch, and nothing else of it.
LEMMA ItemStep ==
    ASSUME NEW a \in Accumulators, TypeInv, UpsertItem(a) \/ CountItems(a) \/ SyncCount(a)
    PROVE  /\ AccMoves(a) /\ AccKeeps /\ BatchMoves(acc[a].id)
           /\ acc[a].pc \in {"upsert", "count", "sync"} /\ acc[a].id \in BatchIds
           /\ LET b == acc[a].id
                  e == acc[a].entity
              IN  /\ batch'[b].status = batch[b].status /\ batch'[b].exec = batch[b].exec
                  /\ batch'[b].stale = batch[b].stale
                  /\ acc'[a].pc # "idle" => acc'[a].id = b /\ acc'[a].entity = e
                  /\ \/ /\ acc[a].pc = "upsert"
                        /\ acc'[a].pc = (IF e \in batch[b].items THEN "idle" ELSE "count")
                        /\ batch'[b].items = batch[b].items \cup {e}
                        /\ batch'[b].count = batch[b].count
                     \/ /\ acc[a].pc = "count" /\ acc'[a].pc = "sync" /\ UNCHANGED batch
                        /\ acc'[a].count = Cardinality(batch[b].items)
                     \/ /\ acc[a].pc = "sync" /\ acc'[a].pc = "idle"
                        /\ batch'[b].items = batch[b].items
                        /\ batch'[b].count = acc[a].count
<1> DEFINE b == acc[a].id
           e == acc[a].entity
<1>1. /\ AccKeeps /\ acc[a].pc \in {"upsert", "count", "sync"}
      /\ acc[a] \in AccRow /\ acc \in [Accumulators -> AccRow] /\ batch \in [BatchIds -> BatchRow]
      /\ b \in BatchIds /\ e \in Entities /\ batch[b] \in BatchRow
  BY DEF UpsertItem, CountItems, SyncCount, AccUnchanged, AccKeeps, TypeInv, AccsOK, DataOK
<1>2. AccMoves(a) /\ acc'[a].pc = "idle" /\ acc'[a] = IdleAcc
      <=> acc' = [acc EXCEPT ![a] = IdleAcc]
  BY <1>1, IdleAccType DEF AccMoves, IdleAcc
<1>3. CASE UpsertItem(a)
  <2> DEFINE row == [batch[b] EXCEPT !.items = @ \cup {e}]
             w == [acc[a] EXCEPT !.pc = "count"]
  <2>1. row \in BatchRow /\ row.status = batch[b].status /\ row.exec = batch[b].exec
        /\ row.stale = batch[b].stale /\ row.items = batch[b].items \cup {e}
        /\ row.count = batch[b].count
    <3> HIDE DEF b, e
    <3> QED
      BY <1>1 DEF BatchRow
  <2>2. batch' = [batch EXCEPT ![b] = row]
    BY <1>3 DEF UpsertItem
  <2>3. w \in AccRow /\ w.pc = "count" /\ w.entity = e /\ w.id = b
    BY <1>1, AccTurns
  <2>4. acc' = (IF e \in batch[b].items THEN [acc EXCEPT ![a] = IdleAcc]
                ELSE [acc EXCEPT ![a] = w])
    BY <1>3 DEF UpsertItem
  <2>5. acc[a].pc = "upsert"
    BY <1>3 DEF UpsertItem
  <2> HIDE DEF row, w
  <2>6. BatchMoves(b) /\ batch'[b] = row
    BY <1>1, <2>1, <2>2 DEF BatchMoves
  <2>7. e \notin batch[b].items => AccMoves(a) /\ acc'[a] = w
    BY <1>1, <2>3, <2>4 DEF AccMoves
  <2>8. e \in batch[b].items => AccMoves(a) /\ acc'[a].pc = "idle"
    BY <1>2, <2>4
  <2> QED
    BY <1>1, <2>1, <2>3, <2>5, <2>6, <2>7, <2>8
<1>4. CASE CountItems(a)
  <2> DEFINE n == Cardinality(batch[b].items)
             w == [acc[a] EXCEPT !.pc = "sync", !.count = n]
  <2>1. n \in 0..Cardinality(Entities)
    <3>1. batch[b].items \in SUBSET Entities
      BY <1>1 DEF BatchRow
    <3> QED
      BY <3>1, BatchAssumption, FS_Subset, FS_CardinalityType
  <2>2. w \in AccRow /\ w.pc = "sync" /\ w.entity = e /\ w.id = b /\ w.count = n
    BY <1>1, <2>1, AccCounts
  <2>3. acc' = [acc EXCEPT ![a] = w] /\ UNCHANGED batch /\ acc[a].pc = "count"
    BY <1>4 DEF CountItems
  <2> HIDE DEF w
  <2>4. AccMoves(a) /\ acc'[a] = w
    BY <1>1, <2>2, <2>3 DEF AccMoves
  <2> QED
    BY <1>1, <2>2, <2>3, <2>4 DEF BatchMoves
<1>5. CASE SyncCount(a)
  <2> DEFINE row == [batch[b] EXCEPT !.count = acc[a].count]
  <2>1. row \in BatchRow /\ row.status = batch[b].status /\ row.exec = batch[b].exec
        /\ row.stale = batch[b].stale /\ row.items = batch[b].items /\ row.count = acc[a].count
    <3>1. acc[a].count \in 0..Cardinality(Entities)
      BY <1>1 DEF AccRow
    <3> HIDE DEF b
    <3> QED
      BY <1>1, <3>1 DEF BatchRow
  <2>2. batch' = [batch EXCEPT ![b] = row]
    BY <1>5 DEF SyncCount
  <2>3. AccMoves(a) /\ acc'[a].pc = "idle" /\ acc[a].pc = "sync"
    BY <1>2, <1>5 DEF SyncCount
  <2> HIDE DEF row
  <2>4. BatchMoves(b) /\ batch'[b] = row
    BY <1>1, <2>1, <2>2 DEF BatchMoves
  <2> QED
    BY <1>1, <2>1, <2>3, <2>4
<1> QED
  BY <1>3, <1>4, <1>5

LEMMA SelectStep ==
    ASSUME NEW f \in Flushers, TypeInv, SelectDue(f) \/ SelectStale(f)
    PROVE  /\ FlusherMoves(f) /\ UNCHANGED <<policy, now, acc, dataVars, faults, sealed>>
           /\ flusher'[f].pc = "claim" /\ flusher'[f].claimed = {} /\ flusher'[f].row = NoRow
<1>1. flusher \in [Flushers -> FlusherRow]
  BY DEF TypeInv, FlushersOK, FlusherFine
<1>2. ASSUME NEW w \in FlusherRow, flusher' = [flusher EXCEPT ![f] = w],
             w.pc = "claim", w.claimed = {}, w.row = NoRow
      PROVE  /\ FlusherMoves(f) /\ flusher'[f].pc = "claim" /\ flusher'[f].claimed = {}
             /\ flusher'[f].row = NoRow
  BY <1>1, <1>2 DEF FlusherMoves
<1>3. IdleFlusher.claimed = {} /\ IdleFlusher.row = NoRow
  BY DEF IdleFlusher
<1>4. CASE SelectDue(f)
  <2> DEFINE due == {b \in OpenBatches : batch[b].due <= now}
  <2>1. due \in SUBSET BatchIds
    BY DEF OpenBatches
  <2>2. flusher' = [flusher EXCEPT ![f] = [IdleFlusher EXCEPT !.pc = "claim", !.ids = due]]
    BY <1>4 DEF SelectDue
  <2> HIDE DEF due
  <2>3. FlusherMoves(f) /\ flusher'[f].pc = "claim" /\ flusher'[f].claimed = {}
        /\ flusher'[f].row = NoRow
    BY <1>2, <1>3, <2>1, <2>2, FlusherSelects
  <2> QED
    BY <1>4, <2>3 DEF SelectDue, FlusherUnchanged, dataVars
<1>5. CASE SelectStale(f)
  <2> DEFINE old == {b \in BatchIds : batch[b].status = "flushing" /\ batch[b].stale}
  <2>1. old \in SUBSET BatchIds
    OBVIOUS
  <2>2. flusher' = [flusher EXCEPT ![f] =
                       [IdleFlusher EXCEPT !.pc = "claim", !.pass = "stale", !.ids = old]]
    BY <1>5 DEF SelectStale
  <2> HIDE DEF old
  <2>3. FlusherMoves(f) /\ flusher'[f].pc = "claim" /\ flusher'[f].claimed = {}
        /\ flusher'[f].row = NoRow
    BY <1>2, <1>3, <2>1, <2>2, FlusherSelects
  <2> QED
    BY <1>5, <2>3 DEF SelectStale, FlusherUnchanged, dataVars
<1> QED
  BY <1>4, <1>5

LEMMA ClaimStep ==
    ASSUME NEW f \in Flushers, TypeInv, ClaimBatch(f)
    PROVE  /\ FlusherMoves(f) /\ UNCHANGED <<policy, now, acc, digest, published, faults>>
           /\ flusher[f].pc = "claim" /\ flusher'[f].pc = "claim" /\ flusher'[f].row = NoRow
           /\ \/ flusher'[f].claimed = flusher[f].claimed /\ UNCHANGED <<batch, sealed>>
              \/ \E b \in BatchIds :
                    /\ Claimable(flusher[f].pass, b) /\ BatchMoves(b)
                    /\ flusher'[f].claimed = flusher[f].claimed \cup
                          {[id |-> b, count |-> batch[b].count, exec |-> batch[b].exec]}
                    /\ batch'[b].status = "flushing" /\ ~batch'[b].stale
                    /\ batch'[b].items = batch[b].items /\ batch'[b].count = batch[b].count
                    /\ batch'[b].exec = batch[b].exec
                    /\ sealed' = [sealed EXCEPT ![b] =
                          IF flusher[f].pass = "due" THEN Settled(b) ELSE sealed[b]]
<1>1. /\ UNCHANGED <<policy, now, acc, digest, published, faults>>
      /\ flusher[f].pc = "claim" /\ flusher[f].row = NoRow
      /\ flusher \in [Flushers -> FlusherRow] /\ flusher[f] \in FlusherRow
      /\ batch \in [BatchIds -> BatchRow]
  BY DEF ClaimBatch, FlusherAt, FlusherUnchanged, TypeInv, FlushersOK, FlusherFine, DataOK
<1>2. flusher[f].ids \in SUBSET BatchIds /\ flusher[f].claimed \in SUBSET ClaimedRow
  BY <1>1 DEF FlusherRow
<1>3. PICK b \in BatchIds :
          \/ /\ Claimable(flusher[f].pass, b)
             /\ batch' = [batch EXCEPT ![b].status = "flushing", ![b].stale = FALSE]
             /\ flusher' = [flusher EXCEPT ![f].ids = @ \ {b},
                    ![f].claimed = @ \cup {[id |-> b, count |-> batch[b].count,
                                            exec |-> batch[b].exec]}]
             /\ sealed' = [sealed EXCEPT ![b] =
                    IF flusher[f].pass = "due" THEN Settled(b) ELSE @]
          \/ /\ flusher' = [flusher EXCEPT ![f].ids = @ \ {b}]
             /\ UNCHANGED <<batch, sealed>>
  BY <1>2 DEF ClaimBatch
<1> DEFINE ids == flusher[f].ids \ {b}
<1>4. ids \in SUBSET BatchIds
  BY <1>2
<1>5. CASE UNCHANGED <<batch, sealed>> /\ flusher' = [flusher EXCEPT ![f].ids = @ \ {b}]
  <2> DEFINE w == [flusher[f] EXCEPT !.ids = ids]
  <2>1. w \in FlusherRow /\ w.pc = flusher[f].pc /\ w.claimed = flusher[f].claimed
        /\ w.row = flusher[f].row
    BY <1>1, <1>4 DEF FlusherRow
  <2>2. flusher' = [flusher EXCEPT ![f] = w]
    BY <1>5
  <2> HIDE DEF w
  <2>3. FlusherMoves(f) /\ flusher'[f] = w
    BY <1>1, <2>1, <2>2 DEF FlusherMoves
  <2> QED
    BY <1>1, <1>5, <2>1, <2>3
<1>6. CASE /\ Claimable(flusher[f].pass, b)
           /\ batch' = [batch EXCEPT ![b].status = "flushing", ![b].stale = FALSE]
           /\ flusher' = [flusher EXCEPT ![f].ids = @ \ {b},
                  ![f].claimed = @ \cup {[id |-> b, count |-> batch[b].count,
                                          exec |-> batch[b].exec]}]
           /\ sealed' = [sealed EXCEPT ![b] =
                  IF flusher[f].pass = "due" THEN Settled(b) ELSE @]
  <2> DEFINE claim == [id |-> b, count |-> batch[b].count, exec |-> batch[b].exec]
             cl == flusher[f].claimed \cup {claim}
             w == [flusher[f] EXCEPT !.ids = ids, !.claimed = cl]
             row == [batch[b] EXCEPT !.status = "flushing", !.stale = FALSE]
  <2>1. claim \in ClaimedRow
    BY <1>1 DEF ClaimedRow, BatchRow
  <2>2. cl \in SUBSET ClaimedRow
    BY <1>2, <2>1
  <2>3. flusher' = [flusher EXCEPT ![f] = w]
    BY <1>6
  <2>4. w \in FlusherRow /\ w.pc = flusher[f].pc /\ w.claimed = cl /\ w.row = flusher[f].row
    <3> HIDE DEF cl, ids
    <3> QED
      BY <1>1, <1>4, <2>2 DEF FlusherRow
  <2>5. /\ row \in BatchRow /\ row.status = "flushing" /\ ~row.stale
        /\ row.items = batch[b].items /\ row.count = batch[b].count /\ row.exec = batch[b].exec
    BY <1>1 DEF BatchRow
  <2>6. batch' = [batch EXCEPT ![b] = row]
    BY <1>6
  <2>7. sealed' = [sealed EXCEPT ![b] =
                     IF flusher[f].pass = "due" THEN Settled(b) ELSE sealed[b]]
    BY <1>6
  <2>8. Claimable(flusher[f].pass, b)
    BY <1>6
  <2> HIDE DEF w, row
  <2>9. FlusherMoves(f) /\ flusher'[f] = w
    BY <1>1, <2>3, <2>4 DEF FlusherMoves
  <2>10. BatchMoves(b) /\ batch'[b] = row
    BY <1>1, <2>5, <2>6 DEF BatchMoves
  <2> QED
    BY <1>1, <2>4, <2>5, <2>7, <2>8, <2>9, <2>10
<1> QED
  BY <1>3, <1>5, <1>6

LEMMA ConsiderStep ==
    ASSUME NEW f \in Flushers, TypeInv, ConsiderBatch(f)
    PROVE  /\ FlusherMoves(f) /\ UNCHANGED <<policy, now, acc, dataVars, faults, sealed>>
           /\ flusher[f].pc = "claim"
           /\ \E row \in flusher[f].claimed :
                 /\ row \in ClaimedRow
                 /\ flusher'[f].claimed = flusher[f].claimed \ {row}
                 /\ flusher'[f].row = [id |-> row.id, exec |-> row.exec]
                 /\ \/ row.exec # NoExec /\ flusher'[f].pc = "publish"
                    \/ /\ row.exec = NoExec /\ ~UnderMinimum(row)
                       /\ flusher'[f].pc = "create" /\ flusher'[f].items = batch[row.id].items
                    \/ /\ row.exec = NoExec /\ UnderMinimum(row)
                       /\ flusher'[f].pc = IF policy = "interval" THEN "carry" ELSE "mark"
<1>1. /\ UNCHANGED <<policy, now, acc, dataVars, faults, sealed>> /\ flusher[f].pc = "claim"
      /\ flusher \in [Flushers -> FlusherRow] /\ flusher[f] \in FlusherRow
      /\ batch \in [BatchIds -> BatchRow]
  BY DEF ConsiderBatch, BetweenBatches, FlusherAt, FlusherUnchanged, dataVars, TypeInv,
         FlushersOK, DataOK
<1>2. flusher[f].claimed \in SUBSET ClaimedRow
  BY <1>1 DEF FlusherRow
<1>3. PICK row \in flusher[f].claimed :
          flusher' = [flusher EXCEPT
              ![f].claimed = @ \ {row},
              ![f].row = [id |-> row.id, exec |-> row.exec],
              ![f].items = IF row.exec = NoExec /\ ~UnderMinimum(row)
                           THEN batch[row.id].items ELSE {},
              ![f].pc = IF row.exec # NoExec THEN "publish"
                        ELSE IF ~UnderMinimum(row) THEN "create"
                        ELSE IF policy = "interval" THEN "carry" ELSE "mark"]
  BY DEF ConsiderBatch
<1> DEFINE cl == flusher[f].claimed \ {row}
           inHand == [id |-> row.id, exec |-> row.exec]
           it == IF row.exec = NoExec /\ ~UnderMinimum(row) THEN batch[row.id].items ELSE {}
           p == IF row.exec # NoExec THEN "publish"
                ELSE IF ~UnderMinimum(row) THEN "create"
                ELSE IF policy = "interval" THEN "carry" ELSE "mark"
           w == [flusher[f] EXCEPT !.claimed = cl, !.row = inHand, !.items = it, !.pc = p]
<1>4. row \in ClaimedRow
  BY <1>2
<1>5. cl \in SUBSET ClaimedRow /\ inHand \in RowInHand
  BY <1>2, <1>4 DEF ClaimedRow, RowInHand
<1>6. it \in SUBSET Entities
  BY <1>1, <1>4 DEF BatchRow, ClaimedRow
<1>7. p \in FlusherLabels
  BY DEF FlusherLabels
<1>8. flusher' = [flusher EXCEPT ![f] = w]
  BY <1>3
<1>9. w \in FlusherRow /\ w.pc = p /\ w.claimed = cl /\ w.row = inHand /\ w.items = it
  <2> HIDE DEF cl, inHand, it, p
  <2> QED
    BY <1>1, <1>5, <1>6, <1>7 DEF FlusherRow
<1> HIDE DEF w
<1>10. FlusherMoves(f) /\ flusher'[f] = w
  BY <1>1, <1>8, <1>9 DEF FlusherMoves
<1> QED
  BY <1>1, <1>4, <1>9, <1>10

LEMMA RowDoneStep ==
    ASSUME NEW f \in Flushers, TypeInv, RowDone(f)
    PROVE  /\ FlusherMoves(f) /\ flusher'[f].pc = "claim"
           /\ flusher'[f].claimed = flusher[f].claimed /\ flusher'[f].row = NoRow
<1>1. flusher \in [Flushers -> FlusherRow] /\ flusher[f] \in FlusherRow /\ NoRow \in RowInHand
  BY DEF TypeInv, FlushersOK, FlusherFine, NoRow, RowInHand
<1> DEFINE w == [flusher[f] EXCEPT !.pc = "claim", !.row = NoRow]
<1>2. w \in FlusherRow /\ w.pc = "claim" /\ w.claimed = flusher[f].claimed /\ w.row = NoRow
  BY <1>1 DEF FlusherRow, FlusherLabels
<1>3. flusher' = [flusher EXCEPT ![f] = w]
  BY DEF RowDone
<1> HIDE DEF w
<1> QED
  BY <1>1, <1>2, <1>3 DEF FlusherMoves

LEMMA CarryStep ==
    ASSUME NEW f \in Flushers, TypeInv, CarryOver(f)
    PROVE  LET b == flusher[f].row.id
           IN  /\ FlusherMoves(f) /\ BatchMoves(b) /\ b \in BatchIds
               /\ UNCHANGED <<policy, now, acc, digest, published, faults, sealed>>
               /\ flusher[f].pc = "carry" /\ flusher'[f].pc = "claim"
               /\ flusher'[f].claimed = flusher[f].claimed /\ flusher'[f].row = NoRow
               /\ batch'[b].status = "open" /\ batch'[b].items = batch[b].items
               /\ batch'[b].count = batch[b].count /\ batch'[b].exec = batch[b].exec
<1> DEFINE b == flusher[f].row.id
           row == [batch[b] EXCEPT !.status = "open", !.due = FlushDueAt(now), !.stale = FALSE]
<1>1. /\ UNCHANGED <<policy, now, acc, digest, published, faults, sealed>>
      /\ flusher[f].pc = "carry" /\ b \in BatchIds
      /\ batch \in [BatchIds -> BatchRow] /\ now \in 0..MaxClock
      /\ RowDone(f) /\ batch' = [batch EXCEPT ![b] = row]
  BY DEF CarryOver, FlusherAt, FlusherUnchanged, TypeInv, FlushersOK, FlusherFine, DataOK
<1>2. FlushDueAt(now) \in 0..MaxClock + 1
  BY <1>1, BatchAssumption DEF FlushDueAt
<1>3. /\ row \in BatchRow /\ row.status = "open" /\ row.items = batch[b].items
      /\ row.count = batch[b].count /\ row.exec = batch[b].exec
  <2> HIDE DEF b
  <2> QED
    BY <1>1, <1>2 DEF BatchRow
<1>4. FlusherMoves(f) /\ flusher'[f].pc = "claim" /\ flusher'[f].claimed = flusher[f].claimed
      /\ flusher'[f].row = NoRow
  BY <1>1, RowDoneStep
<1> HIDE DEF row
<1>5. BatchMoves(b) /\ batch'[b] = row
  BY <1>1, <1>3 DEF BatchMoves
<1> QED
  BY <1>1, <1>3, <1>4, <1>5

LEMMA CreateStep ==
    ASSUME NEW f \in Flushers, TypeInv, CreateExecution(f)
    PROVE  /\ FlusherMoves(f) /\ UNCHANGED <<policy, now, acc, batch, published, faults, sealed>>
           /\ flusher[f].pc = "create" /\ flusher'[f].pc = "record"
           /\ flusher[f].row.id \in BatchIds
           /\ flusher'[f].claimed = flusher[f].claimed
           /\ \E x \in ExecIds :
                 /\ flusher'[f].row = [id |-> flusher[f].row.id, exec |-> x]
                 /\ digest[x] = NoDigest
                 /\ digest' = [digest EXCEPT ![x] = [batch |-> flusher[f].row.id,
                                                     items |-> flusher[f].items]]
<1>1. /\ UNCHANGED <<policy, now, acc, batch, published, faults, sealed>>
      /\ flusher[f].pc = "create" /\ flusher[f].row.id \in BatchIds
      /\ flusher \in [Flushers -> FlusherRow] /\ flusher[f] \in FlusherRow
      /\ flusher[f].row \in RowInHand
  BY DEF CreateExecution, FlusherAt, FlusherUnchanged, TypeInv, FlushersOK, FlusherFine, FlusherRow
<1>2. PICK x \in ExecIds :
          /\ digest[x] = NoDigest
          /\ digest' = [digest EXCEPT ![x] = [batch |-> flusher[f].row.id,
                                              items |-> flusher[f].items]]
          /\ flusher' = [flusher EXCEPT ![f].pc = "record", ![f].row.exec = x, ![f].items = {}]
  BY DEF CreateExecution
<1> DEFINE inHand == [flusher[f].row EXCEPT !.exec = x]
           w == [flusher[f] EXCEPT !.pc = "record", !.row = inHand, !.items = {}]
<1>3. inHand \in RowInHand /\ inHand = [id |-> flusher[f].row.id, exec |-> x]
  BY <1>1 DEF RowInHand
<1>4. flusher' = [flusher EXCEPT ![f] = w]
  BY <1>1, <1>2 DEF FlusherRow
<1>5. w \in FlusherRow /\ w.pc = "record" /\ w.claimed = flusher[f].claimed /\ w.row = inHand
  <2> HIDE DEF inHand
  <2> QED
    BY <1>1, <1>3 DEF FlusherRow, FlusherLabels
<1> HIDE DEF w
<1>6. FlusherMoves(f) /\ flusher'[f] = w
  BY <1>1, <1>4, <1>5 DEF FlusherMoves
<1> QED
  BY <1>1, <1>2, <1>3, <1>5, <1>6

LEMMA RecordStep ==
    ASSUME NEW f \in Flushers, TypeInv, RecordExecution(f)
    PROVE  LET b == flusher[f].row.id
           IN  /\ FlusherMoves(f) /\ BatchMoves(b) /\ b \in BatchIds
               /\ UNCHANGED <<policy, now, acc, digest, published, faults, sealed>>
               /\ flusher[f].pc = "record" /\ flusher'[f].pc = "publish"
               /\ flusher'[f].claimed = flusher[f].claimed /\ flusher'[f].row = flusher[f].row
               /\ batch'[b].status = batch[b].status /\ batch'[b].items = batch[b].items
               /\ batch'[b].count = batch[b].count /\ batch'[b].stale = batch[b].stale
               /\ batch'[b].exec = flusher[f].row.exec
<1> DEFINE b == flusher[f].row.id
           x == flusher[f].row.exec
           row == [batch[b] EXCEPT !.exec = x]
<1>1. /\ UNCHANGED <<policy, now, acc, digest, published, faults, sealed>>
      /\ flusher[f].pc = "record" /\ b \in BatchIds /\ x \in ExecIds
      /\ batch \in [BatchIds -> BatchRow]
      /\ flusher' = [flusher EXCEPT ![f].pc = "publish"]
      /\ batch' = [batch EXCEPT ![b] = row]
  BY DEF RecordExecution, FlusherAt, FlusherUnchanged, TypeInv, FlushersOK, FlusherFine, DataOK
<1>2. /\ row \in BatchRow /\ row.status = batch[b].status /\ row.items = batch[b].items
      /\ row.count = batch[b].count /\ row.stale = batch[b].stale /\ row.exec = x
  <2> HIDE DEF b, x
  <2> QED
    BY <1>1 DEF BatchRow
<1>3. /\ FlusherMoves(f) /\ flusher'[f].pc = "publish"
      /\ flusher'[f].claimed = flusher[f].claimed /\ flusher'[f].row = flusher[f].row
  <2>1. flusher[f] \in FlusherRow /\ flusher \in [Flushers -> FlusherRow]
    BY DEF TypeInv, FlushersOK, FlusherFine
  <2> DEFINE w == [flusher[f] EXCEPT !.pc = "publish"]
  <2>2. w \in FlusherRow /\ w.pc = "publish" /\ w.claimed = flusher[f].claimed
        /\ w.row = flusher[f].row
    BY <2>1 DEF FlusherRow, FlusherLabels
  <2>3. flusher' = [flusher EXCEPT ![f] = w]
    BY <1>1
  <2> HIDE DEF w
  <2> QED
    BY <2>1, <2>2, <2>3 DEF FlusherMoves
<1> HIDE DEF row
<1>4. BatchMoves(b) /\ batch'[b] = row
  BY <1>1, <1>2 DEF BatchMoves
<1> QED
  BY <1>1, <1>2, <1>3, <1>4

LEMMA PublishStep ==
    ASSUME NEW f \in Flushers, TypeInv, PublishDigest(f)
    PROVE  /\ FlusherMoves(f) /\ UNCHANGED <<policy, now, acc, batch, digest, sealed>>
           /\ faults' \in 0..MaxFaults
           /\ flusher[f].pc = "publish" /\ flusher[f].row.exec \in ExecIds
           /\ flusher'[f].claimed = flusher[f].claimed
           /\ \/ /\ published' = published \cup {flusher[f].row.exec}
                 /\ flusher'[f].pc = "mark" /\ flusher'[f].row = flusher[f].row
              \/ /\ UNCHANGED published
                 /\ flusher'[f].pc = "claim" /\ flusher'[f].row = NoRow
<1>1. /\ UNCHANGED <<policy, now, acc, batch, digest, sealed>> /\ flusher[f].pc = "publish"
      /\ flusher[f].row.exec \in ExecIds /\ faults \in 0..MaxFaults
      /\ flusher \in [Flushers -> FlusherRow] /\ flusher[f] \in FlusherRow
  BY DEF PublishDigest, FlusherAt, FlusherUnchanged, TypeInv, FlushersOK, FlusherFine, DataOK
<1>2. CASE /\ published' = published \cup {flusher[f].row.exec} /\ UNCHANGED faults
           /\ flusher' = [flusher EXCEPT ![f].pc = "mark"]
  <2> DEFINE w == [flusher[f] EXCEPT !.pc = "mark"]
  <2>1. w \in FlusherRow /\ w.pc = "mark" /\ w.claimed = flusher[f].claimed
        /\ w.row = flusher[f].row
    BY <1>1 DEF FlusherRow, FlusherLabels
  <2>2. flusher' = [flusher EXCEPT ![f] = w]
    BY <1>2
  <2> HIDE DEF w
  <2>3. FlusherMoves(f) /\ flusher'[f] = w
    BY <1>1, <2>1, <2>2 DEF FlusherMoves
  <2> QED
    BY <1>1, <1>2, <2>1, <2>3
<1>3. CASE Fault("publish") /\ RowDone(f) /\ UNCHANGED published
  <2>1. faults' \in 0..MaxFaults
    BY <1>1, <1>3, BatchAssumption DEF Fault
  <2> QED
    BY <1>1, <1>3, <2>1, RowDoneStep
<1> QED
  BY <1>2, <1>3 DEF PublishDigest

LEMMA MarkStep ==
    ASSUME NEW f \in Flushers, TypeInv, MarkFlushed(f)
    PROVE  LET b == flusher[f].row.id
           IN  /\ FlusherMoves(f) /\ BatchMoves(b) /\ b \in BatchIds
               /\ UNCHANGED <<policy, now, acc, digest, published, faults, sealed>>
               /\ flusher[f].pc = "mark" /\ flusher'[f].pc = "claim"
               /\ flusher'[f].claimed = flusher[f].claimed /\ flusher'[f].row = NoRow
               /\ batch'[b].status = "flushed" /\ batch'[b].items = batch[b].items
               /\ batch'[b].count = batch[b].count /\ batch'[b].exec = batch[b].exec
<1> DEFINE b == flusher[f].row.id
           row == [batch[b] EXCEPT !.status = "flushed"]
<1>1. /\ UNCHANGED <<policy, now, acc, digest, published, faults, sealed>>
      /\ flusher[f].pc = "mark" /\ b \in BatchIds
      /\ batch \in [BatchIds -> BatchRow]
      /\ RowDone(f) /\ batch' = [batch EXCEPT ![b] = row]
  BY DEF MarkFlushed, FlusherAt, FlusherUnchanged, TypeInv, FlushersOK, FlusherFine, DataOK
<1>2. /\ row \in BatchRow /\ row.status = "flushed" /\ row.items = batch[b].items
      /\ row.count = batch[b].count /\ row.exec = batch[b].exec
  <2> HIDE DEF b
  <2> QED
    BY <1>1 DEF BatchRow
<1>3. FlusherMoves(f) /\ flusher'[f].pc = "claim" /\ flusher'[f].claimed = flusher[f].claimed
      /\ flusher'[f].row = NoRow
  BY <1>1, RowDoneStep
<1> HIDE DEF row
<1>4. BatchMoves(b) /\ batch'[b] = row
  BY <1>1, <1>2 DEF BatchMoves
<1> QED
  BY <1>1, <1>2, <1>3, <1>4

LEMMA CrashStep ==
    ASSUME NEW f \in Flushers, TypeInv, FlusherCrash(f)
    PROVE  /\ FlusherMoves(f) /\ UNCHANGED <<policy, now, acc, dataVars, sealed>>
           /\ faults' \in 0..MaxFaults
           /\ flusher'[f].pc = "idle" /\ flusher'[f].claimed = {} /\ flusher'[f].row = NoRow
<1>1. /\ UNCHANGED <<policy, now, acc, dataVars, sealed>> /\ flusher \in [Flushers -> FlusherRow]
      /\ flusher' = [flusher EXCEPT ![f] = IdleFlusher] /\ Fault("flusher_crash")
      /\ faults \in 0..MaxFaults
  BY DEF FlusherCrash, FlusherUnchanged, TypeInv, FlushersOK, FlusherFine, DataOK, dataVars
<1>2. faults' \in 0..MaxFaults
  BY <1>1, BatchAssumption DEF Fault
<1>3. FlusherMoves(f) /\ flusher'[f] = IdleFlusher
  BY <1>1, IdleFlusherType DEF FlusherMoves
<1> QED
  BY <1>1, <1>2, <1>3 DEF IdleFlusher

LEMMA GraceStep ==
    ASSUME NEW b \in BatchIds, TypeInv, GraceElapses(b)
    PROVE  /\ BatchMoves(b) /\ UNCHANGED <<policy, now, digest, published, acc, flusher, sealed>>
           /\ faults' \in 0..MaxFaults
           /\ batch[b].status = "flushing"
           /\ Held(b) => "slow_flusher" \in FaultKinds
           /\ batch'[b].status = batch[b].status /\ batch'[b].items = batch[b].items
           /\ batch'[b].count = batch[b].count /\ batch'[b].exec = batch[b].exec
<1> DEFINE row == [batch[b] EXCEPT !.stale = TRUE]
<1>1. /\ UNCHANGED <<policy, now, digest, published, acc, flusher, sealed>>
      /\ batch \in [BatchIds -> BatchRow] /\ batch' = [batch EXCEPT ![b] = row]
      /\ faults \in 0..MaxFaults
  BY DEF GraceElapses, TypeInv, DataOK
<1>2. faults' \in 0..MaxFaults /\ batch[b].status = "flushing"
      /\ (Held(b) => "slow_flusher" \in FaultKinds)
  BY <1>1, BatchAssumption DEF GraceElapses, Fault
<1>3. /\ row \in BatchRow /\ row.status = batch[b].status /\ row.items = batch[b].items
      /\ row.count = batch[b].count /\ row.exec = batch[b].exec
  BY <1>1 DEF BatchRow
<1> HIDE DEF row
<1>4. BatchMoves(b) /\ batch'[b] = row
  BY <1>1, <1>3 DEF BatchMoves
<1> QED
  BY <1>1, <1>2, <1>3, <1>4
-----------------------------------------------------------------------------
(***************************************************************************)
(* Types.                                                                  *)
(***************************************************************************)
LEMMA TypeInit == BatchesInit => TypeInv
<1> SUFFICES ASSUME BatchesInit PROVE TypeInv
  OBVIOUS
<1>1. DataOK
  BY BatchAssumption, AbsentBatchType DEF BatchesInit, DataOK, MadeFor, AbsentBatch
<1>2. AccsOK
  BY IdleAccType DEF BatchesInit, AccsOK, IdleAcc
<1>3. FlushersOK
  BY IdleFlusherType DEF BatchesInit, FlushersOK, FlusherFine, IdleFlusher, NoRow, MadeFor
<1> QED
  BY <1>1, <1>2, <1>3 DEF TypeInv

MadeStays == \A b \in BatchIds : \A x : MadeFor(b, x) => MadeFor(b, x)'

\* The sweeps keep their types if the one that moves does.
LEMMA FlushersStay ==
    ASSUME NEW f \in Flushers, TypeInv, FlusherMoves(f), MadeStays, FlusherFine(f)'
    PROVE  FlushersOK'
<1>1. ASSUME NEW g \in Flushers PROVE FlusherFine(g)'
  <2>1. CASE g = f
    BY <2>1
  <2>2. CASE g # f
    <3>1. flusher'[g] = flusher[g] /\ flusher[g] \in FlusherRow /\ FlusherFine(g)
      BY <2>2 DEF FlusherMoves, TypeInv, FlushersOK, FlusherFine
    <3>2. \A row \in flusher[g].claimed : MadeFor(row.id, row.exec)'
      <4>1. \A row \in flusher[g].claimed : row.id \in BatchIds
        BY <3>1 DEF FlusherRow, ClaimedRow
      <4> QED
        BY <3>1, <4>1 DEF FlusherFine, MadeStays
    <3>3. MadeFor(flusher[g].row.id, flusher[g].row.exec)'
      BY <3>1 DEF FlusherFine, MadeStays, MadeFor, NoRow
    <3> QED
      BY <3>1, <3>2, <3>3 DEF FlusherFine, MadeFor
  <2> QED
    BY <2>1, <2>2
<1> QED
  BY <1>1 DEF FlusherFine, FlushersOK, FlusherMoves

LEMMA TypeStep == TypeInv /\ [BatchesNext]_vars => TypeInv'
<1> SUFFICES ASSUME TypeInv, [BatchesNext]_vars PROVE TypeInv'
  OBVIOUS
<1>1. ASSUME UNCHANGED vars PROVE TypeInv'
  BY <1>1 DEF vars, dataVars, TypeInv, DataOK, AccsOK, FlushersOK, FlusherFine, MadeFor
<1>2. ASSUME Tick PROVE TypeInv'
  <2>1. now' \in 0..MaxClock
    BY <1>2, BatchAssumption DEF Tick, TypeInv, DataOK
  <2> QED
    BY <1>2, <2>1 DEF Tick, dataVars, TypeInv, DataOK, AccsOK, FlushersOK, FlusherFine, MadeFor
<1>3. ASSUME NEW a \in Accumulators, NEW e \in Entities, Accumulate(a, e) PROVE TypeInv'
  <2>1. AccsOK'
    BY <1>3, AccumulateStep DEF AccMoves, TypeInv, AccsOK, OpenBatches
  <2>2. DataOK' /\ FlushersOK'
    BY <1>3, AccumulateStep DEF AccKeeps, TypeInv, DataOK, FlushersOK, FlusherFine, MadeFor
  <2> QED
    BY <2>1, <2>2 DEF TypeInv
<1>4. ASSUME NEW a \in Accumulators, OpenBatch(a) PROVE TypeInv'
  <2>1. AccsOK'
    BY <1>4, OpenBatchStep DEF AccMoves, TypeInv, AccsOK
  <2>2. DataOK'
    BY <1>4, OpenBatchStep DEF AccKeeps, BatchMoves, TypeInv, DataOK, MadeFor
  <2>3. FlushersOK'
    BY <1>4, OpenBatchStep DEF AccKeeps, TypeInv, FlushersOK, FlusherFine, MadeFor
  <2> QED
    BY <2>1, <2>2, <2>3 DEF TypeInv
<1>5. ASSUME NEW a \in Accumulators, UpsertItem(a) \/ CountItems(a) \/ SyncCount(a) PROVE TypeInv'
  <2>1. AccsOK'
    BY <1>5, ItemStep DEF AccMoves, TypeInv, AccsOK
  <2>2. DataOK'
    BY <1>5, ItemStep DEF AccKeeps, BatchMoves, TypeInv, DataOK, MadeFor
  <2>3. FlushersOK'
    BY <1>5, ItemStep DEF AccKeeps, TypeInv, FlushersOK, FlusherFine, MadeFor
  <2> QED
    BY <2>1, <2>2, <2>3 DEF TypeInv
<1>6. ASSUME NEW b \in BatchIds, GraceElapses(b) PROVE TypeInv'
  <2>1. DataOK'
    BY <1>6, GraceStep DEF BatchMoves, TypeInv, DataOK, MadeFor
  <2>2. AccsOK' /\ FlushersOK'
    BY <1>6, GraceStep DEF TypeInv, AccsOK, FlushersOK, FlusherFine, MadeFor
  <2> QED
    BY <2>1, <2>2 DEF TypeInv
<1>7. ASSUME NEW f \in Flushers, FlusherStep(f) \/ FlusherCrash(f) PROVE TypeInv'
  <2>1. FlusherFine(f) /\ flusher[f] \in FlusherRow /\ NoRow.exec = NoExec
    BY DEF TypeInv, FlushersOK, FlusherFine, NoRow
  <2>2. CASE SelectDue(f) \/ SelectStale(f)
    <3>1. DataOK' /\ AccsOK' /\ MadeStays
      BY <2>2, SelectStep DEF dataVars, TypeInv, DataOK, AccsOK, MadeFor, MadeStays
    <3>2. FlusherMoves(f) /\ FlusherFine(f)'
      BY <2>1, <2>2, SelectStep DEF FlusherFine, MadeFor
    <3> QED
      BY <3>1, <3>2, FlushersStay DEF TypeInv
  <2>3. CASE ClaimBatch(f)
    <3>1. AccsOK' /\ MadeStays
      BY <2>3, ClaimStep DEF TypeInv, AccsOK, MadeFor, MadeStays
    <3>2. DataOK'
      <4>1. sealed' \in [BatchIds -> SUBSET Entities]
        <5>1. \A b \in BatchIds : Settled(b) \in SUBSET Entities
          BY DEF Settled, TypeInv, DataOK, BatchRow
        <5> QED
          BY <2>3, <5>1, ClaimStep DEF TypeInv, DataOK
      <4> QED
        BY <2>3, <4>1, ClaimStep DEF TypeInv, DataOK, BatchMoves, MadeFor
    <3>3. FlusherMoves(f) /\ FlusherFine(f)'
      <4>1. \A row \in flusher'[f].claimed : MadeFor(row.id, row.exec)'
        BY <2>1, <2>3, ClaimStep DEF FlusherFine, MadeFor, TypeInv, DataOK
      <4> QED
        BY <2>1, <2>3, <4>1, ClaimStep DEF FlusherFine, MadeFor
    <3> QED
      BY <3>1, <3>2, <3>3, FlushersStay DEF TypeInv
  <2>4. CASE ConsiderBatch(f)
    <3>1. DataOK' /\ AccsOK' /\ MadeStays
      BY <2>4, ConsiderStep DEF dataVars, TypeInv, DataOK, AccsOK, MadeFor, MadeStays
    <3>2. FlusherMoves(f) /\ FlusherFine(f)'
      <4>1. PICK row \in flusher[f].claimed :
               /\ row \in ClaimedRow
               /\ flusher'[f].claimed = flusher[f].claimed \ {row}
               /\ flusher'[f].row = [id |-> row.id, exec |-> row.exec]
               /\ \/ row.exec # NoExec /\ flusher'[f].pc = "publish"
                  \/ flusher'[f].pc \in {"create", "carry", "mark"}
        BY <2>4, ConsiderStep
      <4>2. row.id \in BatchIds /\ row.exec \in ExecIds \cup {NoExec} /\ MadeFor(row.id, row.exec)
        BY <2>1, <4>1 DEF ClaimedRow, FlusherFine
      <4>3. UNCHANGED digest
        BY <2>4, ConsiderStep DEF dataVars
      <4>4. \A r \in flusher'[f].claimed : MadeFor(r.id, r.exec)'
        BY <2>1, <4>1, <4>3 DEF FlusherFine, MadeFor
      <4> QED
        BY <2>4, <4>1, <4>2, <4>3, <4>4, ConsiderStep DEF FlusherFine, MadeFor
    <3> QED
      BY <3>1, <3>2, FlushersStay DEF TypeInv
  <2>5. CASE CarryOver(f)
    <3>1. DataOK' /\ MadeStays
      BY <2>5, CarryStep DEF TypeInv, DataOK, BatchMoves, MadeFor, MadeStays
    <3>2. AccsOK'
      BY <2>5, CarryStep DEF TypeInv, AccsOK
    <3>3. FlusherMoves(f) /\ FlusherFine(f)'
      BY <2>1, <2>5, CarryStep DEF FlusherFine, MadeFor
    <3> QED
      BY <3>1, <3>2, <3>3, FlushersStay DEF TypeInv
  <2>6. CASE CreateExecution(f)
    <3>1. PICK x \in ExecIds :
               /\ flusher'[f].row = [id |-> flusher[f].row.id, exec |-> x]
               /\ digest[x] = NoDigest
               /\ digest' = [digest EXCEPT ![x] = [batch |-> flusher[f].row.id,
                                                   items |-> flusher[f].items]]
      BY <2>6, CreateStep
    <3>2. /\ flusher[f].row.id \in BatchIds /\ flusher[f].items \in SUBSET Entities
          /\ digest \in [ExecIds -> Digest \cup {NoDigest}]
      BY <2>1, <2>6, CreateStep DEF FlusherRow, TypeInv, DataOK
    <3>3. digest' \in [ExecIds -> Digest \cup {NoDigest}]
          /\ digest'[x].batch = flusher[f].row.id
      BY <3>1, <3>2 DEF Digest
    <3>4. MadeStays
      BY <3>1, <3>2 DEF MadeStays, MadeFor, NoDigest, BatchIds
    <3>5. DataOK'
      BY <2>6, <3>3, <3>4, CreateStep DEF TypeInv, DataOK, MadeStays
    <3>6. AccsOK'
      BY <2>6, CreateStep DEF TypeInv, AccsOK
    <3>7. FlusherMoves(f) /\ FlusherFine(f)'
      <4>1. \A r \in flusher[f].claimed : r.id \in BatchIds
        BY <2>1 DEF FlusherRow, ClaimedRow
      <4>2. \A r \in flusher[f].claimed : MadeFor(r.id, r.exec)'
        BY <2>1, <3>4, <4>1 DEF FlusherFine, MadeStays
      <4> QED
        BY <2>6, <3>1, <3>2, <3>3, <4>2, CreateStep DEF FlusherFine, MadeFor
    <3> QED
      BY <3>4, <3>5, <3>6, <3>7, FlushersStay DEF TypeInv
  <2>7. CASE RecordExecution(f)
    <3>1. DataOK' /\ MadeStays
      BY <2>1, <2>7, RecordStep DEF TypeInv, DataOK, BatchMoves, MadeFor, MadeStays, FlusherFine
    <3>2. AccsOK'
      BY <2>7, RecordStep DEF TypeInv, AccsOK
    <3>3. FlusherMoves(f) /\ FlusherFine(f)'
      BY <2>1, <2>7, RecordStep DEF FlusherFine, MadeFor
    <3> QED
      BY <3>1, <3>2, <3>3, FlushersStay DEF TypeInv
  <2>8. CASE PublishDigest(f)
    <3>1. DataOK' /\ MadeStays
      BY <2>8, PublishStep DEF TypeInv, DataOK, MadeFor, MadeStays
    <3>2. AccsOK'
      BY <2>8, PublishStep DEF TypeInv, AccsOK
    <3>3. FlusherMoves(f) /\ FlusherFine(f)'
      BY <2>1, <2>8, PublishStep DEF FlusherFine, MadeFor
    <3> QED
      BY <3>1, <3>2, <3>3, FlushersStay DEF TypeInv
  <2>9. CASE MarkFlushed(f)
    <3>1. DataOK' /\ MadeStays
      BY <2>9, MarkStep DEF TypeInv, DataOK, BatchMoves, MadeFor, MadeStays
    <3>2. AccsOK'
      BY <2>9, MarkStep DEF TypeInv, AccsOK
    <3>3. FlusherMoves(f) /\ FlusherFine(f)'
      BY <2>1, <2>9, MarkStep DEF FlusherFine, MadeFor
    <3> QED
      BY <3>1, <3>2, <3>3, FlushersStay DEF TypeInv
  <2>10. CASE FlusherCrash(f)
    <3>1. DataOK' /\ AccsOK' /\ MadeStays
      BY <2>10, CrashStep DEF dataVars, TypeInv, DataOK, AccsOK, MadeFor, MadeStays
    <3>2. FlusherMoves(f) /\ FlusherFine(f)'
      BY <2>1, <2>10, CrashStep DEF FlusherFine, MadeFor
    <3> QED
      BY <3>1, <3>2, FlushersStay DEF TypeInv
  <2> QED
    BY <1>7, <2>2, <2>3, <2>4, <2>5, <2>6, <2>7, <2>8, <2>9, <2>10 DEF FlusherStep
<1> QED
  BY <1>1, <1>2, <1>3, <1>4, <1>5, <1>6, <1>7 DEF BatchesNext, AccumulatorStep

LEMMA TypeInvariant == Spec => []TypeInv
  BY TypeInit, TypeStep, PTL DEF Spec

\* Dispatchers and sweeps, whatever dies and however long a sweep takes, keep
\* the rows of the batch tables and what they remember of them within their
\* types; a sweep records and publishes only an execution made for its batch.
THEOREM BatchesTypeCorrect == Spec => []BatchTypeOK
<1>1. ASSUME TypeInv PROVE BatchTypeOK
  <2>1. \A a \in Accumulators : acc[a].pc \in {"idle", "open", "upsert", "count", "sync"}
    BY <1>1 DEF TypeInv, AccsOK, AccRow
  <2>2. ASSUME NEW f \in Flushers
        PROVE  /\ flusher[f].pc \in FlusherLabels /\ flusher[f].pass \in {"due", "stale"}
               /\ flusher[f].ids \subseteq BatchIds /\ flusher[f].claimed \subseteq ClaimedRow
               /\ flusher[f].items \subseteq Entities /\ flusher[f].row \in RowInHand
    BY <1>1 DEF TypeInv, FlushersOK, FlusherFine, FlusherRow
  <2>3. ASSUME NEW f \in Flushers, flusher[f].pc \in {"record", "publish"}
        PROVE  /\ flusher[f].row.exec \in ExecIds
               /\ digest[flusher[f].row.exec].batch = flusher[f].row.id
    BY <1>1, <2>3 DEF TypeInv, FlushersOK, FlusherFine, MadeFor, ExecIds
  <2> QED
    BY <1>1, <2>1, <2>2, <2>3
       DEF TypeInv, DataOK, AccsOK, BatchTypeOK, FlusherLabels, RowInHand
<1> QED
  BY <1>1, TypeInvariant, PTL
-----------------------------------------------------------------------------
(***************************************************************************)
(* One holder.                                                             *)
(***************************************************************************)
LEMMA ReleaseInit == BatchesInit => ReleaseInv
<1> SUFFICES ASSUME BatchesInit PROVE ReleaseInv
  OBVIOUS
<1>1. \A f \in Flushers, b \in BatchIds : ~Holds(f, b)
  BY DEF BatchesInit, Holds, IdleFlusher, NoRow, BatchIds
<1>2. OneHolder
  BY <1>1 DEF BatchesInit, OneHolder, IdleFlusher
<1>3. HeldViewIsFresh
  BY DEF BatchesInit, HeldViewIsFresh, ViewIsFresh, IdleFlusher, Working
<1>4. PublishedIsRecorded /\ ClosedWithDigest
  BY DEF BatchesInit, PublishedIsRecorded, ClosedWithDigest, AbsentBatch
<1> QED
  BY <1>2, <1>3, <1>4 DEF ReleaseInv

\* A sweep that holds no more than before, while no held batch changes its
\* status or its age, leaves the claims as they are.
LEMMA HoldersStay ==
    ASSUME TypeInv, TypeInv', OneHolder, NEW f \in Flushers, FlusherMoves(f),
           \A b \in BatchIds : Holds(f, b)' => Holds(f, b),
           \A g \in Flushers, b \in BatchIds : Holds(g, b)' =>
              batch'[b].status = batch[b].status /\ batch'[b].stale = batch[b].stale,
           \A r, s \in flusher'[f].claimed : r.id = s.id => r = s,
           \A r \in flusher'[f].claimed : r.id # flusher'[f].row.id
    PROVE  OneHolder'
<1>1. \A g \in Flushers \ {f} : flusher'[g] = flusher[g]
  BY DEF FlusherMoves
<1>2. \A g \in Flushers, b \in BatchIds : Holds(g, b)' => Holds(g, b)
  BY <1>1 DEF Holds
<1> QED
  BY <1>1, <1>2 DEF OneHolder

\* No sweep moves, and no batch changes in what a sweep relies on.
LEMMA QuietRelease ==
    ASSUME TypeInv, TypeInv', ReleaseInv, UNCHANGED <<policy, digest, published, flusher>>,
           \A b \in BatchIds :
              /\ batch'[b].exec = batch[b].exec
              /\ \/ batch'[b].status = batch[b].status /\ batch'[b].stale = batch[b].stale
                 \/ batch[b].status = "none" /\ batch'[b].status = "open"
                 \/ batch'[b].status = batch[b].status /\ ~Held(b)
    PROVE  ReleaseInv'
<1>1. OneHolder'
  <2>1. \A f \in Flushers, b \in BatchIds : Holds(f, b)' <=> Holds(f, b)
    BY DEF Holds
  <2>2. \A f \in Flushers, b \in BatchIds : Holds(f, b) =>
           batch'[b].status = batch[b].status /\ batch'[b].stale = batch[b].stale
    BY DEF ReleaseInv, OneHolder, Held
  <2> QED
    BY <2>1, <2>2 DEF ReleaseInv, OneHolder
<1>2. HeldViewIsFresh'
  <2>1. \A f \in Flushers : \A r \in flusher[f].claimed : r.id \in BatchIds
    BY DEF TypeInv, FlushersOK, FlusherFine, FlusherRow, ClaimedRow
  <2>2. \A f \in Flushers : Working(f) => flusher[f].row.id \in BatchIds
    BY DEF Working, TypeInv, FlushersOK, FlusherFine
  <2> QED
    BY <2>1, <2>2 DEF ReleaseInv, HeldViewIsFresh, ViewIsFresh, Working
<1>3. PublishedIsRecorded'
  <2>1. \A x \in published : digest[x].batch \in BatchIds
    BY DEF ReleaseInv, PublishedIsRecorded, TypeInv, DataOK, Digest
  <2> QED
    BY <2>1 DEF ReleaseInv, PublishedIsRecorded
<1>4. ClosedWithDigest'
  BY DEF ReleaseInv, ClosedWithDigest
<1> QED
  BY <1>1, <1>2, <1>3, <1>4 DEF ReleaseInv

\* The sweeps that do not move keep a fresh view if no batch they hold changes.
LEMMA ViewsStay ==
    ASSUME TypeInv, ReleaseInv, NEW f \in Flushers, FlusherMoves(f), UNCHANGED policy,
           published \subseteq published',
           \A g \in Flushers \ {f}, b \in BatchIds : Holds(g, b) => batch'[b].exec = batch[b].exec,
           ViewIsFresh(f)'
    PROVE  HeldViewIsFresh'
<1>1. ASSUME NEW g \in Flushers PROVE ViewIsFresh(g)'
  <2>1. CASE g = f
    BY <2>1
  <2>2. CASE g # f
    <3>1. flusher'[g] = flusher[g] /\ ViewIsFresh(g)
      BY <2>2 DEF FlusherMoves, ReleaseInv, HeldViewIsFresh, ViewIsFresh
    <3>2. \A r \in flusher[g].claimed : r.id \in BatchIds /\ Holds(g, r.id)
      BY DEF TypeInv, FlushersOK, FlusherFine, FlusherRow, ClaimedRow, Holds
    <3>3. Working(g) => flusher[g].row.id \in BatchIds /\ Holds(g, flusher[g].row.id)
      BY DEF Working, TypeInv, FlushersOK, FlusherFine, Holds
    <3>4. \A r \in flusher[g].claimed : r.exec = batch'[r.id].exec
      BY <2>2, <3>1, <3>2 DEF ViewIsFresh
    <3>5. Working(g) => batch'[flusher[g].row.id].exec = batch[flusher[g].row.id].exec
      BY <2>2, <3>3
    <3> QED
      BY <3>1, <3>4, <3>5 DEF ViewIsFresh, Working
  <2> QED
    BY <2>1, <2>2
<1> QED
  BY <1>1 DEF HeldViewIsFresh, ViewIsFresh

LEMMA ReleaseStep ==
    ASSUME NoSlowSweeps, TypeInv, TypeInv', ReleaseInv, [BatchesNext]_vars
    PROVE  ReleaseInv'
<1>1. ASSUME UNCHANGED vars PROVE ReleaseInv'
  BY <1>1, QuietRelease DEF vars, dataVars
<1>2. ASSUME Tick PROVE ReleaseInv'
  BY <1>2, QuietRelease DEF Tick, dataVars
<1>3. ASSUME NEW a \in Accumulators, NEW e \in Entities, Accumulate(a, e) PROVE ReleaseInv'
  BY <1>3, AccumulateStep, QuietRelease DEF AccKeeps
<1>4. ASSUME NEW a \in Accumulators, OpenBatch(a) PROVE ReleaseInv'
  BY <1>4, OpenBatchStep, QuietRelease DEF AccKeeps, BatchMoves, ReleaseInv, PublishedIsRecorded
<1>5. ASSUME NEW a \in Accumulators, UpsertItem(a) \/ CountItems(a) \/ SyncCount(a)
      PROVE  ReleaseInv'
  BY <1>5, ItemStep, QuietRelease DEF AccKeeps, BatchMoves
<1>6. ASSUME NEW b \in BatchIds, GraceElapses(b) PROVE ReleaseInv'
  BY <1>6, GraceStep, QuietRelease DEF BatchMoves, NoSlowSweeps
<1>7. ASSUME NEW f \in Flushers, FlusherStep(f) \/ FlusherCrash(f) PROVE ReleaseInv'
  <2>1. /\ FlusherMoves(f) /\ UNCHANGED policy
        /\ ViewIsFresh(f) /\ FlusherFine(f) /\ flusher[f] \in FlusherRow
    <3>1. ViewIsFresh(f) /\ FlusherFine(f) /\ flusher[f] \in FlusherRow
      BY DEF ReleaseInv, HeldViewIsFresh, ViewIsFresh, TypeInv, FlushersOK, FlusherFine
    <3>2. FlusherMoves(f) /\ UNCHANGED policy
      BY <1>7, SelectStep, ClaimStep, ConsiderStep, CarryStep, CreateStep, RecordStep,
         PublishStep, MarkStep, CrashStep DEF FlusherStep
    <3> QED
      BY <3>1, <3>2
  <2>2. \A r \in flusher[f].claimed : r.id \in BatchIds /\ Holds(f, r.id)
    BY <2>1 DEF FlusherRow, ClaimedRow, Holds
  <2>3. \A b \in BatchIds : Holds(f, b) =>
           batch[b].status = "flushing" /\ ~batch[b].stale
           /\ \A g \in Flushers \ {f} : ~Holds(g, b)
    BY DEF ReleaseInv, OneHolder
  <2>4. /\ \A r, s \in flusher[f].claimed : r.id = s.id => r = s
        /\ \A r \in flusher[f].claimed : r.id # flusher[f].row.id
    BY DEF ReleaseInv, OneHolder
  <2>5. CASE SelectDue(f) \/ SelectStale(f) \/ FlusherCrash(f)
    <3>1. /\ UNCHANGED <<policy, dataVars>> /\ flusher'[f].claimed = {}
          /\ flusher'[f].row = NoRow /\ flusher'[f].pc \in {"idle", "claim"}
      BY <2>5, SelectStep, CrashStep
    <3>2. OneHolder'
      BY <2>1, <3>1, HoldersStay DEF Holds, NoRow, BatchIds, ReleaseInv, dataVars
    <3>3. ViewIsFresh(f)'
      BY <3>1 DEF ViewIsFresh, Working
    <3>4. HeldViewIsFresh'
      BY <2>1, <3>1, <3>3, ViewsStay DEF dataVars
    <3> QED
      BY <3>1, <3>2, <3>4 DEF ReleaseInv, PublishedIsRecorded, ClosedWithDigest, dataVars
  <2>6. CASE ClaimBatch(f) /\ flusher'[f].claimed = flusher[f].claimed /\ UNCHANGED batch
    <3>1. /\ UNCHANGED <<policy, digest, published>> /\ flusher'[f].row = NoRow
          /\ flusher'[f].pc = "claim"
      BY <2>6, ClaimStep
    <3>2. flusher[f].row = NoRow
      BY <2>1, <2>6, ClaimStep DEF FlusherFine
    <3>3. OneHolder'
      BY <2>1, <2>4, <2>6, <3>1, <3>2, HoldersStay DEF Holds, ReleaseInv
    <3>4. ViewIsFresh(f)'
      BY <2>1, <2>6, <3>1 DEF ViewIsFresh, Working
    <3>5. HeldViewIsFresh'
      BY <2>1, <2>6, <3>1, <3>4, ViewsStay
    <3> QED
      BY <2>6, <3>1, <3>3, <3>5 DEF ReleaseInv, PublishedIsRecorded, ClosedWithDigest
  <2>7. CASE ClaimBatch(f) /\ ~(flusher'[f].claimed = flusher[f].claimed /\ UNCHANGED batch)
    <3>1. PICK b \in BatchIds :
             /\ Claimable(flusher[f].pass, b) /\ BatchMoves(b)
             /\ flusher'[f].claimed = flusher[f].claimed \cup
                   {[id |-> b, count |-> batch[b].count, exec |-> batch[b].exec]}
             /\ batch'[b].status = "flushing" /\ ~batch'[b].stale
             /\ batch'[b].exec = batch[b].exec
      BY <2>7, ClaimStep
    <3>2. /\ UNCHANGED <<policy, digest, published>> /\ flusher'[f].row = NoRow
          /\ flusher'[f].pc = "claim" /\ flusher[f].row = NoRow
      BY <2>1, <2>7, ClaimStep DEF FlusherFine
    <3>3. \A g \in Flushers : ~Holds(g, b)
      BY <3>1 DEF Claimable, ReleaseInv, OneHolder
    <3>4. \A c \in BatchIds : Holds(f, c)' <=> Holds(f, c) \/ c = b
      <4> DEFINE claim == [id |-> b, count |-> batch[b].count, exec |-> batch[b].exec]
      <4>1. claim.id = b /\ flusher'[f].claimed = flusher[f].claimed \cup {claim}
        BY <3>1
      <4> HIDE DEF claim
      <4>2. ASSUME NEW c \in BatchIds
            PROVE (\E r \in flusher'[f].claimed : r.id = c)
                     <=> (\E r \in flusher[f].claimed : r.id = c) \/ c = b
        BY <4>1
      <4> QED
        BY <3>2, <4>2 DEF Holds
    <3>5. \A g \in Flushers \ {f}, c \in BatchIds : Holds(g, c)' <=> Holds(g, c)
      BY <2>1 DEF Holds, FlusherMoves
    <3>6. OneHolder'
      <4>1. \A g \in Flushers, c \in BatchIds : Holds(g, c)' =>
               batch'[c].status = "flushing" /\ ~batch'[c].stale
        <5>1. \A g \in Flushers, c \in BatchIds : Holds(g, c)' => c = b \/ Holds(g, c)
          BY <3>4, <3>5
        <5> QED
          BY <3>1, <5>1 DEF BatchMoves, ReleaseInv, OneHolder
      <4>2. \A g, h \in Flushers, c \in BatchIds : Holds(g, c)' /\ Holds(h, c)' => g = h
        BY <3>3, <3>4, <3>5 DEF ReleaseInv, OneHolder
      <4>3. \A r \in flusher[f].claimed : r.id # b
        BY <2>2, <3>3
      <4>4. \A g \in Flushers : \A r, s \in flusher'[g].claimed : r.id = s.id => r = s
        BY <2>1, <2>4, <3>1, <4>3 DEF FlusherMoves, ReleaseInv, OneHolder
      <4>5. \A g \in Flushers : \A r \in flusher'[g].claimed : r.id # flusher'[g].row.id
        BY <2>1, <2>4, <3>1, <3>2 DEF FlusherMoves, ReleaseInv, OneHolder, NoRow, BatchIds
      <4> QED
        BY <4>1, <4>2, <4>4, <4>5 DEF OneHolder
    <3>7. \A c \in BatchIds : batch'[c].exec = batch[c].exec
      BY <3>1 DEF BatchMoves
    <3>8. ViewIsFresh(f)'
      BY <2>1, <2>2, <3>1, <3>2, <3>7 DEF ViewIsFresh, Working
    <3>9. HeldViewIsFresh'
      BY <2>1, <3>2, <3>7, <3>8, ViewsStay
    <3>10. PublishedIsRecorded' /\ ClosedWithDigest'
      <4>1. \A x \in published : digest[x].batch \in BatchIds
        BY DEF ReleaseInv, PublishedIsRecorded, TypeInv, DataOK, Digest
      <4>2. \A c \in BatchIds : batch'[c].status = batch[c].status \/ batch'[c].status = "flushing"
        BY <3>1 DEF BatchMoves
      <4> QED
        BY <3>2, <3>7, <4>1, <4>2 DEF ReleaseInv, PublishedIsRecorded, ClosedWithDigest
    <3> QED
      BY <3>6, <3>9, <3>10 DEF ReleaseInv
  <2>8. CASE ConsiderBatch(f)
    <3>1. PICK row \in flusher[f].claimed :
             /\ row \in ClaimedRow
             /\ flusher'[f].claimed = flusher[f].claimed \ {row}
             /\ flusher'[f].row = [id |-> row.id, exec |-> row.exec]
             /\ \/ row.exec # NoExec /\ flusher'[f].pc = "publish"
                \/ row.exec = NoExec /\ flusher'[f].pc \in {"create", "carry"}
                \/ row.exec = NoExec /\ flusher'[f].pc = "mark" /\ policy # "interval"
      BY <2>8, ConsiderStep
    <3>2. UNCHANGED <<policy, dataVars>> /\ flusher[f].row = NoRow
      BY <2>1, <2>8, ConsiderStep DEF FlusherFine
    <3>3. /\ \A r \in flusher'[f].claimed : r.id # flusher'[f].row.id
          /\ \A r, s \in flusher'[f].claimed : r.id = s.id => r = s
      BY <2>4, <3>1
    <3>4. \A b \in BatchIds : Holds(f, b)' => Holds(f, b)
      BY <3>1 DEF Holds
    <3>5. OneHolder'
      BY <2>1, <3>2, <3>3, <3>4, HoldersStay DEF ReleaseInv, dataVars
    <3>6. policy # "interval" => policy = "schedule"
      BY BatchAssumption DEF TypeInv, DataOK
    <3>7. ViewIsFresh(f)'
      BY <2>1, <3>1, <3>2, <3>6 DEF ViewIsFresh, Working, dataVars
    <3>8. HeldViewIsFresh'
      BY <2>1, <3>2, <3>7, ViewsStay DEF dataVars
    <3> QED
      BY <3>2, <3>5, <3>8 DEF ReleaseInv, PublishedIsRecorded, ClosedWithDigest, dataVars
  <2> DEFINE b == flusher[f].row.id
  <2>9. flusher[f].pc \notin {"idle", "claim"} =>
           /\ b \in BatchIds /\ Working(f) /\ Holds(f, b)
           /\ \A r \in flusher[f].claimed : r.id # b
    BY <2>1, <2>4 DEF FlusherFine, Working, Holds
  <2>10. CASE CarryOver(f) \/ MarkFlushed(f)
    <3>1. /\ BatchMoves(b) /\ b \in BatchIds /\ Working(f)
          /\ UNCHANGED <<policy, digest, published>>
          /\ flusher'[f].pc = "claim" /\ flusher'[f].row = NoRow
          /\ flusher'[f].claimed = flusher[f].claimed
          /\ batch'[b].exec = batch[b].exec
          /\ \/ flusher[f].pc = "carry" /\ batch'[b].status = "open"
             \/ flusher[f].pc = "mark" /\ batch'[b].status = "flushed"
      BY <2>10, CarryStep, MarkStep DEF Working
    <3>2. \A c \in BatchIds : Holds(f, c)' => Holds(f, c) /\ c # b
      BY <2>9, <3>1 DEF Holds, NoRow, BatchIds, Working
    <3>3. \A g \in Flushers, c \in BatchIds : Holds(g, c)' => c # b
      BY <2>1, <2>3, <2>9, <3>1, <3>2 DEF FlusherMoves, Holds, Working
    <3>4. OneHolder'
      <4>1. \A r \in flusher'[f].claimed : r.id # flusher'[f].row.id
        BY <2>2, <3>1 DEF NoRow, BatchIds
      <4> QED
        BY <2>1, <2>4, <3>1, <3>2, <3>3, <4>1, HoldersStay DEF BatchMoves, ReleaseInv
    <3>5. \A c \in BatchIds : batch'[c].exec = batch[c].exec
      BY <3>1 DEF BatchMoves
    <3>6. ViewIsFresh(f)'
      BY <2>1, <2>2, <3>1, <3>5 DEF ViewIsFresh, Working
    <3>7. HeldViewIsFresh'
      BY <2>1, <3>1, <3>5, <3>6, ViewsStay
    <3>8. PublishedIsRecorded'
      <4>1. \A x \in published : digest[x].batch \in BatchIds
        BY DEF ReleaseInv, PublishedIsRecorded, TypeInv, DataOK, Digest
      <4>2. \A c \in BatchIds : batch'[c].status \in {"none", "open"} => batch'[c].exec = NoExec
        BY <2>1, <3>1 DEF ReleaseInv, PublishedIsRecorded, BatchMoves, ViewIsFresh
      <4> QED
        BY <3>1, <3>5, <4>1, <4>2 DEF ReleaseInv, PublishedIsRecorded
    <3>9. ClosedWithDigest'
      BY <2>1, <3>1, <3>5 DEF ReleaseInv, ClosedWithDigest, BatchMoves, ViewIsFresh
    <3> QED
      BY <3>4, <3>7, <3>8, <3>9 DEF ReleaseInv
  <2>11. CASE CreateExecution(f)
    <3>1. PICK x \in ExecIds :
             /\ flusher'[f].row = [id |-> b, exec |-> x] /\ digest[x] = NoDigest
             /\ digest' = [digest EXCEPT ![x] = [batch |-> b, items |-> flusher[f].items]]
             /\ UNCHANGED <<policy, batch, published>>
             /\ flusher[f].pc = "create" /\ flusher'[f].pc = "record"
             /\ flusher'[f].claimed = flusher[f].claimed
      BY <2>11, CreateStep
    <3>2. Working(f) /\ b \in BatchIds
      BY <2>9, <3>1
    <3>3. OneHolder'
      BY <2>1, <2>4, <3>1, HoldersStay DEF Holds, ReleaseInv
    <3>4. ViewIsFresh(f)'
      BY <2>1, <3>1, <3>2 DEF ViewIsFresh, Working
    <3>5. HeldViewIsFresh'
      BY <2>1, <3>1, <3>4, ViewsStay
    <3>6. PublishedIsRecorded'
      <4>1. x \notin published
        BY <3>1 DEF ReleaseInv, PublishedIsRecorded
      <4>2. published \subseteq ExecIds /\ digest \in [ExecIds -> Digest \cup {NoDigest}]
        BY DEF TypeInv, DataOK
      <4>3. \A y \in published : digest'[y] = digest[y]
        BY <3>1, <4>1, <4>2
      <4> QED
        BY <3>1, <4>3 DEF ReleaseInv, PublishedIsRecorded
    <3> QED
      BY <3>1, <3>3, <3>5, <3>6 DEF ReleaseInv, ClosedWithDigest
  <2>12. CASE RecordExecution(f)
    <3>1. /\ BatchMoves(b) /\ b \in BatchIds /\ Working(f)
          /\ UNCHANGED <<policy, digest, published>>
          /\ flusher[f].pc = "record" /\ flusher'[f].pc = "publish"
          /\ flusher'[f].row = flusher[f].row /\ flusher'[f].claimed = flusher[f].claimed
          /\ batch'[b].status = batch[b].status /\ batch'[b].stale = batch[b].stale
          /\ batch'[b].exec = flusher[f].row.exec /\ batch[b].exec = NoExec
          /\ batch[b].status = "flushing"
      BY <2>1, <2>3, <2>9, <2>12, RecordStep DEF ViewIsFresh
    <3>2. OneHolder'
      BY <2>1, <2>4, <3>1, HoldersStay DEF Holds, ReleaseInv, BatchMoves
    <3>3. \A c \in BatchIds : c # b => batch'[c] = batch[c]
      BY <3>1 DEF BatchMoves
    <3>4. ViewIsFresh(f)'
      BY <2>1, <2>2, <2>9, <3>1, <3>3 DEF ViewIsFresh, Working
    <3>5. HeldViewIsFresh'
      BY <2>1, <2>3, <2>9, <3>1, <3>3, <3>4, ViewsStay DEF Working
    <3>6. PublishedIsRecorded'
      <4>1. \A x \in published : x \in ExecIds /\ digest[x].batch \in BatchIds
        BY DEF ReleaseInv, PublishedIsRecorded, TypeInv, DataOK, Digest
      <4>2. \A x \in published : digest[x].batch # b
        BY <3>1, <4>1 DEF ReleaseInv, PublishedIsRecorded, ExecIds
      <4> QED
        BY <3>1, <3>3, <4>1, <4>2 DEF ReleaseInv, PublishedIsRecorded
    <3>7. ClosedWithDigest'
      BY <3>1, <3>3 DEF ReleaseInv, ClosedWithDigest
    <3> QED
      BY <3>2, <3>5, <3>6, <3>7 DEF ReleaseInv
  <2>13. CASE PublishDigest(f)
    <3>1. /\ UNCHANGED <<policy, batch, digest>>
          /\ flusher[f].pc = "publish" /\ flusher[f].row.exec \in ExecIds
          /\ flusher'[f].claimed = flusher[f].claimed
          /\ \/ /\ published' = published \cup {flusher[f].row.exec}
                /\ flusher'[f].pc = "mark" /\ flusher'[f].row = flusher[f].row
             \/ UNCHANGED published /\ flusher'[f].pc = "claim" /\ flusher'[f].row = NoRow
      BY <2>13, PublishStep
    <3>2. OneHolder'
      <4>1. \A r \in flusher'[f].claimed : r.id # flusher'[f].row.id
        BY <2>2, <2>4, <3>1 DEF NoRow, BatchIds
      <4>2. \A c \in BatchIds : Holds(f, c)' => Holds(f, c)
        BY <3>1 DEF Holds, NoRow, BatchIds
      <4> QED
        BY <2>1, <2>4, <3>1, <4>1, <4>2, HoldersStay DEF ReleaseInv
    <3>3. ViewIsFresh(f)'
      BY <2>1, <2>9, <3>1 DEF ViewIsFresh, Working
    <3>4. HeldViewIsFresh'
      BY <2>1, <3>1, <3>3, ViewsStay
    <3>5. PublishedIsRecorded'
      <4>1. /\ digest[flusher[f].row.exec].batch = b /\ b \in BatchIds
            /\ batch[b].exec = flusher[f].row.exec
        BY <2>1, <2>9, <3>1 DEF FlusherFine, MadeFor, ViewIsFresh, ExecIds
      <4>2. digest[flusher[f].row.exec] # NoDigest
        BY <4>1 DEF NoDigest, BatchIds
      <4> QED
        BY <3>1, <4>1, <4>2 DEF ReleaseInv, PublishedIsRecorded
    <3>6. ClosedWithDigest'
      BY <3>1 DEF ReleaseInv, ClosedWithDigest
    <3> QED
      BY <3>2, <3>4, <3>5, <3>6 DEF ReleaseInv
  <2> QED
    BY <1>7, <2>5, <2>6, <2>7, <2>8, <2>10, <2>11, <2>12, <2>13 DEF FlusherStep
<1> QED
  BY <1>1, <1>2, <1>3, <1>4, <1>5, <1>6, <1>7 DEF BatchesNext, AccumulatorStep

LEMMA ReleaseInvariant ==
    ASSUME NoSlowSweeps
    PROVE  Spec => []ReleaseInv
<1>1. TypeInv /\ TypeInv' /\ ReleaseInv /\ [BatchesNext]_vars => ReleaseInv'
  BY ReleaseStep
<1> QED
  BY <1>1, TypeInvariant, ReleaseInit, PTL DEF Spec

\* Two sweeps, a crash between any two statements and a failed publish never
\* make two published executions of one batch (BatchFlusher::process records
\* the execution before it publishes it).
THEOREM OneDigestPerWindow ==
    ASSUME NoSlowSweeps
    PROVE  Spec => []OneDigest
<1>1. ReleaseInv => OneDigest
  BY DEF ReleaseInv, PublishedIsRecorded, OneDigest
<1> QED
  BY <1>1, ReleaseInvariant, PTL

\* No failure closes a batch silently: it is flushed with its digest published,
\* or dropped by a schedule policy that found it under the minimum.
THEOREM ClosedBatchesHaveDigests ==
    ASSUME NoSlowSweeps
    PROVE  Spec => []ClosedWithDigest
<1>1. ReleaseInv => ClosedWithDigest
  BY DEF ReleaseInv
<1> QED
  BY <1>1, ReleaseInvariant, PTL

\* A batch that was flushed stays flushed: it is neither open to a claim nor held.
LEMMA FlushedStays ==
    ASSUME TypeInv, ReleaseInv, [BatchesNext]_vars, NEW b \in BatchIds,
           batch[b].status = "flushed"
    PROVE  batch'[b].status = "flushed"
<1>1. \A f \in Flushers : ~Holds(f, b)
  BY DEF ReleaseInv, OneHolder
<1>2. ASSUME NEW f \in Flushers, FlusherStep(f) \/ FlusherCrash(f)
      PROVE  batch'[b].status = "flushed"
  <2>1. flusher[f].row.id # b
    BY <1>1 DEF Holds
  <2>2. CASE ClaimBatch(f)
    BY <2>2, ClaimStep DEF Claimable, BatchMoves
  <2>3. CASE SelectDue(f) \/ SelectStale(f) \/ ConsiderBatch(f) \/ FlusherCrash(f)
    BY <2>3, SelectStep, ConsiderStep, CrashStep DEF dataVars
  <2>4. CASE CarryOver(f) \/ RecordExecution(f) \/ MarkFlushed(f)
    BY <2>1, <2>4, CarryStep, RecordStep, MarkStep DEF BatchMoves
  <2>5. CASE CreateExecution(f) \/ PublishDigest(f)
    BY <2>5, CreateStep, PublishStep
  <2> QED
    BY <1>2, <2>2, <2>3, <2>4, <2>5 DEF FlusherStep
<1>3. ASSUME NEW a \in Accumulators, AccumulatorStep(a) PROVE batch'[b].status = "flushed"
  BY <1>3, OpenBatchStep, ItemStep DEF AccumulatorStep, BatchMoves
<1>4. ASSUME NEW a \in Accumulators, NEW e \in Entities, Accumulate(a, e)
      PROVE  batch'[b].status = "flushed"
  BY <1>4, AccumulateStep
<1>5. ASSUME NEW c \in BatchIds, GraceElapses(c) PROVE batch'[b].status = "flushed"
  BY <1>5, GraceStep DEF BatchMoves
<1> QED
  BY <1>2, <1>3, <1>4, <1>5 DEF BatchesNext, Tick, vars, dataVars

\* No claim, carry or late write of a sweep takes a closed batch up again,
\* though none of the UPDATEs after the claim asks for the status.
THEOREM FlushedStaysFlushed ==
    ASSUME NoSlowSweeps
    PROVE  Spec => FlushedIsFinal
<1>1. TypeInv /\ ReleaseInv /\ [BatchesNext]_vars =>
         [\A b \in BatchIds : batch[b].status = "flushed" => batch'[b].status = "flushed"]_vars
  BY FlushedStays
<1> QED
  BY <1>1, TypeInvariant, ReleaseInvariant, PTL DEF Spec, FlushedIsFinal
-----------------------------------------------------------------------------
(***************************************************************************)
(* The digest holds the window.                                            *)
(***************************************************************************)
LEMMA CountInit == BatchesInit => BatchesKept /\ ItemsCounted
  BY DEF BatchesInit, BatchesKept, ItemsCounted, Counting, AbsentBatch, IdleAcc

\* No sweep touches items or counts, and none takes a batch away.
LEMMA ReleaseStatuses ==
    ASSUME TypeInv, ReleaseInv, NEW f \in Flushers, FlusherStep(f) \/ FlusherCrash(f)
    PROVE  /\ UNCHANGED acc
           /\ \A b \in BatchIds :
                 /\ batch'[b].items = batch[b].items /\ batch'[b].count = batch[b].count
                 /\ batch'[b].status = batch[b].status \/ batch'[b].status # "none"
<1>1. CASE ClaimBatch(f)
  BY <1>1, ClaimStep DEF BatchMoves
<1>2. CASE SelectDue(f) \/ SelectStale(f) \/ ConsiderBatch(f) \/ FlusherCrash(f)
  BY <1>2, SelectStep, ConsiderStep, CrashStep DEF dataVars
<1>3. CASE CarryOver(f)
  BY <1>3, CarryStep DEF BatchMoves
<1>4. CASE RecordExecution(f)
  BY <1>4, RecordStep DEF BatchMoves
<1>5. CASE MarkFlushed(f)
  BY <1>5, MarkStep DEF BatchMoves
<1>6. CASE CreateExecution(f) \/ PublishDigest(f)
  BY <1>6, CreateStep, PublishStep
<1> QED
  BY <1>1, <1>2, <1>3, <1>4, <1>5, <1>6 DEF FlusherStep

\* Only a claim seals a window.
LEMMA SealedByClaims ==
    ASSUME TypeInv, NEW f \in Flushers, FlusherStep(f) \/ FlusherCrash(f), NEW b \in BatchIds,
           batch[b].status = "none"
    PROVE  sealed'[b] = sealed[b]
<1>1. CASE ClaimBatch(f)
  BY <1>1, ClaimStep DEF Claimable, TypeInv, DataOK
<1>2. CASE ~ClaimBatch(f)
  BY <1>2, SelectStep, ConsiderStep, CarryStep, CreateStep, RecordStep, PublishStep, MarkStep,
     CrashStep DEF FlusherStep
<1> QED
  BY <1>1, <1>2

LEMMA CountStep ==
    ASSUME TypeInv, ReleaseInv, BatchesKept, ItemsCounted, [BatchesNext]_vars
    PROVE  BatchesKept' /\ ItemsCounted'
<1>1. ASSUME UNCHANGED acc,
             \A b \in BatchIds :
                /\ batch'[b].items = batch[b].items /\ batch'[b].count = batch[b].count
                /\ batch'[b].status = batch[b].status \/ batch'[b].status # "none"
                /\ batch[b].status = "none" => sealed'[b] = sealed[b]
      PROVE  BatchesKept' /\ ItemsCounted'
  BY <1>1 DEF BatchesKept, ItemsCounted, Counted, Counting, TypeInv, AccsOK
<1>2. CASE UNCHANGED vars \/ Tick
  BY <1>1, <1>2 DEF vars, dataVars, Tick
<1>3. ASSUME NEW f \in Flushers, FlusherStep(f) \/ FlusherCrash(f)
      PROVE  BatchesKept' /\ ItemsCounted'
  BY <1>1, <1>3, ReleaseStatuses, SealedByClaims
<1>4. ASSUME NEW b \in BatchIds, GraceElapses(b) PROVE BatchesKept' /\ ItemsCounted'
  BY <1>1, <1>4, GraceStep DEF BatchMoves
<1>5. ASSUME NEW a \in Accumulators, NEW e \in Entities, Accumulate(a, e)
      PROVE  BatchesKept' /\ ItemsCounted'
  <2>1. /\ UNCHANGED <<batch, sealed>> /\ acc[a].pc = "idle"
        /\ \A c \in Accumulators \ {a} : acc'[c] = acc[c]
        /\ acc'[a].pc \in {"open", "upsert"}
        /\ acc'[a].pc = "upsert" => batch[acc'[a].id].status = "open"
    BY <1>5, AccumulateStep DEF AccKeeps, AccMoves, OpenBatches
  <2> QED
    BY <2>1 DEF BatchesKept, ItemsCounted, Counted, Counting
<1>6. ASSUME NEW a \in Accumulators, OpenBatch(a) PROVE BatchesKept' /\ ItemsCounted'
  <2>1. PICK b \in BatchIds :
           /\ UNCHANGED sealed /\ acc[a].pc = "open" /\ acc'[a].pc = "upsert"
           /\ \A c \in Accumulators \ {a} : acc'[c] = acc[c]
           /\ acc'[a].id = b
           /\ \/ UNCHANGED batch /\ batch[b].status # "none"
              \/ /\ \A c \in BatchIds \ {b} : batch'[c] = batch[c]
                 /\ batch[b].status = "none" /\ batch'[b].status = "open"
                 /\ batch'[b].items = {}
    BY <1>6, OpenBatchStep DEF AccKeeps, AccMoves, BatchMoves
  <2>2. \A c \in Accumulators : acc[c].pc \notin {"idle", "open"} => acc[c].id \in BatchIds
    BY DEF TypeInv, AccsOK
  <2>3. BatchesKept'
    BY <2>1, <2>2 DEF BatchesKept
  <2>4. ItemsCounted'
    BY <2>1, <2>2 DEF BatchesKept, ItemsCounted, Counted, Counting
  <2> QED
    BY <2>3, <2>4
<1>7. ASSUME NEW a \in Accumulators, UpsertItem(a) \/ CountItems(a) \/ SyncCount(a)
      PROVE  BatchesKept' /\ ItemsCounted'
  <2> DEFINE b == acc[a].id
             e == acc[a].entity
  <2>1. /\ UNCHANGED sealed /\ b \in BatchIds /\ acc[a].pc \in {"upsert", "count", "sync"}
        /\ \A c \in Accumulators \ {a} : acc'[c] = acc[c]
        /\ \A c \in BatchIds \ {b} : batch'[c] = batch[c]
        /\ batch'[b].status = batch[b].status
        /\ acc'[a].pc # "idle" => acc'[a].id = b /\ acc'[a].entity = e
        /\ \/ /\ acc[a].pc = "upsert"
              /\ acc'[a].pc = (IF e \in batch[b].items THEN "idle" ELSE "count")
              /\ batch'[b].items = batch[b].items \cup {e}
              /\ batch'[b].count = batch[b].count
           \/ /\ acc[a].pc = "count" /\ acc'[a].pc = "sync" /\ UNCHANGED batch
              /\ acc'[a].count = Cardinality(batch[b].items)
           \/ /\ acc[a].pc = "sync" /\ acc'[a].pc = "idle"
              /\ batch'[b].items = batch[b].items
              /\ batch'[b].count = acc[a].count
    BY <1>7, ItemStep DEF AccKeeps, AccMoves, BatchMoves
  <2>2. \A c \in Accumulators : acc[c].pc \notin {"idle", "open"} => acc[c].id \in BatchIds
    BY DEF TypeInv, AccsOK
  <2>3. BatchesKept'
    BY <2>1, <2>2 DEF BatchesKept
  <2>4. ASSUME e \in batch[b].items PROVE Cardinality(batch[b].items) >= 1
    <3>1. batch[b].items \in SUBSET Entities
      BY <2>1 DEF TypeInv, DataOK, BatchRow
    <3>2. IsFiniteSet(batch[b].items)
      BY <3>1, BatchAssumption, FS_Subset
    <3>3. Cardinality(batch[b].items) \in Nat /\ Cardinality(batch[b].items) # 0
      BY <2>4, <3>2, FS_CardinalityType, FS_EmptySet
    <3> QED
      BY <3>3
  <2> HIDE DEF b, e
  <2>5. CASE acc[a].pc = "upsert"
    <3>1. ASSUME NEW c \in BatchIds, NEW x \in batch'[c].items PROVE Counted(c, x)'
      <4>1. CASE x \in batch[c].items
        <5>1. Counted(c, x) /\ batch'[c].count = batch[c].count
          BY <2>1, <2>5, <4>1 DEF ItemsCounted
        <5> QED
          BY <2>1, <2>5, <5>1 DEF Counted, Counting
      <4>2. CASE x \notin batch[c].items
        <5>1. c = b /\ x = e /\ acc'[a].pc = "count"
          BY <2>1, <2>5, <3>1, <4>2
        <5> QED
          BY <2>1, <5>1 DEF Counted, Counting
      <4> QED
        BY <4>1, <4>2
    <3>2. ASSUME NEW c \in Accumulators, Counting(c)' PROVE (acc[c].entity \in batch[acc[c].id].items)'
      <4>1. CASE c = a
        BY <2>1, <2>5, <3>2, <4>1 DEF Counting
      <4>2. CASE c # a
        <5>1. acc'[c] = acc[c] /\ acc[c].entity \in batch[acc[c].id].items
              /\ acc[c].id \in BatchIds
          BY <2>1, <2>2, <3>2, <4>2 DEF Counting, ItemsCounted
        <5> QED
          BY <2>1, <2>5, <5>1
      <4> QED
        BY <4>1, <4>2
    <3>3. ASSUME NEW c \in Accumulators, acc'[c].pc = "sync" PROVE acc'[c].count >= 1
      BY <2>1, <2>5, <3>3 DEF ItemsCounted
    <3> QED
      BY <2>3, <3>1, <3>2, <3>3 DEF ItemsCounted
  <2>6. CASE acc[a].pc = "count"
    <3>1. e \in batch[b].items /\ Counting(a)
      BY <2>6 DEF ItemsCounted, Counting, b, e
    <3>2. ASSUME NEW c \in Accumulators
          PROVE  /\ Counting(c)' <=> Counting(c)
                 /\ Counting(c) => acc'[c].id = acc[c].id /\ acc'[c].entity = acc[c].entity
      BY <2>1, <2>6 DEF Counting, b, e
    <3>3. ASSUME NEW c \in BatchIds, NEW x \in batch'[c].items PROVE Counted(c, x)'
      BY <2>1, <2>6, <3>2 DEF ItemsCounted, Counted
    <3>4. ASSUME NEW c \in Accumulators, acc'[c].pc = "sync" PROVE acc'[c].count >= 1
      BY <2>1, <2>4, <2>6, <3>1, <3>4 DEF ItemsCounted
    <3> QED
      BY <2>1, <2>3, <2>6, <3>2, <3>3, <3>4 DEF ItemsCounted
  <2>7. CASE acc[a].pc = "sync"
    <3>1. acc[a].count >= 1 /\ batch'[b].count >= 1
      BY <2>1, <2>7 DEF ItemsCounted
    <3>2. ASSUME NEW c \in BatchIds, NEW x \in batch'[c].items PROVE Counted(c, x)'
      <4>1. CASE c = b
        BY <3>1, <4>1 DEF Counted
      <4>2. CASE c # b
        <5>1. batch'[c] = batch[c] /\ Counted(c, x)
          BY <2>1, <3>2, <4>2 DEF ItemsCounted
        <5> QED
          BY <2>1, <4>2, <5>1 DEF Counted, Counting, b
      <4> QED
        BY <4>1, <4>2
    <3>3. \A c \in BatchIds : batch'[c].items = batch[c].items
      BY <2>1, <2>7
    <3>4. ASSUME NEW c \in Accumulators, Counting(c)'
          PROVE  acc'[c] = acc[c] /\ Counting(c) /\ acc[c].id \in BatchIds
      BY <2>1, <2>2, <2>7, <3>4 DEF Counting
    <3>5. ASSUME NEW c \in Accumulators, acc'[c].pc = "sync" PROVE acc'[c].count >= 1
      BY <2>1, <2>7, <3>5 DEF ItemsCounted
    <3> QED
      BY <2>3, <3>2, <3>3, <3>4, <3>5 DEF ItemsCounted
  <2> QED
    BY <2>1, <2>5, <2>6, <2>7
<1> QED
  BY <1>2, <1>3, <1>4, <1>5, <1>6, <1>7 DEF BatchesNext, AccumulatorStep

LEMMA SealInit == BatchesInit => SealedIsHeld
  BY DEF BatchesInit, SealedIsHeld, SweepHoldsSeal, RowHoldsSeal, AbsentBatch, IdleFlusher

\* Sweeps that do not move: their batches keep their windows, and the digests
\* they know keep their items.
LEMMA SweepsStay ==
    ASSUME TypeInv, SealedIsHeld, NEW f \in Flushers, FlusherMoves(f), SweepHoldsSeal(f)',
           \A g \in Flushers \ {f}, b \in BatchIds : Holds(g, b) => sealed'[b] = sealed[b],
           \A x \in ExecIds : digest[x] # NoDigest => digest'[x] = digest[x]
    PROVE  \A g \in Flushers : SweepHoldsSeal(g)'
<1>1. ASSUME NEW g \in Flushers, g # f PROVE SweepHoldsSeal(g)'
  <2>1. flusher'[g] = flusher[g] /\ SweepHoldsSeal(g)
    BY <1>1 DEF SealedIsHeld, FlusherMoves
  <2>2. \A r \in flusher[g].claimed : sealed'[r.id] = sealed[r.id]
    BY <1>1 DEF TypeInv, FlushersOK, FlusherFine, FlusherRow, ClaimedRow, Holds
  <2>3. flusher[g].pc \in {"create", "record", "mark"} =>
           sealed'[flusher[g].row.id] = sealed[flusher[g].row.id]
    BY <1>1 DEF TypeInv, FlushersOK, FlusherFine, Holds
  <2>4. flusher[g].pc = "record" =>
           digest'[flusher[g].row.exec] = digest[flusher[g].row.exec]
    BY DEF TypeInv, FlushersOK, FlusherFine, MadeFor, NoDigest, BatchIds, ExecIds
  <2> QED
    BY <2>1, <2>2, <2>3, <2>4 DEF SweepHoldsSeal
<1> QED
  BY <1>1

LEMMA SealStep ==
    ASSUME MinItems = 1, TypeInv, ReleaseInv, BatchesKept, ItemsCounted, SealedIsHeld,
           [BatchesNext]_vars
    PROVE  SealedIsHeld'
<1>1. /\ \A b \in BatchIds : RowHoldsSeal(b)
      /\ \A f \in Flushers : SweepHoldsSeal(f)
  BY DEF SealedIsHeld
<1>2. ASSUME UNCHANGED <<digest, flusher, sealed>>,
             NEW S \in SUBSET BatchIds,
             \A b \in BatchIds \ S : batch'[b] = batch[b],
             \A b \in S :
                \/ sealed[b] = {} /\ batch'[b].exec = NoExec
                \/ /\ batch'[b].status = batch[b].status /\ batch'[b].exec = batch[b].exec
                   /\ batch[b].items \subseteq batch'[b].items
                   /\ batch'[b].count = batch[b].count \/ batch'[b].count >= 1
      PROVE  SealedIsHeld'
  <2>1. \A b \in BatchIds : RowHoldsSeal(b)'
    BY <1>1, <1>2 DEF RowHoldsSeal
  <2>2. \A f \in Flushers : SweepHoldsSeal(f)'
    BY <1>1, <1>2 DEF SweepHoldsSeal
  <2> QED
    BY <2>1, <2>2 DEF SealedIsHeld, RowHoldsSeal, SweepHoldsSeal
<1>3. CASE UNCHANGED vars \/ Tick
  BY <1>2, <1>3 DEF vars, dataVars, Tick
<1>4. ASSUME NEW a \in Accumulators, NEW e \in Entities, Accumulate(a, e) PROVE SealedIsHeld'
  BY <1>2, <1>4, AccumulateStep DEF AccKeeps
<1>5. ASSUME NEW a \in Accumulators, OpenBatch(a) PROVE SealedIsHeld'
  <2>1. PICK b \in BatchIds :
           /\ AccKeeps
           /\ \/ UNCHANGED batch
              \/ /\ BatchMoves(b) /\ batch[b].status = "none" /\ batch'[b].exec = NoExec
    BY <1>5, OpenBatchStep
  <2>2. batch[b].status = "none" => sealed[b] = {}
    BY DEF BatchesKept
  <2>3. CASE UNCHANGED batch
    BY <1>2, <2>1, <2>3 DEF AccKeeps
  <2>4. CASE BatchMoves(b) /\ batch[b].status = "none" /\ batch'[b].exec = NoExec
    <3>1. {b} \in SUBSET BatchIds
      OBVIOUS
    <3>2. \A c \in BatchIds \ {b} : batch'[c] = batch[c]
      BY <2>4 DEF BatchMoves
    <3> QED
      BY <1>2, <2>1, <2>2, <2>4, <3>1, <3>2 DEF AccKeeps
  <2> QED
    BY <2>1, <2>3, <2>4
<1>6. ASSUME NEW a \in Accumulators, UpsertItem(a) \/ CountItems(a) \/ SyncCount(a)
      PROVE  SealedIsHeld'
  <2> DEFINE b == acc[a].id
  <2>1. /\ AccKeeps /\ BatchMoves(b) /\ {b} \in SUBSET BatchIds
        /\ batch'[b].status = batch[b].status /\ batch'[b].exec = batch[b].exec
        /\ batch[b].items \subseteq batch'[b].items
        /\ batch'[b].count = batch[b].count \/ (acc[a].pc = "sync" /\ batch'[b].count = acc[a].count)
    BY <1>6, ItemStep
  <2>2. acc[a].pc = "sync" => acc[a].count >= 1
    BY DEF ItemsCounted
  <2>3. \A c \in BatchIds \ {b} : batch'[c] = batch[c]
    BY <2>1 DEF BatchMoves
  <2> HIDE DEF b
  <2> QED
    BY <1>2, <2>1, <2>2, <2>3 DEF AccKeeps
<1>7. ASSUME NEW b \in BatchIds, GraceElapses(b) PROVE SealedIsHeld'
  <2>1. /\ UNCHANGED <<digest, flusher, sealed>> /\ {b} \in SUBSET BatchIds
        /\ \A c \in BatchIds \ {b} : batch'[c] = batch[c]
        /\ batch'[b].status = batch[b].status /\ batch'[b].exec = batch[b].exec
        /\ batch[b].items \subseteq batch'[b].items /\ batch'[b].count = batch[b].count
    BY <1>7, GraceStep DEF BatchMoves
  <2> QED
    BY <1>2, <2>1
<1>8. ASSUME NEW f \in Flushers, FlusherStep(f) \/ FlusherCrash(f) PROVE SealedIsHeld'
  <2>1. /\ SweepHoldsSeal(f) /\ FlusherFine(f) /\ ViewIsFresh(f) /\ flusher[f] \in FlusherRow
        /\ \A r \in flusher[f].claimed : r.id \in BatchIds /\ Holds(f, r.id)
    BY <1>1 DEF ReleaseInv, HeldViewIsFresh, ViewIsFresh, TypeInv, FlushersOK, FlusherFine,
                FlusherRow, ClaimedRow, Holds
  <2>2. \A b \in BatchIds, g \in Flushers : Holds(g, b) =>
           batch[b].status = "flushing" /\ ~batch[b].stale
    BY DEF ReleaseInv, OneHolder
  <2> DEFINE b == flusher[f].row.id
  <2>3. CASE SelectDue(f) \/ SelectStale(f) \/ FlusherCrash(f)
    <3>1. /\ FlusherMoves(f) /\ UNCHANGED <<dataVars, sealed>>
          /\ flusher'[f].claimed = {} /\ flusher'[f].pc \in {"idle", "claim"}
      BY <2>3, SelectStep, CrashStep
    <3>2. SweepHoldsSeal(f)'
      BY <3>1 DEF SweepHoldsSeal
    <3>3. \A c \in BatchIds : RowHoldsSeal(c)'
      BY <1>1, <3>1 DEF RowHoldsSeal, dataVars
    <3> QED
      BY <3>1, <3>2, <3>3, SweepsStay DEF SealedIsHeld, RowHoldsSeal, SweepHoldsSeal, dataVars
  <2>4. CASE ClaimBatch(f) /\ flusher'[f].claimed = flusher[f].claimed /\ UNCHANGED <<batch, sealed>>
    <3>1. FlusherMoves(f) /\ UNCHANGED digest /\ flusher'[f].pc = "claim"
      BY <2>4, ClaimStep
    <3>2. SweepHoldsSeal(f)'
      BY <2>1, <2>4, <3>1 DEF SweepHoldsSeal
    <3>3. \A c \in BatchIds : RowHoldsSeal(c)'
      BY <1>1, <2>4, <3>1 DEF RowHoldsSeal
    <3> QED
      BY <2>4, <3>1, <3>2, <3>3, SweepsStay DEF SealedIsHeld, RowHoldsSeal, SweepHoldsSeal
  <2>5. CASE ClaimBatch(f) /\ ~(flusher'[f].claimed = flusher[f].claimed
                                 /\ UNCHANGED <<batch, sealed>>)
    <3>1. PICK c \in BatchIds :
             /\ Claimable(flusher[f].pass, c) /\ BatchMoves(c)
             /\ flusher'[f].claimed = flusher[f].claimed \cup
                   {[id |-> c, count |-> batch[c].count, exec |-> batch[c].exec]}
             /\ batch'[c].status = "flushing" /\ batch'[c].items = batch[c].items
             /\ batch'[c].count = batch[c].count /\ batch'[c].exec = batch[c].exec
             /\ sealed' = [sealed EXCEPT ![c] =
                   IF flusher[f].pass = "due" THEN Settled(c) ELSE sealed[c]]
      BY <2>5, ClaimStep
    <3>2. FlusherMoves(f) /\ UNCHANGED digest /\ flusher'[f].pc = "claim"
      BY <2>5, ClaimStep
    <3>3. \A g \in Flushers : ~Holds(g, c)
      BY <2>2, <3>1 DEF Claimable
    <3>4. sealed \in [BatchIds -> SUBSET Entities]
      BY DEF TypeInv, DataOK
    <3>5. RowHoldsSeal(c)'
      <4>1. CASE flusher[f].pass = "due"
        <5>1. batch[c].status = "open" \/ flusher[f].pass # "due"
          BY <3>1, <4>1 DEF Claimable
        <5>2. batch'[c].exec = NoExec /\ sealed'[c] = Settled(c)
          BY <3>1, <3>4, <4>1, <5>1 DEF ReleaseInv, PublishedIsRecorded
        <5>3. ASSUME Settled(c) # {} PROVE batch[c].count >= 1
          <6>1. PICK e \in batch[c].items : \A a \in Accumulators :
                   acc[a].pc = "idle" \/ acc[a].id # c \/ acc[a].entity # e
            BY <5>3 DEF Settled
          <6> QED
            BY <6>1 DEF ItemsCounted, Counted, Counting
        <5>4. Settled(c) \subseteq batch[c].items
          BY DEF Settled
        <5> QED
          BY <3>1, <5>2, <5>3, <5>4 DEF RowHoldsSeal
      <4>2. CASE flusher[f].pass # "due"
        BY <1>1, <3>1, <3>2, <3>4, <4>2 DEF RowHoldsSeal
      <4> QED
        BY <4>1, <4>2
    <3>6. \A d \in BatchIds \ {c} : batch'[d] = batch[d] /\ sealed'[d] = sealed[d]
      BY <3>1, <3>4 DEF BatchMoves
    <3>7. \A d \in BatchIds : RowHoldsSeal(d)'
      BY <1>1, <3>2, <3>5, <3>6 DEF RowHoldsSeal
    <3>8. SweepHoldsSeal(f)'
      <4>1. ASSUME NEW r \in flusher'[f].claimed, sealed'[r.id] # {} PROVE r.count >= 1
        <5>1. CASE r \in flusher[f].claimed
          BY <2>1, <3>3, <3>6, <4>1, <5>1 DEF SweepHoldsSeal
        <5>2. CASE r = [id |-> c, count |-> batch[c].count, exec |-> batch[c].exec]
          BY <3>1, <3>5, <4>1, <5>2 DEF RowHoldsSeal
        <5> QED
          BY <3>1, <5>1, <5>2
      <4> QED
        BY <3>2, <4>1 DEF SweepHoldsSeal
    <3>9. \A g \in Flushers \ {f}, d \in BatchIds : Holds(g, d) => sealed'[d] = sealed[d]
      BY <3>3, <3>6
    <3>10. \A g \in Flushers : SweepHoldsSeal(g)'
      BY <3>2, <3>8, <3>9, SweepsStay
    <3> QED
      BY <3>7, <3>10 DEF SealedIsHeld
  <2>6. CASE ConsiderBatch(f)
    <3>1. PICK row \in flusher[f].claimed :
             /\ row \in ClaimedRow
             /\ flusher'[f].claimed = flusher[f].claimed \ {row}
             /\ flusher'[f].row = [id |-> row.id, exec |-> row.exec]
             /\ \/ row.exec # NoExec /\ flusher'[f].pc = "publish"
                \/ /\ flusher'[f].pc = "create" /\ flusher'[f].items = batch[row.id].items
                \/ /\ UnderMinimum(row) /\ flusher'[f].pc \in {"carry", "mark"}
      BY <2>6, ConsiderStep
    <3>2. FlusherMoves(f) /\ UNCHANGED <<dataVars, sealed>>
      BY <2>6, ConsiderStep
    <3>3. UnderMinimum(row) => sealed[row.id] = {}
      BY <2>1, <3>1 DEF UnderMinimum, SweepHoldsSeal, ClaimedRow
    <3>4. sealed[row.id] \subseteq batch[row.id].items
      BY <1>1, <3>1 DEF RowHoldsSeal, ClaimedRow
    <3>5. SweepHoldsSeal(f)'
      BY <2>1, <3>1, <3>2, <3>3, <3>4 DEF SweepHoldsSeal
    <3>6. \A c \in BatchIds : RowHoldsSeal(c)'
      BY <1>1, <3>2 DEF RowHoldsSeal, dataVars
    <3> QED
      BY <3>2, <3>5, <3>6, SweepsStay DEF SealedIsHeld, RowHoldsSeal, SweepHoldsSeal, dataVars
  <2>7. CASE CarryOver(f) \/ MarkFlushed(f)
    <3>1. PICK c \in BatchIds : c = b
      BY <2>7, CarryStep, MarkStep
    <3>2. /\ FlusherMoves(f) /\ UNCHANGED <<digest, sealed>>
          /\ BatchMoves(c) /\ flusher'[f].claimed = flusher[f].claimed
          /\ flusher'[f].pc = "claim"
          /\ batch'[c].items = batch[c].items /\ batch'[c].count = batch[c].count
          /\ batch'[c].exec = batch[c].exec
          /\ batch'[c].status = "open" \/ (flusher[f].pc = "mark" /\ batch'[c].status = "flushed")
      BY <2>7, <3>1, CarryStep, MarkStep
    <3>3. RowHoldsSeal(c)'
      <4>1. flusher[f].pc = "mark" => batch[c].exec = flusher[f].row.exec
        BY <2>1, <3>1 DEF ViewIsFresh, Working
      <4> QED
        BY <1>1, <2>1, <3>1, <3>2, <4>1 DEF RowHoldsSeal, SweepHoldsSeal
    <3>4. \A d \in BatchIds : RowHoldsSeal(d)'
      BY <1>1, <3>2, <3>3 DEF RowHoldsSeal, BatchMoves
    <3>5. SweepHoldsSeal(f)'
      BY <2>1, <3>2 DEF SweepHoldsSeal
    <3> QED
      BY <3>2, <3>4, <3>5, SweepsStay DEF SealedIsHeld, RowHoldsSeal, SweepHoldsSeal
  <2>8. CASE CreateExecution(f)
    <3>1. PICK x \in ExecIds :
             /\ flusher'[f].row = [id |-> b, exec |-> x] /\ digest[x] = NoDigest
             /\ digest' = [digest EXCEPT ![x] = [batch |-> b, items |-> flusher[f].items]]
             /\ FlusherMoves(f) /\ UNCHANGED <<batch, sealed>>
             /\ flusher[f].pc = "create" /\ flusher'[f].pc = "record"
             /\ flusher'[f].claimed = flusher[f].claimed
      BY <2>8, CreateStep
    <3>2. digest \in [ExecIds -> Digest \cup {NoDigest}]
      BY DEF TypeInv, DataOK
    <3>3. digest'[x].items = flusher[f].items
          /\ \A y \in ExecIds : digest[y] # NoDigest => digest'[y] = digest[y]
      BY <3>1, <3>2
    <3>4. \A c \in BatchIds : batch[c].exec # NoExec =>
             digest'[batch[c].exec] = digest[batch[c].exec]
      BY <3>3 DEF TypeInv, DataOK, MadeFor, NoDigest, BatchIds
    <3>5. \A c \in BatchIds : RowHoldsSeal(c)'
      BY <1>1, <3>1, <3>4 DEF RowHoldsSeal
    <3>6. SweepHoldsSeal(f)'
      BY <2>1, <3>1, <3>3 DEF SweepHoldsSeal
    <3> QED
      BY <3>1, <3>3, <3>5, <3>6, SweepsStay DEF SealedIsHeld, RowHoldsSeal, SweepHoldsSeal
  <2>9. CASE RecordExecution(f)
    <3>1. PICK c \in BatchIds : c = b
      BY <2>9, RecordStep
    <3>2. /\ FlusherMoves(f) /\ UNCHANGED <<digest, sealed>>
          /\ BatchMoves(c) /\ flusher'[f].claimed = flusher[f].claimed
          /\ flusher[f].pc = "record" /\ flusher'[f].pc = "publish"
          /\ batch'[c].items = batch[c].items /\ batch'[c].count = batch[c].count
          /\ batch'[c].exec = flusher[f].row.exec /\ flusher[f].row.exec \in ExecIds
      BY <2>1, <2>9, <3>1, RecordStep DEF FlusherFine
    <3>3. RowHoldsSeal(c)'
      BY <1>1, <2>1, <3>1, <3>2 DEF RowHoldsSeal, SweepHoldsSeal, ExecIds
    <3>4. \A d \in BatchIds : RowHoldsSeal(d)'
      BY <1>1, <3>2, <3>3 DEF RowHoldsSeal, BatchMoves
    <3>5. SweepHoldsSeal(f)'
      BY <2>1, <3>2 DEF SweepHoldsSeal
    <3> QED
      BY <3>2, <3>4, <3>5, SweepsStay DEF SealedIsHeld, RowHoldsSeal, SweepHoldsSeal
  <2>10. CASE PublishDigest(f)
    <3>1. /\ FlusherMoves(f) /\ UNCHANGED <<batch, digest, sealed>>
          /\ flusher'[f].claimed = flusher[f].claimed /\ flusher[f].row.exec \in ExecIds
          /\ \/ flusher'[f].pc = "mark" /\ flusher'[f].row = flusher[f].row
             \/ flusher'[f].pc = "claim"
      BY <2>10, PublishStep
    <3>2. SweepHoldsSeal(f)'
      BY <2>1, <3>1 DEF SweepHoldsSeal, ExecIds
    <3>3. \A c \in BatchIds : RowHoldsSeal(c)'
      BY <1>1, <3>1 DEF RowHoldsSeal
    <3> QED
      BY <3>1, <3>2, <3>3, SweepsStay DEF SealedIsHeld, RowHoldsSeal, SweepHoldsSeal
  <2> QED
    BY <1>8, <2>3, <2>4, <2>5, <2>6, <2>7, <2>8, <2>9, <2>10 DEF FlusherStep
<1> QED
  BY <1>3, <1>4, <1>5, <1>6, <1>7, <1>8 DEF BatchesNext, AccumulatorStep

LEMMA WindowInvariant ==
    ASSUME NoSlowSweeps, MinItems = 1
    PROVE  Spec => []WindowInv
<1>1. Spec => [](BatchesKept /\ ItemsCounted)
  <2>1. TypeInv /\ ReleaseInv /\ BatchesKept /\ ItemsCounted /\ [BatchesNext]_vars
           => BatchesKept' /\ ItemsCounted'
    BY CountStep
  <2> QED
    BY <2>1, TypeInvariant, ReleaseInvariant, CountInit, PTL DEF Spec
<1>2. Spec => []SealedIsHeld
  <2>1. TypeInv /\ ReleaseInv /\ BatchesKept /\ ItemsCounted /\ SealedIsHeld
           /\ [BatchesNext]_vars => SealedIsHeld'
    BY SealStep
  <2> QED
    BY <1>1, <2>1, TypeInvariant, ReleaseInvariant, SealInit, PTL DEF Spec
<1> QED
  BY <1>1, <1>2, ReleaseInvariant, PTL DEF WindowInv

\* An entity whose accumulate() calls had returned when its batch was claimed is
\* in the published digest, whatever dispatchers and sweeps do in between: the
\* count the minimum is measured by may lag behind the items, and never hides
\* the last of them.
THEOREM DigestHoldsTheWindowAlways ==
    ASSUME NoSlowSweeps, MinItems = 1
    PROVE  Spec => []DigestHoldsTheWindow
<1>1. WindowInv => DigestHoldsTheWindow
  BY DEF WindowInv, ReleaseInv, ClosedWithDigest, SealedIsHeld, RowHoldsSeal, DigestHoldsTheWindow
<1> QED
  BY <1>1, WindowInvariant, PTL
=============================================================================
