----------------------------- MODULE EngineRows -----------------------------
(***************************************************************************)
(* What the step table says: the proof that the rows a walk, a park and a  *)
(* wake-up leave behind fit the status and the cursor of the execution,    *)
(* whoever died on the way.  The sweep reads them to tell whose consumer   *)
(* has died, so this is also where ownership and the end are concluded.    *)
(***************************************************************************)
EXTENDS EngineSafety

\* The status of the one row of step s.
Stat(s) == rows[s][1].status

OneRow == \A s \in Steps, i \in Slots : i # 1 => rows[s][i].status = "absent"

CleanBut(t) == \A s \in Steps : s # t => Stat(s) \in {"absent", "complete"}

AllClean == \A s \in Steps : Stat(s) \in {"absent", "complete"}

NoneWaits == \A s \in Steps : Stat(s) # "waiting"

Untouched == \A s \in Steps : Stat(s) = "absent"

\* Only an execution at a wait has an event to wait for.
EventOK(row) ==
    \/ row.event = NoEvent
    \/ /\ row.current \in Steps
       /\ StepType[row.current] = "wait"
       /\ row.event = EventOf[row.current]

ParkedOn(p) ==
    /\ Stat(p) = "waiting"
    /\ CleanBut(p)
    /\ exec.current = IF StepType[p] = "delay" THEN Edge[p]["next"] ELSE p
    /\ exec.event = IF StepType[p] = "wait" THEN EventOf[p] ELSE NoEvent

RowsOK ==
    /\ OneRow
    /\ \A s \in Steps :
          /\ Stat(s) = "waiting" => StepType[s] \in ParkingTypes
          /\ Stat(s) = "complete" /\ StepType[s] = "action" => effects[s] > 0

\* What the execution row says of the step rows.
StatusRows ==
    /\ exec.status = "waiting" => \E p \in Steps : ParkedOn(p)
    /\ exec.status \notin {"pending", "waiting"} => CleanBut(exec.current)
    /\ exec.status = "complete" => AllClean

(***************************************************************************)
(* A pending execution is new, with its execute message under way, or it   *)
(* was woken, and is in the hands of the waker or of its resume message.   *)
(***************************************************************************)
New ==
    /\ Untouched
    /\ exec.current = NoStep
    /\ queue["resume"] = 0
    /\ ~ClaimHeld
    /\ \A c \in Consumers : Walking(c) => worker[c].topic = "execute"

Woken ==
    /\ ~Untouched
    /\ queue["execute"] = 0
    /\ \A c \in Consumers : Walking(c) => worker[c].topic = "resume"
    /\ \/ \E p \in Steps : ParkedOn(p)
       \/ AllClean /\ ~ClaimHeld

PendingRows == exec.status = "pending" => New \/ Woken

(***************************************************************************)
(* What a consumer has made of the execution row, and where it is with the *)
(* step row, at each label.                                                *)
(***************************************************************************)
AfterClaim == {"act", "acted", "route", "stop", "gate", "park_row"}

\* The walk goes from step s to t, or ends there if t is the null edge.
WalksOn(s, t) ==
    /\ s \in Steps
    /\ StepType[s] \in {"action", "branch", "switch"}
    /\ t \in Successors(s)

Starts(w) ==
    /\ w.pc = "load" => (exec.status = "pending" => Untouched)
    /\ w.pc = "skip" => /\ exec.status = "pending" /\ Untouched
                        /\ w.mem = [exec EXCEPT !.status = "skipped"]
    /\ w.pc = "enter" => /\ w.mem = [exec EXCEPT !.status = "running", !.current = w.step]
                         /\ \/ exec.status = "running" /\ w.step = exec.current
                            \/ exec.status = "pending" /\ Untouched /\ w.step = Entry

LabelFits(label, s) ==
    /\ label \in {"act", "acted"} => StepType[s] = "action"
    /\ label = "route" => StepType[s] \in {"branch", "switch"}
    /\ label = "stop" => StepType[s] = "stop"
    /\ label = "gate" => StepType[s] = "approval"
    /\ label \in {"park_row", "park_exec"} => StepType[s] \in ParkingTypes

Walks(w) ==
    /\ w.pc \in AtStep \ {"enter"} => w.mem = exec /\ exec.status = "running"
    /\ w.pc = "arrive" => \/ w.step = exec.current
                          \/ AllClean /\ WalksOn(exec.current, w.step)
    /\ w.pc \in AtStep \ {"enter", "arrive"} => w.step = exec.current
    /\ w.pc = "insert" => Stat(w.step) = "absent"
    /\ w.pc \in AfterClaim => Stat(w.step) = "running"
    /\ w.pc = "park_exec" => Stat(w.step) = "waiting"
    /\ w.pc = "acted" => effects[w.step] > 0
    /\ LabelFits(w.pc, w.step)

\* A walk ends on a null edge, past a trailing park, on a stop, or at once.
Ends(w) ==
    /\ w.pc \in {"complete", "fail"} => /\ w.mem = exec
                                        /\ exec.status = "pending" => Untouched
    /\ w.pc = "complete" =>
          /\ AllClean
          /\ \/ exec.status = "pending" /\ Entry = NoStep
             \/ /\ exec.status = "running"
                /\ \/ exec.current = NoStep
                   \/ WalksOn(exec.current, NoStep)
                   \/ exec.current \in Steps /\ StepType[exec.current] = "stop"

Resumes(w) ==
    /\ w.pc \in ResumeLabels => w.topic = "resume"
    /\ w.pc \in {"fetch", "close"} => w.mem = exec
    /\ w.pc = "close" => IF w.parked.step = NoStep THEN NoneWaits
                         ELSE w.parked.step \in Steps /\ Stat(w.parked.step) = "waiting"
    /\ w.pc \in {"expire", "mark_running"} =>
          /\ NoneWaits
          /\ exec.status \in {"pending", "running"}
          /\ w.mem = Routed(w.parked, exec)
          /\ CleanBut(w.mem.current)
          /\ w.mem.current # exec.current =>
                 /\ w.parked.step = exec.current
                 /\ exec.current \in Steps
                 /\ StepType[exec.current] \in {"wait", "approval"}

WalkerOK(w) == Starts(w) /\ Walks(w) /\ Ends(w) /\ Resumes(w)

WalkersOK == \A c \in Consumers : Walking(c) => WalkerOK(worker[c])

RowsFit == RowsOK /\ EventOK(exec) /\ StatusRows /\ PendingRows /\ WalkersOK

RowsInv == OutcomeInv /\ RowsFit
-----------------------------------------------------------------------------
(***************************************************************************)
(* What a statement on the step table does to the statuses.                *)
(***************************************************************************)
StatsKept == \A s \in Steps : Stat(s)' = Stat(s)

StatSet(s, status) == \A t \in Steps : Stat(t)' = IF t = s THEN status ELSE Stat(t)

WaitsClosed ==
    \A s \in Steps : Stat(s)' = IF Stat(s) = "waiting" THEN "complete" ELSE Stat(s)

LEMMA FirstSlot == 1 \in Slots
BY StoreAssumption DEF Slots

LEMMA TheOneRow ==
    ASSUME OneRow, NEW s \in Steps, NEW i \in RowsOf(s)
    PROVE  i = 1 /\ i \in Slots /\ Stat(s) # "absent"
BY DEF OneRow, RowsOf, Stat

LEMMA NoRows ==
    ASSUME NEW s \in Steps, RowsOf(s) = {}
    PROVE  Stat(s) = "absent"
BY FirstSlot DEF RowsOf, Stat

LEMMA RowReplaced ==
    ASSUME rows \in RowTable, OneRow, NEW s \in Steps, NEW row \in StepRow,
           rows' = [rows EXCEPT ![s][1] = row]
    PROVE  OneRow' /\ StatSet(s, row.status)
BY FirstSlot DEF RowTable, OneRow, StatSet, Stat

\* An UPDATE of the row of a step that sets its status.
LEMMA RowSet ==
    ASSUME rows \in RowTable, OneRow, NEW s \in Steps, NEW i \in RowsOf(s),
           NEW status \in RowStatuses, NEW result \in Resolutions \cup {NoResult, "output"},
           \/ rows' = [rows EXCEPT ![s][i].status = status]
           \/ rows' = [rows EXCEPT ![s][i].status = status, ![s][i].result = result]
           \/ rows' = [rows EXCEPT ![s][i].status = status, ![s][i].due = FALSE]
           \/ rows' = [rows EXCEPT ![s][i].status = status, ![s][i].stale = FALSE]
    PROVE  OneRow' /\ StatSet(s, status)
<1> DEFINE row == rows[s][i]
<1>0. i \in Slots
  BY TheOneRow
<1>1. row \in StepRow
  BY <1>0, RowType
<1>2. /\ [row EXCEPT !.status = status] \in StepRow
      /\ [row EXCEPT !.status = status].status = status
      /\ [row EXCEPT !.status = status, !.result = result] \in StepRow
      /\ [row EXCEPT !.status = status, !.result = result].status = status
      /\ [row EXCEPT !.status = status, !.due = FALSE] \in StepRow
      /\ [row EXCEPT !.status = status, !.due = FALSE].status = status
      /\ [row EXCEPT !.status = status, !.stale = FALSE] \in StepRow
      /\ [row EXCEPT !.status = status, !.stale = FALSE].status = status
  <2> HIDE DEF row
  <2>1. QED
    BY <1>1 DEF StepRow
<1>3. PICK new \in StepRow : new.status = status /\ rows' = [rows EXCEPT ![s][i] = new]
  <2>1. CASE rows' = [rows EXCEPT ![s][i].status = status]
    BY <1>0, <1>2, <2>1
  <2>2. CASE rows' = [rows EXCEPT ![s][i].status = status, ![s][i].result = result]
    <3>1. rows' = [rows EXCEPT ![s][i] = [row EXCEPT !.status = status, !.result = result]]
      BY <1>0, <2>2 DEF RowTable
    <3>2. QED
      BY <1>2, <3>1
  <2>3. CASE rows' = [rows EXCEPT ![s][i].status = status, ![s][i].due = FALSE]
    <3>1. rows' = [rows EXCEPT ![s][i] = [row EXCEPT !.status = status, !.due = FALSE]]
      BY <1>0, <2>3 DEF RowTable
    <3>2. QED
      BY <1>2, <3>1
  <2>4. CASE rows' = [rows EXCEPT ![s][i].status = status, ![s][i].stale = FALSE]
    <3>1. rows' = [rows EXCEPT ![s][i] = [row EXCEPT !.status = status, !.stale = FALSE]]
      BY <1>0, <2>4 DEF RowTable
    <3>2. QED
      BY <1>2, <3>1
  <2>5. QED
    BY <2>1, <2>2, <2>3, <2>4
<1>4. QED
  BY <1>3, TheOneRow, RowReplaced

LEMMA StepRowSet ==
    ASSUME rows \in RowTable, OneRow, NEW s \in Steps, NEW status \in RowStatuses,
           NEW result \in Resolutions \cup {NoResult, "output"}, SetStepRow(s, status, result)
    PROVE  OneRow' /\ StatSet(s, status) /\ Stat(s) # "absent"
<1>1. PICK i \in RowsOf(s) :
          rows' = [rows EXCEPT ![s][i].status = status, ![s][i].result = result]
  BY DEF SetStepRow
<1>2. QED
  BY <1>1, RowSet, TheOneRow

\* The flags of a row and its result say nothing of its status.
LEMMA FlagSet ==
    ASSUME rows \in RowTable, OneRow, NEW s \in Steps, NEW i \in Slots,
           \/ rows' = [rows EXCEPT ![s][i].due = TRUE]
           \/ rows' = [rows EXCEPT ![s][i].stale = TRUE]
           \/ rows' = [rows EXCEPT ![s][i].stale = FALSE]
    PROVE  OneRow' /\ StatsKept
<1>1. \A t \in Steps, j \in Slots : rows'[t][j].status = rows[t][j].status
  <2> TAKE t \in Steps, j \in Slots
  <2>1. rows[t][j] \in StepRow /\ rows[s][i] \in StepRow
    BY RowType
  <2>2. /\ [rows[s][i] EXCEPT !.due = TRUE].status = rows[s][i].status
        /\ [rows[s][i] EXCEPT !.stale = TRUE].status = rows[s][i].status
        /\ [rows[s][i] EXCEPT !.stale = FALSE].status = rows[s][i].status
    BY <2>1 DEF StepRow
  <2>3. PICK row : /\ row.status = rows[s][i].status
                   /\ rows' = [rows EXCEPT ![s][i] = row]
    BY <2>2
  <2>4. QED
    BY <2>3 DEF RowTable
<1>2. QED
  BY <1>1, FirstSlot DEF OneRow, StatsKept, Stat

LEMMA WaitingRowsMapped ==
    ASSUME rows \in RowTable, OneRow, NEW status \in RowStatuses,
           NEW result \in Resolutions \cup {NoResult, "output"}
    PROVE  /\ rows' = [s \in Steps |-> [i \in Slots |->
                         IF rows[s][i].status = "waiting"
                         THEN [rows[s][i] EXCEPT !.result = result] ELSE rows[s][i]]]
                  => OneRow' /\ StatsKept
           /\ rows' = [s \in Steps |-> [i \in Slots |->
                         IF rows[s][i].status = "waiting"
                         THEN [rows[s][i] EXCEPT !.status = "complete"] ELSE rows[s][i]]]
                  => OneRow' /\ WaitsClosed
<1>1. \A s \in Steps, i \in Slots :
          /\ [rows[s][i] EXCEPT !.result = result].status = rows[s][i].status
          /\ [rows[s][i] EXCEPT !.status = "complete"].status = "complete"
  BY RowType DEF StepRow
<1>2. ASSUME rows' = [s \in Steps |-> [i \in Slots |->
                         IF rows[s][i].status = "waiting"
                         THEN [rows[s][i] EXCEPT !.result = result] ELSE rows[s][i]]]
      PROVE  OneRow' /\ StatsKept
  <2>1. \A s \in Steps, i \in Slots : rows'[s][i].status = rows[s][i].status
    BY <1>1, <1>2
  <2>2. QED
    BY <2>1, FirstSlot DEF OneRow, StatsKept, Stat
<1>3. ASSUME rows' = [s \in Steps |-> [i \in Slots |->
                         IF rows[s][i].status = "waiting"
                         THEN [rows[s][i] EXCEPT !.status = "complete"] ELSE rows[s][i]]]
      PROVE  OneRow' /\ WaitsClosed
  <2>1. \A s \in Steps, i \in Slots :
            rows'[s][i].status = IF rows[s][i].status = "waiting" THEN "complete"
                                 ELSE rows[s][i].status
    BY <1>1, <1>3
  <2>2. QED
    BY <2>1, FirstSlot DEF OneRow, WaitsClosed, Stat
<1>4. QED
  BY <1>2, <1>3

LEMMA GateResultSet ==
    ASSUME rows \in RowTable, OneRow, NEW s \in Steps,
           NEW result \in Resolutions \cup {NoResult, "output"}, SetGateResult(s, result)
    PROVE  OneRow' /\ StatsKept
<1>1. \A i \in Slots : [rows[s][i] EXCEPT !.result = result].status = rows[s][i].status
  BY RowType DEF StepRow
<1>2. QED
  BY <1>1, FirstSlot DEF OneRow, StatsKept, Stat, SetGateResult, RowTable
-----------------------------------------------------------------------------
(***************************************************************************)
(* A step of the consumer that has the message, in the terms above.        *)
(***************************************************************************)
LEMMA NoClaimWhileWalking ==
    ASSUME TokenInv, NEW c \in Consumers, Walking(c), UNCHANGED wakerVars
    PROVE  ~ClaimHeld /\ ~ClaimHeld'
BY DEF TokenInv, Owned, SingleToken, ClaimIsExclusive, Idle, ClaimHeld, SweepHolds, DeliveryHolds,
       ApproverHolds, wakerVars, resumeVars, approvalVars

LEMMA WalkerSteps ==
    ASSUME RowsInv, NEW c \in Consumers, Walking(c), OthersUnchanged(c),
           UNCHANGED <<queue, wakerVars>>,
           RowsOK', EventOK(exec)', StatusRows',
           exec'.status = "pending" =>
               /\ exec' = exec
               /\ worker'[c].topic = worker[c].topic
               /\ StatsKept \/ WaitsClosed,
           Walking(c)' => WalkerOK(worker[c])'
    PROVE  RowsFit'
<1>1. OutcomeInv /\ TokenInv /\ OneWalker /\ PendingRows
  BY DEF RowsInv, RowsFit, OutcomeInv, TokenInv, Owned, SingleToken
<1>2. \A k \in Consumers \ {c} : ~Walking(k)'
  BY <1>1 DEF OneWalker, OthersUnchanged, Walking
<1>3. WalkersOK'
  BY <1>2 DEF WalkersOK
<1>4. ~ClaimHeld'
  BY <1>1, NoClaimWhileWalking
<1>5. PendingRows'
  <2> SUFFICES ASSUME exec'.status = "pending" PROVE New' \/ Woken'
    BY DEF PendingRows
  <2>1. /\ exec' = exec
        /\ worker'[c].topic = worker[c].topic
        /\ StatsKept \/ WaitsClosed
    OBVIOUS
  <2>2. CASE New
    <3>1. Untouched'
      BY <2>1, <2>2 DEF New, Untouched, StatsKept, WaitsClosed
    <3>2. QED
      BY <1>2, <1>4, <2>1, <2>2, <3>1 DEF New
  <2>3. CASE Woken
    <3>1. ~Untouched'
      BY <2>1, <2>3 DEF Woken, Untouched, StatsKept, WaitsClosed
    <3>2. (\E p \in Steps : ParkedOn(p)') \/ AllClean'
      <4>1. CASE StatsKept
        BY <2>1, <2>3, <4>1 DEF Woken, ParkedOn, CleanBut, AllClean, StatsKept
      <4>2. CASE WaitsClosed
        BY <2>3, <4>2 DEF Woken, ParkedOn, CleanBut, AllClean, WaitsClosed
      <4>3. QED
        BY <2>1, <4>1, <4>2
    <3>3. QED
      BY <1>2, <1>4, <2>1, <2>3, <3>1, <3>2 DEF Woken
  <2>4. QED
    BY <1>1, <2>1, <2>2, <2>3 DEF PendingRows
<1>6. QED
  BY <1>3, <1>5 DEF RowsFit

LEMMA WalkerKept ==
    ASSUME NEW k \in Consumers, WalkerOK(worker[k]), worker'[k] = worker[k],
           UNCHANGED <<exec, effects>>, StatsKept, worker[k].pc \in Labels,
           worker[k].pc \in AtStep => worker[k].step \in Steps
    PROVE  WalkerOK(worker[k])'
<1>1. /\ Untouched' <=> Untouched
      /\ NoneWaits' <=> NoneWaits
      /\ AllClean' <=> AllClean
      /\ CleanBut(worker[k].mem.current)' <=> CleanBut(worker[k].mem.current)
  BY DEF StatsKept, Untouched, NoneWaits, AllClean, CleanBut
<1>2. worker[k].step \in Steps => Stat(worker[k].step)' = Stat(worker[k].step)
  BY DEF StatsKept, Stat
<1>3. worker[k].parked.step \in Steps => Stat(worker[k].parked.step)' = Stat(worker[k].parked.step)
  BY DEF StatsKept, Stat
<1>4. Starts(worker[k])' /\ Ends(worker[k])' /\ Resumes(worker[k])'
  BY <1>1, <1>3 DEF WalkerOK, Starts, Ends, Resumes
<1>5. Walks(worker[k])'
  BY <1>1, <1>2 DEF WalkerOK, Walks, LabelFits, AtStep, AfterClaim
<1>6. QED
  BY <1>4, <1>5 DEF WalkerOK

\* A consumer lets go of its message, and gives it back to its queue or not.
LEMMA StopsRows ==
    ASSUME RowsInv, NEW c \in Consumers, worker' = [worker EXCEPT ![c] = IdleWorker],
           UNCHANGED <<exec, wakerVars>>,
           ~Walking(c) => UNCHANGED <<rows, effects>>,
           UNCHANGED queue \/ (Walking(c) /\ Publish(worker[c].topic)),
           RowsOK', StatusRows',
           exec.status = "pending" => StatsKept
    PROVE  RowsFit'
<1>0. /\ worker \in Workers /\ worker[c].topic \in Topics
      /\ queue \in [Topics -> Nat]
      /\ EventOK(exec) /\ PendingRows /\ WalkersOK
      /\ \A k \in Consumers : /\ worker[k].pc \in Labels
                              /\ worker[k].pc \in AtStep => worker[k].step \in Steps
  BY DEF RowsInv, RowsFit, OutcomeInv, TokenInv, TypeInv, StoreTypeOK, ConsumersOK, ExecutorTypeOK,
         Workers, WorkerState, CursorOK, Labels
<1>1. OthersUnchanged(c) /\ ~Walking(c)'
  BY <1>0, ResetFacts DEF Walking
<1>2. ClaimHeld' = ClaimHeld
  BY DEF ClaimHeld, SweepHolds, DeliveryHolds, ApproverHolds, wakerVars, resumeVars, approvalVars
<1>3. \A k \in Consumers : Walking(k)' => k # c /\ Walking(k) /\ worker'[k] = worker[k]
  BY <1>1 DEF OthersUnchanged, Walking
<1>4. WalkersOK'
  <2> SUFFICES ASSUME NEW k \in Consumers, Walking(k)' PROVE WalkerOK(worker[k])'
    BY DEF WalkersOK
  <2>1. CASE Walking(c)
    BY <1>3, <2>1 DEF RowsInv, OutcomeInv, TokenInv, Owned, SingleToken, OneWalker
  <2>2. CASE ~Walking(c)
    <3>1. WalkerOK(worker[k]) /\ worker'[k] = worker[k]
      BY <1>0, <1>3 DEF WalkersOK
    <3>2. StatsKept
      BY <2>2 DEF StatsKept, Stat
    <3>3. QED
      BY <1>0, <2>2, <3>1, <3>2, WalkerKept
  <2>3. QED
    BY <2>1, <2>2
<1>5. PendingRows'
  <2> SUFFICES ASSUME exec.status = "pending" PROVE New' \/ Woken'
    BY DEF PendingRows
  <2>1. StatsKept
    OBVIOUS
  <2>2. CASE New
    <3>1. queue'["resume"] = 0
      BY <1>0, <2>2 DEF New, Publish, Topics
    <3>2. Untouched'
      BY <2>1, <2>2 DEF New, Untouched, StatsKept
    <3>3. QED
      BY <1>2, <1>3, <2>2, <3>1, <3>2 DEF New
  <2>3. CASE Woken
    <3>1. queue'["execute"] = 0
      BY <1>0, <2>3 DEF Woken, Publish, Topics
    <3>2. ~Untouched'
      BY <2>1, <2>3 DEF Woken, Untouched, StatsKept
    <3>3. (\E p \in Steps : ParkedOn(p)') \/ (AllClean' /\ ~ClaimHeld')
      BY <1>2, <2>1, <2>3 DEF Woken, ParkedOn, CleanBut, AllClean, StatsKept
    <3>4. QED
      BY <1>3, <2>3, <3>1, <3>2, <3>3 DEF Woken
  <2>4. QED
    BY <1>0, <2>2, <2>3 DEF PendingRows
<1>6. QED
  BY <1>0, <1>4, <1>5 DEF RowsFit

\* The message a consumer takes fits the execution.
LEMMA ReceiveRows ==
    ASSUME RowsInv, NEW c \in Consumers, Receive(c), UNCHANGED wakerVars
    PROVE  RowsFit'
<1>0. /\ worker \in Workers /\ queue \in [Topics -> Nat]
      /\ RowsOK /\ EventOK(exec) /\ StatusRows /\ PendingRows /\ WalkersOK
  BY DEF RowsInv, RowsFit, OutcomeInv, TokenInv, TypeInv, StoreTypeOK, ConsumersOK, ExecutorTypeOK,
         Workers
<1>1. PICK topic \in Topics :
          /\ queue[topic] > 0
          /\ queue' = [queue EXCEPT ![topic] = @ - 1]
          /\ worker' = [worker EXCEPT ![c].topic = topic,
                            ![c].pc = IF topic = "execute" THEN "load" ELSE "resume_load"]
  BY DEF Receive
<1>2. /\ OthersUnchanged(c)
      /\ worker'[c].topic = topic
      /\ worker'[c].pc = IF topic = "execute" THEN "load" ELSE "resume_load"
  BY <1>0, <1>1 DEF Workers, WorkerState, OthersUnchanged
<1>3. UNCHANGED <<exec, rows, effects>> /\ ~Walking(c)
  BY DEF Receive, At, Walking
<1>4. ClaimHeld' = ClaimHeld
  BY DEF ClaimHeld, SweepHolds, DeliveryHolds, ApproverHolds, wakerVars, resumeVars, approvalVars
<1>5. RowsOK' /\ EventOK(exec)' /\ StatusRows'
  BY <1>0, <1>3 DEF RowsOK, OneRow, StatusRows, ParkedOn, CleanBut, AllClean, Stat
<1>6. PendingRows'
  <2> SUFFICES ASSUME exec.status = "pending" PROVE New' \/ Woken'
    BY <1>3 DEF PendingRows
  <2>1. CASE New
    <3>1. topic = "execute" /\ queue'["resume"] = 0
      BY <1>0, <1>1, <2>1 DEF New, Topics
    <3>2. Untouched'
      BY <1>3, <2>1 DEF New, Untouched, Stat
    <3>3. \A k \in Consumers : Walking(k)' => worker'[k].topic = "execute"
      BY <1>2, <2>1, <3>1 DEF New, OthersUnchanged, Walking
    <3>4. QED
      BY <1>3, <1>4, <2>1, <3>1, <3>2, <3>3 DEF New
  <2>2. CASE Woken
    <3>1. topic = "resume" /\ queue'["execute"] = 0
      BY <1>0, <1>1, <2>2 DEF Woken, Topics
    <3>2. ~Untouched'
      BY <1>3, <2>2 DEF Woken, Untouched, Stat
    <3>3. \A k \in Consumers : Walking(k)' => worker'[k].topic = "resume"
      BY <1>2, <2>2, <3>1 DEF Woken, OthersUnchanged, Walking
    <3>4. (\E p \in Steps : ParkedOn(p)') \/ (AllClean' /\ ~ClaimHeld')
      BY <1>3, <1>4, <2>2 DEF Woken, ParkedOn, CleanBut, AllClean, Stat
    <3>5. QED
      BY <3>1, <3>2, <3>3, <3>4 DEF Woken
  <2>3. QED
    BY <1>0, <2>1, <2>2 DEF PendingRows
<1>7. WalkersOK'
  <2> SUFFICES ASSUME NEW k \in Consumers, Walking(k)' PROVE WalkerOK(worker[k])'
    BY DEF WalkersOK
  <2>1. CASE k = c
    <3>1. worker'[c].pc = "load" => (exec.status = "pending" => Untouched')
      BY <1>0, <1>1, <1>2, <1>3 DEF PendingRows, New, Woken, Untouched, Stat
    <3>2. worker'[c].pc = "resume_load" => worker'[c].topic = "resume"
      BY <1>2 DEF Topics
    <3>3. worker'[c].pc \in {"load", "resume_load"}
      BY <1>2
    <3>4. QED
      BY <1>3, <2>1, <3>1, <3>2, <3>3
         DEF WalkerOK, Starts, Walks, Ends, Resumes, LabelFits, AtStep, AfterClaim, ResumeLabels
  <2>2. CASE k # c
    <3>1. worker'[k] = worker[k] /\ Walking(k)
      BY <1>2, <2>2 DEF OthersUnchanged, Walking
    <3>2. WalkerOK(worker[k])
      BY <1>0, <3>1 DEF WalkersOK
    <3>3. QED
      BY <1>3, <3>1, <3>2 DEF WalkerOK, Starts, Walks, Ends, Resumes, Untouched, NoneWaits, CleanBut,
                              AllClean, Stat
  <2>3. QED
    BY <2>1, <2>2
<1>8. QED
  BY <1>5, <1>6, <1>7 DEF RowsFit

\* A save from the fresh copy of the walker writes what it has made of it.
LEMMA SavedAsMade ==
    ASSUME TokenInv, NEW c \in Consumers, Walking(c), worker[c].pc \notin Loading,
           NEW label \in Labels, NEW m \in ExecRow, SaveAs(c, m, label)
    PROVE  /\ exec' = m
           /\ OthersUnchanged(c)
           /\ worker'[c].pc = label
           /\ worker'[c].mem = m
           /\ worker'[c].step = worker[c].step
           /\ worker'[c].topic = worker[c].topic
<1>1. worker \in Workers /\ exec \in ExecRow
  BY DEF TokenInv, TypeInv, StoreTypeOK, ConsumersOK, ExecutorTypeOK, Workers
<1>2. worker[c].snap = exec
  BY DEF TokenInv, Owned, WalkerViewIsFresh, Loading
<1>3. QED
  BY <1>1, <1>2, SaveFacts, FreshSave

OnItsStep == AtStep \ {"enter", "arrive"}

LEMMA AtTheCursor ==
    ASSUME RowsInv, NEW c \in Consumers, worker[c].pc \in OnItsStep
    PROVE  /\ Walking(c)
           /\ worker[c].step \in Steps
           /\ worker[c].step = exec.current
           /\ worker[c].mem = exec
           /\ exec.status = "running"
           /\ CleanBut(worker[c].step)
           /\ WalkerOK(worker[c])
<1>1. Walking(c)
  BY DEF Walking, OnItsStep, AtStep
<1>2. WalkerOK(worker[c]) /\ StatusRows
  BY <1>1 DEF RowsInv, RowsFit, WalkersOK
<1>3. worker[c].step \in Steps
  BY DEF RowsInv, OutcomeInv, TokenInv, TypeInv, ConsumersOK, CursorOK, OnItsStep
<1>4. /\ worker[c].step = exec.current
      /\ worker[c].mem = exec
      /\ exec.status = "running"
  BY <1>2 DEF WalkerOK, Walks, OnItsStep
<1>5. QED
  BY <1>1, <1>2, <1>3, <1>4 DEF StatusRows

\* The walker sets the status of the row of the step it is at.
LEMMA ItsRowSet ==
    ASSUME RowsInv, NEW c \in Consumers, worker[c].pc \in OnItsStep,
           NEW s \in Steps, s = worker[c].step, NEW status, StatSet(s, status),
           UNCHANGED <<exec, effects>>, OneRow',
           status = "waiting" => StepType[s] \in ParkingTypes,
           status = "complete" /\ StepType[s] = "action" => effects[s] > 0
    PROVE  /\ RowsOK' /\ EventOK(exec)' /\ StatusRows'
           /\ exec'.status = "running"
           /\ Stat(s)' = status
           /\ status = "complete" => AllClean'
<1>1. /\ s = exec.current /\ exec.status = "running" /\ CleanBut(s)
      /\ RowsOK /\ EventOK(exec)
  BY AtTheCursor DEF RowsInv, RowsFit
<1>2. \A t \in Steps : Stat(t)' = IF t = s THEN status ELSE Stat(t)
  BY DEF StatSet
<1>3. RowsOK'
  BY <1>1, <1>2 DEF RowsOK
<1>4. CleanBut(s)' /\ (status = "complete" => AllClean')
  BY <1>1, <1>2 DEF CleanBut, AllClean
<1>5. StatusRows'
  BY <1>1, <1>4 DEF StatusRows
<1>6. QED
  BY <1>1, <1>2, <1>3, <1>4, <1>5
-----------------------------------------------------------------------------
LEMMA StartRows ==
    ASSUME RowsInv, NEW c \in Consumers, UNCHANGED wakerVars,
           \/ DropMessage(c) \/ RejectSnapshot(c) \/ SkipByConditions(c) \/ SaveSkipped(c)
           \/ BeginWalk(c) \/ NothingLeftToWalk(c) \/ EnterWalk(c)
    PROVE  RowsFit'
<1>0. /\ worker \in Workers /\ worker[c] \in WorkerState
      /\ exec \in ExecRow
      /\ TokenInv /\ RowsOK /\ EventOK(exec) /\ StatusRows /\ PendingRows
  BY DEF RowsInv, RowsFit, OutcomeInv, TokenInv, TypeInv, StoreTypeOK, ConsumersOK, ExecutorTypeOK,
         Workers
<1>1. Walking(c) /\ WalkerOK(worker[c])
  BY DEF RowsInv, RowsFit, WalkersOK, Walking, At, Loaded, DropMessage, RejectSnapshot,
         SkipByConditions, SaveSkipped, BeginWalk, NothingLeftToWalk, EnterWalk
<1>2. exec.status = "pending" /\ Untouched => exec.current = NoStep
  BY <1>0 DEF PendingRows, New, Woken
\* Nothing but the consumer's record changes.
<1>3. ASSUME UNCHANGED <<exec, rows, effects>>
      PROVE  /\ RowsOK' /\ EventOK(exec)' /\ StatusRows' /\ StatsKept
             /\ Untouched' <=> Untouched
             /\ AllClean' <=> AllClean
  BY <1>0, <1>3 DEF RowsOK, OneRow, StatusRows, ParkedOn, CleanBut, AllClean, Untouched, StatsKept, Stat
<1>4. CASE DropMessage(c)
  <2>1. OthersUnchanged(c) /\ ~Walking(c)'
    BY <1>0, <1>4, GotoFacts DEF DropMessage, Walking, Labels, ExecutorLabels
  <2>2. UNCHANGED <<exec, rows, effects, queue>> /\ exec.status # "pending"
    BY <1>4 DEF DropMessage, storeVars, Terminal
  <2>3. QED
    BY <1>1, <1>3, <2>1, <2>2, WalkerSteps
<1>5. CASE RejectSnapshot(c)
  <2>1. UNCHANGED <<exec, rows, effects, queue>> /\ LoadAs(c, exec, "fail") /\ Loaded(c)
    BY <1>5 DEF RejectSnapshot, storeVars
  <2>2. /\ OthersUnchanged(c) /\ worker'[c].pc = "fail" /\ worker'[c].mem = exec
        /\ worker'[c].topic = worker[c].topic
    BY <1>0, <2>1, LoadFacts DEF Labels, ExecutorLabels
  <2>3. exec.status = "pending" => Untouched'
    BY <1>1, <1>3, <2>1 DEF Loaded, At, WalkerOK, Starts
  <2>4. WalkerOK(worker[c])'
    BY <2>1, <2>2, <2>3
       DEF WalkerOK, Starts, Walks, Ends, Resumes, LabelFits, AtStep, AfterClaim, ResumeLabels
  <2>5. QED
    BY <1>1, <1>3, <2>1, <2>2, <2>4, WalkerSteps
<1>6. CASE SkipByConditions(c)
  <2> DEFINE m == [exec EXCEPT !.status = "skipped"]
  <2>1. UNCHANGED <<exec, rows, effects, queue>> /\ LoadAs(c, m, "skip") /\ Loaded(c)
        /\ exec.status = "pending"
    BY <1>6 DEF SkipByConditions, storeVars
  <2>2. m \in ExecRow
    BY <1>0 DEF ExecRow, Statuses, Terminal
  <2> HIDE DEF m
  <2>3. /\ OthersUnchanged(c) /\ worker'[c].pc = "skip" /\ worker'[c].mem = m
        /\ worker'[c].topic = worker[c].topic
    BY <1>0, <2>1, <2>2, LoadFacts DEF Labels, ExecutorLabels
  <2>4. Untouched'
    BY <1>1, <1>3, <2>1 DEF Loaded, At, WalkerOK, Starts
  <2>5. worker'[c].mem = [exec' EXCEPT !.status = "skipped"]
    BY <2>1, <2>3 DEF m
  <2>6. WalkerOK(worker[c])'
    BY <2>1, <2>3, <2>4, <2>5
       DEF WalkerOK, Starts, Walks, Ends, Resumes, LabelFits, AtStep, AfterClaim, ResumeLabels
  <2>7. QED
    BY <1>1, <1>3, <2>1, <2>3, <2>6, WalkerSteps
<1>7. CASE SaveSkipped(c)
  <2> DEFINE m == worker[c].mem
  <2>1. /\ SaveAs(c, m, "ack") /\ worker[c].pc = "skip"
        /\ UNCHANGED <<rows, effects, queue>>
    BY <1>7 DEF SaveSkipped, At
  <2>2. m \in ExecRow /\ m = [exec EXCEPT !.status = "skipped"]
    BY <1>0, <1>1, <2>1 DEF WorkerState, WalkerOK, Starts
  <2>3. m.status = "skipped" /\ m.current = exec.current /\ m.event = exec.event
    BY <1>0, <2>2 DEF ExecRow
  <2> HIDE DEF m
  <2>4. exec' = m /\ OthersUnchanged(c) /\ ~Walking(c)'
    BY <1>0, <1>1, <2>1, <2>2, SavedAsMade DEF Walking, Loading, Labels, ExecutorLabels
  <2>5. \A t : CleanBut(t)'
    BY <1>1, <2>1 DEF WalkerOK, Starts, Untouched, CleanBut, Stat
  <2>6. RowsOK' /\ EventOK(exec)' /\ StatusRows'
    BY <1>0, <2>1, <2>3, <2>4, <2>5 DEF RowsOK, OneRow, Stat, EventOK, StatusRows
  <2>7. QED
    BY <1>1, <2>1, <2>3, <2>4, <2>6, WalkerSteps
<1>8. CASE BeginWalk(c)
  <2> DEFINE m == [exec EXCEPT !.status = "running", !.current = StartStep]
  <2>1. UNCHANGED <<exec, rows, effects, queue>> /\ LoadAs(c, m, "enter") /\ Loaded(c)
        /\ StartStep # NoStep
    BY <1>8 DEF BeginWalk, storeVars
  <2>2. StartStep \in Targets
    BY <1>0, DefinitionAssumption DEF ExecRow, StartStep, Targets
  <2>3. m \in ExecRow /\ m.current = StartStep
    BY <1>0, <2>2 DEF ExecRow, Statuses
  <2> HIDE DEF m
  <2>4. /\ OthersUnchanged(c) /\ worker'[c].pc = "enter" /\ worker'[c].mem = m
        /\ worker'[c].topic = worker[c].topic
        /\ worker'[c].step = StartStep
    BY <1>0, <2>1, <2>3, LoadFacts DEF Labels, ExecutorLabels
  <2>5. worker'[c].mem = [exec' EXCEPT !.status = "running", !.current = worker'[c].step]
    BY <2>1, <2>4 DEF m
  <2>6. \/ exec'.status = "running" /\ worker'[c].step = exec'.current
        \/ exec'.status = "pending" /\ Untouched' /\ worker'[c].step = Entry
    <3>1. exec.status = "pending" => Untouched' /\ exec.current = NoStep
      BY <1>1, <1>2, <1>3, <2>1 DEF Loaded, At, WalkerOK, Starts
    <3>2. QED
      BY <2>1, <2>4, <3>1 DEF Loaded, StartStep
  <2>7. WalkerOK(worker[c])'
    BY <2>4, <2>5, <2>6
       DEF WalkerOK, Starts, Walks, Ends, Resumes, LabelFits, AtStep, AfterClaim, ResumeLabels
  <2>8. QED
    BY <1>1, <1>3, <2>1, <2>4, <2>7, WalkerSteps
<1>9. CASE NothingLeftToWalk(c)
  <2>1. UNCHANGED <<exec, rows, effects, queue>> /\ LoadAs(c, exec, "complete") /\ Loaded(c)
        /\ StartStep = NoStep
    BY <1>9 DEF NothingLeftToWalk, storeVars
  <2>2. /\ OthersUnchanged(c) /\ worker'[c].pc = "complete" /\ worker'[c].mem = exec
        /\ worker'[c].topic = worker[c].topic
    BY <1>0, <2>1, LoadFacts DEF Labels, ExecutorLabels
  <2>3. exec.current = NoStep
    BY <2>1 DEF StartStep
  <2>4. /\ exec.status = "pending" => Untouched' /\ Entry = NoStep
        /\ AllClean'
    <3>1. exec.status = "pending" => Untouched /\ Entry = NoStep
      BY <1>1, <2>1, <2>3 DEF Loaded, At, WalkerOK, Starts, StartStep
    <3>2. exec.status = "running" => AllClean
      BY <1>0, <2>3, DefinitionAssumption DEF StatusRows, CleanBut, AllClean
    <3>3. Untouched => AllClean
      BY DEF Untouched, AllClean
    <3>4. QED
      BY <1>3, <2>1, <3>1, <3>2, <3>3 DEF Loaded
  <2>5. WalkerOK(worker[c])'
    BY <2>1, <2>2, <2>3, <2>4
       DEF Loaded, WalkerOK, Starts, Walks, Ends, Resumes, LabelFits, AtStep, AfterClaim, ResumeLabels
  <2>6. QED
    BY <1>1, <1>3, <2>1, <2>2, <2>5, WalkerSteps
<1>10. CASE EnterWalk(c)
  <2> DEFINE m == worker[c].mem
  <2>1. /\ SaveAs(c, m, "arrive") /\ worker[c].pc = "enter"
        /\ UNCHANGED <<rows, effects, queue>>
    BY <1>10 DEF EnterWalk, At
  <2>2. /\ m \in ExecRow
        /\ m = [exec EXCEPT !.status = "running", !.current = worker[c].step]
        /\ \/ exec.status = "running" /\ worker[c].step = exec.current
           \/ exec.status = "pending" /\ Untouched
    BY <1>0, <1>1, <2>1 DEF WorkerState, WalkerOK, Starts
  <2>3. m.status = "running" /\ m.current = worker[c].step /\ m.event = exec.event
    BY <1>0, <2>2 DEF ExecRow
  <2> HIDE DEF m
  <2>4. /\ exec' = m /\ OthersUnchanged(c)
        /\ worker'[c].pc = "arrive" /\ worker'[c].mem = m /\ worker'[c].step = worker[c].step
    BY <1>0, <1>1, <2>1, <2>2, SavedAsMade DEF Loading, Labels, ExecutorLabels
  <2>5. RowsOK'
    BY <1>0, <2>1 DEF RowsOK, OneRow, Stat
  <2>6. EventOK(exec)'
    BY <1>0, <1>2, <2>2, <2>3, <2>4, DefinitionAssumption DEF EventOK
  <2>7. StatusRows'
    BY <1>0, <2>1, <2>2, <2>3, <2>4 DEF StatusRows, CleanBut, Untouched, Stat
  <2>8. WalkerOK(worker[c])'
    BY <2>3, <2>4
       DEF WalkerOK, Starts, Walks, Ends, Resumes, LabelFits, AtStep, AfterClaim, ResumeLabels
  <2>9. QED
    BY <1>1, <2>1, <2>3, <2>4, <2>5, <2>6, <2>7, <2>8, WalkerSteps
<1>11. QED
  BY <1>4, <1>5, <1>6, <1>7, <1>8, <1>9, <1>10
-----------------------------------------------------------------------------
LEMMA StepLabelFits ==
    ASSUME NEW s \in Steps
    PROVE  /\ StepLabel(s) \in AfterClaim /\ StepLabel(s) # "acted"
           /\ StepLabel(s) \in Labels
           /\ LabelFits(StepLabel(s), s)
<1>1. StepType[s] \in StepTypes
  BY DefinitionAssumption
<1>2. QED
  BY <1>1 DEF StepTypes, StepLabel, AfterClaim, LabelFits, ParkingTypes, Labels, ExecutorLabels

\* The walker sets the status of its row and goes on with the same step.
LEMMA GoesOnWithRow ==
    ASSUME RowsInv, NEW c \in Consumers, worker[c].pc \in OnItsStep,
           NEW s \in Steps, s = worker[c].step,
           NEW label \in Labels, Goto(c, label), NEW status, StatSet(s, status),
           UNCHANGED <<exec, effects, queue, wakerVars>>, OneRow',
           status = "waiting" => StepType[s] \in ParkingTypes,
           status = "complete" /\ StepType[s] = "action" => effects[s] > 0,
           \/ label \in AfterClaim /\ label # "acted" /\ status = "running"
           \/ label = "park_exec" /\ status = "waiting"
           \/ label = "complete" /\ status = "complete" /\ StepType[s] = "stop"
           \/ label = "fail",
           LabelFits(label, s)
    PROVE  RowsFit'
<1>0. worker \in Workers
  BY DEF RowsInv, OutcomeInv, TokenInv, TypeInv, ConsumersOK, ExecutorTypeOK, Workers
<1>1. /\ Walking(c) /\ s = exec.current /\ worker[c].mem = exec /\ exec.status = "running"
  BY AtTheCursor
<1>2. /\ RowsOK' /\ EventOK(exec)' /\ StatusRows'
      /\ Stat(s)' = status
      /\ status = "complete" => AllClean'
  BY ItsRowSet
<1>3. /\ OthersUnchanged(c) /\ worker'[c].pc = label /\ worker'[c].step = s
      /\ worker'[c].mem = exec'
  BY <1>0, <1>1, GotoFacts
<1>4. WalkerOK(worker[c])'
  <2>1. Starts(worker[c])' /\ Resumes(worker[c])'
    BY <1>3 DEF Starts, Resumes, AfterClaim, ResumeLabels
  <2>2. Walks(worker[c])'
    BY <1>1, <1>2, <1>3 DEF Walks, AfterClaim, AtStep
  <2>3. Ends(worker[c])'
    BY <1>1, <1>2, <1>3 DEF Ends, AfterClaim
  <2>4. QED
    BY <2>1, <2>2, <2>3 DEF WalkerOK
<1>5. QED
  BY <1>1, <1>2, <1>3, <1>4, WalkerSteps

\* The row of the step is complete, and the walk goes on along one of its edges.
LEMMA GoesAlongEdge ==
    ASSUME RowsInv, NEW c \in Consumers, worker[c].pc \in OnItsStep,
           NEW s \in Steps, s = worker[c].step,
           NEW next \in Successors(s), Continue(c, next), StatSet(s, "complete"),
           UNCHANGED <<exec, effects, queue, wakerVars>>, OneRow',
           StepType[s] \in {"action", "branch", "switch"},
           StepType[s] = "action" => effects[s] > 0
    PROVE  RowsFit'
<1>0. worker \in Workers /\ next \in Targets
  BY EdgeTarget DEF RowsInv, OutcomeInv, TokenInv, TypeInv, ConsumersOK, ExecutorTypeOK, Workers,
     Successors
<1>1. /\ Walking(c) /\ s = exec.current /\ worker[c].mem = exec /\ exec.status = "running"
  BY AtTheCursor
<1>2. /\ RowsOK' /\ EventOK(exec)' /\ StatusRows' /\ AllClean'
  BY ItsRowSet
<1>3. /\ OthersUnchanged(c) /\ worker'[c].step = next
      /\ worker'[c].pc = IF next = NoStep THEN "complete" ELSE "arrive"
      /\ worker'[c].mem = exec'
  BY <1>0, <1>1, ContinueFacts
<1>4. WalkerOK(worker[c])'
  <2>1. Starts(worker[c])' /\ Resumes(worker[c])'
    BY <1>3 DEF Starts, Resumes, ResumeLabels
  <2>2. Walks(worker[c])'
    BY <1>1, <1>2, <1>3 DEF Walks, WalksOn, LabelFits, AfterClaim, AtStep
  <2>3. Ends(worker[c])'
    BY <1>1, <1>2, <1>3 DEF Ends, WalksOn
  <2>4. QED
    BY <2>1, <2>2, <2>3 DEF WalkerOK
<1>5. QED
  BY <1>1, <1>2, <1>3, <1>4, WalkerSteps

LEMMA WalkRows ==
    ASSUME RowsInv, NEW c \in Consumers, UNCHANGED wakerVars,
           \/ ClaimStepRow(c) \/ InsertStepRow(c) \/ PerformAction(c) \/ RecordSuccess(c)
           \/ ActionToRetry(c) \/ ActionFails(c) \/ FollowEdge(c) \/ ReachStop(c)
           \/ OpenGate(c) \/ GateWithoutModule(c) \/ ParkStepRow(c)
    PROVE  RowsFit'
<1>0. /\ worker \in Workers /\ worker[c] \in WorkerState
      /\ rows \in RowTable /\ effects \in [Steps -> Nat]
      /\ RowsOK /\ OneRow
  BY DEF RowsInv, RowsFit, RowsOK, OutcomeInv, TokenInv, TypeInv, StoreTypeOK, ConsumersOK,
         ExecutorTypeOK, Workers, RowTable
<1>1. worker[c].pc \in OnItsStep
  BY DEF OnItsStep, AtStep, At, ClaimStepRow, InsertStepRow, PerformAction, RecordSuccess,
         ActionToRetry, ActionFails, FollowEdge, ReachStop, OpenGate, GateWithoutModule, ParkStepRow
<1>2. /\ Walking(c) /\ exec.status = "running" /\ worker[c].mem = exec
      /\ WalkerOK(worker[c])
      /\ worker[c].step = exec.current /\ CleanBut(worker[c].step)
  BY <1>1, AtTheCursor
<1>3. PICK s \in Steps : s = worker[c].step
  BY <1>1, AtTheCursor
<1>4. UNCHANGED rows => StatsKept /\ OneRow'
  BY <1>0 DEF StatsKept, OneRow, Stat
<1>5. ASSUME UNCHANGED <<exec, rows>>, effects' \in [Steps -> Nat],
             \A t \in Steps : effects'[t] >= effects[t]
      PROVE  RowsOK' /\ EventOK(exec)' /\ StatusRows'
  <2>1. RowsOK'
    BY <1>0, <1>4, <1>5 DEF RowsOK, StatsKept
  <2>2. QED
    BY <1>2, <1>5, <2>1 DEF RowsInv, RowsFit, EventOK, StatusRows, CleanBut, Stat
<1>6. CASE ClaimStepRow(c)
  <2>1. UNCHANGED <<exec, effects, queue>> /\ worker[c].pc = "claim"
    BY <1>6 DEF ClaimStepRow, At
  <2>2. CASE RowsOf(s) = {} /\ Goto(c, "insert") /\ UNCHANGED rows
    <3>1. /\ OthersUnchanged(c) /\ worker'[c].pc = "insert" /\ worker'[c].step = s
          /\ worker'[c].mem = exec'
      BY <1>0, <1>2, <1>3, <2>1, <2>2, GotoFacts DEF Labels, ExecutorLabels
    <3>2. Stat(s)' = "absent"
      BY <1>3, <1>4, <2>2, NoRows DEF StatsKept
    <3>3. WalkerOK(worker[c])'
      BY <1>2, <1>3, <2>1, <3>1, <3>2
         DEF WalkerOK, Starts, Walks, Ends, Resumes, LabelFits, AtStep, AfterClaim, ResumeLabels
    <3>4. RowsOK' /\ EventOK(exec)' /\ StatusRows'
      BY <1>0, <1>5, <2>1, <2>2
    <3>5. QED
      BY <1>2, <2>1, <3>1, <3>3, <3>4, WalkerSteps
  <2>3. CASE \E i \in RowsOf(s) :
                 /\ rows' = [rows EXCEPT ![s][i].status = "running", ![s][i].stale = FALSE]
                 /\ Goto(c, StepLabel(s))
    <3>1. PICK i \in RowsOf(s) :
              rows' = [rows EXCEPT ![s][i].status = "running", ![s][i].stale = FALSE]
      BY <2>3
    <3>2. OneRow' /\ StatSet(s, "running")
      BY <1>0, <3>1, RowSet DEF RowStatuses
    <3>3. QED
      BY <1>1, <1>3, <2>1, <2>3, <3>2, StepLabelFits, GoesOnWithRow
  <2>4. QED
    BY <1>3, <1>6, <2>2, <2>3 DEF ClaimStepRow
<1>7. CASE InsertStepRow(c)
  <2>1. /\ UNCHANGED <<exec, effects, queue>> /\ worker[c].pc = "insert"
        /\ Goto(c, StepLabel(s))
    BY <1>3, <1>7 DEF InsertStepRow, At
  <2>2. PICK i \in Slots :
            /\ RowsOf(s) = 1..(i - 1)
            /\ rows' = [rows EXCEPT ![s][i] = [AbsentRow EXCEPT !.status = "running"]]
    BY <1>3, <1>7 DEF InsertStepRow
  <2>3. RowsOf(s) = {}
    <3>1. Stat(s) = "absent"
      BY <1>2, <1>3, <2>1 DEF WalkerOK, Walks
    <3>2. QED
      BY <1>0, <3>1, TheOneRow
  <2>4. i = 1
    <3>1. 1 \notin 1..(i - 1)
      BY <2>2, <2>3
    <3>2. QED
      BY <3>1, StoreAssumption DEF Slots
  <2>5. OneRow' /\ StatSet(s, "running")
    <3>1. [AbsentRow EXCEPT !.status = "running"].status = "running"
      BY DEF AbsentRow
    <3>2. QED
      BY <1>0, <2>2, <2>4, <3>1, RunningRow, RowReplaced
  <2>6. QED
    BY <1>1, <1>3, <2>1, <2>5, StepLabelFits, GoesOnWithRow
<1>8. CASE PerformAction(c)
  <2>1. /\ UNCHANGED <<exec, rows, queue>> /\ worker[c].pc = "act"
        /\ effects' = [effects EXCEPT ![s] = @ + 1]
        /\ Goto(c, "acted")
    BY <1>3, <1>8 DEF PerformAction, At, storeVars
  <2>2. /\ OthersUnchanged(c) /\ worker'[c].pc = "acted" /\ worker'[c].step = s
        /\ worker'[c].mem = exec'
    BY <1>0, <1>2, <1>3, <2>1, GotoFacts DEF Labels, ExecutorLabels
  <2>3. /\ effects' \in [Steps -> Nat]
        /\ effects'[s] > 0 /\ \A t \in Steps : effects'[t] >= effects[t]
    BY <1>0, <2>1
  <2>4. StepType[s] = "action" /\ Stat(s)' = "running"
    BY <1>2, <1>3, <1>4, <2>1 DEF WalkerOK, Walks, LabelFits, AfterClaim, StatsKept
  <2>5. WalkerOK(worker[c])'
    BY <1>2, <1>3, <2>1, <2>2, <2>3, <2>4
       DEF WalkerOK, Starts, Walks, Ends, Resumes, LabelFits, AtStep, AfterClaim, ResumeLabels
  <2>6. QED
    BY <1>2, <1>5, <2>1, <2>2, <2>3, <2>5, WalkerSteps
<1>9. CASE RecordSuccess(c)
  <2>1. /\ UNCHANGED <<exec, effects, queue>> /\ worker[c].pc = "acted"
        /\ SetStepRow(s, "complete", "output") /\ Continue(c, Edge[s]["next"])
    BY <1>3, <1>9 DEF RecordSuccess, At
  <2>2. StepType[s] = "action" /\ effects[s] > 0
    BY <1>2, <1>3, <2>1 DEF WalkerOK, Walks, LabelFits
  <2>3. Edge[s]["next"] \in Successors(s)
    BY <2>2, DefinitionAssumption DEF HasDeclaredEdges, Successors
  <2>4. OneRow' /\ StatSet(s, "complete")
    BY <1>0, <2>1, StepRowSet DEF RowStatuses
  <2>5. QED
    BY <1>1, <1>3, <2>1, <2>2, <2>3, <2>4, GoesAlongEdge
<1>10. CASE ActionToRetry(c)
  <2>1. /\ UNCHANGED <<exec, effects>>
        /\ Publish(worker[c].topic) /\ worker' = [worker EXCEPT ![c] = IdleWorker]
    BY <1>10 DEF ActionToRetry
  <2>2. PICK i \in RowsOf(s) : rows' = [rows EXCEPT ![s][i].status = "pending"]
    BY <1>3, <1>10 DEF ActionToRetry
  <2>3. OneRow' /\ StatSet(s, "pending")
    BY <1>0, <2>2, RowSet DEF RowStatuses
  <2>4. RowsOK' /\ StatusRows'
    BY <1>1, <1>3, <2>1, <2>3, ItsRowSet
  <2>5. QED
    BY <1>2, <2>1, <2>4, StopsRows
<1>11. CASE ActionFails(c)
  <2>1. UNCHANGED <<exec, effects, queue>> /\ Goto(c, "fail")
    BY <1>11 DEF ActionFails
  <2>2. OneRow' /\ StatSet(s, "failed")
    BY <1>0, <1>3, <1>11, StepRowSet DEF ActionFails, RowStatuses
  <2>3. "fail" \in Labels /\ LabelFits("fail", s)
    BY DEF Labels, ExecutorLabels, LabelFits
  <2>4. QED
    BY <1>1, <1>3, <2>1, <2>2, <2>3, GoesOnWithRow
<1>12. CASE FollowEdge(c)
  <2>1. PICK next \in Successors(s) : Continue(c, next)
    BY <1>3, <1>12 DEF FollowEdge
  <2>2. UNCHANGED <<exec, effects, queue>> /\ StepType[s] \in {"branch", "switch"}
    BY <1>2, <1>3, <1>12 DEF FollowEdge, At, WalkerOK, Walks, LabelFits
  <2>3. OneRow' /\ StatSet(s, "complete")
    BY <1>0, <1>3, <1>12, StepRowSet DEF FollowEdge, RowStatuses
  <2>4. QED
    BY <1>1, <1>3, <2>1, <2>2, <2>3, GoesAlongEdge
<1>13. CASE ReachStop(c)
  <2>1. UNCHANGED <<exec, effects, queue>> /\ Goto(c, "complete") /\ StepType[s] = "stop"
    BY <1>2, <1>3, <1>13 DEF ReachStop, At, WalkerOK, Walks, LabelFits
  <2>2. PICK i \in RowsOf(s) : rows' = [rows EXCEPT ![s][i].status = "complete"]
    BY <1>3, <1>13 DEF ReachStop
  <2>3. OneRow' /\ StatSet(s, "complete")
    BY <1>0, <2>2, RowSet DEF RowStatuses
  <2>4. QED
    BY <1>1, <1>3, <2>1, <2>3, GoesOnWithRow DEF Labels, ExecutorLabels, LabelFits
<1>14. CASE OpenGate(c)
  <2>1. /\ UNCHANGED <<exec, rows, effects, queue>> /\ Goto(c, "park_row")
        /\ worker[c].pc = "gate"
    BY <1>14 DEF OpenGate, At
  <2>2. StepType[s] \in ParkingTypes /\ Stat(s) = "running"
    BY <1>2, <1>3, <2>1 DEF WalkerOK, Walks, LabelFits, AfterClaim, ParkingTypes
  <2>3. StatSet(s, "running") /\ OneRow'
    BY <1>4, <2>1, <2>2 DEF StatSet, StatsKept
  <2>4. QED
    BY <1>1, <1>3, <2>1, <2>2, <2>3, GoesOnWithRow DEF Labels, ExecutorLabels, LabelFits, AfterClaim
<1>15. CASE GateWithoutModule(c)
  <2>1. UNCHANGED <<exec, effects, queue>> /\ Goto(c, "fail")
    BY <1>15 DEF GateWithoutModule
  <2>2. OneRow' /\ StatSet(s, "failed")
    BY <1>0, <1>3, <1>15, StepRowSet DEF GateWithoutModule, RowStatuses
  <2>3. "fail" \in Labels /\ LabelFits("fail", s)
    BY DEF Labels, ExecutorLabels, LabelFits
  <2>4. QED
    BY <1>1, <1>3, <2>1, <2>2, <2>3, GoesOnWithRow
<1>16. CASE ParkStepRow(c)
  <2>1. UNCHANGED <<exec, effects, queue>> /\ Goto(c, "park_exec")
    BY <1>16 DEF ParkStepRow
  <2>2. StepType[s] \in ParkingTypes
    BY <1>2, <1>3, <1>16 DEF ParkStepRow, At, WalkerOK, Walks, LabelFits
  <2>3. PICK i \in RowsOf(s) :
            rows' = [rows EXCEPT ![s][i].status = "waiting", ![s][i].due = FALSE]
    BY <1>3, <1>16 DEF ParkStepRow
  <2>4. OneRow' /\ StatSet(s, "waiting")
    BY <1>0, <2>3, RowSet DEF RowStatuses
  <2>5. QED
    BY <1>1, <1>3, <2>1, <2>2, <2>4, GoesOnWithRow DEF Labels, ExecutorLabels, LabelFits
<1>17. QED
  BY <1>6, <1>7, <1>8, <1>9, <1>10, <1>11, <1>12, <1>13, <1>14, <1>15, <1>16

LEMMA EndRows ==
    ASSUME RowsInv, NEW c \in Consumers, UNCHANGED wakerVars,
           \/ ExceedIterations(c) \/ ArriveAtStep(c) \/ ParkExecution(c)
           \/ CompleteExecution(c) \/ FailExecution(c) \/ OrphanOpenTasks(c)
    PROVE  RowsFit'
<1>0. /\ worker \in Workers /\ worker[c] \in WorkerState
      /\ exec \in ExecRow
      /\ TokenInv /\ RowsOK /\ EventOK(exec) /\ StatusRows /\ PendingRows
      /\ worker[c].pc = "arrive" => worker[c].step \in Steps
  BY DEF RowsInv, RowsFit, OutcomeInv, TokenInv, TypeInv, StoreTypeOK, ConsumersOK, ExecutorTypeOK,
         Workers, CursorOK, AtStep
<1>1. Walking(c) /\ WalkerOK(worker[c])
  BY DEF RowsInv, RowsFit, WalkersOK, Walking, At, ExceedIterations, ArriveAtStep, ParkExecution,
         CompleteExecution, FailExecution, OrphanOpenTasks
<1>2. exec.status = "pending" /\ Untouched => exec.current = NoStep
  BY <1>0 DEF PendingRows, New, Woken
<1>3. UNCHANGED <<rows, effects>>
  BY DEF ExceedIterations, ArriveAtStep, ParkExecution, CompleteExecution, FailExecution,
         OrphanOpenTasks, storeVars
<1>4. /\ RowsOK' /\ StatsKept
      /\ Untouched' <=> Untouched
      /\ AllClean' <=> AllClean
      /\ \A t : CleanBut(t)' <=> CleanBut(t)
  BY <1>0, <1>3 DEF RowsOK, OneRow, CleanBut, AllClean, Untouched, StatsKept, Stat
<1>5. CASE ExceedIterations(c)
  <2>1. /\ worker[c].pc = "arrive" /\ Goto(c, "fail") /\ UNCHANGED <<exec, queue>>
    BY <1>5 DEF ExceedIterations, At, storeVars
  <2>2. worker[c].mem = exec /\ exec.status = "running"
    BY <1>1, <2>1 DEF WalkerOK, Walks, AtStep
  <2>3. /\ OthersUnchanged(c) /\ worker'[c].pc = "fail" /\ worker'[c].mem = exec'
    BY <1>0, <2>1, <2>2, GotoFacts DEF Labels, ExecutorLabels
  <2>4. WalkerOK(worker[c])'
    BY <2>1, <2>2, <2>3
       DEF WalkerOK, Starts, Walks, Ends, Resumes, LabelFits, AtStep, AfterClaim, ResumeLabels
  <2>5. EventOK(exec)' /\ StatusRows'
    BY <1>0, <1>4, <2>1, <2>2 DEF StatusRows, EventOK
  <2>6. QED
    BY <1>1, <1>4, <2>1, <2>2, <2>3, <2>4, <2>5, WalkerSteps
<1>6. CASE ArriveAtStep(c)
  <2> DEFINE s == worker[c].step
             m == [worker[c].mem EXCEPT !.current = s]
             w == [worker[c] EXCEPT !.mem = m, !.snap = m, !.pc = "claim",
                                    !.iterations = @ + 1]
  <2>1. worker[c].pc = "arrive" /\ UNCHANGED queue
    BY <1>6 DEF ArriveAtStep, At
  <2>2. /\ s \in Steps /\ worker[c].mem = exec /\ exec.status = "running"
        /\ s = exec.current \/ (AllClean /\ WalksOn(exec.current, s))
    BY <1>0, <1>1, <2>1 DEF WalkerOK, Walks, AtStep
  <2>3. m \in ExecRow /\ m.status = "running" /\ m.current = s /\ m.event = exec.event
    BY <1>0, <2>2 DEF ExecRow, Targets
  <2>4. exec' = DirtyFields(exec, worker[c].snap, m)
    BY <1>6 DEF ArriveAtStep
  <2>5. worker[c].snap = exec
    BY <1>0, <2>1 DEF TokenInv, Owned, WalkerViewIsFresh, Walking
  <2>6. worker' = [worker EXCEPT ![c] = w]
    BY <1>0, <1>6 DEF ArriveAtStep, Workers
  <2> HIDE DEF m
  <2>7. exec' = m
    BY <1>0, <2>3, <2>4, <2>5, FreshSave
  <2>8. w.pc = "claim" /\ w.mem = m /\ w.step = s
    BY <1>0 DEF WorkerState
  <2> HIDE DEF w
  <2>9. worker'[c] = w /\ OthersUnchanged(c)
    BY <1>0, <2>6 DEF Workers, OthersUnchanged
  <2>10. EventOK(exec)'
    BY <1>0, <2>2, <2>3, <2>7 DEF EventOK, WalksOn
  <2>11. CleanBut(s)
    BY <1>0, <2>2 DEF StatusRows, CleanBut, AllClean
  <2>12. StatusRows'
    BY <1>4, <2>3, <2>7, <2>11 DEF StatusRows
  <2>13. WalkerOK(worker[c])'
    BY <2>3, <2>7, <2>8, <2>9
       DEF WalkerOK, Starts, Walks, Ends, Resumes, LabelFits, AtStep, AfterClaim, ResumeLabels
  <2>14. QED
    BY <1>1, <1>4, <2>1, <2>3, <2>7, <2>9, <2>10, <2>12, <2>13, WalkerSteps
<1>7. CASE ParkExecution(c)
  <2>1. worker[c].pc = "park_exec" /\ UNCHANGED queue
    BY <1>7 DEF ParkExecution, At
  <2>2. PICK s \in Steps : s = worker[c].step
    BY <2>1, AtTheCursor DEF OnItsStep, AtStep
  <2>3. /\ s = exec.current /\ worker[c].mem = exec /\ CleanBut(s)
        /\ Stat(s) = "waiting" /\ StepType[s] \in ParkingTypes
    BY <1>1, <2>1, <2>2, AtTheCursor DEF OnItsStep, AtStep, WalkerOK, Walks, LabelFits
  <2> DEFINE m == ParkedAs(s, exec)
  <2>4. m \in ExecRow
    BY <1>0, ParkedType
  <2>5. /\ m.status = "waiting"
        /\ m.current = IF StepType[s] = "delay" THEN Edge[s]["next"] ELSE s
        /\ m.event = IF StepType[s] = "wait" THEN EventOf[s] ELSE NoEvent
    <3>1. CASE StepType[s] = "delay"
      <4>1. exec.event = NoEvent
        BY <1>0, <2>3, <3>1 DEF EventOK
      <4>2. QED
        BY <1>0, <3>1, <4>1 DEF ParkedAs, ExecRow
    <3>2. CASE StepType[s] # "delay"
      BY <3>2 DEF ParkedAs
    <3>3. QED
      BY <3>1, <3>2
  <2>6. SaveAs(c, m, "ack")
    BY <1>7, <2>2, <2>3 DEF ParkExecution
  <2> HIDE DEF m
  <2>7. exec' = m /\ OthersUnchanged(c) /\ ~Walking(c)'
    BY <1>0, <1>1, <2>1, <2>4, <2>6, SavedAsMade DEF Walking, Loading, Labels, ExecutorLabels
  <2>8. ParkedOn(s)'
    BY <1>4, <2>3, <2>5, <2>7 DEF ParkedOn, StatsKept
  <2>9. EventOK(exec)' /\ StatusRows'
    BY <2>2, <2>5, <2>7, <2>8, DefinitionAssumption DEF EventOK, StatusRows
  <2>10. QED
    BY <1>1, <1>4, <2>1, <2>5, <2>7, <2>9, WalkerSteps
<1>8. CASE CompleteExecution(c)
  <2> DEFINE m == [worker[c].mem EXCEPT !.status = "complete", !.current = NoStep]
  <2>1. SaveAs(c, m, "ack") /\ worker[c].pc = "complete" /\ UNCHANGED queue
    BY <1>8 DEF CompleteExecution, At
  <2>2. worker[c].mem = exec
    BY <1>1, <2>1 DEF WalkerOK, Ends
  <2>3. m \in ExecRow /\ m.status = "complete" /\ m.current = NoStep /\ m.event = exec.event
    BY <1>0, <2>2 DEF ExecRow, Statuses, Terminal, Targets
  <2> HIDE DEF m
  <2>4. exec' = m /\ OthersUnchanged(c) /\ ~Walking(c)'
    BY <1>0, <1>1, <2>1, <2>3, SavedAsMade DEF Walking, Loading, Labels, ExecutorLabels
  <2>5. AllClean
    BY <1>1, <2>1 DEF WalkerOK, Ends
  <2>c. \A t : CleanBut(t)
    BY <2>5 DEF AllClean, CleanBut
  <2>6. exec.event = NoEvent
    <3>1. CASE exec.status = "pending"
      <4>1. exec.current = NoStep
        BY <1>1, <1>2, <2>1, <3>1 DEF WalkerOK, Ends
      <4>2. QED
        BY <1>0, <4>1, DefinitionAssumption DEF EventOK
    <3>2. CASE exec.current = NoStep
      BY <1>0, <3>2, DefinitionAssumption DEF EventOK
    <3>3. CASE exec.current \in Steps /\ StepType[exec.current] # "wait"
      BY <1>0, <3>3 DEF EventOK
    <3>4. QED
      BY <1>1, <2>1, <3>1, <3>2, <3>3 DEF WalkerOK, Ends, WalksOn
  <2>7. EventOK(exec)' /\ StatusRows'
    BY <1>4, <2>3, <2>4, <2>5, <2>6, <2>c DEF EventOK, StatusRows
  <2>8. QED
    BY <1>1, <1>4, <2>1, <2>3, <2>4, <2>7, WalkerSteps
<1>9. CASE FailExecution(c)
  <2> DEFINE m == [worker[c].mem EXCEPT !.status = "failed"]
             label == IF ApprovalsInstalled THEN "orphan" ELSE "ack"
  <2>1. SaveAs(c, m, label) /\ worker[c].pc = "fail" /\ UNCHANGED queue
    BY <1>9 DEF FailExecution, At
  <2>2. worker[c].mem = exec
    BY <1>1, <2>1 DEF WalkerOK, Ends
  <2>3. /\ m \in ExecRow /\ m.status = "failed"
        /\ m.current = exec.current /\ m.event = exec.event
    BY <1>0, <2>2 DEF ExecRow, Statuses, Terminal
  <2>4. label \in Labels /\ label \in {"orphan", "ack"}
    BY DEF Labels, ExecutorLabels
  <2> HIDE DEF m, label
  <2>5. exec' = m /\ OthersUnchanged(c) /\ worker'[c].pc = label
    BY <1>0, <1>1, <2>1, <2>3, <2>4, SavedAsMade DEF Loading
  <2>c. CleanBut(exec.current)
    <3>1. CASE exec.status = "pending"
      BY <1>1, <2>1, <3>1 DEF WalkerOK, Ends, Untouched, CleanBut
    <3>2. CASE exec.status # "pending"
      BY <1>0, <1>1, <3>2, WalkedIsNotParked DEF StatusRows
    <3>3. QED
      BY <3>1, <3>2
  <2>6. EventOK(exec)' /\ StatusRows'
    BY <1>0, <1>4, <2>3, <2>5, <2>c DEF EventOK, StatusRows
  <2>7. WalkerOK(worker[c])'
    BY <2>4, <2>5
       DEF WalkerOK, Starts, Walks, Ends, Resumes, LabelFits, AtStep, AfterClaim, ResumeLabels
  <2>8. QED
    BY <1>1, <1>4, <2>1, <2>3, <2>5, <2>6, <2>7, WalkerSteps
<1>10. CASE OrphanOpenTasks(c)
  <2>1. worker[c].pc = "orphan" /\ Goto(c, "ack") /\ UNCHANGED <<exec, queue>>
    BY <1>10 DEF OrphanOpenTasks, At
  <2>2. OthersUnchanged(c) /\ ~Walking(c)'
    BY <1>0, <2>1, GotoFacts DEF Walking, Labels, ExecutorLabels
  <2>3. exec.status \in Terminal
    BY <1>1, <2>1 DEF RowsInv, OutcomeInv, Settled, Loading
  <2>4. EventOK(exec)' /\ StatusRows'
    BY <1>0, <1>4, <2>1, <2>3 DEF StatusRows, EventOK, Terminal
  <2>5. QED
    BY <1>1, <1>4, <2>1, <2>2, <2>3, <2>4, WalkerSteps DEF Terminal
<1>11. QED
  BY <1>5, <1>6, <1>7, <1>8, <1>9, <1>10
-----------------------------------------------------------------------------
LEMMA ResumeRows ==
    ASSUME RowsInv, NEW c \in Consumers, ResumeStep(c), UNCHANGED wakerVars
    PROVE  RowsFit'
<1>0. /\ worker \in Workers /\ worker[c] \in WorkerState
      /\ exec \in ExecRow /\ rows \in RowTable
      /\ TokenInv /\ RowsOK /\ OneRow /\ EventOK(exec) /\ StatusRows /\ PendingRows
  BY DEF RowsInv, RowsFit, RowsOK, OutcomeInv, TokenInv, TypeInv, StoreTypeOK, ConsumersOK,
         ExecutorTypeOK, Workers, RowTable
<1>1. Walking(c) /\ WalkerOK(worker[c]) /\ exec.status # "waiting"
  <2>1. Walking(c)
    BY DEF Walking, At, ResumeStep, DropResume, LoadParked, FetchParked, CloseParkedRows, ExpireGate,
           MarkRunning
  <2>2. QED
    BY <1>0, <2>1, WalkedIsNotParked DEF RowsInv, RowsFit, WalkersOK
<1>2. ASSUME UNCHANGED <<exec, rows, effects>>
      PROVE  /\ RowsOK' /\ EventOK(exec)' /\ StatusRows' /\ StatsKept
             /\ NoneWaits' <=> NoneWaits
             /\ \A t : CleanBut(t)' <=> CleanBut(t)
  BY <1>0, <1>2 DEF RowsOK, OneRow, EventOK, StatusRows, ParkedOn, CleanBut, AllClean, NoneWaits,
                    StatsKept, Stat
<1>3. CASE DropResume(c)
  <2>1. UNCHANGED <<exec, rows, effects, queue>> /\ exec.status \in Terminal /\ Goto(c, "ack")
    BY <1>3 DEF DropResume, storeVars
  <2>2. OthersUnchanged(c) /\ ~Walking(c)'
    BY <1>0, <2>1, GotoFacts DEF Walking, Labels, ExecutorLabels
  <2>3. QED
    BY <1>1, <1>2, <2>1, <2>2, WalkerSteps DEF Terminal
<1>4. CASE LoadParked(c)
  <2>1. UNCHANGED <<exec, rows, effects, queue>> /\ worker[c].pc = "resume_load"
        /\ LoadAs(c, exec, "fetch")
    BY <1>4 DEF LoadParked, At, storeVars
  <2>2. /\ OthersUnchanged(c) /\ worker'[c].pc = "fetch" /\ worker'[c].mem = exec'
        /\ worker'[c].topic = worker[c].topic
    BY <1>0, <2>1, LoadFacts DEF Labels, ResumeLabels
  <2>3. worker[c].topic = "resume"
    BY <1>1, <2>1 DEF WalkerOK, Resumes, ResumeLabels
  <2>4. WalkerOK(worker[c])'
    BY <2>2, <2>3
       DEF WalkerOK, Starts, Walks, Ends, Resumes, LabelFits, AtStep, AfterClaim, ResumeLabels
  <2>5. QED
    BY <1>1, <1>2, <2>1, <2>2, <2>4, WalkerSteps
<1>5. CASE FetchParked(c)
  <2>1. UNCHANGED <<exec, rows, effects, queue>> /\ worker[c].pc = "fetch"
    BY <1>5 DEF FetchParked, At, storeVars
  <2>2. /\ worker[c].mem = exec /\ worker[c].topic = "resume"
    BY <1>1, <2>1 DEF WalkerOK, Resumes, ResumeLabels
  <2>3. PICK parked :
            /\ IF parked.step = NoStep THEN NoneWaits
               ELSE parked.step \in Steps /\ Stat(parked.step) = "waiting"
            /\ \/ worker' = [worker EXCEPT ![c].parked = parked, ![c].pc = "close"]
               \/ worker' = [worker EXCEPT ![c].pc = "close", ![c].parked = parked]
    <3>1. CASE /\ WaitingRows = {}
               /\ worker' = [worker EXCEPT ![c].parked = NoParked, ![c].pc = "close"]
      <4>1. NoneWaits
        <5> SUFFICES ASSUME NEW s \in Steps, Stat(s) = "waiting" PROVE FALSE
          BY DEF NoneWaits
        <5>1. <<s, 1>> \in WaitingRows
          BY FirstSlot DEF WaitingRows, Stat
        <5>2. QED
          BY <3>1, <5>1
      <4>2. QED
        BY <3>1, <4>1 DEF NoParked
    <3>2. CASE \E p \in WaitingRows :
                  worker' = [worker EXCEPT ![c].pc = "close",
                      ![c].parked = [step |-> p[1], result |-> rows[p[1]][p[2]].result]]
      <4>1. PICK p \in WaitingRows :
                worker' = [worker EXCEPT ![c].pc = "close",
                      ![c].parked = [step |-> p[1], result |-> rows[p[1]][p[2]].result]]
        BY <3>2
      <4>2. p[1] \in Steps /\ Stat(p[1]) = "waiting" /\ p[1] # NoStep
        BY <1>0, DefinitionAssumption DEF WaitingRows, OneRow, Stat
      <4>3. QED
        BY <4>1, <4>2
    <3>3. QED
      BY <1>5, <3>1, <3>2 DEF FetchParked
  <2>4. /\ OthersUnchanged(c) /\ worker'[c].pc = "close" /\ worker'[c].mem = exec'
        /\ worker'[c].topic = "resume" /\ worker'[c].parked = parked
    <3>1. CASE worker' = [worker EXCEPT ![c].parked = parked, ![c].pc = "close"]
      BY <1>0, <2>1, <2>2, <3>1 DEF Workers, WorkerState, OthersUnchanged
    <3>2. CASE worker' = [worker EXCEPT ![c].pc = "close", ![c].parked = parked]
      BY <1>0, <2>1, <2>2, <3>2 DEF Workers, WorkerState, OthersUnchanged
    <3>3. QED
      BY <2>3, <3>1, <3>2
  <2>5. IF parked.step = NoStep THEN NoneWaits'
        ELSE parked.step \in Steps /\ Stat(parked.step)' = "waiting"
    BY <1>2, <2>1, <2>3 DEF StatsKept
  <2>6. WalkerOK(worker[c])'
    <3>1. Starts(worker[c])' /\ Walks(worker[c])' /\ Ends(worker[c])'
      BY <2>4 DEF Starts, Walks, Ends, LabelFits, AtStep, AfterClaim
    <3>2. Resumes(worker[c])'
      BY <2>4, <2>5 DEF Resumes, Stat
    <3>3. QED
      BY <3>1, <3>2 DEF WalkerOK
  <2>7. QED
    BY <1>1, <1>2, <2>1, <2>2, <2>4, <2>6, WalkerSteps
<1>6. CASE CloseParkedRows(c)
  <2>0. PICK parked, m : parked = worker[c].parked /\ m = Routed(parked, exec)
    OBVIOUS
  <2> DEFINE label == IF ApprovalsInstalled /\ IsGate(parked.step) /\ parked.result \notin Verdicts
                      THEN "expire" ELSE "mark_running"
             w == [worker[c] EXCEPT !.mem = m, !.pc = label]
  <2>1. /\ UNCHANGED <<exec, effects, queue>> /\ worker[c].pc = "close"
        /\ rows' = [s \in Steps |-> [i \in Slots |->
                      IF rows[s][i].status = "waiting"
                      THEN [rows[s][i] EXCEPT !.status = "complete"] ELSE rows[s][i]]]
    BY <1>6 DEF CloseParkedRows, At
  <2>2. /\ worker[c].mem = exec /\ worker[c].topic = "resume"
        /\ IF parked.step = NoStep THEN NoneWaits
           ELSE parked.step \in Steps /\ Stat(parked.step) = "waiting"
    BY <1>1, <2>0, <2>1 DEF WalkerOK, Resumes, ResumeLabels
  <2>3. exec.status \in {"pending", "running"}
    BY <1>0, <1>1, <2>1 DEF RowsInv, OutcomeInv, Settled, Loading, ExecRow, Statuses
  <2>4. OneRow' /\ WaitsClosed
    BY <1>0, <2>1, WaitingRowsMapped DEF RowStatuses
  <2>5. worker' = [worker EXCEPT ![c] = w]
    BY <1>0, <1>6, <2>0, <2>2 DEF CloseParkedRows, Workers
  <2>6. w.mem = m /\ w.pc = label /\ w.topic = "resume" /\ w.parked = parked
    BY <1>0, <2>0, <2>2 DEF WorkerState
  <2>7. label \in {"expire", "mark_running"}
    OBVIOUS
  <2> HIDE DEF w, label
  <2>8. OthersUnchanged(c) /\ worker'[c] = w
    BY <1>0, <2>5 DEF Workers, OthersUnchanged
  <2>9. \A s \in Steps : Stat(s) = "waiting" =>
            AllClean' /\ (StepType[s] # "delay" => exec.current = s)
    <3> SUFFICES ASSUME NEW s \in Steps, Stat(s) = "waiting"
                 PROVE  AllClean' /\ (StepType[s] # "delay" => exec.current = s)
      OBVIOUS
    <3>1. CleanBut(s) /\ (StepType[s] # "delay" => exec.current = s)
      <4>1. CASE exec.status = "running"
        BY <1>0, <4>1 DEF StatusRows, CleanBut
      <4>2. CASE exec.status = "pending"
        BY <1>0, <4>2 DEF PendingRows, New, Woken, Untouched, AllClean, ParkedOn, CleanBut
      <4>3. QED
        BY <2>3, <4>1, <4>2
    <3>2. AllClean'
      BY <2>4, <3>1 DEF CleanBut, AllClean, WaitsClosed
    <3>3. QED
      BY <3>1, <3>2
  <2>10. NoneWaits /\ exec.status = "pending" => AllClean
    BY <1>0 DEF PendingRows, New, Woken, Untouched, AllClean, ParkedOn, NoneWaits
  <2>11. \A t : (CleanBut(t) => CleanBut(t)') /\ (AllClean => AllClean') /\ (AllClean' => CleanBut(t)')
    BY <2>4 DEF CleanBut, AllClean, WaitsClosed
  <2>12. NoneWaits'
    BY <2>4 DEF NoneWaits, WaitsClosed
  <2>13. RowsOK'
    BY <1>0, <2>1, <2>4 DEF RowsOK, WaitsClosed, ParkingTypes
  <2>14. EventOK(exec)' /\ StatusRows'
    BY <1>0, <2>1, <2>3, <2>11 DEF EventOK, StatusRows
  <2>15. m.current # exec.current =>
             /\ parked.step = exec.current
             /\ exec.current \in Steps
             /\ StepType[exec.current] \in {"wait", "approval"}
    BY <2>0, <2>2, <2>9 DEF Routed
  <2>16. CleanBut(m.current)'
    <3>1. CASE parked.step = NoStep
      <4>1. m = exec
        BY <2>0, <3>1 DEF Routed
      <4>2. CleanBut(exec.current) \/ AllClean
        BY <1>0, <2>2, <2>3, <2>10, <3>1 DEF StatusRows
      <4>3. QED
        BY <2>1, <2>11, <4>1, <4>2
    <3>2. CASE parked.step # NoStep
      BY <2>2, <2>9, <2>11, <3>2
    <3>3. QED
      BY <3>1, <3>2
  <2>17. WalkerOK(worker[c])'
    <3>1. Starts(worker[c])' /\ Walks(worker[c])' /\ Ends(worker[c])'
      BY <2>6, <2>7, <2>8 DEF Starts, Walks, Ends, LabelFits, AtStep, AfterClaim
    <3>2. Resumes(worker[c])'
      BY <2>0, <2>1, <2>3, <2>6, <2>7, <2>8, <2>12, <2>15, <2>16 DEF Resumes
    <3>3. QED
      BY <3>1, <3>2 DEF WalkerOK
  <2>18. QED
    BY <1>1, <2>1, <2>2, <2>4, <2>6, <2>8, <2>13, <2>14, <2>17, WalkerSteps
<1>7. CASE ExpireGate(c)
  <2>1. UNCHANGED <<exec, rows, effects, queue>> /\ worker[c].pc = "expire" /\ Goto(c, "mark_running")
    BY <1>7 DEF ExpireGate, At
  <2>2. /\ OthersUnchanged(c) /\ worker'[c].pc = "mark_running"
        /\ worker'[c].mem = worker[c].mem /\ worker'[c].topic = worker[c].topic
        /\ worker'[c].parked = worker[c].parked
    BY <1>0, <2>1, GotoFacts DEF Labels, ResumeLabels
  <2>3. WalkerOK(worker[c])'
    <3>1. Starts(worker[c])' /\ Walks(worker[c])' /\ Ends(worker[c])'
      BY <2>2 DEF Starts, Walks, Ends, LabelFits, AtStep, AfterClaim
    <3>2. Resumes(worker[c])'
      BY <1>1, <1>2, <2>1, <2>2 DEF WalkerOK, Resumes, ResumeLabels
    <3>3. QED
      BY <3>1, <3>2 DEF WalkerOK
  <2>4. QED
    BY <1>1, <1>2, <2>1, <2>2, <2>3, WalkerSteps
<1>8. CASE MarkRunning(c)
  <2> DEFINE m == [worker[c].mem EXCEPT !.status = "running"]
  <2>1. /\ SaveAs(c, m, "load") /\ worker[c].pc = "mark_running"
        /\ UNCHANGED <<rows, effects, queue>>
    BY <1>8 DEF MarkRunning, At
  <2>2. /\ worker[c].mem \in ExecRow /\ worker[c].mem = Routed(worker[c].parked, exec)
        /\ CleanBut(worker[c].mem.current)
    BY <1>0, <1>1, <2>1 DEF WorkerState, WalkerOK, Resumes
  <2>3. /\ m \in ExecRow /\ m.status = "running"
        /\ m.current = worker[c].mem.current /\ m.event = worker[c].mem.event
    BY <2>2 DEF ExecRow, Statuses
  <2> HIDE DEF m
  <2>4. exec' = m /\ OthersUnchanged(c) /\ worker'[c].pc = "load"
    BY <1>0, <1>1, <2>1, <2>3, SavedAsMade DEF Loading, Labels, ExecutorLabels
  <2>5. RowsOK'
    BY <1>0, <2>1 DEF RowsOK, OneRow, Stat
  <2>6. EventOK(exec)'
    <3>1. worker[c].mem = exec \/ worker[c].mem.event = NoEvent
      BY <1>0, <2>2 DEF Routed, ExecRow
    <3>2. QED
      BY <1>0, <2>3, <2>4, <3>1 DEF EventOK
  <2>7. StatusRows'
    BY <2>1, <2>2, <2>3, <2>4 DEF StatusRows, CleanBut, Stat
  <2>8. WalkerOK(worker[c])'
    BY <2>3, <2>4
       DEF WalkerOK, Starts, Walks, Ends, Resumes, LabelFits, AtStep, AfterClaim, ResumeLabels
  <2>9. QED
    BY <1>1, <2>1, <2>3, <2>4, <2>5, <2>6, <2>7, <2>8, WalkerSteps
<1>9. QED
  BY <1>3, <1>4, <1>5, <1>6, <1>7, <1>8 DEF ResumeStep

LEMMA ExecutorRows ==
    ASSUME RowsInv, NEW c \in Consumers, ExecutorStep(c), UNCHANGED wakerVars
    PROVE  RowsFit'
<1>1. CASE Acknowledge(c)
  <2>1. /\ worker' = [worker EXCEPT ![c] = IdleWorker]
        /\ UNCHANGED <<exec, rows, queue, effects>>
    BY <1>1 DEF Acknowledge, storeVars
  <2>2. RowsOK' /\ StatusRows' /\ StatsKept
    BY <2>1 DEF RowsInv, RowsFit, RowsOK, OneRow, StatusRows, ParkedOn, CleanBut, AllClean, StatsKept,
                Stat
  <2>3. QED
    BY <2>1, <2>2, StopsRows
<1>2. QED
  BY <1>1, StartRows, WalkRows, EndRows DEF ExecutorStep
-----------------------------------------------------------------------------
(***************************************************************************)
(* The kinds of steps the wakers take, and time with them: a claim of the  *)
(* parked execution, a claim turned into a resume message or given back, a *)
(* message for a walk that was left at its step, and steps that touch      *)
(* neither the execution nor the status of a row.                          *)
(***************************************************************************)
ParkClaimed == ClaimWaiting /\ UNCHANGED <<rows, queue, executorVars>>

ClaimPublished == ClaimHeld /\ Publish("resume") /\ UNCHANGED <<exec, rows, executorVars>>

ClaimReturned == ClaimHeld /\ RollbackClaim /\ UNCHANGED <<rows, queue, executorVars>>

ZombiePublished ==
    /\ "claim_ages" \in FaultKinds
    /\ Idle /\ exec.status \notin {"pending", "waiting"} /\ ClaimLeft
    /\ Publish("execute")
    /\ UNCHANGED <<exec, rows, executorVars>>

StatusesLeft ==
    /\ UNCHANGED <<exec, queue, executorVars>>
    /\ NoNewHolder
    /\ OneRow' /\ StatsKept

WakerKind ==
    ParkClaimed \/ ClaimPublished \/ ClaimReturned \/ ZombiePublished \/ StatusesLeft

LEMMA SweeperKind ==
    ASSUME TokenInv, OneRow, SweeperStep, UNCHANGED approvalVars
    PROVE  WakerKind
<1>0. /\ sweeper \in SweeperState /\ IdleSweep.pc = "idle" /\ StaleFits
      /\ rows \in RowTable
      /\ sweeper.pc = "reclaim" => sweeper.row[1] \in Steps /\ sweeper.row[2] \in Slots
  BY DEF TokenInv, Owned, TypeInv, StoreTypeOK, RowTable, WakersOK, ResumeTypeOK, IdleSweep
<1>1. UNCHANGED rows => OneRow' /\ StatsKept
  BY DEF OneRow, StatsKept, Stat
<1>2. ASSUME UNCHANGED delivery, SweepHolds' => SweepHolds PROVE NoNewHolder
  BY <1>2 DEF NoNewHolder, DeliveryHolds, ApproverHolds, approvalVars
<1>3. CASE SelectDue
  BY <1>0, <1>1, <1>2, <1>3 DEF SelectDue, SweeperState, SweepHolds, storeVars, WakerKind, StatusesLeft
<1>4. CASE ClaimDue
  BY <1>0, <1>1, <1>2, <1>4 DEF ClaimDue, SweepHolds, WakerKind, ParkClaimed, StatusesLeft
<1>5. CASE PublishDue
  <2>1. SweepHolds /\ ClaimHeld
    BY <1>5 DEF PublishDue, SweepHolds, ClaimHeld
  <2>2. QED
    BY <1>1, <1>2, <1>5, <2>1 DEF PublishDue, WakerKind, ClaimPublished, StatusesLeft
<1>6. CASE RollbackDue
  BY <1>6 DEF RollbackDue, SweepHolds, ClaimHeld, WakerKind, ClaimReturned
<1>7. CASE SelectZombie
  BY <1>0, <1>1, <1>2, <1>7 DEF SelectZombie, SweepHolds, storeVars, WakerKind, StatusesLeft
<1>8. CASE ReclaimZombie
  <2>1. OneRow' /\ StatsKept
    BY <1>0, <1>1, <1>8, FlagSet DEF ReclaimZombie
  <2>2. SweepHolds' => SweepHolds
    BY <1>0, <1>8 DEF ReclaimZombie, SweepHolds
  <2>3. QED
    BY <1>2, <1>8, <2>1, <2>2 DEF ReclaimZombie, WakerKind, StatusesLeft
<1>9. CASE RepublishZombie
  <2>1. /\ "claim_ages" \in FaultKinds /\ Idle
        /\ exec.status \notin {"pending", "waiting"} /\ ClaimLeft
    BY <1>0, <1>9 DEF RepublishZombie, StaleFits, NothingStale, Stranded, Republishing
  <2>2. SweepHolds' => SweepHolds
    BY <1>0, <1>9 DEF RepublishZombie, SweepHolds
  <2>3. QED
    BY <1>1, <1>2, <1>9, <2>1, <2>2 DEF RepublishZombie, WakerKind, ZombiePublished, StatusesLeft
<1>10. QED
  BY <1>3, <1>4, <1>5, <1>6, <1>7, <1>8, <1>9 DEF SweeperStep

LEMMA DeliveryKind ==
    ASSUME TokenInv, OneRow, NEW d \in Deliveries, DeliveryStep(d), UNCHANGED approvalVars
    PROVE  WakerKind
<1>0. /\ delivery \in [Deliveries -> DeliveryState] /\ rows \in RowTable
      /\ IdleDelivery.pc = "idle"
  BY DEF TokenInv, TypeInv, StoreTypeOK, RowTable, WakersOK, ResumeTypeOK, IdleDelivery
<1>1. UNCHANGED rows => OneRow' /\ StatsKept
  BY DEF OneRow, StatsKept, Stat
<1>2. ASSUME DeliveryHolds(d)' => DeliveryHolds(d) PROVE NoNewHolder
  <2>1. UNCHANGED sweeper /\ \A e \in Deliveries \ {d} : delivery'[e] = delivery[e]
    BY <1>0 DEF DeliveryStep, SelectParkedOn, ClaimForEvent, WriteResolution, PublishEvent,
                RollbackEvent
  <2>2. QED
    BY <1>2, <2>1 DEF NoNewHolder, SweepHolds, DeliveryHolds, ApproverHolds, approvalVars
<1>3. CASE SelectParkedOn(d)
  <2>1. delivery'[d].pc = "claim"
    BY <1>0, <1>3 DEF SelectParkedOn
  <2>2. QED
    BY <1>1, <1>2, <1>3, <2>1 DEF SelectParkedOn, DeliveryHolds, storeVars, WakerKind, StatusesLeft
<1>4. CASE ClaimForEvent(d)
  BY <1>0, <1>1, <1>2, <1>4 DEF ClaimForEvent, DeliveryHolds, WakerKind, ParkClaimed, StatusesLeft
<1>5. CASE WriteResolution(d)
  <2>1. OneRow' /\ StatsKept
    BY <1>0, <1>5, WaitingRowsMapped DEF WriteResolution, Resolutions, RowStatuses
  <2>2. DeliveryHolds(d)
    BY <1>5 DEF WriteResolution, DeliveryHolds
  <2>3. QED
    BY <1>2, <1>5, <2>1, <2>2 DEF WriteResolution, WakerKind, StatusesLeft
<1>6. CASE PublishEvent(d)
  <2>1. DeliveryHolds(d) /\ ClaimHeld
    BY <1>6 DEF PublishEvent, DeliveryHolds, ClaimHeld
  <2>2. QED
    BY <1>1, <1>2, <1>6, <2>1 DEF PublishEvent, WakerKind, ClaimPublished, StatusesLeft
<1>7. CASE RollbackEvent(d)
  BY <1>7 DEF RollbackEvent, DeliveryHolds, ClaimHeld, WakerKind, ClaimReturned
<1>8. QED
  BY <1>3, <1>4, <1>5, <1>6, <1>7 DEF DeliveryStep

LEMMA ApproverKind ==
    ASSUME TokenInv, OneRow, NEW a \in Approvers, ApproverStep(a)
    PROVE  WakerKind
<1>0. /\ approver \in [Approvers -> ApproverState] /\ approver[a] \in ApproverState
      /\ rows \in RowTable
      /\ approver[a].pc # "idle" => approver[a].gate \in Steps
      /\ approver[a].verdict \in Resolutions
      /\ IdleApprover.pc = "idle"
  BY DEF TokenInv, TypeInv, StoreTypeOK, RowTable, WakersOK, ApprovalTypeOK, ApproverState,
         IdleApprover, Verdicts, Resolutions
<1>1. UNCHANGED rows => OneRow' /\ StatsKept
  BY DEF OneRow, StatsKept, Stat
<1>2. ASSUME ApproverHolds(a)' => ApproverHolds(a) PROVE NoNewHolder
  <2>1. UNCHANGED resumeVars /\ \A b \in Approvers \ {a} : approver'[b] = approver[b]
    BY <1>0 DEF ApproverStep, ClaimTask, ClaimGate, WriteVerdict, PublishVerdict, ClearVerdict,
                RollbackGate, ReopenTask, ApproverGoto, ApproverDone
  <2>2. QED
    BY <1>2, <2>1 DEF NoNewHolder, SweepHolds, DeliveryHolds, ApproverHolds, resumeVars
<1>3. ASSUME NEW label, ApproverGoto(a, label) PROVE approver'[a].pc = label
  BY <1>0, <1>3 DEF ApproverGoto, ApproverState
<1>4. CASE ClaimTask(a)
  <2>1. approver'[a].pc = "claim"
    BY <1>0, <1>4 DEF ClaimTask
  <2>2. QED
    BY <1>1, <1>2, <1>4, <2>1 DEF ClaimTask, ApproverHolds, WakerKind, StatusesLeft
<1>5. CASE ClaimGate(a)
  BY <1>1, <1>2, <1>3, <1>5 DEF ClaimGate, ApproverHolds, WakerKind, ParkClaimed, StatusesLeft
<1>6. CASE WriteVerdict(a)
  <2>1. OneRow' /\ StatsKept
    BY <1>0, <1>6, GateResultSet DEF WriteVerdict, ApproverAt
  <2>2. ApproverHolds(a)
    BY <1>6 DEF WriteVerdict, ApproverAt, ApproverHolds
  <2>3. QED
    BY <1>2, <1>6, <2>1, <2>2 DEF WriteVerdict, WakerKind, StatusesLeft
<1>7. CASE PublishVerdict(a)
  <2>1. ApproverHolds(a) /\ ClaimHeld
    BY <1>7 DEF PublishVerdict, ApproverAt, ApproverHolds, ClaimHeld
  <2>2. QED
    BY <1>1, <1>2, <1>7, <2>1 DEF PublishVerdict, WakerKind, ClaimPublished, StatusesLeft
<1>8. CASE ClearVerdict(a)
  <2>1. OneRow' /\ StatsKept
    BY <1>0, <1>8, GateResultSet DEF ClearVerdict, ApproverAt
  <2>2. ApproverHolds(a)
    BY <1>8 DEF ClearVerdict, ApproverAt, ApproverHolds
  <2>3. QED
    BY <1>2, <1>8, <2>1, <2>2 DEF ClearVerdict, WakerKind, StatusesLeft
<1>9. CASE RollbackGate(a)
  BY <1>9 DEF RollbackGate, ApproverAt, ApproverHolds, ClaimHeld, WakerKind, ClaimReturned
<1>10. CASE ReopenTask(a)
  <2>1. approver'[a].pc = "idle"
    BY <1>0, <1>10 DEF ReopenTask, ApproverDone
  <2>2. QED
    BY <1>1, <1>2, <1>10, <2>1 DEF ReopenTask, ApproverHolds, WakerKind, StatusesLeft
<1>11. QED
  BY <1>4, <1>5, <1>6, <1>7, <1>8, <1>9, <1>10 DEF ApproverStep

LEMMA OtherKind ==
    ASSUME NoDuplicates, TokenInv, OneRow,
           ReconcilerStep \/ WakerCrash \/ Time \/ UNCHANGED vars
    PROVE  StatusesLeft
<1>0. /\ rows \in RowTable
      /\ delivery \in [Deliveries -> DeliveryState] /\ approver \in [Approvers -> ApproverState]
      /\ IdleSweep.pc = "idle" /\ IdleDelivery.pc = "idle" /\ IdleApprover.pc = "idle"
  BY DEF TokenInv, TypeInv, StoreTypeOK, RowTable, WakersOK, ResumeTypeOK, ApprovalTypeOK, IdleSweep,
         IdleDelivery, IdleApprover
<1>1. UNCHANGED rows => OneRow' /\ StatsKept
  BY DEF OneRow, StatsKept, Stat
<1>2. ASSUME UNCHANGED <<sweeper, delivery, approver>> PROVE NoNewHolder
  BY <1>2 DEF NoNewHolder, SweepHolds, DeliveryHolds, ApproverHolds
<1>3. CASE ReconcilerStep
  BY <1>1, <1>2, <1>3 DEF ReconcilerStep, SelectOpenTasks, SelectExecutions, CloseTask, storeVars,
                          resumeVars, StatusesLeft
<1>4. CASE WakerCrash
  <2>1. NoNewHolder
    <3>1. CASE SweeperCrash
      BY <1>0, <3>1 DEF SweeperCrash, NoNewHolder, SweepHolds, DeliveryHolds, ApproverHolds,
                        approvalVars
    <3>2. ASSUME NEW d \in Deliveries, DeliveryCrash(d) PROVE NoNewHolder
      BY <1>0, <3>2 DEF DeliveryCrash, NoNewHolder, SweepHolds, DeliveryHolds, ApproverHolds,
                        approvalVars
    <3>3. ASSUME NEW a \in Approvers, ApproverCrash(a) PROVE NoNewHolder
      BY <1>0, <3>3 DEF ApproverCrash, ApproverDone, NoNewHolder, SweepHolds, DeliveryHolds,
                        ApproverHolds, resumeVars
    <3>4. CASE ReconcilerCrash
      BY <3>4 DEF ReconcilerCrash, NoNewHolder, SweepHolds, DeliveryHolds, ApproverHolds, resumeVars
    <3>5. QED
      BY <1>4, <3>1, <3>2, <3>3, <3>4 DEF WakerCrash
  <2>2. QED
    BY <1>1, <1>4, <2>1 DEF WakerCrash, StatusesLeft
<1>5. CASE Time
  <2>1. PICK s \in Steps, i \in Slots : TimeoutDue(s, i) \/ ClaimAges(s, i)
    BY <1>5 DEF Time
  <2>2. OneRow' /\ StatsKept
    BY <1>0, <2>1, FlagSet DEF TimeoutDue, ClaimAges
  <2>3. QED
    BY <1>2, <2>1, <2>2 DEF TimeoutDue, ClaimAges, wakerVars, resumeVars, approvalVars, StatusesLeft
<1>6. CASE UNCHANGED vars
  BY <1>1, <1>2, <1>6 DEF vars, storeVars, resumeVars, approvalVars, StatusesLeft
<1>7. QED
  BY <1>3, <1>4, <1>5, <1>6

LEMMA WakerRows ==
    ASSUME RowsInv, Owned', WakerKind
    PROVE  RowsFit'
<1>0. /\ exec \in ExecRow /\ queue \in [Topics -> Nat]
      /\ SingleToken
      /\ RowsOK /\ OneRow /\ EventOK(exec) /\ StatusRows /\ PendingRows /\ WalkersOK
      /\ \A k \in Consumers : /\ worker[k].pc \in Labels
                              /\ worker[k].pc \in AtStep => worker[k].step \in Steps
  BY DEF RowsInv, RowsFit, RowsOK, OutcomeInv, TokenInv, Owned, TypeInv, StoreTypeOK, ConsumersOK,
         ExecutorTypeOK, WorkerState, CursorOK, Labels
<1>1. UNCHANGED <<worker, effects>>
  BY DEF WakerKind, ParkClaimed, ClaimPublished, ClaimReturned, ZombiePublished, StatusesLeft,
         executorVars
<1>2. OneRow' /\ StatsKept
  BY <1>0 DEF WakerKind, ParkClaimed, ClaimPublished, ClaimReturned, ZombiePublished, StatusesLeft,
              OneRow, StatsKept, Stat
<1>3. RowsOK'
  BY <1>0, <1>1, <1>2 DEF RowsOK, StatsKept
<1>4. /\ Untouched' <=> Untouched
      /\ AllClean' <=> AllClean
      /\ \A t : CleanBut(t)' <=> CleanBut(t)
  BY <1>2 DEF StatsKept, Untouched, AllClean, CleanBut
<1>5. CASE ParkClaimed
  <2>1. exec.status = "waiting" /\ exec' = [exec EXCEPT !.status = "pending"] /\ UNCHANGED queue
    BY <1>5 DEF ParkClaimed, ClaimWaiting
  <2>2. /\ exec'.status = "pending" /\ exec'.current = exec.current /\ exec'.event = exec.event
    BY <1>0, <2>1 DEF ExecRow
  <2>3. Idle
    BY <1>0, <2>1 DEF SingleToken, ParkIsUnowned
  <2>4. PICK p \in Steps : ParkedOn(p)
    BY <1>0, <2>1 DEF StatusRows
  <2>5. ParkedOn(p)' /\ ~Untouched'
    BY <1>2, <1>4, <2>2, <2>4 DEF ParkedOn, StatsKept, Untouched
  <2>6. queue'["execute"] = 0 /\ \A c \in Consumers : ~Walking(c)'
    BY <1>0, <1>1, <2>1, <2>3 DEF Idle, Topics, Walking
  <2>7. PendingRows' /\ WalkersOK'
    BY <2>5, <2>6 DEF PendingRows, Woken, WalkersOK
  <2>8. EventOK(exec)' /\ StatusRows'
    BY <1>0, <2>2 DEF EventOK, StatusRows
  <2>9. QED
    BY <1>3, <2>7, <2>8 DEF RowsFit
<1>6. ASSUME ClaimHeld
      PROVE  /\ exec.status = "pending" /\ Idle
             /\ \E p \in Steps : ParkedOn(p)
  <2>1. exec.status = "pending" /\ Idle
    BY <1>0, <1>6 DEF SingleToken, ClaimIsExclusive
  <2>2. QED
    BY <1>0, <1>6, <2>1 DEF PendingRows, New, Woken
<1>7. CASE ClaimPublished
  <2>1. ClaimHeld /\ Publish("resume") /\ UNCHANGED exec
    BY <1>7 DEF ClaimPublished
  <2>2. exec.status = "pending" /\ Idle
    BY <1>6, <2>1
  <2>3. PICK p \in Steps : ParkedOn(p)
    BY <1>6, <2>1
  <2>4. ParkedOn(p)' /\ ~Untouched'
    BY <1>2, <1>4, <2>1, <2>3 DEF ParkedOn, StatsKept, Untouched
  <2>5. queue'["execute"] = 0 /\ \A c \in Consumers : ~Walking(c)'
    BY <1>0, <1>1, <2>1, <2>2 DEF Idle, Topics, Walking, Publish
  <2>6. PendingRows' /\ WalkersOK'
    BY <2>4, <2>5 DEF PendingRows, Woken, WalkersOK
  <2>7. EventOK(exec)' /\ StatusRows'
    BY <1>0, <2>1, <2>2 DEF EventOK, StatusRows
  <2>8. QED
    BY <1>3, <2>6, <2>7 DEF RowsFit
<1>8. CASE ClaimReturned
  <2>1. ClaimHeld /\ RollbackClaim /\ UNCHANGED queue
    BY <1>8 DEF ClaimReturned
  <2>2. exec.status = "pending" /\ Idle
    BY <1>6, <2>1
  <2>3. PICK p \in Steps : ParkedOn(p)
    BY <1>6, <2>1
  <2>4. exec'.status = "waiting" /\ exec'.current = exec.current /\ exec'.event = exec.event
    BY <1>0, <2>1, <2>2 DEF RollbackClaim, ExecRow
  <2>5. ParkedOn(p)'
    BY <1>2, <1>4, <2>3, <2>4 DEF ParkedOn, StatsKept
  <2>6. \A c \in Consumers : ~Walking(c)'
    BY <1>1, <2>2 DEF Idle, Walking
  <2>7. QED
    BY <1>0, <1>3, <2>4, <2>5, <2>6 DEF EventOK, StatusRows, PendingRows, WalkersOK, RowsFit
<1>9. CASE StatusesLeft
  <2>1. UNCHANGED <<exec, queue>> /\ (ClaimHeld' => ClaimHeld)
    BY <1>9 DEF StatusesLeft, NoNewHolder, ClaimHeld
  <2>2. \A p \in Steps : ParkedOn(p)' <=> ParkedOn(p)
    BY <1>2, <1>4, <2>1 DEF ParkedOn, StatsKept
  <2>3. EventOK(exec)' /\ StatusRows'
    BY <1>0, <1>4, <2>1, <2>2 DEF EventOK, StatusRows
  <2>4. New => New'
    BY <1>1, <1>4, <2>1 DEF New, Walking
  <2>5. Woken => Woken'
    BY <1>1, <1>4, <2>1, <2>2 DEF Woken, Walking
  <2>6. PendingRows'
    BY <1>0, <2>1, <2>4, <2>5 DEF PendingRows
  <2>7. WalkersOK'
    <3> SUFFICES ASSUME NEW k \in Consumers, Walking(k)' PROVE WalkerOK(worker[k])'
      BY DEF WalkersOK
    <3>1. WalkerOK(worker[k])
      BY <1>0, <1>1 DEF WalkersOK, Walking
    <3>2. QED
      BY <1>0, <1>1, <1>2, <2>1, <3>1, WalkerKept
  <2>8. QED
    BY <1>3, <2>3, <2>6, <2>7 DEF RowsFit
<1>10. CASE ZombiePublished
  <2>1. UNCHANGED exec /\ Idle /\ exec.status \notin {"pending", "waiting"}
    BY <1>10 DEF ZombiePublished
  <2>2. EventOK(exec)' /\ StatusRows' /\ PendingRows'
    BY <1>0, <1>4, <2>1 DEF EventOK, StatusRows, PendingRows
  <2>3. WalkersOK'
    BY <1>1, <2>1 DEF Idle, Walking, WalkersOK
  <2>4. QED
    BY <1>3, <2>2, <2>3 DEF RowsFit
<1>11. QED
  BY <1>5, <1>7, <1>8, <1>9, <1>10 DEF WakerKind
-----------------------------------------------------------------------------
(***************************************************************************)
(* Every step of the engine, in these terms.                               *)
(***************************************************************************)
ConsumerMoves(c) == Receive(c) \/ ExecutorStep(c) \/ ResumeStep(c)

ConsumerGone(c) ==
    /\ Walking(c)
    /\ \/ UNCHANGED queue
       \/ "consumer_crash" \in FaultKinds /\ Publish(worker[c].topic)
    /\ faults' = faults + 1
    /\ worker' = [worker EXCEPT ![c] = IdleWorker]
    /\ UNCHANGED <<exec, rows, task, effects>>

LEMMA StepKinds ==
    ASSUME NoDuplicates, TokenInv, OneRow, [Next]_vars
    PROVE  \/ \E c \in Consumers : (ConsumerMoves(c) \/ ConsumerGone(c)) /\ UNCHANGED wakerVars
           \/ WakerKind
<1>1. ASSUME NEW c \in Consumers, ConsumerStep(c)
      PROVE  ConsumerMoves(c) /\ UNCHANGED wakerVars
  <2>1. ResumeStep(c) /\ UNCHANGED approvalVars => UNCHANGED wakerVars
    BY DEF ResumeStep, DropResume, LoadParked, FetchParked, CloseParkedRows, ExpireGate, MarkRunning,
           wakerVars
  <2>2. QED
    BY <1>1, <2>1 DEF ConsumerStep, ConsumerMoves
<1>2. ASSUME NEW c \in Consumers, ConsumerCrash(c) \/ LostAck(c) \/ LostMessage(c)
      PROVE  ConsumerGone(c) /\ UNCHANGED wakerVars
  BY <1>2 DEF ConsumerCrash, LostAck, LostMessage, Fault, NoDuplicates, ConsumerGone
<1>3. WakerCrash \/ ReconcilerStep \/ Time \/ UNCHANGED vars => WakerKind
  BY OtherKind DEF WakerKind
<1>4. QED
  BY <1>1, <1>2, <1>3, SweeperKind, DeliveryKind, ApproverKind DEF Next, Faults, Finished

\* The step rows of an execution show at most one claim.
LEMMA OneStepRuns ==
    ASSUME TokenInv, RowsFit
    PROVE  RunsOneStep
<1>0. OneRow /\ StatusRows /\ PendingRows
  BY DEF RowsFit, RowsOK
<1>1. SUFFICES ASSUME NEW s \in Steps, NEW i \in Slots, rows[s][i].status = "running"
               PROVE  /\ exec.status \notin {"pending", "waiting"}
                      /\ \A t \in Steps, j \in Slots :
                            rows[t][j].status = "running" => t = s /\ j = i
  BY DEF RunsOneStep
<1>2. i = 1 /\ Stat(s) = "running"
  BY <1>0, <1>1 DEF OneRow, Stat
<1>3. ~Untouched /\ ~AllClean /\ \A p \in Steps : ~ParkedOn(p)
  BY <1>2 DEF Untouched, AllClean, ParkedOn, CleanBut
<1>4. exec.status \notin {"pending", "waiting"}
  BY <1>0, <1>3 DEF StatusRows, PendingRows, New, Woken
<1>5. CleanBut(exec.current)
  BY <1>0, <1>4 DEF StatusRows
<1>6. ASSUME NEW t \in Steps, NEW j \in Slots, rows[t][j].status = "running"
      PROVE  t = s /\ j = i
  <2>1. j = 1 /\ Stat(t) = "running"
    BY <1>0, <1>6 DEF OneRow, Stat
  <2>2. QED
    BY <1>2, <1>5, <2>1 DEF CleanBut
<1>7. QED
  BY <1>4, <1>6

LEMMA RowsPreserved ==
    ASSUME NoDuplicates, RowsInv, [Next]_vars
    PROVE  RowsFit'
<1>0. TokenInv /\ OneRow
  BY DEF RowsInv, RowsFit, RowsOK, OutcomeInv
<1>1. ASSUME NEW c \in Consumers, ConsumerGone(c), UNCHANGED wakerVars PROVE RowsFit'
  <2>1. RowsOK' /\ StatusRows' /\ StatsKept
    BY <1>1 DEF ConsumerGone, RowsInv, RowsFit, RowsOK, OneRow, StatusRows, ParkedOn, CleanBut,
                AllClean, StatsKept, Stat
  <2>2. QED
    BY <1>1, <2>1, StopsRows DEF ConsumerGone
<1>2. QED
  <2>1. RunsOneStep
    BY <1>0, OneStepRuns DEF RowsInv
  <2>2. QED
    BY <1>0, <1>1, <2>1, StepKinds, OwnedPreserved, ReceiveRows, ExecutorRows, ResumeRows, WakerRows
       DEF ConsumerMoves

LEMMA RowsInitially == Init => RowsFit
<1> SUFFICES ASSUME Init PROVE RowsFit
  OBVIOUS
<1>1. /\ exec = [status |-> "pending", current |-> NoStep, event |-> NoEvent]
      /\ queue["resume"] = 0
      /\ \A s \in Steps, i \in Slots : rows[s][i].status = "absent"
      /\ \A c \in Consumers : ~Walking(c)
      /\ ~ClaimHeld
  BY DEF Init, StoreInit, ExecutorInit, ResumeInit, ApprovalInit, AbsentRow, IdleWorker, Walking,
         ClaimHeld, SweepHolds, DeliveryHolds, ApproverHolds, IdleSweep, IdleDelivery, IdleApprover
<1>2. OneRow /\ Untouched
  BY <1>1, FirstSlot DEF OneRow, Untouched, Stat
<1>3. RowsOK
  BY <1>2 DEF RowsOK, Untouched
<1>4. PendingRows /\ WalkersOK
  BY <1>1, <1>2 DEF PendingRows, New, WalkersOK
<1>5. EventOK(exec) /\ StatusRows
  BY <1>1 DEF EventOK, StatusRows
<1>6. QED
  BY <1>3, <1>4, <1>5 DEF RowsFit

(***************************************************************************)
(* The inductive invariant: the step rows fit the execution row.           *)
(***************************************************************************)
THEOREM RowsFitTheRun ==
    ASSUME NoDuplicates
    PROVE  Spec => []RowsInv
<1>1. Init => RowsInv
  BY TypesInitially, OwnedInitially, SettledInitially, RowsInitially DEF RowsInv, OutcomeInv, TokenInv
<1>2. RowsInv /\ [Next]_vars => RowsInv'
  <2>1. SUFFICES ASSUME RowsInv, [Next]_vars PROVE RowsInv'
    OBVIOUS
  <2>2. OutcomeInv /\ TokenInv /\ TypeInv /\ RowsFit
    BY <2>1 DEF RowsInv, OutcomeInv, TokenInv
  <2>3. TypeInv'
    BY <2>1, <2>2, TypesPreserved
  <2>4. Owned'
    BY <2>1, <2>2, OneStepRuns, OwnedPreserved
  <2>5. \A c \in Consumers : Settled(c)'
    BY <2>1, <2>2, SettledPreserved
  <2>6. RowsFit'
    BY <2>1, RowsPreserved
  <2>7. QED
    BY <2>3, <2>4, <2>5, <2>6 DEF RowsInv, OutcomeInv, TokenInv
<1>3. QED
  BY <1>1, <1>2, PTL DEF Spec

(***************************************************************************)
(* The inductive invariant of ownership.                                   *)
(***************************************************************************)
THEOREM Ownership ==
    ASSUME NoDuplicates
    PROVE  Spec => []TokenInv
<1>1. RowsInv => TokenInv
  BY DEF RowsInv, OutcomeInv
<1>2. QED
  BY <1>1, RowsFitTheRun, PTL

(***************************************************************************)
(* At most one message, consumer or waker acts on the execution, whatever  *)
(* the definition and however many processes race for it, although         *)
(* consumers and wakers die, messages are lost and zombies recovered,      *)
(* actions are retried and publishing fails.                               *)
(***************************************************************************)
THEOREM OneOwner ==
    ASSUME NoDuplicates
    PROVE  Spec => []SingleToken
<1>1. TokenInv => SingleToken
  BY DEF TokenInv, Owned
<1>2. QED
  BY <1>1, Ownership, PTL

(***************************************************************************)
(* The whole-model saves of the executor and the resume consumer undo no   *)
(* other process's statement: the copy they save is the row they change.   *)
(***************************************************************************)
THEOREM NoLostUpdate ==
    ASSUME NoDuplicates
    PROVE  Spec => []WalkerViewIsFresh
<1>1. TokenInv => WalkerViewIsFresh
  BY DEF TokenInv, Owned
<1>2. QED
  BY <1>1, Ownership, PTL

(***************************************************************************)
(* Once an execution is complete, cancelled, failed or skipped no consumer *)
(* and no waker changes its row again (the early returns on a terminal     *)
(* status, and the status conditions of the claims).                       *)
(***************************************************************************)
THEOREM NothingAfterTheEnd ==
    ASSUME NoDuplicates
    PROVE  Spec => TerminalIsFinal
<1>1. RowsInv /\ [Next]_vars => [exec.status \in Terminal => UNCHANGED exec]_vars
  BY EndIsFinal DEF RowsInv
<1>2. QED
  BY <1>1, RowsFitTheRun, PTL DEF Spec, TerminalIsFinal

(***************************************************************************)
(* Until an execution is over or parked a message, a consumer or a waker   *)
(* is there to carry it on, whatever consumer dies, action is retried or   *)
(* publish fails: the redelivery of the queue and the rollback of a claim  *)
(* whose publish failed leave no gap.                                      *)
(***************************************************************************)
THEOREM CarriedOn ==
    ASSUME NoDuplicates, NoLosses
    PROVE  Spec => []NeverAbandoned
<1>1. Init => NeverAbandoned
  BY DEF Init, StoreInit, NeverAbandoned, Idle
<1>2. RowsInv /\ NeverAbandoned /\ [Next]_vars => NeverAbandoned'
  BY SomebodyCarriesOn DEF RowsInv
<1>3. QED
  BY <1>1, <1>2, RowsFitTheRun, PTL DEF Spec

(***************************************************************************)
(* The SELECT and the INSERT of upsertStepRow are two statements on a      *)
(* table without a unique key; yet a step never gets a second row.         *)
(***************************************************************************)
THEOREM NoSecondRow ==
    ASSUME NoDuplicates
    PROVE  Spec => []OneRowPerStep
<1>1. RowsInv => OneRowPerStep
  BY DEF RowsInv, RowsFit, RowsOK, OneRow, OneRowPerStep, RowsOf
<1>2. QED
  BY <1>1, RowsFitTheRun, PTL

(***************************************************************************)
(* An execution is complete only with every row it has complete, and the   *)
(* effect of every action among them done.                                 *)
(***************************************************************************)
THEOREM CompleteIsComplete ==
    ASSUME NoDuplicates
    PROVE  Spec => []CompletionIsClean
<1>1. ASSUME RowsInv PROVE CompletionIsClean
  <2> SUFFICES ASSUME exec.status = "complete", NEW s \in Steps, NEW i \in RowsOf(s)
               PROVE  rows[s][i].status = "complete" /\ (StepType[s] = "action" => effects[s] > 0)
    BY DEF CompletionIsClean
  <2>1. RowsOK /\ OneRow /\ AllClean
    BY <1>1 DEF RowsInv, RowsFit, RowsOK, StatusRows
  <2>2. i = 1 /\ Stat(s) # "absent"
    BY <2>1, TheOneRow
  <2>3. Stat(s) = "complete"
    BY <2>1, <2>2 DEF AllClean
  <2>4. QED
    BY <2>1, <2>2, <2>3 DEF RowsOK, Stat
<1>2. QED
  BY <1>1, RowsFitTheRun, PTL

(***************************************************************************)
(* A parked execution has exactly one waiting row, the row of the step its *)
(* current_step and waiting_event were saved for: the two statements of a  *)
(* park and of a rollback never leave them apart.                          *)
(***************************************************************************)
THEOREM ParkedForItsRow ==
    ASSUME NoDuplicates
    PROVE  Spec => []ParkedWhereItWaits
<1>1. ASSUME RowsInv PROVE ParkedWhereItWaits
  <2> SUFFICES ASSUME exec.status = "waiting"
               PROVE  \E p \in WaitingRows :
                         /\ WaitingRows = {p}
                         /\ CASE StepType[p[1]] = "delay" -> /\ exec.current = Edge[p[1]]["next"]
                                                             /\ exec.event = NoEvent
                              [] StepType[p[1]] = "wait"  -> /\ exec.current = p[1]
                                                             /\ exec.event = EventOf[p[1]]
                              [] OTHER                    -> /\ exec.current = p[1]
                                                             /\ exec.event = NoEvent
    BY DEF ParkedWhereItWaits
  <2>1. PICK s \in Steps : ParkedOn(s)
    BY <1>1 DEF RowsInv, RowsFit, StatusRows
  <2>2. OneRow
    BY <1>1 DEF RowsInv, RowsFit, RowsOK
  <2>3. <<s, 1>> \in WaitingRows
    BY <2>1, FirstSlot DEF ParkedOn, Stat, WaitingRows
  <2>4. \A p \in WaitingRows : p = <<s, 1>>
    BY <2>1, <2>2 DEF WaitingRows, OneRow, ParkedOn, CleanBut, Stat
  <2>5. WaitingRows = {<<s, 1>>}
    BY <2>3, <2>4
  <2>6. QED
    BY <2>1, <2>3, <2>5 DEF ParkedOn
<1>2. QED
  BY <1>1, RowsFitTheRun, PTL
=============================================================================
