------------------------- MODULE LabelMonitorProofs -------------------------
(***************************************************************************)
(* Proofs about LabelMonitor for every number of concurrent webhook        *)
(* handlers and every number of triggers, gates and poll cycles.           *)
(*                                                                         *)
(* TriggerKeptUntilQueued speaks of the labels only, and any handler about *)
(* to take the trigger off would break it in the next step: NoneStrips     *)
(* adds that there is none.                                                *)
(***************************************************************************)
EXTENDS LabelMonitor, TLAPS

\* While the queue has not been asked for the last trigger, no handler is past
\* its enqueue.
NoneStrips == fresh => \A h \in Handlers : pc[h] \notin {"mark", "remove"}

\* The inductive invariant.
MonitorInv == MonitorTypeOK /\ NoneStrips /\ TriggerKeptUntilQueued

-----------------------------------------------------------------------------
\* The counter of poll cycles wraps within its interval.
LEMMA CycleType ==
  ASSUME NEW n \in 0 .. Interval - 1
  PROVE  (n + 1) % Interval \in 0 .. Interval - 1
BY IntervalAssumption

\* What the queue holds of the issue.
LEMMA ItemType ==
  ASSUME NEW s \in {"pending", "running", "pausing"}, NEW c \in {"process", "continue"}
  PROVE  Item(s, c) \in [state : {"pending", "running", "pausing"}, command : {"process", "continue"}]
BY DEF Item

\* An issue without labels, handlers and items.
LEMMA MonitorInitInv == MonitorInit => MonitorInv
<1> SUFFICES ASSUME MonitorInit PROVE MonitorInv
  OBVIOUS
<1>1. closed \in BOOLEAN /\ assigned \in BOOLEAN /\ marked \in BOOLEAN /\ fresh \in BOOLEAN
  BY Zenon DEF MonitorInit
<1>2. MonitorTypeOK
  BY <1>1, IntervalAssumption, MonitorBounds DEF MonitorInit, MonitorTypeOK
<1>3. NoneStrips /\ TriggerKeptUntilQueued
  BY DEF MonitorInit, NoneStrips, TriggerKeptUntilQueued
<1> QED
  BY <1>2, <1>3 DEF MonitorInv

\* A webhook delivery or a poll starts a handler; it touches neither labels
\* nor the queue.
LEMMA StartInv ==
  ASSUME MonitorInv,
         \/ \E h \in Handlers : WebhookProcess(h) \/ WebhookCompleted(h) \/ VerifyCompleted(h)
         \/ PollProcess \/ PollCompleted \/ PollFails
  PROVE  MonitorInv'
<1> USE DEF MonitorInv, MonitorTypeOK, NoneStrips, TriggerKeptUntilQueued, Handlers, Receives, Goes, labelVars, handlerVars, pollVars, history
<1>1. ASSUME NEW h \in Handlers, WebhookProcess(h) PROVE MonitorInv'
  BY <1>1 DEF WebhookProcess
<1>2. ASSUME NEW h \in Handlers, WebhookCompleted(h) PROVE MonitorInv'
  BY <1>2 DEF WebhookCompleted
<1>3. ASSUME NEW h \in Handlers, VerifyCompleted(h) PROVE MonitorInv'
  BY <1>3 DEF VerifyCompleted
<1>4. CASE PollProcess
  <2>1. pollCycleCount' \in 0 .. Interval - 1
    BY <1>4, CycleType DEF PollProcess
  <2> QED
    BY <1>4, <2>1 DEF PollProcess
<1>5. CASE PollCompleted
  BY <1>5 DEF PollCompleted
<1>6. CASE PollFails
  <2>1. pollCycleCount' \in 0 .. Interval - 1
    BY <1>6, CycleType DEF PollFails
  <2> QED
    BY <1>6, <2>1 DEF PollFails
<1> QED
  BY <1>1, <1>2, <1>3, <1>4, <1>5, <1>6

\* An await of processLabelEvent that touches neither labels nor the queue.
LEMMA TrackerInv ==
  ASSUME MonitorInv, NEW h \in Handlers,
         \/ Clear(h) \/ IsDuplicate(h) \/ MarkProcessed(h) \/ TrackerFails(h)
         \/ Fetch(h) \/ FetchFails(h) \/ EnqueueFails(h) \/ RemoveLabelsFails(h)
  PROVE  MonitorInv'
<1> USE DEF MonitorInv, MonitorTypeOK, NoneStrips, TriggerKeptUntilQueued, Goes, Forgets, labelVars, handlerVars, pollVars, history
<1>1. CASE Clear(h)
  <2>1. marked' \in BOOLEAN
    BY <1>1, Zenon DEF Clear
  <2> QED
    BY <1>1, <2>1 DEF Clear
<1>2. CASE IsDuplicate(h)
  BY <1>2 DEF IsDuplicate
<1>3. CASE MarkProcessed(h)
  <2>1. marked' \in BOOLEAN
    BY <1>3, Zenon DEF MarkProcessed
  <2> QED
    BY <1>3, <2>1 DEF MarkProcessed
<1>4. CASE TrackerFails(h)
  <2>1. pc' \in [Handlers -> {"idle", "clear", "check", "fetch", "enqueue", "mark", "remove", "fetchResume", "resume"}]
    BY <1>4 DEF TrackerFails
  <2> QED
    BY <1>4, <2>1 DEF TrackerFails
<1>5. CASE Fetch(h)
  BY <1>5 DEF Fetch, NextOfFetch
<1>6. CASE FetchFails(h)
  BY <1>6 DEF FetchFails, NextOfFetch
<1>7. CASE EnqueueFails(h)
  BY <1>7 DEF EnqueueFails
<1>8. CASE RemoveLabelsFails(h)
  BY <1>8 DEF RemoveLabelsFails
<1> QED
  BY <1>1, <1>2, <1>3, <1>4, <1>5, <1>6, <1>7, <1>8

\* The handler puts the item into the queue or takes labels off.
LEMMA EnqueueInv ==
  ASSUME MonitorInv, NEW h \in Handlers, EnqueueResume(h) \/ EnqueueProcess(h) \/ RemoveLabels(h)
  PROVE  MonitorInv'
<1> USE DEF MonitorInv, MonitorTypeOK, NoneStrips, TriggerKeptUntilQueued, Goes, Forgets, labelVars, handlerVars, pollVars, history
<1>1. CASE EnqueueResume(h)
  <2>1. Item("pending", "continue") \in [state : {"pending", "running", "pausing"}, command : {"process", "continue"}]
    BY ItemType
  <2> QED
    BY <1>1, <2>1 DEF EnqueueResume
<1>2. CASE EnqueueProcess(h)
  <2>1. Item("pending", "process") \in [state : {"pending", "running", "pausing"}, command : {"process", "continue"}]
    BY ItemType
  <2>2. fresh' = FALSE /\ fresh' \in BOOLEAN
    BY <1>2, Zenon DEF EnqueueProcess
  <2> QED
    BY <1>2, <2>1, <2>2 DEF EnqueueProcess
<1>3. CASE RemoveLabels(h)
  <2>1. ~fresh
    BY <1>3 DEF RemoveLabels
  <2> QED
    BY <1>3, <2>1 DEF RemoveLabels
<1> QED
  BY <1>1, <1>2, <1>3

\* The worker.
LEMMA WorkerInv ==
  ASSUME MonitorInv, WorkerClaims \/ WorkerHitsGate \/ WorkerEnds \/ WorkerFails
  PROVE  MonitorInv'
<1> USE MonitorBounds DEF MonitorInv, MonitorTypeOK, NoneStrips, TriggerKeptUntilQueued, labelVars, handlerVars, pollVars, history
<1>1. ASSUME NEW s \in {"pending", "running", "pausing"}, queue' = Item(s, queue.command),
             queue.state \in {"pending", "running", "pausing"}
      PROVE  queue' \in [state : {"pending", "running", "pausing"}, command : {"process", "continue"}]
  <2>1. queue.command \in {"process", "continue"}
    BY <1>1 DEF Free
  <2> QED
    BY <1>1, <2>1, ItemType
<1>2. CASE WorkerClaims
  <2>1. queue' \in [state : {"pending", "running", "pausing"}, command : {"process", "continue"}]
    BY <1>1, <1>2 DEF WorkerClaims
  <2>2. labels' \subseteq labels /\ (TriggerLabel \in labels => TriggerLabel \in labels')
    BY <1>2 DEF WorkerClaims, TriggerLabel, WaitingFor, Completed
  <2> QED
    BY <1>2, <2>1, <2>2 DEF WorkerClaims
<1>3. CASE WorkerHitsGate
  <2>1. queue' \in [state : {"pending", "running", "pausing"}, command : {"process", "continue"}]
    BY <1>1, <1>3 DEF WorkerHitsGate
  <2>2. labels \subseteq labels' /\ labels' \subseteq ({TriggerLabel} \cup GateLabels)
    BY <1>3 DEF WorkerHitsGate, GateLabels
  <2> QED
    BY <1>3, <2>1, <2>2 DEF WorkerHitsGate
<1>4. CASE WorkerEnds
  BY <1>4 DEF WorkerEnds
<1>5. CASE WorkerFails
  BY <1>1, <1>5 DEF WorkerFails
<1> QED
  BY <1>2, <1>3, <1>4, <1>5

\* The people, the TTL of the phase tracker and restarts.
LEMMA OutsideInv ==
  ASSUME MonitorInv,
         \/ Trigger \/ (\E g \in Gates : AnswerGate(g)) \/ Assign \/ CloseIssue
         \/ MarkExpires \/ MonitorDies
  PROVE  MonitorInv'
<1> USE MonitorBounds DEF MonitorInv, MonitorTypeOK, NoneStrips, TriggerKeptUntilQueued, Sends, labelVars, handlerVars, pollVars, history
<1>1. CASE Trigger
  <2>1. fresh' \in BOOLEAN /\ (fresh' => \A h \in Handlers : pc[h] \notin {"mark", "remove"})
    BY <1>1, Zenon DEF Trigger
  <2> QED
    BY <1>1, <2>1 DEF Trigger
<1>2. ASSUME NEW g \in Gates, AnswerGate(g) PROVE MonitorInv'
  <2>1. Completed(g) \in GateLabels
    BY DEF GateLabels
  <2> QED
    BY <1>2, <2>1 DEF AnswerGate
<1>3. CASE Assign
  <2>1. assigned' \in BOOLEAN
    BY <1>3, Zenon DEF Assign
  <2> QED
    BY <1>3, <2>1 DEF Assign
<1>4. CASE CloseIssue
  <2>1. closed' \in BOOLEAN
    BY <1>4, Zenon DEF CloseIssue
  <2> QED
    BY <1>4, <2>1 DEF CloseIssue
<1>5. CASE MarkExpires
  <2>1. marked' \in BOOLEAN
    BY <1>5, Zenon DEF MarkExpires
  <2> QED
    BY <1>5, <2>1 DEF MarkExpires
<1>6. CASE MonitorDies
  <2>1. 0 \in 0 .. Interval - 1
    BY IntervalAssumption
  <2> QED
    BY <1>6, <2>1 DEF MonitorDies
<1> QED
  BY <1>1, <1>2, <1>3, <1>4, <1>5, <1>6

\* Every step keeps the invariant.
LEMMA MonitorNextInv == MonitorInv /\ [MonitorNext]_monitorVars => MonitorInv'
<1> SUFFICES ASSUME MonitorInv, [MonitorNext]_monitorVars PROVE MonitorInv'
  OBVIOUS
<1>1. CASE UNCHANGED monitorVars
  BY <1>1 DEF MonitorInv, MonitorTypeOK, NoneStrips, TriggerKeptUntilQueued,
              monitorVars, labelVars, handlerVars, pollVars, history
<1> QED
  BY <1>1, StartInv, TrackerInv, EnqueueInv, WorkerInv, OutsideInv
     DEF MonitorNext, MonitorCalmNext, MonitorFault, HandlerNext

\* The invariant holds in every reachable state.
THEOREM MonitorInvariant == MonitorSpec => []MonitorInv
BY MonitorInitInv, MonitorNextInv, PTL DEF MonitorSpec

\* Every variable of the monitor keeps its shape.
THEOREM MonitorTypeCorrect == MonitorSpec => []MonitorTypeOK
<1>1. MonitorInv => MonitorTypeOK
  BY DEF MonitorInv
<1> QED
  BY <1>1, MonitorInvariant, PTL

\* However many webhook handlers run beside the poll loop, however often one is
\* cut off and whatever fails: a trigger stays on the issue until a handler has
\* asked the queue after it was set, unless it was set while another was on its
\* way from the queue to the label.
THEOREM TriggerKeptUntilQueuedHolds == MonitorSpec => []TriggerKeptUntilQueued
<1>1. MonitorInv => TriggerKeptUntilQueued
  BY DEF MonitorInv
<1> QED
  BY <1>1, MonitorInvariant, PTL
=============================================================================
