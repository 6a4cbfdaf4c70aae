---------------------------- MODULE LabelMonitor ----------------------------
(***************************************************************************)
(* LabelMonitorService and PhaseTrackerService (packages/orchestrator/src/ *)
(* services/label-monitor-service.ts, phase-tracker-service.ts): how the   *)
(* labels of one issue become queue items.  The webhook routes and the     *)
(* poll loop run the same processLabelEvent, an await at a time, beside    *)
(* each other, the worker and the people who set labels.                   *)
(*                                                                         *)
(* The labels told apart: the trigger label (process:...), the gates a     *)
(* paused run waits for (waiting-for:X) and their answers (completed:X).   *)
(* The queue keeps at most one item of the issue in flight (QueueContract).*)
(* `assigned` is what filterByAssignee and the webhook route ask; without  *)
(* a cluster username they let everything pass, and it stays TRUE.         *)
(***************************************************************************)
EXTENDS Naturals, FiniteSets

CONSTANTS
  Hooks,         \* webhook deliveries handled at the same time
  MaxTriggers,   \* bound: how often somebody sets the trigger label
  MaxGates,      \* bound: how often the run pauses at a gate
  Interval,      \* COMPLETED_CHECK_INTERVAL
  Gates,         \* the X of waiting-for:X
  Known,         \* those whose completed:X is one of KNOWN_COMPLETED_LABELS
  Retained       \* those whose completed:X the resumed phase consumes itself

ASSUME IntervalAssumption == Interval \in Nat \ {0}
ASSUME KnownAssumption == Known \subseteq Gates
ASSUME MonitorBounds == MaxTriggers \in Nat /\ MaxGates \in Nat

Poll     == "poll"
Handlers == Hooks \cup {Poll}

VARIABLES
  labels,        \* of the issue
  closed,        \* the issue is closed
  assigned,      \* the cluster's user is among its assignees
  marked,        \* the dedup key of the phase tracker exists
  queue,         \* the item in flight: none, or its state with its command
  pc, snapshot,  \* of each handler: its next step, the labels getIssue() returned
  pollPc,        \* the poll cycle: idle, or about to list the completed labels
  pollCycleCount,
  deliveries,    \* the webhooks sent so far that the route does not ignore
  triggers, gates,  \* history: triggers set, pauses
  fresh          \* history: no handler has asked the queue since the last trigger

labelVars   == <<labels, closed, assigned>>
handlerVars == <<pc, snapshot>>
pollVars    == <<pollPc, pollCycleCount>>
history     == <<triggers, gates, fresh>>
monitorVars == <<labelVars, marked, queue, handlerVars, pollVars, deliveries, history>>

TriggerLabel  == <<"process", "workflow">>
WaitingFor(g) == <<"waiting-for", g>>
Completed(g)  == <<"completed", g>>
GateLabels    == {WaitingFor(g) : g \in Gates} \cup {Completed(g) : g \in Gates}
Unknown       == <<"unknown", "labels">>
Answered      == {g \in Gates : WaitingFor(g) \in labels /\ Completed(g) \in labels}

Free       == [state |-> "none", command |-> "none"]
Item(s, c) == [state |-> s, command |-> c]
InFlight   == queue # Free

-----------------------------------------------------------------------------
(* parseLabelEvent and what calls it *)

Goes(h, next) == pc' = [pc EXCEPT ![h] = next]
Forgets(h)    == snapshot' = [snapshot EXCEPT ![h] = {}]

\* GitHub sends a delivery when a label is set.  The route ignores one whose
\* payload does not show the cluster's user among the assignees of that moment:
\* it is as good as not sent.
Sends(label) == deliveries' = IF assigned THEN deliveries \cup {label} ELSE deliveries

\* A delivery comes to the webhook route: late, again, out of order or never.
Receives(h, label, next) ==
  /\ h \in Hooks /\ pc[h] = "idle"
  /\ label \in deliveries
  /\ Goes(h, next)
  /\ UNCHANGED <<labelVars, marked, queue, snapshot, pollVars, deliveries, history>>

\* The payload decides, the issue is not read again ...
WebhookProcess(h)   == Receives(h, TriggerLabel, "clear")
WebhookCompleted(h) == \E g \in Gates : Receives(h, Completed(g), "fetchResume")

\* ... unless the payload was stale: verifyAndProcessCompletedLabel fetches
\* the labels and wants the waiting-for label among them.
VerifyCompleted(h) ==
  \E g \in Gates : Receives(h, Completed(g), IF WaitingFor(g) \in labels THEN "fetchResume" ELSE "idle")

\* Mutant: the counter wraps one cycle late.
PollWrapsLate ==
  /\ pollPc = "idle" /\ pc[Poll] = "idle"
  /\ pollCycleCount' = (pollCycleCount + 1) % (Interval + 1)
  /\ Goes(Poll, IF TriggerLabel \in labels /\ assigned THEN "clear" ELSE "idle")
  /\ pollPc' = IF pollCycleCount' = 0 THEN "completed" ELSE "idle"
  /\ UNCHANGED <<labelVars, marked, queue, snapshot, deliveries, history>>

\* poll() and pollRepo(): the trigger labels every cycle ...
PollProcess ==
  /\ pollPc = "idle" /\ pc[Poll] = "idle"
  /\ pollCycleCount' = (pollCycleCount + 1) % Interval
  /\ Goes(Poll, IF TriggerLabel \in labels /\ assigned THEN "clear" ELSE "idle")
  /\ pollPc' = IF pollCycleCount' = 0 THEN "completed" ELSE "idle"
  /\ UNCHANGED <<labelVars, marked, queue, snapshot, deliveries, history>>

\* Mutant: the completed labels are listed in no cycle.
PollNeverCompleted ==
  /\ pollPc = "completed" /\ pc[Poll] = "idle"
  /\ pollPc' = "idle"
  /\ UNCHANGED <<labelVars, marked, queue, handlerVars, pollCycleCount, deliveries, history>>

\* ... and the known completed labels every Interval cycles.
PollCompleted ==
  /\ pollPc = "completed" /\ pc[Poll] = "idle"
  /\ pollPc' = "idle"
  /\ Goes(Poll, IF Answered \cap Known # {} /\ assigned THEN "fetchResume" ELSE "idle")
  /\ UNCHANGED <<labelVars, marked, queue, snapshot, pollCycleCount, deliveries, history>>

\* GitHub fails while it lists: the rest of the cycle is skipped.
PollFails ==
  /\ pc[Poll] = "idle"
  /\ pollPc' = "idle"
  /\ pollCycleCount' = IF pollPc = "idle" THEN (pollCycleCount + 1) % Interval ELSE pollCycleCount
  /\ UNCHANGED <<labelVars, marked, queue, handlerVars, deliveries, history>>

-----------------------------------------------------------------------------
(* processLabelEvent, one await at a time *)

\* Mutant: the key of an earlier run is kept.
ClearNothing(h) ==
  /\ pc[h] = "clear"
  /\ Goes(h, "check")
  /\ UNCHANGED <<labelVars, marked, queue, snapshot, pollVars, deliveries, history>>

Clear(h) ==
  /\ pc[h] = "clear"
  /\ marked' = FALSE
  /\ Goes(h, "check")
  /\ UNCHANGED <<labelVars, queue, snapshot, pollVars, deliveries, history>>

\* A Redis error is swallowed by clear() and by markProcessed(), and makes
\* isDuplicate() say no.
TrackerFails(h) ==
  /\ pc[h] \in {"clear", "check", "mark"}
  /\ Goes(h, CASE pc[h] = "clear" -> "check"
               [] pc[h] = "check" -> "fetch"
               [] OTHER           -> "remove")
  /\ UNCHANGED <<labelVars, marked, queue, snapshot, pollVars, deliveries, history>>

IsDuplicate(h) ==
  /\ pc[h] = "check"
  /\ Goes(h, IF marked THEN "idle" ELSE "fetch")
  /\ UNCHANGED <<labelVars, marked, queue, snapshot, pollVars, deliveries, history>>

NextOfFetch(h) == IF pc[h] = "fetch" THEN "enqueue" ELSE "resume"

\* getIssue(); an event of a closed issue is dropped.
Fetch(h) ==
  /\ pc[h] \in {"fetch", "fetchResume"}
  /\ snapshot' = [snapshot EXCEPT ![h] = IF closed \/ pc[h] = "fetchResume" THEN {} ELSE labels \cap GateLabels]
  /\ Goes(h, IF closed THEN "idle" ELSE NextOfFetch(h))
  /\ UNCHANGED <<labelVars, marked, queue, pollVars, deliveries, history>>

\* Without the issue the gate does not fire and the labels are read later.
FetchFails(h) ==
  /\ pc[h] \in {"fetch", "fetchResume"}
  /\ snapshot' = [snapshot EXCEPT ![h] = IF pc[h] = "fetch" THEN {Unknown} ELSE {}]
  /\ Goes(h, NextOfFetch(h))
  /\ UNCHANGED <<labelVars, marked, queue, pollVars, deliveries, history>>

\* A resume: enqueueIfAbsent(); its labels are left to the worker.
EnqueueResume(h) ==
  /\ pc[h] = "resume"
  /\ queue' = IF InFlight THEN queue ELSE Item("pending", "continue")
  /\ Goes(h, "idle")
  /\ UNCHANGED <<labelVars, marked, snapshot, pollVars, deliveries, history>>

\* A process event: enqueue() does nothing for an item in flight.
EnqueueProcess(h) ==
  /\ pc[h] = "enqueue"
  /\ queue' = IF InFlight THEN queue ELSE Item("pending", "process")
  /\ fresh' = FALSE
  /\ Goes(h, "mark")
  /\ UNCHANGED <<labelVars, marked, snapshot, pollVars, deliveries, triggers, gates>>

\* Mutant: an enqueue() that throws is taken for an item in flight.
MarksAfterError(h) ==
  /\ pc[h] \in {"enqueue", "resume"}
  /\ Goes(h, IF pc[h] = "enqueue" THEN "mark" ELSE "idle")
  /\ UNCHANGED <<labelVars, marked, queue, snapshot, pollVars, deliveries, history>>

\* enqueue() throws, or the error of enqueueIfAbsent() leaves the handler.
EnqueueFails(h) ==
  /\ pc[h] \in {"enqueue", "resume"}
  /\ Goes(h, "idle") /\ Forgets(h)
  /\ UNCHANGED <<labelVars, marked, queue, pollVars, deliveries, history>>

MarkProcessed(h) ==
  /\ pc[h] = "mark"
  /\ marked' = TRUE
  /\ Goes(h, "remove")
  /\ UNCHANGED <<labelVars, queue, snapshot, pollVars, deliveries, history>>

\* removeLabels(): the trigger and the gate labels the fetched issue had.
RemoveLabels(h) ==
  /\ pc[h] = "remove"
  /\ LET stale == IF snapshot[h] = {Unknown} THEN labels \cap GateLabels ELSE snapshot[h]
     IN  labels' = labels \ ({TriggerLabel} \cup stale)
  /\ Goes(h, "idle") /\ Forgets(h)
  /\ UNCHANGED <<closed, assigned, marked, queue, pollVars, deliveries, history>>

\* A GitHub error is swallowed: the labels stay.
RemoveLabelsFails(h) ==
  /\ pc[h] = "remove"
  /\ Goes(h, "idle") /\ Forgets(h)
  /\ UNCHANGED <<labelVars, marked, queue, pollVars, deliveries, history>>

\* The orchestrator is restarted: its handlers are gone.
MonitorDies ==
  /\ pc' = [h \in Handlers |-> "idle"] /\ snapshot' = [h \in Handlers |-> {}]
  /\ pollPc' = "idle" /\ pollCycleCount' = 0
  /\ UNCHANGED <<labelVars, marked, queue, deliveries, history>>

-----------------------------------------------------------------------------
(* The worker, as far as it touches the labels and the item *)

\* runWorker() and onResumeStart(): a resumed run takes the gates off, with
\* their answers except the retained ones.
WorkerClaims ==
  /\ queue.state = "pending"
  /\ queue' = Item("running", queue.command)
  /\ labels' = IF queue.command = "continue"
               THEN labels \ ({WaitingFor(g) : g \in Gates} \cup {Completed(g) : g \in Answered \ Retained})
               ELSE labels
  /\ UNCHANGED <<closed, assigned, marked, handlerVars, pollVars, deliveries, history>>

\* onGateHit().
WorkerHitsGate ==
  /\ queue.state = "running" /\ gates < MaxGates
  /\ gates' = gates + 1
  /\ \E g \in Gates : labels' = labels \cup {WaitingFor(g)}
  /\ queue' = Item("pausing", queue.command)
  /\ UNCHANGED <<closed, assigned, marked, handlerVars, pollVars, deliveries, triggers, fresh>>

WorkerEnds ==
  /\ queue.state \in {"running", "pausing"}
  /\ queue' = Free
  /\ UNCHANGED <<labelVars, marked, handlerVars, pollVars, deliveries, history>>

\* The worker throws or dies: release() or the reaper puts the item back.
WorkerFails ==
  /\ queue.state \in {"running", "pausing"}
  /\ queue' = Item("pending", queue.command)
  /\ UNCHANGED <<labelVars, marked, handlerVars, pollVars, deliveries, history>>

(* People, who leave a closed issue alone *)

Trigger ==
  /\ ~closed /\ TriggerLabel \notin labels /\ triggers < MaxTriggers
  /\ labels' = labels \cup {TriggerLabel}
  /\ triggers' = triggers + 1
  /\ fresh' = (\A h \in Handlers : pc[h] \notin {"mark", "remove"})
  /\ Sends(TriggerLabel)
  /\ UNCHANGED <<closed, assigned, marked, queue, handlerVars, pollVars, gates>>

AnswerGate(g) ==
  /\ ~closed /\ WaitingFor(g) \in labels /\ Completed(g) \notin labels
  /\ labels' = labels \cup {Completed(g)}
  /\ Sends(Completed(g))
  /\ UNCHANGED <<closed, assigned, marked, queue, handlerVars, pollVars, history>>

\* Somebody assigns the issue to the cluster's user, or to somebody else.
Assign ==
  /\ ~closed
  /\ assigned' = ~assigned
  /\ UNCHANGED <<labels, closed, marked, queue, handlerVars, pollVars, deliveries, history>>

CloseIssue ==
  /\ ~closed
  /\ closed' = TRUE
  /\ UNCHANGED <<labels, assigned, marked, queue, handlerVars, pollVars, deliveries, history>>

\* The key of the phase tracker has a TTL.
MarkExpires ==
  /\ marked
  /\ marked' = FALSE
  /\ UNCHANGED <<labelVars, queue, handlerVars, pollVars, deliveries, history>>

-----------------------------------------------------------------------------
MonitorInit ==
  /\ labels = {} /\ closed = FALSE /\ assigned = TRUE /\ marked = FALSE
  /\ queue = Free
  /\ pc = [h \in Handlers |-> "idle"]
  /\ snapshot = [h \in Handlers |-> {}]
  /\ pollPc = "idle" /\ pollCycleCount = 0
  /\ deliveries = {}
  /\ triggers = 0 /\ gates = 0 /\ fresh = FALSE

HandlerNext(h) ==
  Clear(h) \/ IsDuplicate(h) \/ Fetch(h) \/ EnqueueResume(h) \/ EnqueueProcess(h)
  \/ MarkProcessed(h) \/ RemoveLabels(h)

MonitorCalmNext ==
  \/ \E h \in Handlers : HandlerNext(h) \/ WebhookProcess(h) \/ WebhookCompleted(h) \/ VerifyCompleted(h)
  \/ PollProcess \/ PollCompleted
  \/ WorkerClaims \/ WorkerHitsGate \/ WorkerEnds
  \/ Trigger \/ (\E g \in Gates : AnswerGate(g)) \/ Assign \/ CloseIssue

MonitorFault ==
  \/ \E h \in Handlers : TrackerFails(h) \/ FetchFails(h) \/ EnqueueFails(h) \/ RemoveLabelsFails(h)
  \/ PollFails \/ MarkExpires \/ MonitorDies \/ WorkerFails

MonitorNext == MonitorCalmNext \/ MonitorFault

MonitorSpec == MonitorInit /\ [][MonitorNext]_monitorVars

\* The poll loop goes on, handlers and workers get on; from some point on
\* neither GitHub nor Redis fails and nobody dies.  Nothing is assumed of the
\* webhooks, nor of the TTL of the phase tracker.
MonitorFairSpec ==
  /\ MonitorSpec
  /\ \A h \in Handlers : WF_monitorVars(HandlerNext(h))
  /\ WF_monitorVars(PollProcess) /\ WF_monitorVars(PollCompleted)
  /\ WF_monitorVars(WorkerClaims) /\ WF_monitorVars(WorkerEnds)
  /\ <>[][MonitorCalmNext]_monitorVars

-----------------------------------------------------------------------------
(* Properties *)

\* Every variable keeps its shape.
MonitorTypeOK ==
  /\ labels \subseteq ({TriggerLabel} \cup GateLabels)
  /\ closed \in BOOLEAN /\ assigned \in BOOLEAN /\ marked \in BOOLEAN /\ fresh \in BOOLEAN
  /\ queue \in {Free} \cup [state : {"pending", "running", "pausing"}, command : {"process", "continue"}]
  /\ pc \in [Handlers -> {"idle", "clear", "check", "fetch", "enqueue", "mark", "remove", "fetchResume", "resume"}]
  /\ snapshot \in [Handlers -> SUBSET ({Unknown} \cup GateLabels)]
  /\ pollPc \in {"idle", "completed"} /\ pollCycleCount \in 0 .. Interval - 1
  /\ deliveries \subseteq ({TriggerLabel} \cup GateLabels)
  /\ triggers \in 0 .. MaxTriggers /\ gates \in 0 .. MaxGates

\* Nothing takes a trigger off the issue before some handler has asked the
\* queue on behalf of it: not a failed enqueue, not a restart between the
\* steps, not the handlers of repeated and late deliveries, nor those of an
\* earlier trigger.  Excepted is a trigger that was set while a handler of the
\* one before stood between its enqueue and its removal of the label.
TriggerKeptUntilQueued == fresh => TriggerLabel \in labels

\* A trigger does not lie on an open, idle issue that stays assigned for ever:
\* not after lost webhooks, failed label updates, restarts, nor the dedup key
\* of an earlier run.
TriggerServed ==
  (TriggerLabel \in labels /\ ~InFlight) ~> (TriggerLabel \notin labels \/ InFlight \/ closed \/ ~assigned)

\* Nor does the answer to a gate, if its completed label is one that is polled;
\* that of sibling-review is not, and has only its webhook.
ResumeServed ==
  \A g \in Known :
    (g \in Answered /\ ~InFlight) ~> (g \notin Answered \/ InFlight \/ closed \/ ~assigned)
=============================================================================
