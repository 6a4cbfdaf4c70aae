----------------------------- MODULE PhaseLoop -----------------------------
(***************************************************************************)
(* One issue on its way through the workflow: PhaseLoop.executeLoop with   *)
(* what it calls (LabelManager, PhaseResolver, GateChecker, the review and *)
(* remediate executors, the product-diff guard), the part of               *)
(* ClaudeCliWorker.handle around it, and MergeConflictHandler's success    *)
(* path (packages/orchestrator/src/worker).                                *)
(*                                                                         *)
(* A run is ephemeral: when its process dies the queue hands the item to   *)
(* another worker, which finds its way by the issue's labels, the branch,  *)
(* the sidecar in the checkout (when the checkout survives) and two Redis  *)
(* keys, which expire.  What the agent answers, whether CI is green,       *)
(* whether the base branch conflicts and when people answer gates is left  *)
(* open.                                                                   *)
(*                                                                         *)
(* Not here: stage comments and events, the epic workflow, pull requests   *)
(* of sibling repositories, address-pr-feedback, Redis being unreachable.  *)
(***************************************************************************)
EXTENDS Naturals, Sequences, FiniteSets, FiniteSetsExt

CONSTANTS
  Configs,             \* the worker configurations under which issues run
  MaxRemediations,     \* maxRemediations
  MaxImplementRetries, \* maxImplementRetries
  MaxBlockCycles,      \* the cap of countDependencyBlockCycles
  MaxTasks,            \* bound: tasks an increment of implement may leave open
  MaxFaults            \* bound: runs that die or give up, checkouts lost, keys expired,
                       \* swallowed failures of a write, triggers set again

\* review: reviewPhaseEnabled.  gate: the phase that owns implementation-review,
\* "implement" (speckit-feature), "validate" (ciMergeGateEnabled) or "none"
\* (speckit-bugfix, whose condition on-request no branch of the loop fires).
Configurations == [review : BOOLEAN, gate : {"implement", "validate", "none"}]

ASSUME PhaseConstants ==
  /\ Configs \subseteq Configurations
  /\ {MaxRemediations, MaxImplementRetries, MaxBlockCycles, MaxTasks, MaxFaults} \subseteq Nat

PHASE_SEQUENCE == <<"specify", "clarify", "plan", "tasks", "implement", "review", "validate">>
Phases    == {"specify", "clarify", "plan", "tasks", "implement", "review", "validate"}
Order(p)  == CHOOSE i \in 1 .. 7 : PHASE_SEQUENCE[i] = p
Gates     == {"clarification", "implementation-review", "manual-validation", "remediation-limit",
              "dependencies", "dependency-limit", "ci", "merge-conflicts"}

VARIABLES
  config,    \* of the worker that serves the issue
  item,      \* the issue's queue item: none, process, continue, or the re-arm at review
  labels,    \* of the issue: phase:P, completed:X, waiting-for:X, agent:error or failed:P
  run,       \* the worker's run: its next step and the locals of executeLoopInner
  sidecar,   \* the review artifact in the checkout: verdict and remediationCount
  mirror,    \* remediation-count in Redis
  diff,      \* phase-start-ref:implement in Redis; product commits on the branch since
  blocks,    \* block comments on the issue since the newest limit comment
  questions, \* clarifications.md holds unanswered questions
  faults,    \* how many faults there were
  seen       \* history, for the properties

issueVars == <<blocks, questions>>
phaseVars == <<config, item, labels, run, sidecar, mirror, diff, issueVars, faults, seen>>

Sequence == {p \in Phases : p = "review" => config.review}
Earliest(ps) == CHOOSE p \in ps : \A q \in ps : Order(p) <= Order(q)
Latest(ps)   == CHOOSE p \in ps : \A q \in ps : Order(p) >= Order(q)
Following(p) == LET later == {q \in Sequence : Order(q) > Order(p)}
                IN  IF later = {} THEN "end" ELSE Earliest(later)

-----------------------------------------------------------------------------
(* PhaseResolver *)

\* GATE_MAPPING with getEffectiveGateMapping.
Mapped == Gates \ {"merge-conflicts"}
OwnerOf(g) ==
  CASE g = "clarification"                         -> "clarify"
    [] g \in {"dependencies", "dependency-limit"}  -> "implement"
    [] g = "implementation-review"                 -> IF config.gate = "validate" THEN "validate" ELSE "implement"
    [] g = "remediation-limit"                     -> "review"
    [] g \in {"manual-validation", "ci"}           -> "validate"
ResumeFrom(g) == IF g \in {"implementation-review", "manual-validation", "ci"} THEN "validate" ELSE OwnerOf(g)

\* An active phase label first, else the first phase whose completion no
\* label shows, a gate's label standing for the phase that owns it.
ResolveFromProcess ==
  LET completed == labels.completed \cup {OwnerOf(g) : g \in labels.completed \cap Mapped}
      open      == Sequence \ completed
  IN  IF labels.phase \in Sequence THEN labels.phase
      ELSE IF open = {} THEN "validate" ELSE Earliest(open)

\* The most advanced answered gate; the order of the labels decides between
\* gates of one phase.
ResolveFromContinue ==
  LET answered == {g \in labels.completed \cap Mapped : OwnerOf(g) \in Sequence}
      last     == Latest({OwnerOf(g) : g \in answered})
  IN  IF answered = {} THEN {ResolveFromProcess}
      ELSE {ResumeFrom(g) : g \in {a \in answered : OwnerOf(a) = last}}

ResolveStartPhase ==
  CASE item = "process"  -> {ResolveFromProcess}
    [] item = "continue" -> ResolveFromContinue
    [] item = "rereview" -> {"review"}

-----------------------------------------------------------------------------
(* What a step does to the labels and to the run *)

\* lastTasksRemainingByUnit: the agent's count includes manual tasks, the one
\* derived from tasks.md does not, so each has a baseline of its own.
Units      == {"sentinel", "automatable"}
NoBaseline == [u \in Units |-> MaxTasks + 1]

Idle == [pc |-> "idle", at |-> "specify", pending |-> FALSE, retries |-> 0,
         left |-> NoBaseline, fixTried |-> FALSE, refOk |-> FALSE]

GoTo(step)  == run' = [run EXCEPT !.pc = step]
\* The loop returns to handle(), its locals gone.
Leave       == run' = [Idle EXCEPT !.pc = "return"]
\* The loop moves on to phase p; what it counted within implement is over.
Enter(p)    == [run EXCEPT !.pc = IF p = "end" THEN "end" ELSE "start", !.at = IF p = "end" THEN @ ELSE p,
                           !.retries = 0, !.left = NoBaseline, !.refOk = FALSE]
At(p, step) == run.pc = step /\ run.at = p

\* LabelManager: onPhaseStart, onPhaseComplete, onPhaseExecutedWithoutCompletion,
\* onGateHit, onError, ensureCleanup.
PhaseActive(l, p) == [l EXCEPT !.phase = p]
PhaseDone(l, p)   == [l EXCEPT !.phase = "none", !.completed = @ \cup {p}]
PhaseExecuted(l)  == [l EXCEPT !.phase = "none"]
GateHit(l, g)     == [l EXCEPT !.phase = "none", !.waiting = @ \cup {g}]
Errored(l)        == [l EXCEPT !.phase = "none", !.failed = TRUE]
Cleaned(l)        == [l EXCEPT !.phase = "none"]

\* History: clarify asks before any later phase or gate has left a label.
FirstQuestion(g) ==
  g = "clarification" /\ labels.completed \cup labels.waiting \subseteq {"specify", "clarification"}

\* The loop returns at a gate, or after escalateAndAlert; handle() then returns
\* to the dispatcher.
Pause(g) ==
  /\ labels' = GateHit(labels, g)
  /\ seen' = [seen EXCEPT !.asked = @ \/ FirstQuestion(g)]
  /\ Leave

EscalateAndAlert ==
  /\ labels' = Errored(labels)
  /\ Leave

-----------------------------------------------------------------------------
(* ClaudeCliWorker.handle up to the loop *)

\* A process item retried after a block was answered: resolveFromProcess takes
\* the answer for the completion of implement.
BlockAnswered == labels.completed \cap {"dependencies", "dependency-limit"} # {}

\* The labels are read and the start phase resolved ...
Take ==
  /\ item # "none" /\ run.pc = "idle"
  /\ \E p \in ResolveStartPhase :
       run' = [Idle EXCEPT !.pc = IF item = "process" THEN "enter" ELSE "resume", !.at = p]
  /\ seen' = [seen EXCEPT !.jumped = @ \/ (item = "process" /\ BlockAnswered), !.ended = FALSE]
  /\ UNCHANGED <<config, item, labels, sidecar, mirror, diff, issueVars, faults>>

\* resolveResumeRetainSuffixes.
Retained == {"remediation-limit", "dependency-limit"}
              \cup (IF config.gate = "validate" THEN {"implementation-review"} ELSE {})

\* ... then onResumeStart strips every waiting-for label and its answer,
\* unless the resumed phase is to consume the answer itself.
OnResumeStart ==
  /\ run.pc = "resume"
  /\ labels' = [labels EXCEPT !.waiting = {}, !.completed = @ \ (labels.waiting \ Retained)]
  /\ GoTo("enter")
  /\ UNCHANGED <<config, item, sidecar, mirror, diff, issueVars, faults, seen>>

\* The terminal no-op resume: an approved validate is not run again.
NothingLeft ==
  /\ config.gate = "validate" /\ run.at = "validate" /\ item # "process"
  /\ {"validate", "implementation-review"} \subseteq labels.completed

EnterLoop ==
  /\ run.pc = "enter"
  /\ run' = Enter(IF NothingLeft THEN "end" ELSE run.at)
  /\ UNCHANGED <<config, item, labels, sidecar, mirror, diff, issueVars, faults, seen>>

\* evaluatePushGuard refuses: at the entry, or at any later push.  The error
\* label is for an open issue only, and a failure to write it is swallowed.
PushRefused ==
  /\ run.pc \in {"enter", "commit", "remediatePush"} \/ At("implement", "run")
  /\ run.pc = "enter" => ~NothingLeft
  /\ \/ labels' = [labels EXCEPT !.failed = TRUE] /\ UNCHANGED seen
     \/ seen' = [seen EXCEPT !.ended = TRUE] /\ UNCHANGED labels
  /\ Leave
  /\ UNCHANGED <<config, item, sidecar, mirror, diff, issueVars, faults>>

-----------------------------------------------------------------------------
(* One turn of the loop: the phase starts and runs *)

OnPhaseStart ==
  /\ run.pc = "start"
  /\ labels' = PhaseActive(labels, run.at)
  /\ seen' = [seen EXCEPT !.stale = @ \/ "validate" \in labels.completed]
  /\ GoTo("run")
  /\ UNCHANGED <<config, item, sidecar, mirror, diff, issueVars, faults>>

\* runPrePhaseBaseMerge meets a conflict.
BaseMergeConflict ==
  /\ run.pc = "run" /\ run.at \in {"implement", "validate"}
  /\ labels' = GateHit(labels, "merge-conflicts")
  /\ seen' = [seen EXCEPT !.conflictAt = run.at]
  /\ Leave
  /\ UNCHANGED <<config, item, sidecar, mirror, diff, issueVars, faults>>

\* specify, plan, tasks; clarify, which may leave questions behind.
AgentSucceeds ==
  /\ run.pc = "run" /\ run.at \in {"specify", "clarify", "plan", "tasks"}
  /\ questions' \in IF run.at = "clarify" THEN {questions, TRUE} ELSE {questions}
  /\ GoTo("commit")
  /\ UNCHANGED <<config, item, labels, sidecar, mirror, diff, blocks, faults, seen>>

\* A phase fails for good; validate does when its install fails, or when the
\* one fix was tried.
PhaseFails ==
  /\ run.pc = "run" /\ run.at # "implement"
  /\ EscalateAndAlert
  /\ UNCHANGED <<config, item, sidecar, mirror, diff, issueVars, faults, seen>>

\* The start ref is read or, if none is kept (any more), captured after the
\* base merge, before the agent runs; without one the guard will call the phase
\* undetectable.  (A ref that a fresh clone does not hold was never pushed, nor
\* was anything after it: capturing it anew changes nothing here.)
Captured(ok) == IF ok /\ diff.ref = "none" THEN [ref |-> "set", since |-> FALSE] ELSE diff

\* The agent leaves product code behind, or nothing but specs, after the ref
\* that Redis or (ok) the run holds; what is pushed is no longer what validate
\* saw.  History: product code whose ref Redis keeps.
Pushed(d, ok, product) == [d EXCEPT !.since = @ \/ (product /\ (ok \/ d.ref = "set"))]
SeenPush(d, product) == [seen EXCEPT !.worked = @ \/ (product /\ d.ref = "set"), !.validated = FALSE]

\* implement, all its tasks done.
ImplementSucceeds ==
  /\ At("implement", "run")
  /\ \E ok \in BOOLEAN :
       /\ diff' = Captured(ok)
       /\ run' = [run EXCEPT !.pc = "commit", !.refOk = ok]
  /\ UNCHANGED <<config, item, labels, sidecar, mirror, issueVars, faults, seen>>

\* implement runs and what it left is pushed at once: an increment that left
\* fewer tasks than the last one, a failed attempt, a block, a manual rest.
ImplementPushes(ok, product) ==
  /\ At("implement", "run")
  /\ diff' = Pushed(Captured(ok), ok, product)
  /\ seen' = SeenPush(diff', product)

\* Mutant: one baseline, forgotten whenever the unit changes.
PartialForgetsUnit ==
  \E ok, product \in BOOLEAN, u \in Units, n \in 0 .. MaxTasks :
    /\ ImplementPushes(ok, product)
    /\ n < run.left[u]
    /\ run' = [run EXCEPT !.pc = "start", !.left = [NoBaseline EXCEPT ![u] = n]]
    /\ UNCHANGED <<config, item, labels, sidecar, mirror, issueVars, faults>>

ImplementPartial ==
  \E ok, product \in BOOLEAN, u \in Units, n \in 0 .. MaxTasks :
    /\ ImplementPushes(ok, product)
    /\ n < run.left[u]
    /\ run' = [run EXCEPT !.pc = "start", !.left[u] = n]
    /\ UNCHANGED <<config, item, labels, sidecar, mirror, issueVars, faults>>

\* The no-progress guard: an earlier increment left as few or fewer.
ImplementStalls ==
  /\ At("implement", "run") /\ \E u \in Units : run.left[u] <= MaxTasks
  /\ \E ok \in BOOLEAN : diff' = Captured(ok)
  /\ EscalateAndAlert
  /\ UNCHANGED <<config, item, sidecar, mirror, issueVars, faults, seen>>

ImplementFails ==
  \E ok, product, hasChanges \in BOOLEAN :
    /\ ImplementPushes(ok, product)
    /\ product => hasChanges
    /\ IF hasChanges /\ run.retries < MaxImplementRetries
       THEN run' = [run EXCEPT !.pc = "start", !.retries = @ + 1] /\ UNCHANGED labels
       ELSE Leave /\ labels' = Errored(labels)
    /\ UNCHANGED <<config, item, sidecar, mirror, issueVars, faults>>

\* SPECKIT_IMPLEMENT_BLOCKED, another cycle or the cap: what there is is pushed
\* and a comment posted, or not ...
DependencyBlocked ==
  \E ok, product, posted \in BOOLEAN, atCap \in {blocks >= MaxBlockCycles} :
    /\ ImplementPushes(ok, product)
    /\ blocks' = CASE ~posted         -> blocks
                   [] posted /\ atCap  -> 0
                   [] posted /\ ~atCap -> blocks + 1
    /\ GoTo(IF atCap THEN "limitHit" ELSE "blockHit")
    /\ UNCHANGED <<config, item, labels, sidecar, mirror, questions, faults>>

\* ... then the gate is raised; an old answer is removed if that succeeds.
DependencyGateHit ==
  /\ \/ run.pc = "limitHit" /\ labels' = GateHit(labels, "dependency-limit")
     \/ /\ run.pc = "blockHit"
        /\ \E answers \in {{}, {"dependencies"}} :
             labels' = GateHit([labels EXCEPT !.completed = @ \ answers], "dependencies")
  /\ Leave
  /\ UNCHANGED <<config, item, sidecar, mirror, diff, issueVars, faults, seen>>

NoRef == [ref |-> "none", since |-> FALSE]

\* pauseForManualValidation: a push, the phase completed, its ref retired ...
PauseForManualValidation ==
  \E ok, product \in BOOLEAN :
    /\ ImplementPushes(ok, product)
    /\ GoTo("completeManual")
    /\ UNCHANGED <<config, item, labels, sidecar, mirror, issueVars, faults>>

CompleteManual ==
  /\ run.pc = "completeManual"
  /\ labels' = PhaseDone(labels, "implement")
  /\ GoTo("retireManual")
  /\ seen' = [seen EXCEPT !.worked = FALSE, !.manual = TRUE, !.implemented = TRUE]
  /\ UNCHANGED <<config, item, sidecar, mirror, diff, issueVars, faults>>

\* clearPhaseStartRef, here and after a completed implement.
ClearPhaseStartRef ==
  /\ \/ run.pc = "retireManual" /\ GoTo("pauseManual")
     \/ run.pc = "retire" /\ run' = Enter(Following("implement"))
  /\ diff' = NoRef
  /\ UNCHANGED <<config, item, labels, sidecar, mirror, issueVars, faults, seen>>

\* ... before the gate is raised.
ManualGateHit ==
  /\ run.pc = "pauseManual"
  /\ Pause("manual-validation")
  /\ UNCHANGED <<config, item, sidecar, mirror, diff, issueVars, faults>>

\* review: the executor records a verdict and keeps the count; after a failed
\* validate a stub stands in, so that its finding reaches remediate.
ReviewSucceeds ==
  /\ At("review", "run")
  /\ sidecar' \in IF run.pending THEN {sidecar} ELSE {[sidecar EXCEPT !.verdict = v] : v \in {"clean", "changes"}}
  /\ GoTo("commit")
  /\ UNCHANGED <<config, item, labels, mirror, diff, issueVars, faults, seen>>

\* validate; a pass resolves the findings that only validate had raised.
ValidateSucceeds ==
  /\ At("validate", "run")
  /\ sidecar' \in {sidecar} \cup {[sidecar EXCEPT !.verdict = "clean"] : v \in {sidecar.verdict} \cap {"changes"}}
  /\ seen' = [seen EXCEPT !.validated = TRUE]
  /\ GoTo("commit")
  /\ UNCHANGED <<config, item, labels, mirror, diff, issueVars, faults>>

\* The same failure as before, by its fingerprint, ends the run ...
ValidateFailsAgain ==
  /\ At("validate", "run") /\ config.review
  /\ EscalateAndAlert
  /\ UNCHANGED <<config, item, sidecar, mirror, diff, issueVars, faults, seen>>

\* ... a new one becomes a finding: back to review, or one fix without it
\* (then nothing reads the artifact, and neither verdict nor count is kept).
ValidateFails ==
  /\ At("validate", "run") /\ (config.review \/ ~run.fixTried)
  /\ sidecar' = IF config.review THEN [sidecar EXCEPT !.verdict = "changes"] ELSE sidecar
  /\ run' = IF config.review THEN [run EXCEPT !.pc = "start", !.at = "review", !.pending = TRUE]
                             ELSE [run EXCEPT !.pc = "remediate", !.fixTried = TRUE]
  /\ UNCHANGED <<config, item, labels, mirror, diff, issueVars, faults, seen>>

-----------------------------------------------------------------------------
(* The phase succeeded: push, guard, CI, gates, completion *)

\* commitPushAndEnsurePr.
Commit ==
  /\ run.pc = "commit"
  /\ GoTo(CASE run.at = "implement"                                -> "guard"
            [] run.at = "validate" /\ config.gate = "validate"     -> "ci"
            [] OTHER                                               -> "gates")
  /\ \E product \in BOOLEAN :
       IF run.at = "implement"
       THEN diff' = Pushed(diff, run.refOk, product) /\ seen' = SeenPush(diff, product)
       ELSE UNCHANGED <<diff, seen>>
  /\ UNCHANGED <<config, item, labels, sidecar, mirror, issueVars, faults>>

\* Mutant: the ref is retired as soon as the guard passes.
GuardClearsRef ==
  /\ run.pc = "guard" /\ run.refOk /\ diff.since
  /\ diff' = NoRef
  /\ GoTo("gates")
  /\ seen' = [seen EXCEPT !.implemented = TRUE]
  /\ UNCHANGED <<config, item, labels, sidecar, mirror, issueVars, faults>>

\* computePhaseScopedProductDiff: the phase's own commits touch product code.
\* The ref stays: the phase may yet pause and be entered again.
GuardPasses ==
  /\ run.pc = "guard" /\ run.refOk /\ diff.since
  /\ GoTo("gates")
  /\ seen' = [seen EXCEPT !.implemented = TRUE]
  /\ UNCHANGED <<config, item, labels, sidecar, mirror, diff, issueVars, faults>>

\* Mutant: the run ends without a word.
GuardRejectsQuietly ==
  /\ run.pc = "guard" /\ ~(run.refOk /\ diff.since)
  /\ Leave
  /\ UNCHANGED <<config, item, labels, sidecar, mirror, diff, issueVars, faults, seen>>

GuardRejects ==
  /\ run.pc = "guard" /\ ~(run.refOk /\ diff.since)
  /\ EscalateAndAlert
  /\ UNCHANGED <<config, item, sidecar, mirror, diff, issueVars, faults, seen>>

\* waitForCiGreen: anything but green pauses, before any gate is looked at.
CiGreen ==
  /\ run.pc = "ci"
  /\ GoTo("gates")
  /\ UNCHANGED <<config, item, labels, sidecar, mirror, diff, issueVars, faults, seen>>

PauseForCiReadiness ==
  /\ run.pc = "ci"
  /\ Pause("ci")
  /\ UNCHANGED <<config, item, sidecar, mirror, diff, issueVars, faults>>

\* The gate of the phase, outside review, whose condition holds.
ActiveGates ==
     {g \in {"clarification"} : run.at = "clarify" /\ questions}
       \cup {g \in {"implementation-review"} : run.at = config.gate}
Unsatisfied == ActiveGates \ labels.completed

GatesSkip ==
  /\ run.pc = "gates" /\ run.at # "review"
  /\ Unsatisfied = {}
  /\ GoTo("complete")
  /\ UNCHANGED <<config, item, labels, sidecar, mirror, diff, issueVars, faults, seen>>

\* Mutant: the phase is marked complete before its gate is answered.
GatePausesCompleted ==
  \E g \in Unsatisfied :
    /\ run.pc = "gates" /\ run.at \in {"clarify", "implement"}
    /\ labels' = GateHit(PhaseDone(labels, run.at), g)
    /\ seen' = [seen EXCEPT !.asked = @ \/ FirstQuestion(g)]
    /\ Leave
    /\ UNCHANGED <<config, item, sidecar, mirror, diff, issueVars, faults>>

\* The phase is not marked complete while its gate is open ...
GatePauses ==
  \E g \in Unsatisfied :
    /\ run.pc = "gates" /\ run.at \in {"clarify", "implement"}
    /\ Pause(g)
    /\ UNCHANGED <<config, item, sidecar, mirror, diff, issueVars, faults>>

\* ... but for the approval of a green validate: completed first, then the
\* spent budget forgotten, the gate raised after.
ApprovalPause ==
  /\ At("validate", "gates") /\ Unsatisfied # {}
  /\ labels' = PhaseDone(labels, "validate")
  /\ GoTo("converged")
  /\ UNCHANGED <<config, item, sidecar, mirror, diff, issueVars, faults, seen>>

\* History: a new budget begins.
Granted == [seen EXCEPT !.spent = 0, !.lost = 0]

ClearBudgetMirror ==
  /\ run.pc = "converged"
  /\ mirror' = 0
  /\ GoTo("pauseApproval")
  /\ seen' = Granted
  /\ UNCHANGED <<config, item, labels, sidecar, diff, issueVars, faults>>

ApprovalGateHit ==
  /\ run.pc = "pauseApproval"
  /\ Pause("implementation-review")
  /\ UNCHANGED <<config, item, sidecar, mirror, diff, issueVars, faults>>

\* Mutant: the count of an earlier checkout is not fetched from Redis.
ReconcileNothing == sidecar.count

\* max(disk, redis), seeded into the sidecar before the gate reads it.
Reconciled == Max({sidecar.count, mirror})

\* Mutant: the cap is passed before it is enforced.
LimitPassed == Reconciled > MaxRemediations /\ sidecar.verdict = "changes"

LimitReached == Reconciled >= MaxRemediations /\ sidecar.verdict = "changes"

\* on-remediation-limit: below the cap, at it, or answered by an operator: a
\* fresh budget, in three steps.
ReviewGateSkips ==
  /\ At("review", "gates") /\ ~LimitReached
  /\ sidecar' = [sidecar EXCEPT !.count = Reconciled]
  /\ GoTo("complete")
  /\ UNCHANGED <<config, item, labels, mirror, diff, issueVars, faults, seen>>

ReviewGatePauses ==
  /\ At("review", "gates") /\ LimitReached
  /\ "remediation-limit" \notin labels.completed
  /\ sidecar' = [sidecar EXCEPT !.count = Reconciled]
  /\ Pause("remediation-limit")
  /\ UNCHANGED <<config, item, mirror, diff, issueVars, faults>>

ResetRemediationCount ==
  /\ At("review", "gates") /\ LimitReached
  /\ "remediation-limit" \in labels.completed
  /\ sidecar' = [sidecar EXCEPT !.count = 0]
  /\ GoTo("clearMirror")
  /\ seen' = Granted
  /\ UNCHANGED <<config, item, labels, mirror, diff, issueVars, faults>>

ClearMirror ==
  /\ run.pc = "clearMirror"
  /\ mirror' = 0
  /\ GoTo("rearm")
  /\ UNCHANGED <<config, item, labels, sidecar, diff, issueVars, faults, seen>>

RearmGate ==
  /\ run.pc = "rearm"
  /\ labels' = [labels EXCEPT !.completed = @ \ {"remediation-limit"}]
  /\ GoTo("complete")
  /\ UNCHANGED <<config, item, sidecar, mirror, diff, issueVars, faults, seen>>

\* completed:<phase>, but for a review that wants changes; a clean one also
\* removes an answer nobody consumed.  implement's start ref is retired next.
CompletePhase ==
  /\ run.pc = "complete"
  /\ LET changes == run.at = "review" /\ sidecar.verdict = "changes"
         spent   == IF run.at = "review" THEN {"remediation-limit"} ELSE {}
     IN  /\ labels' = IF changes THEN PhaseExecuted(labels)
                      ELSE [PhaseDone(labels, run.at) EXCEPT !.completed = @ \ spent]
         /\ run' = IF changes THEN [run EXCEPT !.pc = "remediate"]
                   ELSE IF run.at = "implement" THEN [run EXCEPT !.pc = "retire"]
                   ELSE Enter(Following(run.at))
  /\ seen' = [seen EXCEPT !.worked = @ /\ run.at # "implement"]
  /\ UNCHANGED <<config, item, sidecar, mirror, diff, issueVars, faults>>

-----------------------------------------------------------------------------
(* The remediate seam, and the one fix without a review phase *)

RemediateStarts ==
  /\ run.pc = "remediate"
  /\ labels' = IF config.review THEN PhaseActive(labels, "remediate") ELSE labels
  /\ GoTo("launch")
  /\ UNCHANGED <<config, item, sidecar, mirror, diff, issueVars, faults, seen>>

\* RemediateExecutor starts the agent ...
RemediateLaunches ==
  /\ run.pc = "launch"
  /\ GoTo("fixing")
  /\ seen' = IF config.review THEN [seen EXCEPT !.spent = @ + 1] ELSE seen
  /\ UNCHANGED <<config, item, labels, sidecar, mirror, diff, issueVars, faults>>

\* ... and counts the attempt once it is over, however it ended.  A failure to
\* write the count is swallowed.
BumpBudget ==
  \/ /\ sidecar' = IF config.review THEN [sidecar EXCEPT !.count = @ + 1] ELSE sidecar
     /\ UNCHANGED <<faults, seen>>
  \/ /\ config.review /\ faults < MaxFaults
     /\ faults' = faults + 1
     /\ seen' = [seen EXCEPT !.lost = @ + 1]
     /\ UNCHANGED sidecar

RemediateExits ==
  /\ run.pc = "fixing"
  /\ BumpBudget
  /\ \E step \in {"remediatePush", "discard"} : GoTo(step)
  /\ UNCHANGED <<config, item, labels, mirror, diff, issueVars>>

\* Exit 0 or a timeout: what there is is pushed, then the count mirrored.
RemediatePush ==
  /\ run.pc = "remediatePush"
  /\ GoTo("mirror")
  /\ seen' = [seen EXCEPT !.validated = FALSE]
  /\ UNCHANGED <<config, item, labels, sidecar, mirror, diff, issueVars, faults>>

MirrorCount ==
  /\ run.pc = "mirror"
  /\ mirror' = sidecar.count
  /\ GoTo("remediated")
  /\ UNCHANGED <<config, item, labels, sidecar, diff, issueVars, faults, seen>>

\* Any other exit: the working tree is reverted; if that fails the loop stops,
\* and no label says so.
DiscardWorkingTree ==
  /\ run.pc = "discard"
  /\ \/ GoTo("remediated") /\ UNCHANGED seen
     \/ Leave /\ seen' = [seen EXCEPT !.ended = TRUE]
  /\ UNCHANGED <<config, item, labels, sidecar, mirror, diff, issueVars, faults>>

\* Mutant: without the review phase the fix is taken for a pass.
RemediatedMovesOn ==
  /\ run.pc = "remediated"
  /\ run' = IF config.review THEN [run EXCEPT !.pc = "start", !.pending = FALSE] ELSE Enter(Following(run.at))
  /\ labels' = IF config.review THEN [labels EXCEPT !.phase = "none"] ELSE labels
  /\ UNCHANGED <<config, item, sidecar, mirror, diff, issueVars, faults, seen>>

\* Back to review, or to validate.  (Nothing reads completed:remediate.)
Remediated ==
  /\ run.pc = "remediated"
  /\ run' = [run EXCEPT !.pc = "start", !.pending = FALSE]
  /\ labels' = IF config.review THEN [labels EXCEPT !.phase = "none"] ELSE labels
  /\ UNCHANGED <<config, item, sidecar, mirror, diff, issueVars, faults, seen>>

-----------------------------------------------------------------------------
(* The run ends *)

\* Every phase done: the budget mirror is cleared, onWorkflowComplete().
WorkflowComplete ==
  /\ run.pc = "end"
  /\ mirror' = 0
  /\ seen' = [Granted EXCEPT !.ended = TRUE]
  /\ Leave
  /\ UNCHANGED <<config, item, labels, sidecar, diff, issueVars, faults>>

\* ensureCleanup(), and the dispatcher completes the item.
Return ==
  /\ run.pc = "return"
  /\ item' = "none"
  /\ run' = Idle
  /\ labels' = Cleaned(labels)
  /\ UNCHANGED <<config, sidecar, mirror, diff, issueVars, faults, seen>>

-----------------------------------------------------------------------------
(* Runs that die, people, monitors and the conflict handler *)

\* No artifact asks for no changes.
NoSidecar == [verdict |-> "clean", count |-> 0]

\* History: the attempts whose count is lost, when the run ends here and when
\* sidecar c and mirror m is all that is left.
CutShort == IF run.pc = "fixing" /\ config.review THEN 1 ELSE 0
Forgotten(c, m) == Max({sidecar.count, mirror}) - Max({c.count, m})
Losing(n) == [seen EXCEPT !.lost = Min({@ + n, seen.spent})]

\* The process dies, or a call throws: the item is handed out again.  A phase
\* label may be left behind, or lost between its removal and the next one;
\* the next worker may have to clone again.
RunDies ==
  /\ run.pc # "idle" /\ faults < MaxFaults
  /\ run' = Idle
  /\ \E p \in {labels.phase, "none"} : labels' = [labels EXCEPT !.phase = p]
  /\ sidecar' \in {sidecar, NoSidecar}
  /\ seen' = Losing(CutShort + Forgotten(sidecar', mirror))
  /\ faults' = faults + 1
  /\ UNCHANGED <<config, item, mirror, diff, issueVars>>

\* The phase throws: alerted, and tried again.
PhaseThrows ==
  /\ run.pc = "run" /\ faults < MaxFaults
  /\ run' = Idle
  /\ labels' = Errored(labels)
  /\ faults' = faults + 1
  /\ UNCHANGED <<config, item, sidecar, mirror, diff, issueVars, seen>>

\* A label operation fails for good (failed-terminal), or the item's retries
\* are used up: the dispatcher drops it and alerts.
RunGivenUp ==
  /\ run.pc # "idle" /\ faults < MaxFaults
  /\ run' = Idle
  /\ item' = "none"
  /\ \E p \in {labels.phase, "none"} : labels' = [labels EXCEPT !.phase = p]
  /\ seen' = [Losing(CutShort) EXCEPT !.ended = TRUE]
  /\ faults' = faults + 1
  /\ UNCHANGED <<config, sidecar, mirror, diff, issueVars>>

\* The next worker clones the repository anew.
CheckoutLost ==
  /\ run.pc = "idle" /\ faults < MaxFaults
  /\ sidecar' = NoSidecar
  /\ seen' = Losing(Forgotten(NoSidecar, mirror))
  /\ faults' = faults + 1
  /\ UNCHANGED <<config, item, labels, run, mirror, diff, issueVars>>

\* PHASE_START_REF_TTL_SECONDS have passed since a key was written.
RefExpires ==
  /\ diff.ref = "set" /\ faults < MaxFaults
  /\ diff' = [diff EXCEPT !.ref = "none"]
  /\ seen' = [seen EXCEPT !.worked = FALSE]
  /\ faults' = faults + 1
  /\ UNCHANGED <<config, item, labels, run, sidecar, mirror, issueVars>>

MirrorExpires ==
  /\ mirror # 0 /\ faults < MaxFaults
  /\ mirror' = 0
  /\ seen' = Losing(Forgotten(sidecar, 0))
  /\ faults' = faults + 1
  /\ UNCHANGED <<config, item, labels, run, sidecar, diff, issueVars>>

\* Somebody answers a gate (clarifications with the questions themselves).
Answer(g) ==
  /\ g \in labels.waiting \ labels.completed
  /\ g # "merge-conflicts"
  /\ labels' = [labels EXCEPT !.completed = @ \cup {g}]
  /\ questions' = (questions /\ g # "clarification")
  /\ seen' = [seen EXCEPT !.asked = @ /\ g # "clarification", !.approved = @ \/ g = "implementation-review"]
  /\ UNCHANGED <<config, item, run, sidecar, mirror, diff, blocks, faults>>

\* The label monitor (LabelMonitor) resumes an answered issue ...
Resume ==
  /\ item = "none" /\ run.pc = "idle"
  /\ labels.waiting \cap labels.completed # {}
  /\ item' = "continue"
  /\ UNCHANGED <<config, labels, run, sidecar, mirror, diff, issueVars, faults, seen>>

\* ... and starts one over whose trigger label was set again.  A phase label
\* that a run given up has left is not removed.
Trigger ==
  /\ item = "none" /\ run.pc = "idle" /\ faults < MaxFaults
  /\ item' = "process"
  /\ labels' = [labels EXCEPT !.completed = {}, !.waiting = {}, !.failed = FALSE]
  /\ seen' = [seen EXCEPT !.asked = FALSE, !.stale = FALSE, !.conflictAt = "none",
                         !.approved = FALSE, !.manual = FALSE,
                         !.jumped = labels.phase \in {"review", "validate"}]
  /\ faults' = faults + 1
  /\ UNCHANGED <<config, run, sidecar, mirror, diff, issueVars>>

\* MergeConflictHandler pushes the merge, clears the gate and what was said of
\* the tree before it (a failure is swallowed, and the old marker stays), and
\* re-arms: at review, or where the labels say.
ConflictResolved ==
  /\ item = "none" /\ run.pc = "idle"
  /\ "merge-conflicts" \in labels.waiting
  /\ \/ /\ labels' = [labels EXCEPT !.waiting = @ \ {"merge-conflicts"},
                                   !.completed = @ \ {"validate", "implementation-review"}]
        /\ UNCHANGED faults
     \/ faults < MaxFaults /\ faults' = faults + 1 /\ UNCHANGED labels
  /\ item' = IF config.review THEN "rereview" ELSE "continue"
  /\ seen' = [seen EXCEPT !.validated = FALSE, !.stale = "validate" \in labels'.completed,
                         !.conflictAt = IF "merge-conflicts" \in labels'.waiting THEN @ ELSE "none",
                         !.jumped = @ \/ (config.review /\ seen.conflictAt = "implement")]
  /\ UNCHANGED <<config, run, sidecar, mirror, diff, issueVars>>

-----------------------------------------------------------------------------
(* The specification *)

PhaseInit ==
  /\ config \in Configs
  /\ item = "process"
  /\ labels = [phase |-> "none", completed |-> {}, waiting |-> {}, failed |-> FALSE]
  /\ run = Idle
  /\ sidecar = NoSidecar
  /\ mirror = 0
  /\ diff = NoRef
  /\ blocks = 0
  /\ questions = FALSE
  /\ faults = 0
  /\ seen = [asked |-> FALSE, approved |-> FALSE, manual |-> FALSE, spent |-> 0, lost |-> 0,
             worked |-> FALSE, jumped |-> FALSE, stale |-> FALSE, conflictAt |-> "none",
             implemented |-> FALSE, validated |-> FALSE, ended |-> FALSE]

\* The steps of the worker.
RunStep ==
  \/ Take \/ OnResumeStart \/ EnterLoop \/ PushRefused \/ OnPhaseStart \/ BaseMergeConflict
  \/ AgentSucceeds \/ PhaseFails
  \/ ImplementSucceeds \/ ImplementPartial \/ ImplementStalls \/ ImplementFails
  \/ DependencyBlocked \/ DependencyGateHit
  \/ PauseForManualValidation \/ CompleteManual \/ ClearPhaseStartRef \/ ManualGateHit
  \/ ReviewSucceeds \/ ValidateSucceeds \/ ValidateFailsAgain \/ ValidateFails
  \/ Commit \/ GuardPasses \/ GuardRejects \/ CiGreen \/ PauseForCiReadiness
  \/ GatesSkip \/ GatePauses \/ ApprovalPause \/ ClearBudgetMirror \/ ApprovalGateHit
  \/ ReviewGateSkips \/ ReviewGatePauses \/ ResetRemediationCount \/ ClearMirror \/ RearmGate
  \/ CompletePhase
  \/ RemediateStarts \/ RemediateLaunches \/ RemediateExits \/ RemediatePush \/ MirrorCount \/ DiscardWorkingTree \/ Remediated
  \/ WorkflowComplete \/ Return

PhaseNext ==
  \/ RunStep
  \/ RunDies \/ PhaseThrows \/ RunGivenUp \/ CheckoutLost \/ RefExpires \/ MirrorExpires
  \/ \E g \in Gates : Answer(g)
  \/ Resume \/ Trigger \/ ConflictResolved

\* A worker that has a step to take takes it: every wait of the loop (agent,
\* CI, GitHub) has a timeout.
PhaseSpec == PhaseInit /\ [][PhaseNext]_phaseVars /\ WF_phaseVars(RunStep)

-----------------------------------------------------------------------------
(* Properties *)

\* maxRemediations may be configured as 0: then nothing is tried before a
\* grant, and one attempt after it.
AttemptsPerGrant == IF MaxRemediations = 0 THEN 1 ELSE MaxRemediations

\* The labels, the locals and the durable counters keep their ranges; in
\* particular no sidecar counts more attempts than a grant allows, however
\* runs, grants and re-clones interleave.
PhaseTypeOK ==
  /\ config \in Configs
  /\ item \in {"none", "process", "continue", "rereview"}
  /\ labels.phase \in Phases \cup {"remediate", "none"}
  /\ labels.completed \subseteq Phases \cup (Gates \ {"merge-conflicts"})
  /\ labels.waiting \subseteq Gates
  /\ labels.failed \in BOOLEAN
  /\ run.at \in Sequence
  /\ run.retries \in 0 .. MaxImplementRetries
  /\ run.left \in [Units -> 0 .. MaxTasks + 1]
  /\ sidecar \in [verdict : {"clean", "changes"}, count : 0 .. AttemptsPerGrant]
  /\ mirror \in 0 .. AttemptsPerGrant
  /\ diff \in [ref : {"none", "set"}, since : BOOLEAN]
  /\ blocks \in 0 .. MaxBlockCycles

Beyond(p) == run.pc = "start" /\ Order(run.at) > Order(p)

\* Since the issue was triggered: no phase after clarify starts while a first
\* question is open, whichever labels the runs that died have left; and where
\* the configuration asks for an implementation review nothing after it starts
\* (or no workflow finishes, when validate owns the gate) without an approval.
\* The manual-validation pause stands in for the review at implement.  The
\* exceptions: a question clarify asks again after later work (two dead runs
\* may then resolve past it), and the ways a run jumps over implement
\* (seen.jumped): a process item retried over an answered block, the re-arm at
\* review after a conflict before implement, which FinishedMeansImplemented is
\* about, and a trigger over the phase label of a run that was given up.
GatesRespected ==
  /\ Beyond("clarify") => ~seen.asked
  /\ config.gate = "implement" /\ (Beyond("implement") \/ run.pc = "end") =>
       seen.approved \/ seen.manual \/ seen.jumped
  /\ config.gate = "validate" /\ run.pc = "end" => seen.approved

\* From one grant of an operator (or a finished workflow) to the next at most
\* maxRemediations attempts are started, across pauses and dead runs, and one
\* more for each attempt whose count was lost: the run died before the agent had
\* exited, the count could not be written, or it was gone with the checkout
\* before it was mirrored (a non-zero exit mirrors nothing) or after the mirror
\* had expired.
RemediationBudget == seen.spent <= AttemptsPerGrant + seen.lost

\* The product-diff guard never turns away product code that implement pushed
\* and that was not yet accepted, over pauses and dead runs, as long as Redis
\* keeps the start ref: once its seven days are over a later entry measures
\* from a ref of its own, and rejects what was there before.
FinishedWorkAccepted == (At("implement", "guard") /\ run.refOk /\ seen.worked) => diff.since

\* A workflow finishes only when validate has passed since the last push of
\* implement or remediate and the last merge of a resolved conflict.  No phase
\* start withdraws completed:validate, so a run that died at the approval pause
\* and is retried works under the old marker (seen.stale), and so does one after
\* a conflict whose handler failed to remove it: the exception.
FinishedMeansValidated == run.pc = "end" => seen.validated \/ seen.stale

\* An issue without a queue item is finished, waits at a gate, or carries an
\* error: no exit of the loop leaves it silently behind, but for three: a run
\* given up by the dispatcher, a tree that cannot be reverted, and a refused push
\* on a closed issue or with a failing label write.
NoSilentStop ==
  item = "none" => seen.ended \/ labels.waiting # {} \/ labels.failed

\* Every run ends (increments, retries, fixes and the review loop are bounded)
\* unless an operator grants it another remediation budget.
RunEnds == run.pc # "idle" ~> run.pc = "idle" \/ "remediation-limit" \in labels.completed

\* "Workflow completed successfully -- all phases done": implement among them.
FinishedMeansImplemented == run.pc = "end" => seen.implemented
=============================================================================
