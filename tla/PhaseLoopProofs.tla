--------------------------- MODULE PhaseLoopProofs ---------------------------
(***************************************************************************)
(* Proofs about PhaseLoop for every bound on retries, tasks, remediations, *)
(* block cycles, faults and triggers.                                      *)
(*                                                                         *)
(* None of the safety properties is inductive: a run can die at any step,  *)
(* and the next one picks up whatever labels, sidecar, counter and start   *)
(* ref the dead one left.  PhaseInv therefore says, for each of these      *)
(* traces, what must have happened before it could be left behind:         *)
(*   Control        which phase each step of the loop belongs to;          *)
(*   BudgetCounted  an attempt is counted on disk or in Redis before the   *)
(*                  cap is asked for again, or its count is known to be    *)
(*                  lost (for RemediationBudget);                          *)
(*   WorkInRange    unaccepted product code is in the range that the start *)
(*                  ref in Redis opens (for FinishedWorkAccepted);         *)
(*   Loud           a run ends with a label that asks for someone, or with *)
(*                  the work done (for NoSilentStop);                      *)
(*   ValidateMarked completed:validate is about the present tree, or the   *)
(*                  label was already there (for FinishedMeansValidated);  *)
(*   QuestionOpen, ReviewTraced                                            *)
(*                  what an unanswered question, and a workflow nobody     *)
(*                  approved, can look like (for GatesRespected).          *)
(* Each part has one lemma on a step of the loop, with one case for each   *)
(* action.                                                                 *)
(***************************************************************************)
EXTENDS PhaseLoop, TLAPS

-----------------------------------------------------------------------------
(* The order of the phases *)

\* Every phase has its place in PHASE_SEQUENCE.
LEMMA OrderValues ==
  /\ Order("specify") = 1 /\ Order("clarify") = 2 /\ Order("plan") = 3 /\ Order("tasks") = 4
  /\ Order("implement") = 5 /\ Order("review") = 6 /\ Order("validate") = 7
<1> USE DEF PHASE_SEQUENCE, Order
<1>1. Order("specify") = 1
  OBVIOUS
<1>2. Order("clarify") = 2
  OBVIOUS
<1>3. Order("plan") = 3
  OBVIOUS
<1>4. Order("tasks") = 4
  OBVIOUS
<1>5. Order("implement") = 5
  OBVIOUS
<1>6. Order("review") = 6
  OBVIOUS
<1>7. Order("validate") = 7
  OBVIOUS
<1> QED
  BY <1>1, <1>2, <1>3, <1>4, <1>5, <1>6, <1>7

\* The first phase of a set of phases.
LEMMA EarliestIsFirst ==
  ASSUME NEW ps \in SUBSET Phases, ps # {}
  PROVE  Earliest(ps) \in ps /\ \A q \in ps : Order(Earliest(ps)) <= Order(q)
<1>1. \E p \in ps : \A q \in ps : Order(p) <= Order(q)
  <2>1. \A p \in Phases : Order(p) \in 1 .. 7
    BY OrderValues DEF Phases
  <2>2. CASE "specify" \in ps
    BY <2>1, <2>2, OrderValues
  <2>3. CASE "specify" \notin ps /\ "clarify" \in ps
    BY <2>3, OrderValues DEF Phases
  <2>4. CASE {"specify", "clarify"} \cap ps = {} /\ "plan" \in ps
    BY <2>4, OrderValues DEF Phases
  <2>5. CASE {"specify", "clarify", "plan"} \cap ps = {} /\ "tasks" \in ps
    BY <2>5, OrderValues DEF Phases
  <2>6. CASE {"specify", "clarify", "plan", "tasks"} \cap ps = {} /\ "implement" \in ps
    BY <2>6, OrderValues DEF Phases
  <2>7. CASE ps \subseteq {"review", "validate"} /\ "review" \in ps
    BY <2>7, OrderValues
  <2>8. CASE ps = {"validate"}
    BY <2>8, OrderValues
  <2> QED
    BY <2>2, <2>3, <2>4, <2>5, <2>6, <2>7, <2>8 DEF Phases
<1> QED
  BY <1>1 DEF Earliest

\* Every phase but review is always part of the workflow.
LEMMA SequenceMembers ==
  /\ Phases \ {"review"} \subseteq Sequence
  /\ Sequence \subseteq Phases
  /\ "review" \in Sequence <=> config.review
BY DEF Sequence, Phases

\* What follows a phase of the workflow: validate ends it, and nothing before
\* implement is followed by what comes after implement.
LEMMA FollowingPhase ==
  ASSUME NEW p \in Sequence
  PROVE  /\ Following(p) \in Sequence \cup {"end"}
         /\ Following(p) = "end" => p = "validate"
         /\ Following(p) \in {"review", "validate"} => p \in {"implement", "review"}
         /\ p = "specify" => Following(p) = "clarify"
<1> DEFINE later == {q \in Sequence : Order(q) > Order(p)}
<1>1. Following(p) = IF later = {} THEN "end" ELSE Earliest(later)
  BY DEF Following
<1>2. p \in Phases /\ Order(p) \in 1 .. 7 /\ \A q \in Phases : Order(q) \in 1 .. 7
  BY SequenceMembers, OrderValues DEF Phases
<1>3. p # "validate" => "validate" \in later
  BY <1>2, SequenceMembers, OrderValues DEF Phases
<1>4. p = "validate" => later = {}
  <2> SUFFICES ASSUME p = "validate", NEW q \in Sequence, Order(q) > Order(p)
               PROVE  FALSE
    OBVIOUS
  <2>1. q \in Phases
    BY SequenceMembers
  <2>2. Order(q) \in 1 .. 7
    BY <1>2, <2>1
  <2> QED
    BY <2>2, OrderValues
<1>5. p \in {"specify", "clarify", "plan", "tasks"} => "implement" \in later
  BY SequenceMembers, OrderValues DEF Phases
<1>6. later # {} => Earliest(later) \in later /\ \A q \in later : Order(Earliest(later)) <= Order(q)
  BY EarliestIsFirst, SequenceMembers
<1>7. p = "specify" => "clarify" \in later
  BY SequenceMembers, OrderValues DEF Phases
<1> HIDE DEF later
<1>8. later \subseteq Sequence /\ later \subseteq Phases /\ "end" \notin Phases
  BY SequenceMembers DEF later, Phases
<1>9. Following(p) \in Sequence \cup {"end"} /\ (Following(p) = "end" => p = "validate")
  BY <1>1, <1>3, <1>6, <1>8
<1>10. Following(p) \in {"review", "validate"} => p \in {"implement", "review"}
  BY <1>1, <1>2, <1>4, <1>5, <1>6, <1>8, OrderValues DEF Phases
<1>11. p = "specify" => Following(p) = "clarify"
  <2> SUFFICES ASSUME p = "specify"
               PROVE  Following(p) = "clarify"
    OBVIOUS
  <2> DEFINE f == Earliest(later)
  <2>1. Following(p) = f /\ f \in later /\ Order(f) <= Order("clarify")
    BY <1>1, <1>6, <1>7
  <2>2. f \in Phases /\ Order(f) > Order(p)
    BY <2>1, <1>8 DEF later
  <2> HIDE DEF f
  <2> QED
    BY <2>1, <2>2, OrderValues DEF Phases
<1> QED
  BY <1>9, <1>10, <1>11

\* What follows review, and that nothing follows validate.
LEMMA AfterReview ==
  ASSUME NEW p \in Sequence, p \in {"review", "validate"}
  PROVE  Following(p) \in {"validate", "end"}
<1>1. {q \in Sequence : Order(q) > Order(p)} \subseteq {"validate"}
  <2> SUFFICES ASSUME NEW q \in Sequence, Order(q) > Order(p)
               PROVE  q = "validate"
    OBVIOUS
  <2>1. q \in Phases
    BY SequenceMembers
  <2> QED
    BY <2>1, OrderValues DEF Phases
<1>2. {q \in Sequence : Order(q) > Order(p)} # {} =>
        Earliest({q \in Sequence : Order(q) > Order(p)}) = "validate"
  BY <1>1, EarliestIsFirst, SequenceMembers
<1> QED
  BY <1>2 DEF Following

-----------------------------------------------------------------------------
(* The inductive invariant *)

\* The steps of a run, and the shapes of the record variables.
Steps == {"idle", "resume", "enter", "start", "run", "commit", "guard", "ci", "gates", "complete",
          "limitHit", "blockHit", "completeManual", "retireManual", "pauseManual", "retire",
          "converged", "pauseApproval", "clearMirror", "rearm", "remediate", "launch", "fixing",
          "remediatePush", "mirror", "discard", "remediated", "end", "return"}
Runs == [pc : Steps, at : Phases, pending : BOOLEAN, retries : 0 .. MaxImplementRetries,
         left : [Units -> 0 .. MaxTasks + 1], fixTried : BOOLEAN, refOk : BOOLEAN]
IssueLabels == [phase : Phases \cup {"remediate", "none"}, completed : SUBSET (Phases \cup Mapped),
                waiting : SUBSET Gates, failed : BOOLEAN]
Histories == [asked : BOOLEAN, approved : BOOLEAN, manual : BOOLEAN, spent : Nat, lost : Nat,
              worked : BOOLEAN, jumped : BOOLEAN, stale : BOOLEAN, conflictAt : {"none", "implement", "validate"},
              implemented : BOOLEAN, validated : BOOLEAN, ended : BOOLEAN]

\* The shape of every variable, as records and not only field by field.
Shape ==
  /\ config \in Configs
  /\ item \in {"none", "process", "continue", "rereview"}
  /\ labels \in IssueLabels
  /\ run \in Runs
  /\ sidecar \in [verdict : {"clean", "changes"}, count : 0 .. AttemptsPerGrant]
  /\ mirror \in 0 .. AttemptsPerGrant
  /\ diff \in [ref : {"none", "set"}, since : BOOLEAN]
  /\ blocks \in 0 .. MaxBlockCycles
  /\ questions \in BOOLEAN
  /\ seen \in Histories

\* Which phase a step of the loop belongs to; who has an item to run.
Control ==
  /\ run.at \in Sequence
  /\ run.pc \in {"guard", "limitHit", "blockHit", "completeManual", "retireManual", "pauseManual", "retire"} =>
       run.at = "implement"
  /\ run.pc \in {"ci", "converged", "pauseApproval"} => run.at = "validate" /\ config.gate = "validate"
  /\ run.pc \in {"clearMirror", "rearm"} => run.at = "review"
  /\ run.pc \in {"remediate", "launch", "fixing", "remediatePush", "mirror", "discard", "remediated"} =>
       run.at \in {"review", "validate"}
  /\ run.pc = "end" => run.at = "validate"
  /\ run.pc # "idle" => item # "none"
  /\ item = "rereview" => config.review /\ (run.pc \notin {"idle", "return"} => run.at \in {"review", "validate"})

\* Every attempt of the running budget is counted on disk or in Redis, or its
\* count is lost, or the agent is still at it; on disk while one is about to be
\* made, and then the cap is not yet reached.
BudgetCounted ==
  /\ seen.spent <= seen.lost + sidecar.count + CutShort \/ seen.spent <= seen.lost + mirror + CutShort
  /\ ~config.review => seen.spent = 0
  /\ run.pc \in {"remediate", "launch", "fixing", "remediatePush", "mirror"} =>
       seen.spent <= seen.lost + sidecar.count + CutShort
  /\ run.pc = "complete" /\ run.at = "review" =>
       /\ seen.spent <= seen.lost + sidecar.count
       /\ sidecar.verdict = "changes" => sidecar.count < AttemptsPerGrant
  /\ run.pc \in {"clearMirror", "rearm"} => sidecar.count = 0 /\ seen.spent = 0
  /\ run.pc \in {"remediate", "launch", "fixing"} /\ config.review => sidecar.count < AttemptsPerGrant

\* Product code nobody accepted yet is in the range the start ref opens.
WorkInRange ==
  /\ seen.worked => diff.since /\ diff.ref = "set"
  /\ run.pc \in {"retire", "retireManual"} => ~seen.worked

\* What the issue shows when nobody works on it any more.
Spoken == seen.ended \/ labels.waiting # {} \/ labels.failed
Loud   == item = "none" \/ run.pc = "return" => Spoken

\* The steps between a phase's start and the end of its turn.
InTurn == {"run", "commit", "guard", "ci", "gates", "complete", "limitHit", "blockHit", "completeManual",
           "retireManual", "pauseManual", "retire", "clearMirror", "rearm",
           "remediate", "launch", "fixing", "remediatePush", "mirror", "discard", "remediated"}

\* completed:validate speaks of the tree that is there, or a phase was started
\* under an older one.
ValidateMarked ==
  /\ "validate" \in labels.completed => seen.validated \/ seen.stale
  /\ "validate" \in labels.completed /\ run.pc \in InTurn => seen.stale
  /\ run.at = "validate" /\ run.pc \in {"commit", "ci", "gates", "complete"} => seen.validated
  /\ run.pc = "end" => seen.validated \/ seen.stale

\* While a first question is open nothing has happened after clarify.
QuestionOpen ==
  seen.asked =>
    /\ questions
    /\ labels.completed \subseteq {"specify"} /\ labels.waiting \subseteq {"clarification"}
    /\ labels.phase \in {"none", "specify", "clarify"}
    /\ item # "rereview"
    /\ run.pc \notin {"idle", "return"} => run.at \in {"specify", "clarify"}
    /\ run.pc = "complete" => run.at = "specify"

\* Somebody approved, or one of the stated exceptions.
Excused == seen.approved \/ seen.manual \/ seen.jumped

\* Each trace an issue can show of having got past implement comes with an
\* approval or an exception; an answered gate with its answer.
ReviewTraced ==
  /\ "implementation-review" \in labels.completed => seen.approved
  /\ "manual-validation" \in labels.completed \cup labels.waiting \/ run.pc \in {"retireManual", "pauseManual"} =>
       seen.manual
  /\ "merge-conflicts" \in labels.waiting => seen.conflictAt # "none"
  /\ "ci" \in labels.completed \cup labels.waiting => config.gate = "validate"
  /\ config.gate = "validate" /\ (run.pc = "end" \/ (run.pc = "complete" /\ run.at = "validate")) => seen.approved
  /\ config.gate = "implement" =>
       /\ run.pc \notin {"idle", "return"} /\ run.at \in {"review", "validate"} => Excused
       /\ run.pc \in {"complete", "retire"} /\ run.at = "implement" => Excused
       /\ labels.phase \in {"review", "validate"} => Excused
       /\ labels.completed \cap {"implement", "review", "validate"} # {} => Excused
       /\ "remediation-limit" \in labels.completed \cup labels.waiting => Excused
       /\ "merge-conflicts" \in labels.waiting /\ seen.conflictAt = "validate" => Excused
       /\ item = "rereview" => Excused

\* The inductive invariant.
PhaseInv ==
  Shape /\ Control /\ BudgetCounted /\ WorkInRange /\ Loud /\ ValidateMarked /\ QuestionOpen /\ ReviewTraced

-----------------------------------------------------------------------------
(* Where a run starts *)

\* Every mapped gate belongs to a phase and resumes at one.
LEMMA OwnerPhases ==
  ASSUME NEW g \in Mapped
  PROVE  /\ OwnerOf(g) \in Phases
         /\ OwnerOf(g) = "implement" <=>
              g \in {"dependencies", "dependency-limit"} \/ (g = "implementation-review" /\ config.gate # "validate")
         /\ ResumeFrom(g) \in {OwnerOf(g), "validate"}
         /\ ResumeFrom(g) \in {"review", "validate"} =>
              g \in {"implementation-review", "manual-validation", "ci", "remediation-limit"}
BY DEF Mapped, Gates, OwnerOf, ResumeFrom, Phases

\* The phase resolveFromProcess finds.
LEMMA ProcessStart ==
  ASSUME labels \in IssueLabels
  PROVE  /\ ResolveFromProcess \in Sequence
         /\ labels.completed \subseteq {"specify"} /\ labels.phase \in {"none", "specify", "clarify"} =>
              ResolveFromProcess \in {"specify", "clarify"}
         /\ ResolveFromProcess \in {"review", "validate"} =>
              \/ labels.phase \in {"review", "validate"}
              \/ "implement" \in labels.completed
              \/ \E g \in labels.completed \cap Mapped : OwnerOf(g) = "implement"
<1> DEFINE completed == labels.completed \cup {OwnerOf(g) : g \in labels.completed \cap Mapped}
           open      == Sequence \ completed
<1>1. ResolveFromProcess = IF labels.phase \in Sequence THEN labels.phase
                           ELSE IF open = {} THEN "validate" ELSE Earliest(open)
  BY DEF ResolveFromProcess
<1>2. open # {} => Earliest(open) \in open /\ \A q \in open : Order(Earliest(open)) <= Order(q)
  BY EarliestIsFirst, SequenceMembers
<1>3. labels.completed \subseteq {"specify"} => "clarify" \in open
  BY SequenceMembers DEF Mapped, Gates, Phases
<1>4. "implement" \notin open =>
        "implement" \in labels.completed \/ \E g \in labels.completed \cap Mapped : OwnerOf(g) = "implement"
  BY SequenceMembers DEF Phases
<1>5. open \subseteq Sequence /\ open \subseteq Phases /\ "validate" \in Sequence
  BY SequenceMembers DEF Phases
<1> HIDE DEF open
<1>6. ResolveFromProcess \in Sequence
  BY <1>1, <1>2, <1>5
<1>7. ASSUME labels.completed \subseteq {"specify"}, labels.phase \in {"none", "specify", "clarify"}
      PROVE  ResolveFromProcess \in {"specify", "clarify"}
  <2>1. CASE labels.phase \in Sequence
    <3>1. labels.phase # "none"
      BY <2>1, SequenceMembers DEF Phases
    <3> QED
      BY <1>1, <1>7, <2>1, <3>1
  <2>2. CASE labels.phase \notin Sequence
    <3>1. /\ ResolveFromProcess = Earliest(open) /\ Earliest(open) \in Phases
          /\ Order(Earliest(open)) <= Order("clarify")
      BY <1>1, <1>2, <1>3, <1>5, <1>7, <2>2
    <3> QED
      BY <3>1, OrderValues DEF Phases
  <2> QED
    BY <2>1, <2>2
<1>8. ASSUME ResolveFromProcess \in {"review", "validate"}, labels.phase \notin {"review", "validate"}
      PROVE  "implement" \notin open
  <2>1. ResolveFromProcess = IF open = {} THEN "validate" ELSE Earliest(open)
    BY <1>1, <1>8
  <2>2. ASSUME "implement" \in open
        PROVE  FALSE
    <3>1. Earliest(open) \in {"review", "validate"} /\ Order(Earliest(open)) <= Order("implement")
      BY <1>2, <1>8, <2>1, <2>2
    <3> QED
      BY <3>1, OrderValues
  <2> QED
    BY <2>2
<1> QED
  BY <1>4, <1>6, <1>7, <1>8

\* The phase resolveFromContinue finds: that of an answered gate, or, when
\* no gate is answered, the one resolveFromProcess finds.
LEMMA ContinueStart ==
  ASSUME labels \in IssueLabels, NEW p \in ResolveFromContinue
  PROVE  /\ p \in Sequence
         /\ labels.completed \cap Mapped = {} => p = ResolveFromProcess
         /\ p \in {"review", "validate"} =>
              \/ p = ResolveFromProcess /\ \A g \in labels.completed \cap Mapped : OwnerOf(g) # "implement"
              \/ \E g \in labels.completed \cap Mapped : ResumeFrom(g) = p
<1> DEFINE answered == {g \in labels.completed \cap Mapped : OwnerOf(g) \in Sequence}
<1>1. CASE answered = {}
  <2>1. p = ResolveFromProcess
    BY <1>1 DEF ResolveFromContinue
  <2>2. \A g \in labels.completed \cap Mapped : OwnerOf(g) # "implement"
    BY <1>1, SequenceMembers DEF Phases
  <2> QED
    BY <2>1, <2>2, ProcessStart
<1>2. CASE answered # {}
  <2>1. PICK g \in answered : p = ResumeFrom(g)
    BY <1>2 DEF ResolveFromContinue
  <2>2. p \in Sequence
    BY <2>1, OwnerPhases, SequenceMembers DEF Phases
  <2> QED
    BY <2>1, <2>2
<1> QED
  BY <1>1, <1>2

\* A run always starts at a phase of its workflow.
LEMMA StartPhases ==
  ASSUME Shape, Control, item # "none", NEW p \in ResolveStartPhase
  PROVE  p \in Sequence
<1>1. CASE item = "process"
  BY <1>1, ProcessStart DEF ResolveStartPhase, Shape
<1>2. CASE item = "continue"
  BY <1>2, ContinueStart DEF ResolveStartPhase, Shape
<1>3. CASE item = "rereview"
  BY <1>3, SequenceMembers DEF ResolveStartPhase, Control
<1> QED
  BY <1>1, <1>2, <1>3 DEF Shape

-----------------------------------------------------------------------------
(* Types *)

\* The bounds are numbers, and an attempt is left after every grant.
LEMMA Bounds ==
  /\ MaxRemediations \in Nat /\ MaxImplementRetries \in Nat /\ MaxBlockCycles \in Nat
  /\ MaxTasks \in Nat /\ MaxFaults \in Nat
  /\ AttemptsPerGrant \in Nat \ {0} /\ MaxRemediations <= AttemptsPerGrant
BY PhaseConstants DEF AttemptsPerGrant

\* The larger of two counts.
LEMMA MaxOfTwo ==
  ASSUME NEW a \in Nat, NEW b \in Nat
  PROVE  Max({a, b}) \in {a, b} /\ Max({a, b}) >= a /\ Max({a, b}) >= b
<1>1. \E x \in {a, b} : \A y \in {a, b} : x >= y
  OBVIOUS
<1> QED
  BY <1>1 DEF Max

\* The smaller one.
LEMMA MinOfTwo ==
  ASSUME NEW a \in Nat, NEW b \in Nat
  PROVE  Min({a, b}) \in {a, b} /\ Min({a, b}) <= a /\ Min({a, b}) <= b
<1>1. \E x \in {a, b} : \A y \in {a, b} : x <= y
  OBVIOUS
<1> QED
  BY <1>1 DEF Min

\* A run that has not started, and one that has returned.
LEMMA IdleType == Idle \in Runs /\ [Idle EXCEPT !.pc = "return"] \in Runs
<1>1. NoBaseline \in [Units -> 0 .. MaxTasks + 1] /\ 0 \in 0 .. MaxImplementRetries
  BY Bounds DEF NoBaseline
<1> QED
  BY <1>1 DEF Idle, Runs, Steps, Phases

\* The loop's next step, with the same locals.
LEMMA GoToType ==
  ASSUME Shape, NEW step \in Steps, GoTo(step)
  PROVE  run' \in Runs
BY DEF Shape, Runs, GoTo

\* A run that leaves the loop.
LEMMA LeaveType ==
  ASSUME Leave
  PROVE  run' \in Runs
BY IdleType DEF Leave

\* A run that enters a phase.
LEMMA EnterType ==
  ASSUME Shape, NEW p \in Phases \cup {"end"}
  PROVE  Enter(p) \in Runs
<1>1. NoBaseline \in [Units -> 0 .. MaxTasks + 1] /\ 0 \in 0 .. MaxImplementRetries
  BY Bounds DEF NoBaseline
<1> QED
  BY <1>1 DEF Enter, Runs, Steps, Shape, Phases

\* The label operations keep the labels of an issue labels of an issue.
LEMMA LabelTypes ==
  ASSUME NEW l \in IssueLabels
  PROVE  /\ \A p \in Phases \cup {"remediate", "none"} : PhaseActive(l, p) \in IssueLabels
         /\ \A p \in Phases : PhaseDone(l, p) \in IssueLabels
         /\ PhaseExecuted(l) \in IssueLabels /\ Errored(l) \in IssueLabels /\ Cleaned(l) \in IssueLabels
         /\ \A g \in Gates : GateHit(l, g) \in IssueLabels
BY DEF IssueLabels, PhaseActive, PhaseDone, PhaseExecuted, GateHit, Errored, Cleaned

\* A pause at a gate.
LEMMA PauseType ==
  ASSUME Shape, NEW g \in Gates, Pause(g)
  PROVE  labels' \in IssueLabels /\ run' \in Runs /\ seen' \in Histories
<1>1. labels' \in IssueLabels /\ run' \in Runs
  BY LabelTypes, LeaveType DEF Shape, Pause
<1>3. seen' \in Histories
  BY DEF Shape, Pause, Histories
<1> QED
  BY <1>1, <1>3

\* An escalation.
LEMMA EscalateType ==
  ASSUME Shape, EscalateAndAlert
  PROVE  labels' \in IssueLabels /\ run' \in Runs
BY LabelTypes, LeaveType DEF Shape, EscalateAndAlert

\* What implement's push does to the ref and to the history.
LEMMA PushTypes ==
  ASSUME Shape, NEW ok \in BOOLEAN, NEW product \in BOOLEAN
  PROVE  /\ Captured(ok) \in [ref : {"none", "set"}, since : BOOLEAN]
         /\ Pushed(Captured(ok), ok, product) \in [ref : {"none", "set"}, since : BOOLEAN]
         /\ Pushed(diff, ok, product) \in [ref : {"none", "set"}, since : BOOLEAN]
         /\ SeenPush(diff, product) \in Histories
         /\ SeenPush(Pushed(Captured(ok), ok, product), product) \in Histories
<1>1. Captured(ok) \in [ref : {"none", "set"}, since : BOOLEAN]
  BY DEF Shape, Captured
<1>2. \A d \in [ref : {"none", "set"}, since : BOOLEAN] :
        Pushed(d, ok, product) \in [ref : {"none", "set"}, since : BOOLEAN]
  BY DEF Pushed
<1>3. \A d \in [ref : {"none", "set"}, since : BOOLEAN] : SeenPush(d, product) \in Histories
  BY DEF Shape, SeenPush, Histories
<1> QED
  BY <1>1, <1>2, <1>3 DEF Shape

\* What a new budget and a lost count do to the history.
LEMMA BudgetTypes ==
  ASSUME Shape, NEW n \in Nat
  PROVE  Granted \in Histories /\ Losing(n) \in Histories
<1>1. Min({seen.lost + n, seen.spent}) \in Nat
  BY MinOfTwo DEF Shape, Histories
<1> QED
  BY <1>1 DEF Granted, Losing, Shape, Histories

\* How many counts a fault may lose is a number.
LEMMA LossTypes ==
  ASSUME Shape
  PROVE  /\ CutShort \in Nat
         /\ \A c \in {sidecar, NoSidecar} : CutShort + Forgotten(c, mirror) \in Nat
         /\ \A c \in {sidecar, NoSidecar} : Forgotten(c, mirror) \in Nat
         /\ Forgotten(sidecar, 0) \in Nat
<1>1. sidecar.count \in Nat /\ NoSidecar.count = 0 /\ mirror \in Nat
  BY Bounds DEF Shape, NoSidecar
<1>2. CutShort \in Nat
  BY DEF CutShort
<1>3. Max({sidecar.count, mirror}) \in Nat /\ Max({sidecar.count, mirror}) >= Max({0, mirror})
  BY <1>1, MaxOfTwo
<1>4. Max({sidecar.count, mirror}) >= Max({sidecar.count, 0}) /\ Max({sidecar.count, 0}) \in Nat
  BY <1>1, MaxOfTwo
<1>5. Max({0, mirror}) \in Nat
  BY <1>1, MaxOfTwo
<1> QED
  BY <1>1, <1>2, <1>3, <1>4, <1>5 DEF Forgotten

\* The steps of the worker keep the shape: handle() and a phase's start.
LEMMA EntryShape ==
  ASSUME Shape, Control, BudgetCounted,
         \/ Take \/ OnResumeStart \/ EnterLoop \/ PushRefused \/ OnPhaseStart \/ BaseMergeConflict
         \/ AgentSucceeds \/ PhaseFails
  PROVE  Shape'
<1>1. CASE Take
  <2>1. PICK p \in ResolveStartPhase :
          run' = [Idle EXCEPT !.pc = IF item = "process" THEN "enter" ELSE "resume", !.at = p]
    BY <1>1 DEF Take
  <2>2. p \in Phases
    BY <1>1, StartPhases, SequenceMembers DEF Take
  <2>3. run' \in Runs
    BY <2>1, <2>2, IdleType DEF Runs, Steps
  <2>4. seen' \in Histories
    BY <1>1 DEF Take, Shape, Histories
  <2> QED
    BY <1>1, <2>3, <2>4 DEF Take, Shape, issueVars
<1>2. CASE OnResumeStart
  BY <1>2, GoToType DEF OnResumeStart, Shape, IssueLabels, Steps, issueVars
<1>3. CASE EnterLoop
  BY <1>3, EnterType DEF EnterLoop, Shape, Runs, issueVars
<1>4. CASE PushRefused
  <2>1. labels' \in IssueLabels /\ seen' \in Histories
    BY <1>4 DEF PushRefused, Shape, IssueLabels, Histories
  <2> QED
    BY <1>4, <2>1, LeaveType DEF PushRefused, Shape, issueVars
<1>5. CASE OnPhaseStart
  <2>1. run' \in Runs
    BY <1>5, GoToType DEF OnPhaseStart, Steps
  <2>2. labels' \in IssueLabels
    BY <1>5, LabelTypes DEF OnPhaseStart, Shape, Runs
  <2>3. seen' \in Histories
    BY <1>5 DEF OnPhaseStart, Shape, Histories
  <2> QED
    BY <1>5, <2>1, <2>2, <2>3 DEF OnPhaseStart, Shape, issueVars
<1>6. CASE BaseMergeConflict
  BY <1>6, LeaveType, LabelTypes DEF BaseMergeConflict, Shape, Histories, Gates, issueVars
<1>7. CASE AgentSucceeds
  BY <1>7, GoToType DEF AgentSucceeds, Shape, Steps, issueVars
<1>8. CASE PhaseFails
  BY <1>8, EscalateType DEF PhaseFails, Shape, issueVars
<1> QED
  BY <1>1, <1>2, <1>3, <1>4, <1>5, <1>6, <1>7, <1>8

\* implement.
LEMMA ImplementShape ==
  ASSUME Shape,
         \/ ImplementSucceeds \/ ImplementPartial \/ ImplementStalls \/ ImplementFails
         \/ DependencyBlocked \/ DependencyGateHit
         \/ PauseForManualValidation \/ CompleteManual \/ ClearPhaseStartRef \/ ManualGateHit
  PROVE  Shape'
<1>1. CASE ImplementSucceeds
  <2>1. PICK ok \in BOOLEAN : diff' = Captured(ok) /\ run' = [run EXCEPT !.pc = "commit", !.refOk = ok]
    BY <1>1 DEF ImplementSucceeds
  <2>2. run' \in Runs
    BY <2>1 DEF Shape, Runs, Steps
  <2> QED
    BY <1>1, <2>1, <2>2, PushTypes DEF ImplementSucceeds, Shape, issueVars
<1>2. CASE ImplementPartial
  <2>1. PICK ok \in BOOLEAN, product \in BOOLEAN, u \in Units, n \in 0 .. MaxTasks :
          /\ diff' = Pushed(Captured(ok), ok, product) /\ seen' = SeenPush(diff', product)
          /\ run' = [run EXCEPT !.pc = "start", !.left[u] = n]
          /\ UNCHANGED <<config, item, labels, sidecar, mirror, issueVars, faults>>
    BY <1>2 DEF ImplementPartial, ImplementPushes
  <2>2. [run.left EXCEPT ![u] = n] \in [Units -> 0 .. MaxTasks + 1]
    BY Bounds DEF Shape, Runs
  <2>3. run' \in Runs
    BY <2>1, <2>2 DEF Shape, Runs, Steps
  <2> QED
    BY <2>1, <2>3, PushTypes DEF Shape, issueVars
<1>3. CASE ImplementStalls
  BY <1>3, EscalateType, PushTypes DEF ImplementStalls, Shape, issueVars
<1>4. CASE ImplementFails
  <2>1. PICK ok \in BOOLEAN, product \in BOOLEAN :
          /\ diff' = Pushed(Captured(ok), ok, product) /\ seen' = SeenPush(diff', product)
          /\ \/ run.retries < MaxImplementRetries /\ UNCHANGED labels
                /\ run' = [run EXCEPT !.pc = "start", !.retries = @ + 1]
             \/ Leave /\ labels' = Errored(labels)
          /\ UNCHANGED <<config, item, sidecar, mirror, issueVars, faults>>
    BY <1>4 DEF ImplementFails, ImplementPushes
  <2>2. labels' \in IssueLabels
    BY <2>1, LabelTypes DEF Shape
  <2>3. run.retries < MaxImplementRetries => run.retries + 1 \in 0 .. MaxImplementRetries
    BY Bounds DEF Shape, Runs
  <2>4. run' \in Runs
    BY <2>1, <2>3, LeaveType DEF Shape, Runs, Steps
  <2> QED
    BY <2>1, <2>2, <2>4, PushTypes DEF Shape, issueVars
<1>5. CASE DependencyBlocked
  <2>1. PICK ok \in BOOLEAN, product \in BOOLEAN :
          /\ diff' = Pushed(Captured(ok), ok, product) /\ seen' = SeenPush(diff', product)
          /\ \E step \in {"limitHit", "blockHit"} : GoTo(step)
    BY <1>5 DEF DependencyBlocked, ImplementPushes
  <2>2. blocks' \in 0 .. MaxBlockCycles
    BY <1>5, Bounds DEF DependencyBlocked, Shape
  <2>3. UNCHANGED <<config, item, labels, sidecar, mirror, questions, faults>>
    BY <1>5 DEF DependencyBlocked
  <2>4. run' \in Runs
    BY <2>1, GoToType DEF Steps
  <2> QED
    BY <2>1, <2>2, <2>3, <2>4, PushTypes DEF Shape
<1>6. CASE PauseForManualValidation
  <2>1. PICK ok \in BOOLEAN, product \in BOOLEAN :
          /\ diff' = Pushed(Captured(ok), ok, product) /\ seen' = SeenPush(diff', product)
          /\ GoTo("completeManual")
          /\ UNCHANGED <<config, item, labels, sidecar, mirror, issueVars, faults>>
    BY <1>6 DEF PauseForManualValidation, ImplementPushes
  <2>2. run' \in Runs
    BY <2>1, GoToType DEF Steps
  <2> QED
    BY <2>1, <2>2, PushTypes DEF Shape, issueVars
<1>8. CASE DependencyGateHit
  <2>1. \A answers : [labels EXCEPT !.completed = @ \ answers] \in IssueLabels
    BY DEF Shape, IssueLabels
  <2>2. labels' \in IssueLabels
    <3>1. CASE labels' = GateHit(labels, "dependency-limit")
      BY <3>1, LabelTypes DEF Shape, Gates
    <3>2. ASSUME NEW answers, labels' = GateHit([labels EXCEPT !.completed = @ \ answers], "dependencies")
          PROVE  labels' \in IssueLabels
      <4>1. [labels EXCEPT !.completed = @ \ answers] \in IssueLabels /\ "dependencies" \in Gates
        BY <2>1 DEF Gates
      <4> QED
        BY <3>2, <4>1, LabelTypes
    <3> QED
      BY <1>8, <3>1, <3>2 DEF DependencyGateHit
  <2> QED
    BY <1>8, <2>2, LeaveType DEF DependencyGateHit, Shape, issueVars
<1>9. CASE CompleteManual
  <2>1. labels' \in IssueLabels
    BY <1>9, LabelTypes DEF CompleteManual, Shape, Phases
  <2>2. seen' \in Histories
    BY <1>9 DEF CompleteManual, Shape, Histories
  <2> QED
    BY <1>9, <2>1, <2>2, GoToType DEF CompleteManual, Shape, Steps, issueVars
<1>10. CASE ClearPhaseStartRef
  <2>1. Following("implement") \in Phases \cup {"end"}
    BY FollowingPhase, SequenceMembers DEF Phases
  <2>2. run' \in Runs
    BY <1>10, <2>1, EnterType, GoToType DEF ClearPhaseStartRef, Steps
  <2>3. diff' \in [ref : {"none", "set"}, since : BOOLEAN]
    BY <1>10 DEF ClearPhaseStartRef, NoRef
  <2> QED
    BY <1>10, <2>2, <2>3 DEF ClearPhaseStartRef, Shape, issueVars
<1>7. CASE ManualGateHit
  BY <1>7, PauseType DEF ManualGateHit, Shape, Gates, issueVars
<1> QED
  BY <1>1, <1>2, <1>3, <1>4, <1>5, <1>6, <1>7, <1>8, <1>9, <1>10

\* review, validate, push and guard.
LEMMA CheckShape ==
  ASSUME Shape, Control,
         \/ ReviewSucceeds \/ ValidateSucceeds \/ ValidateFailsAgain \/ ValidateFails
         \/ Commit \/ GuardPasses \/ GuardRejects \/ CiGreen \/ PauseForCiReadiness
         \/ GatesSkip \/ GatePauses \/ ApprovalPause \/ ClearBudgetMirror \/ ApprovalGateHit
  PROVE  Shape'
<1>1. CASE ReviewSucceeds
  BY <1>1, GoToType DEF ReviewSucceeds, Shape, Steps, issueVars
<1>2. CASE ValidateSucceeds
  <2>1. run' \in Runs
    BY <1>2, GoToType DEF ValidateSucceeds, Steps
  <2>2. sidecar' \in [verdict : {"clean", "changes"}, count : 0 .. AttemptsPerGrant]
    BY <1>2 DEF ValidateSucceeds, Shape
  <2>3. seen' \in Histories
    BY <1>2 DEF ValidateSucceeds, Shape, Histories
  <2> QED
    BY <1>2, <2>1, <2>2, <2>3 DEF ValidateSucceeds, Shape, issueVars
<1>3. CASE ValidateFailsAgain
  BY <1>3, EscalateType DEF ValidateFailsAgain, Shape, issueVars
<1>4. CASE ValidateFails
  BY <1>4 DEF ValidateFails, Shape, Runs, Steps, Phases, issueVars
<1>5. CASE Commit
  <2>1. run' \in Runs
    BY <1>5, GoToType DEF Commit, Steps
  <2>2. diff' \in [ref : {"none", "set"}, since : BOOLEAN] /\ seen' \in Histories
    BY <1>5, PushTypes DEF Commit, Shape, Runs
  <2> QED
    BY <1>5, <2>1, <2>2 DEF Commit, Shape, issueVars
<1>6. CASE GuardPasses
  BY <1>6, GoToType DEF GuardPasses, Shape, Histories, Steps, issueVars
<1>7. CASE GuardRejects
  BY <1>7, EscalateType DEF GuardRejects, Shape, issueVars
<1>8. CASE CiGreen \/ GatesSkip
  BY <1>8, GoToType DEF CiGreen, GatesSkip, Shape, Steps, issueVars
<1>9. CASE PauseForCiReadiness
  BY <1>9, PauseType DEF PauseForCiReadiness, Shape, Gates, issueVars
<1>10. CASE GatePauses
  BY <1>10, PauseType DEF GatePauses, Unsatisfied, ActiveGates, Shape, Gates, issueVars
<1>11. CASE ApprovalPause
  <2>1. labels' \in IssueLabels
    BY <1>11, LabelTypes DEF ApprovalPause, Shape, Phases
  <2> QED
    BY <1>11, <2>1, GoToType DEF ApprovalPause, Shape, Steps, issueVars
<1>12. CASE ApprovalGateHit
  BY <1>12, PauseType DEF ApprovalGateHit, Shape, Gates, issueVars
<1>13. CASE ClearBudgetMirror
  <2>1. seen' \in Histories /\ mirror' \in 0 .. AttemptsPerGrant
    BY <1>13, Bounds, BudgetTypes DEF ClearBudgetMirror
  <2> QED
    BY <1>13, <2>1, GoToType DEF ClearBudgetMirror, Shape, Steps, issueVars
<1> QED
  BY <1>1, <1>2, <1>3, <1>4, <1>5, <1>6, <1>7, <1>8, <1>9, <1>10, <1>11, <1>12, <1>13

\* The review gate, completion, remediation and the end of a run.
LEMMA FinishShape ==
  ASSUME Shape, Control, BudgetCounted,
         \/ ReviewGateSkips \/ ReviewGatePauses \/ ResetRemediationCount \/ ClearMirror \/ RearmGate
         \/ CompletePhase
         \/ RemediateStarts \/ RemediateLaunches \/ RemediateExits
         \/ RemediatePush \/ MirrorCount \/ DiscardWorkingTree \/ Remediated
         \/ WorkflowComplete \/ Return
  PROVE  Shape'
<1>0. 0 \in 0 .. AttemptsPerGrant /\ Reconciled \in 0 .. AttemptsPerGrant
  BY Bounds, MaxOfTwo DEF Shape, Reconciled
<1>1. CASE ReviewGateSkips
  BY <1>0, <1>1, GoToType DEF ReviewGateSkips, Shape, Steps, issueVars
<1>2. CASE ReviewGatePauses
  BY <1>0, <1>2, PauseType DEF ReviewGatePauses, Shape, Gates, issueVars
<1>3. CASE ResetRemediationCount
  BY <1>0, <1>3, GoToType, BudgetTypes DEF ResetRemediationCount, Shape, Steps, issueVars
<1>4. CASE ClearMirror
  BY <1>0, <1>4, GoToType DEF ClearMirror, Shape, Steps, issueVars
<1>5. CASE RearmGate
  BY <1>5, GoToType DEF RearmGate, Shape, IssueLabels, Steps, issueVars
<1>6. CASE CompletePhase
  <2>1. run.at \in Phases /\ Following(run.at) \in Phases \cup {"end"}
    BY FollowingPhase, SequenceMembers DEF Control
  <2>2. PhaseDone(labels, run.at) \in IssueLabels /\ PhaseExecuted(labels) \in IssueLabels
    BY <2>1, LabelTypes DEF Shape
  <2>3. \A l \in IssueLabels : \A s : [l EXCEPT !.completed = @ \ s] \in IssueLabels
    BY DEF IssueLabels
  <2>4. labels' \in IssueLabels
    BY <1>6, <2>2, <2>3 DEF CompletePhase
  <2>5. run' \in Runs
    BY <1>6, <2>1, EnterType DEF CompletePhase, Shape, Runs, Steps
  <2>6. seen' \in Histories
    BY <1>6 DEF CompletePhase, Shape, Histories
  <2> QED
    BY <1>6, <2>4, <2>5, <2>6 DEF CompletePhase, Shape, issueVars
<1>7. CASE RemediateStarts
  BY <1>7, GoToType, LabelTypes DEF RemediateStarts, Shape, Steps, issueVars
<1>14. CASE RemediateLaunches
  <2>1. seen' \in Histories
    BY <1>14 DEF RemediateLaunches, Shape, Histories
  <2> QED
    BY <1>14, <2>1, GoToType DEF RemediateLaunches, Shape, Steps, issueVars
<1>15. CASE RemediateExits
  <2>1. run' \in Runs
    BY <1>15, GoToType DEF RemediateExits, Steps
  <2>2. config.review => sidecar.count + 1 \in 0 .. AttemptsPerGrant
    BY <1>15, Bounds DEF RemediateExits, BudgetCounted, Shape
  <2>3. sidecar' \in [verdict : {"clean", "changes"}, count : 0 .. AttemptsPerGrant]
    BY <1>15, <2>2 DEF RemediateExits, BumpBudget, Shape
  <2>4. seen' \in Histories
    BY <1>15 DEF RemediateExits, BumpBudget, Shape, Histories
  <2> QED
    BY <1>15, <2>1, <2>3, <2>4 DEF RemediateExits, Shape, issueVars
<1>8. CASE RemediatePush
  BY <1>8, GoToType DEF RemediatePush, Shape, Histories, Steps, issueVars
<1>9. CASE MirrorCount
  BY <1>9, GoToType DEF MirrorCount, Shape, Steps, issueVars
<1>10. CASE DiscardWorkingTree
  <2>1. run' \in Runs
    BY <1>10, GoToType, LeaveType DEF DiscardWorkingTree, Steps
  <2>2. seen' \in Histories
    BY <1>10 DEF DiscardWorkingTree, Shape, Histories
  <2> QED
    BY <1>10, <2>1, <2>2 DEF DiscardWorkingTree, Shape, issueVars
<1>11. CASE Remediated
  <2>1. run' \in Runs
    BY <1>11 DEF Remediated, Shape, Runs, Steps
  <2>2. labels' \in IssueLabels
    BY <1>11 DEF Remediated, Shape, IssueLabels
  <2> QED
    BY <1>11, <2>1, <2>2 DEF Remediated, Shape, issueVars
<1>12. CASE WorkflowComplete
  <2>1. seen' \in Histories
    BY <1>12, BudgetTypes DEF WorkflowComplete, Histories
  <2> QED
    BY <1>0, <1>12, <2>1, LeaveType DEF WorkflowComplete, Shape, issueVars
<1>13. CASE Return
  BY <1>13, IdleType, LabelTypes DEF Return, Shape, issueVars
<1> QED
  BY <1>1, <1>2, <1>3, <1>4, <1>5, <1>6, <1>7, <1>8, <1>9, <1>10, <1>11, <1>12, <1>13, <1>14, <1>15

\* Faults, people, monitors and the conflict handler.
LEMMA WorldShape ==
  ASSUME Shape,
         \/ RunDies \/ PhaseThrows \/ RunGivenUp \/ CheckoutLost \/ RefExpires \/ MirrorExpires
         \/ \E g \in Gates : Answer(g)
         \/ Resume \/ Trigger \/ ConflictResolved
  PROVE  Shape'
<1>0. \A p \in {labels.phase, "none"} : [labels EXCEPT !.phase = p] \in IssueLabels
  BY DEF Shape, IssueLabels
<1>1. CASE RunDies
  <2>1. sidecar' \in [verdict : {"clean", "changes"}, count : 0 .. AttemptsPerGrant]
    BY <1>1, Bounds DEF RunDies, Shape, NoSidecar
  <2>3. seen' \in Histories
    BY <1>1, BudgetTypes, LossTypes DEF RunDies
  <2> QED
    BY <1>0, <1>1, <2>1, <2>3, IdleType DEF RunDies, Shape, issueVars
<1>2. CASE PhaseThrows
  BY <1>2, IdleType, LabelTypes DEF PhaseThrows, Shape, issueVars
<1>3. CASE RunGivenUp
  <2>1. seen' \in Histories
    <3>1. Losing(CutShort) \in Histories /\ seen' = [Losing(CutShort) EXCEPT !.ended = TRUE]
      BY <1>3, BudgetTypes, LossTypes DEF RunGivenUp
    <3>2. \A h \in Histories : [h EXCEPT !.ended = TRUE] \in Histories
      BY DEF Histories
    <3> QED
      BY <3>1, <3>2
  <2> QED
    BY <1>0, <1>3, <2>1, IdleType DEF RunGivenUp, Shape, issueVars
<1>4. ASSUME NEW g \in Gates, Answer(g)
      PROVE  Shape'
  <2>1. labels' \in IssueLabels
    BY <1>4 DEF Answer, Shape, IssueLabels, Mapped
  <2>2. seen' \in Histories
    BY <1>4 DEF Answer, Shape, Histories
  <2>3. questions' \in BOOLEAN
    BY <1>4, Zenon DEF Answer
  <2> QED
    BY <1>4, <2>1, <2>2, <2>3 DEF Answer, Shape
<1>5. CASE Resume
  BY <1>5 DEF Resume, Shape, issueVars
<1>6. CASE Trigger
  <2>1. labels' \in IssueLabels
    BY <1>6 DEF Trigger, Shape, IssueLabels
  <2>2. \A j \in BOOLEAN :
          [seen EXCEPT !.asked = FALSE, !.stale = FALSE, !.conflictAt = "none",
                       !.approved = FALSE, !.manual = FALSE, !.jumped = j] \in Histories
    BY DEF Shape, Histories
  <2>3. seen' \in Histories
    <3>1. CASE labels.phase \in {"review", "validate"}
      <4>1. (labels.phase \in {"review", "validate"}) = TRUE
        BY <3>1, Zenon
      <4>2. seen' = [seen EXCEPT !.asked = FALSE, !.stale = FALSE, !.conflictAt = "none",
                                 !.approved = FALSE, !.manual = FALSE, !.jumped = TRUE]
        BY <1>6, <4>1, Zenon DEF Trigger
      <4> QED
        BY <2>2, <4>2
    <3>2. CASE labels.phase \notin {"review", "validate"}
      <4>1. (labels.phase \in {"review", "validate"}) = FALSE
        BY <3>2
      <4>2. seen' = [seen EXCEPT !.asked = FALSE, !.stale = FALSE, !.conflictAt = "none",
                                 !.approved = FALSE, !.manual = FALSE, !.jumped = FALSE]
        BY <1>6, <4>1, Zenon DEF Trigger
      <4> QED
        BY <2>2, <4>2
    <3> QED
      BY <3>1, <3>2
  <2> QED
    BY <1>6, <2>1, <2>3 DEF Trigger, Shape, issueVars
<1>7. CASE ConflictResolved
  <2>1. labels' \in IssueLabels
    <3>1. CASE labels' = labels
      BY <3>1 DEF Shape
    <3>2. CASE labels' = [labels EXCEPT !.waiting = @ \ {"merge-conflicts"},
                                       !.completed = @ \ {"validate", "implementation-review"}]
      BY <3>2 DEF Shape, IssueLabels
    <3> QED
      BY <1>7, <3>1, <3>2 DEF ConflictResolved
  <2>2. seen' \in Histories
    <3>1. \A b, j \in BOOLEAN, p \in {"none", "implement", "validate"} :
            [seen EXCEPT !.validated = FALSE, !.stale = b, !.conflictAt = p, !.jumped = j] \in Histories
      BY DEF Shape, Histories
    <3>2. ("validate" \in labels'.completed) \in BOOLEAN
      OBVIOUS
    <3>3. (seen.jumped \/ (config.review /\ seen.conflictAt = "implement")) \in BOOLEAN
      BY Zenon
    <3>4. (IF "merge-conflicts" \in labels'.waiting THEN seen.conflictAt ELSE "none")
             \in {"none", "implement", "validate"}
      BY DEF Shape, Histories
    <3>5. seen' = [seen EXCEPT !.validated = FALSE, !.stale = "validate" \in labels'.completed,
                     !.conflictAt = IF "merge-conflicts" \in labels'.waiting THEN seen.conflictAt ELSE "none",
                     !.jumped = seen.jumped \/ (config.review /\ seen.conflictAt = "implement")]
      BY <1>7, Zenon DEF ConflictResolved
    <3> QED
      BY <3>1, <3>2, <3>3, <3>4, <3>5, Zenon
  <2> QED
    BY <1>7, <2>1, <2>2 DEF ConflictResolved, Shape, issueVars
<1>8. CASE CheckoutLost
  <2>1. seen' \in Histories
    BY <1>8, BudgetTypes, LossTypes DEF CheckoutLost
  <2> QED
    BY <1>8, <2>1, Bounds DEF CheckoutLost, Shape, NoSidecar, issueVars
<1>9. CASE RefExpires
  <2>1. seen' \in Histories
    BY <1>9 DEF RefExpires, Shape, Histories
  <2> QED
    BY <1>9, <2>1 DEF RefExpires, Shape, issueVars
<1>10. CASE MirrorExpires
  <2>1. seen' \in Histories
    BY <1>10, BudgetTypes, LossTypes DEF MirrorExpires
  <2> QED
    BY <1>10, <2>1, Bounds DEF MirrorExpires, Shape, issueVars
<1> QED
  BY <1>1, <1>2, <1>3, <1>4, <1>5, <1>6, <1>7, <1>8, <1>9, <1>10

\* Every step keeps the shape.
LEMMA ShapeStep ==
  ASSUME Shape, Control, BudgetCounted, [PhaseNext]_phaseVars
  PROVE  Shape'
<1>1. CASE UNCHANGED phaseVars
  BY <1>1 DEF phaseVars, Shape, issueVars
<1>2. CASE PhaseNext
  BY <1>2, EntryShape, ImplementShape, CheckShape, FinishShape, WorldShape DEF PhaseNext, RunStep
<1> QED
  BY <1>1, <1>2

\* A failed implement is tried again from its start, or ends the run.
LEMMA ImplementTried ==
  ASSUME Shape, ImplementFails
  PROVE  /\ At("implement", "run")
         /\ UNCHANGED <<config, item, sidecar, mirror, blocks, questions>>
         /\ \E ok, product \in BOOLEAN :
              diff' = Pushed(Captured(ok), ok, product) /\ seen' = SeenPush(diff', product)
         /\ \/ run'.pc = "start" /\ run'.at = "implement" /\ labels' = labels
            \/ run'.pc = "return" /\ run'.at = "specify" /\ labels' = Errored(labels)
<1>1. PICK ok \in BOOLEAN, product \in BOOLEAN, hasChanges \in BOOLEAN :
        /\ ImplementPushes(ok, product)
        /\ IF hasChanges /\ run.retries < MaxImplementRetries
           THEN run' = [run EXCEPT !.pc = "start", !.retries = @ + 1] /\ UNCHANGED labels
           ELSE Leave /\ labels' = Errored(labels)
        /\ UNCHANGED <<config, item, sidecar, mirror, issueVars, faults>>
  BY DEF ImplementFails
<1>2. /\ At("implement", "run")
      /\ diff' = Pushed(Captured(ok), ok, product) /\ seen' = SeenPush(diff', product)
  BY <1>1 DEF ImplementPushes
<1>3. CASE run' = [run EXCEPT !.pc = "start", !.retries = @ + 1] /\ UNCHANGED labels
  <2>1. /\ [run EXCEPT !.pc = "start", !.retries = @ + 1].pc = "start"
        /\ [run EXCEPT !.pc = "start", !.retries = @ + 1].at = run.at
    BY DEF Shape, Runs
  <2> QED
    BY <1>1, <1>2, <1>3, <2>1 DEF At, issueVars
<1>4. CASE Leave /\ labels' = Errored(labels)
  <2>1. run'.pc = "return" /\ run'.at = "specify"
    BY <1>4 DEF Leave, Idle
  <2> QED
    BY <1>1, <1>2, <1>4, <2>1 DEF issueVars
<1> QED
  BY <1>1, <1>3, <1>4

\* A block ends the turn at one of its two gates.
LEMMA BlockRaised ==
  ASSUME Shape, DependencyGateHit
  PROVE  /\ run.pc \in {"limitHit", "blockHit"} /\ run'.pc = "return" /\ run'.at = "specify"
         /\ labels'.completed \subseteq labels.completed /\ labels'.phase = "none"
         /\ labels'.waiting \subseteq labels.waiting \cup {"dependencies", "dependency-limit"}
         /\ labels'.waiting # {}
         /\ UNCHANGED <<config, item, sidecar, mirror, diff, questions, seen>>
<1>1. /\ run.pc \in {"limitHit", "blockHit"} /\ run'.pc = "return" /\ run'.at = "specify"
      /\ UNCHANGED <<config, item, sidecar, mirror, diff, questions, seen>>
  BY DEF DependencyGateHit, Leave, Idle, issueVars
<1>2. ASSUME NEW l \in IssueLabels, NEW g \in {"dependencies", "dependency-limit"},
             l.completed \subseteq labels.completed, l.waiting = labels.waiting, labels' = GateHit(l, g)
      PROVE  /\ labels'.completed \subseteq labels.completed /\ labels'.phase = "none"
             /\ labels'.waiting \subseteq labels.waiting \cup {"dependencies", "dependency-limit"}
             /\ labels'.waiting # {}
  <2>1. labels'.completed = l.completed /\ labels'.phase = "none" /\ labels'.waiting = l.waiting \cup {g}
    BY <1>2 DEF GateHit, IssueLabels
  <2> QED
    BY <1>2, <2>1
<1>3. CASE labels' = GateHit(labels, "dependency-limit")
  BY <1>1, <1>2, <1>3 DEF Shape
<1>4. ASSUME NEW answers, labels' = GateHit([labels EXCEPT !.completed = @ \ answers], "dependencies")
      PROVE  /\ labels'.completed \subseteq labels.completed /\ labels'.phase = "none"
             /\ labels'.waiting \subseteq labels.waiting \cup {"dependencies", "dependency-limit"}
             /\ labels'.waiting # {}
  <2> DEFINE l == [labels EXCEPT !.completed = @ \ answers]
  <2>1. l \in IssueLabels /\ l.completed \subseteq labels.completed /\ l.waiting = labels.waiting
    BY DEF Shape, IssueLabels
  <2> HIDE DEF l
  <2> QED
    BY <1>2, <1>4, <2>1 DEF l
<1> QED
  BY <1>1, <1>3, <1>4 DEF DependencyGateHit

\* The start ref is retired: implement is over, or its manual rest is announced.
LEMMA RefCleared ==
  ASSUME Shape, Control, ClearPhaseStartRef
  PROVE  /\ run.at = "implement"
         /\ \/ run.pc = "retireManual" /\ run'.pc = "pauseManual" /\ run'.at = "implement"
            \/ run.pc = "retire" /\ run'.pc = "start" /\ run'.at \in Sequence
         /\ UNCHANGED <<config, item, labels, sidecar, mirror, questions, seen>>
<1>1. run.pc \in {"retireManual", "retire"} /\ run.at = "implement"
  BY DEF ClearPhaseStartRef, Control
<1>2. CASE run.pc = "retireManual"
  BY <1>1, <1>2 DEF ClearPhaseStartRef, GoTo, Shape, Runs, issueVars
<1>3. CASE run.pc = "retire"
  <2> DEFINE next == Following("implement")
  <2>1. next \in Sequence /\ next # "end"
    BY FollowingPhase, SequenceMembers DEF Phases
  <2>2. run' = Enter(next)
    BY <1>3 DEF ClearPhaseStartRef
  <2> HIDE DEF next
  <2>3. run'.pc = "start" /\ run'.at = next
    BY <2>1, <2>2 DEF Enter, Shape, Runs
  <2> QED
    BY <1>1, <1>3, <2>1, <2>3 DEF ClearPhaseStartRef, issueVars
<1> QED
  BY <1>1, <1>2, <1>3

\* Every step keeps the control: where a run is, and with which item.
LEMMA ControlStep ==
  ASSUME Shape, Shape', Control, [PhaseNext]_phaseVars
  PROVE  Control'
<1> USE DEF Control, Shape, Runs, Sequence, GoTo, Leave, Enter, Idle, At
<1>1. CASE UNCHANGED phaseVars
  BY <1>1 DEF phaseVars, issueVars
<1>2. CASE Take
  <2>1. PICK p \in ResolveStartPhase :
          run' = [Idle EXCEPT !.pc = IF item = "process" THEN "enter" ELSE "resume", !.at = p]
    BY <1>2 DEF Take
  <2>2. run'.at = p /\ run'.pc \in {"enter", "resume"} /\ UNCHANGED <<config, item>> /\ item # "none"
    BY <1>2, <2>1 DEF Take
  <2>3. p \in Sequence
    BY <2>2, StartPhases
  <2>4. item = "rereview" => p = "review"
    BY DEF ResolveStartPhase
  <2> QED
    BY <2>2, <2>3, <2>4
<1>3. CASE OnResumeStart
  BY <1>3 DEF OnResumeStart
<1>4. CASE EnterLoop
  <2>1. CASE NothingLeft
    BY <1>4, <2>1 DEF EnterLoop, NothingLeft
  <2>2. CASE ~NothingLeft
    <3>1. run.at # "end" /\ run.pc = "enter"
      BY <1>4 DEF Phases, EnterLoop
    <3>2. run' = Enter(run.at) /\ UNCHANGED <<config, item>>
      BY <1>4, <2>2 DEF EnterLoop
    <3>3. run'.pc = "start" /\ run'.at = run.at
      BY <3>1, <3>2
    <3> QED
      BY <3>1, <3>2, <3>3
  <2> QED
    BY <2>1, <2>2
<1>5. CASE PushRefused
  BY <1>5 DEF PushRefused
<1>6. CASE OnPhaseStart
  BY <1>6 DEF OnPhaseStart
<1>7. CASE BaseMergeConflict
  BY <1>7 DEF BaseMergeConflict
<1>8. CASE AgentSucceeds
  BY <1>8 DEF AgentSucceeds
<1>9. CASE PhaseFails
  BY <1>9 DEF PhaseFails, EscalateAndAlert
<1>10. CASE ImplementSucceeds
  BY <1>10 DEF ImplementSucceeds
<1>11. CASE ImplementPartial
  BY <1>11 DEF ImplementPartial, ImplementPushes
<1>12. CASE ImplementStalls
  BY <1>12 DEF ImplementStalls, EscalateAndAlert
<1>13. CASE ImplementFails
  BY <1>13, ImplementTried, SequenceMembers
<1>14. CASE DependencyBlocked
  BY <1>14 DEF DependencyBlocked, ImplementPushes
<1>15. CASE PauseForManualValidation
  BY <1>15 DEF PauseForManualValidation, ImplementPushes, SeenPush
<1>16. CASE ManualGateHit
  BY <1>16 DEF ManualGateHit, Pause
<1>17. CASE ReviewSucceeds
  BY <1>17 DEF ReviewSucceeds
<1>18. CASE ValidateSucceeds
  BY <1>18 DEF ValidateSucceeds
<1>19. CASE ValidateFailsAgain
  BY <1>19 DEF ValidateFailsAgain, EscalateAndAlert
<1>20. CASE ValidateFails
  BY <1>20 DEF ValidateFails
<1>21. CASE Commit
  BY <1>21 DEF Commit
<1>22. CASE GuardPasses
  BY <1>22 DEF GuardPasses
<1>23. CASE GuardRejects
  BY <1>23 DEF GuardRejects, EscalateAndAlert
<1>24. CASE CiGreen
  BY <1>24 DEF CiGreen
<1>25. CASE PauseForCiReadiness
  BY <1>25 DEF PauseForCiReadiness, Pause
<1>26. CASE GatesSkip
  BY <1>26 DEF GatesSkip
<1>27. CASE GatePauses
  BY <1>27 DEF GatePauses, Pause
<1>28. CASE ApprovalPause
  BY <1>28 DEF ApprovalPause, Unsatisfied, ActiveGates
<1>29. CASE ApprovalGateHit
  BY <1>29 DEF ApprovalGateHit, Pause
<1>30. CASE ReviewGateSkips
  BY <1>30 DEF ReviewGateSkips
<1>31. CASE ReviewGatePauses
  BY <1>31 DEF ReviewGatePauses, Pause
<1>32. CASE ResetRemediationCount
  BY <1>32 DEF ResetRemediationCount, Granted
<1>33. CASE ClearMirror
  BY <1>33 DEF ClearMirror
<1>34. CASE RearmGate
  BY <1>34 DEF RearmGate
<1>35. CASE CompletePhase
  <2> DEFINE f == Following(run.at)
  <2>1. /\ f \in Sequence \cup {"end"} /\ (f = "end" => run.at = "validate")
        /\ (run.at \in {"review", "validate"} => f \in {"validate", "end"})
    BY FollowingPhase, AfterReview
  <2>2. UNCHANGED <<config, item>> /\ run.pc = "complete"
    BY <1>35 DEF CompletePhase
  <2>3. CASE run' = [run EXCEPT !.pc = "remediate"] /\ run.at = "review"
    BY <2>2, <2>3
  <2>4. CASE run' = Enter(f)
    <3>1. CASE f = "end"
      <4>1. run'.pc = "end" /\ run'.at = run.at
        BY <2>4, <3>1
      <4> HIDE DEF f
      <4> QED
        BY <2>1, <2>2, <3>1, <4>1
    <3>2. CASE f # "end"
      <4>1. run'.pc = "start" /\ run'.at = f
        BY <2>4, <3>2
      <4> HIDE DEF f
      <4> QED
        BY <2>1, <2>2, <3>2, <4>1
    <3> QED
      BY <3>1, <3>2
  <2> QED
    BY <1>35, <2>3, <2>4 DEF CompletePhase
<1>36. CASE RemediateStarts
  BY <1>36 DEF RemediateStarts
<1>37. CASE RemediatePush
  BY <1>37 DEF RemediatePush
<1>38. CASE MirrorCount
  BY <1>38 DEF MirrorCount
<1>39. CASE DiscardWorkingTree
  BY <1>39 DEF DiscardWorkingTree
<1>40. CASE Remediated
  BY <1>40 DEF Remediated
<1>41. CASE WorkflowComplete
  BY <1>41 DEF WorkflowComplete, Granted
<1>42. CASE Return
  BY <1>42 DEF Return
<1>43. CASE RunDies
  BY <1>43 DEF RunDies, Losing
<1>44. CASE PhaseThrows
  BY <1>44 DEF PhaseThrows
<1>45. CASE RunGivenUp
  BY <1>45 DEF RunGivenUp, Losing
<1>46. CASE \E g \in Gates : Answer(g)
  BY <1>46 DEF Answer
<1>47. CASE Resume
  BY <1>47 DEF Resume
<1>48. CASE Trigger
  BY <1>48 DEF Trigger
<1>49. CASE ConflictResolved
  BY <1>49 DEF ConflictResolved
<1>50. CASE DependencyGateHit
  BY <1>50 DEF DependencyGateHit
<1>51. CASE CompleteManual
  BY <1>51 DEF CompleteManual
<1>52. CASE ClearPhaseStartRef
  <2>1. item # "rereview"
    BY <1>52, RefCleared
  <2> QED
    BY <1>52, <2>1, RefCleared DEF Sequence
<1>53. CASE ClearBudgetMirror
  BY <1>53 DEF ClearBudgetMirror, Granted
<1>54. CASE RemediateLaunches
  BY <1>54 DEF RemediateLaunches
<1>55. CASE RemediateExits
  BY <1>55 DEF RemediateExits, BumpBudget
<1>56. CASE CheckoutLost
  BY <1>56 DEF CheckoutLost, Losing
<1>57. CASE RefExpires
  BY <1>57 DEF RefExpires
<1>58. CASE MirrorExpires
  BY <1>58 DEF MirrorExpires, Losing
<1> QED
  BY <1>1, <1>2, <1>3, <1>4, <1>5, <1>6, <1>7, <1>8, <1>9, <1>10, <1>11, <1>12, <1>13, <1>14,
     <1>15, <1>16, <1>17, <1>18, <1>19, <1>20, <1>21, <1>22, <1>23, <1>24, <1>25, <1>26, <1>27,
     <1>28, <1>29, <1>30, <1>31, <1>32, <1>33, <1>34, <1>35, <1>36, <1>37, <1>38, <1>39, <1>40,
     <1>41, <1>42, <1>43, <1>44, <1>45, <1>46, <1>47, <1>48, <1>49, <1>50, <1>51, <1>52, <1>53,
     <1>54, <1>55, <1>56, <1>57, <1>58 DEF PhaseNext, RunStep

\* A fault that loses n counts, of those on disk or in Redis all but k, leaves
\* the attempts of the running budget counted or known to be lost.
LEMMA LossCovered ==
  ASSUME Shape, BudgetCounted, NEW n \in Nat, NEW k \in Nat,
         n + k >= CutShort + Max({sidecar.count, mirror})
  PROVE  /\ Losing(n).spent = seen.spent /\ Losing(n).lost \in Nat
         /\ seen.spent <= Losing(n).lost + k
<1>1. /\ seen.spent \in Nat /\ seen.lost \in Nat /\ sidecar.count \in Nat /\ mirror \in Nat
      /\ CutShort \in Nat
  BY Bounds DEF Shape, Histories, CutShort
<1>2. Max({sidecar.count, mirror}) \in Nat /\ seen.spent <= seen.lost + Max({sidecar.count, mirror}) + CutShort
  BY <1>1, MaxOfTwo DEF BudgetCounted
<1>3. Losing(n).spent = seen.spent /\ Losing(n).lost = Min({seen.lost + n, seen.spent})
  BY DEF Losing, Shape, Histories
<1>4. Min({seen.lost + n, seen.spent}) \in {seen.lost + n, seen.spent}
  BY <1>1, MinOfTwo
<1> QED
  BY <1>1, <1>2, <1>3, <1>4

\* Every step keeps the attempts counted: what a fault forgets is known to be
\* lost, and a grant begins a new budget.
LEMMA BudgetStep ==
  ASSUME Shape, Shape', Control, BudgetCounted, [PhaseNext]_phaseVars
  PROVE  BudgetCounted'
<1> USE DEF Control, Shape, Runs, Histories, BudgetCounted, CutShort, GoTo, Leave, Enter, Idle, At
<1> USE Bounds
<1>0. /\ seen.spent \in Nat /\ seen.lost \in Nat /\ sidecar.count \in Nat /\ mirror \in Nat
      /\ seen'.spent \in Nat /\ seen'.lost \in Nat /\ sidecar'.count \in Nat /\ mirror' \in Nat
  OBVIOUS
<1>1. CASE UNCHANGED phaseVars
  BY <1>1 DEF phaseVars, issueVars
<1>2. CASE Take
  BY <1>2 DEF Take
<1>3. CASE OnResumeStart
  BY <1>3 DEF OnResumeStart
<1>4. CASE EnterLoop
  BY <1>4 DEF EnterLoop
<1>5. CASE PushRefused
  BY <1>5 DEF PushRefused
<1>6. CASE OnPhaseStart
  BY <1>6 DEF OnPhaseStart
<1>7. CASE BaseMergeConflict
  BY <1>7 DEF BaseMergeConflict
<1>8. CASE AgentSucceeds
  BY <1>8 DEF AgentSucceeds
<1>9. CASE PhaseFails
  BY <1>9 DEF PhaseFails, EscalateAndAlert
<1>10. CASE ImplementSucceeds
  BY <1>10 DEF ImplementSucceeds
<1>11. CASE ImplementPartial
  BY <1>11 DEF ImplementPartial, ImplementPushes, SeenPush
<1>12. CASE ImplementStalls
  BY <1>12 DEF ImplementStalls, EscalateAndAlert
<1>13. CASE ImplementFails
  <2>1. /\ run.pc = "run" /\ run'.pc \in {"start", "return"}
        /\ UNCHANGED <<config, sidecar, mirror>>
    BY <1>13, ImplementTried
  <2>2. seen'.spent = seen.spent /\ seen'.lost = seen.lost
    <3>1. PICK product \in BOOLEAN : seen' = SeenPush(diff', product)
      BY <1>13, ImplementTried
    <3> QED
      BY <3>1 DEF SeenPush
  <2> QED
    BY <2>1, <2>2
<1>14. CASE DependencyBlocked
  BY <1>14 DEF DependencyBlocked, ImplementPushes, SeenPush
<1>15. CASE PauseForManualValidation
  BY <1>15 DEF PauseForManualValidation, ImplementPushes, SeenPush
<1>16. CASE ManualGateHit
  BY <1>16 DEF ManualGateHit, Pause
<1>17. CASE ReviewSucceeds
  BY <1>17 DEF ReviewSucceeds
<1>18. CASE ValidateSucceeds
  BY <1>18 DEF ValidateSucceeds
<1>19. CASE ValidateFailsAgain
  BY <1>19 DEF ValidateFailsAgain, EscalateAndAlert
<1>20. CASE ValidateFails
  BY <1>20 DEF ValidateFails
<1>21. CASE Commit
  <2>1. seen'.spent = seen.spent /\ seen'.lost = seen.lost
    BY <1>21 DEF Commit, SeenPush
  <2>2. run.pc = "commit" /\ run'.pc \in {"guard", "ci", "gates"} /\ UNCHANGED <<config, sidecar, mirror>>
    BY <1>21 DEF Commit
  <2> QED
    BY <2>1, <2>2
<1>22. CASE GuardPasses
  BY <1>22 DEF GuardPasses
<1>23. CASE GuardRejects
  BY <1>23 DEF GuardRejects, EscalateAndAlert
<1>24. CASE CiGreen
  BY <1>24 DEF CiGreen
<1>25. CASE PauseForCiReadiness
  BY <1>25 DEF PauseForCiReadiness, Pause
<1>26. CASE GatesSkip
  BY <1>26 DEF GatesSkip
<1>27. CASE GatePauses
  BY <1>27 DEF GatePauses, Pause
<1>28. CASE ApprovalPause
  BY <1>28 DEF ApprovalPause
<1>29. CASE ApprovalGateHit
  BY <1>29 DEF ApprovalGateHit, Pause
<1>30. CASE ReviewGateSkips
  <2>1. /\ Reconciled \in {sidecar.count, mirror} /\ Reconciled >= sidecar.count /\ Reconciled >= mirror
    BY <1>0, MaxOfTwo DEF Reconciled
  <2>2. /\ run.pc = "gates" /\ run.at = "review" /\ run'.pc = "complete"
        /\ sidecar'.count = Reconciled /\ sidecar'.verdict = sidecar.verdict
        /\ sidecar.verdict = "changes" => Reconciled < MaxRemediations
        /\ UNCHANGED <<config, mirror, seen>>
    BY <1>0, <1>30, <2>1 DEF ReviewGateSkips, LimitReached
  <2>3. seen.spent <= seen.lost + Reconciled
    BY <1>0, <2>1, <2>2
  <2> QED
    BY <1>0, <2>2, <2>3
<1>31. CASE ReviewGatePauses
  <2>1. /\ Reconciled \in {sidecar.count, mirror} /\ Reconciled >= sidecar.count /\ Reconciled >= mirror
    BY <1>0, MaxOfTwo DEF Reconciled
  <2>2. /\ run.pc = "gates" /\ run'.pc = "return" /\ sidecar'.count = Reconciled
        /\ UNCHANGED <<config, mirror>> /\ seen'.spent = seen.spent /\ seen'.lost = seen.lost
    BY <1>31 DEF ReviewGatePauses, Pause
  <2>3. seen.spent <= seen.lost + Reconciled
    BY <1>0, <2>1, <2>2
  <2> QED
    BY <1>0, <2>2, <2>3
<1>32. CASE ResetRemediationCount
  BY <1>32 DEF ResetRemediationCount, Granted
<1>33. CASE ClearMirror
  BY <1>33 DEF ClearMirror
<1>34. CASE RearmGate
  BY <1>34 DEF RearmGate
<1>35. CASE CompletePhase
  BY <1>35 DEF CompletePhase
<1>36. CASE RemediateStarts
  BY <1>36 DEF RemediateStarts
<1>37. CASE RemediatePush
  BY <1>37 DEF RemediatePush
<1>38. CASE MirrorCount
  BY <1>38 DEF MirrorCount
<1>39. CASE DiscardWorkingTree
  BY <1>39 DEF DiscardWorkingTree
<1>40. CASE Remediated
  BY <1>40 DEF Remediated
<1>41. CASE WorkflowComplete
  BY <1>41 DEF WorkflowComplete, Granted
<1>42. CASE Return
  BY <1>42 DEF Return
<1>43. CASE RunDies
  <2> DEFINE n == CutShort + Forgotten(sidecar', mirror)
             k == Max({sidecar'.count, mirror})
  <2>1. sidecar' \in {sidecar, NoSidecar} /\ UNCHANGED <<config, mirror>> /\ run'.pc = "idle" /\ seen' = Losing(n)
    BY <1>43 DEF RunDies
  <2>2. n \in Nat /\ k \in {sidecar'.count, mirror}
    BY <1>0, <2>1, LossTypes, MaxOfTwo
  <2>3. n + k = CutShort + Max({sidecar.count, mirror})
    BY <1>0, <2>2, MaxOfTwo DEF Forgotten
  <2> HIDE DEF n, k
  <2>4. Losing(n).spent = seen.spent /\ seen.spent <= Losing(n).lost + k
    <3>1. k \in Nat /\ n + k >= CutShort + Max({sidecar.count, mirror})
      BY <1>0, <2>2, <2>3
    <3> QED
      BY <2>2, <3>1, LossCovered
  <2>5. seen'.spent = seen.spent /\ seen.spent <= seen'.lost + k
    BY <2>1, <2>4
  <2>6. ~config'.review => seen'.spent = 0
    BY <2>1, <2>5
  <2> QED
    BY <1>0, <2>1, <2>2, <2>5, <2>6
<1>44. CASE PhaseThrows
  BY <1>44 DEF PhaseThrows
<1>45. CASE RunGivenUp
  <2> DEFINE n == CutShort
             k == Max({sidecar.count, mirror})
  <2>1. /\ sidecar'.count = sidecar.count /\ mirror' = mirror /\ UNCHANGED config /\ run'.pc = "idle"
        /\ seen'.spent = Losing(n).spent /\ seen'.lost = Losing(n).lost
    BY <1>0, <1>45, LossTypes DEF RunGivenUp, NoSidecar, Losing
  <2>2. n \in Nat /\ k \in {sidecar.count, mirror} /\ k \in Nat
    BY <1>0, LossTypes, MaxOfTwo DEF NoSidecar
  <2>3. n + k >= CutShort + Max({sidecar.count, mirror})
    BY <1>0, <2>2, MaxOfTwo DEF Forgotten, NoSidecar
  <2> HIDE DEF n, k
  <2>4. Losing(n).spent = seen.spent /\ seen.spent <= Losing(n).lost + k
    BY <2>2, <2>3, LossCovered
  <2>5. seen'.spent = seen.spent /\ seen.spent <= seen'.lost + k
    BY <2>1, <2>4
  <2>6. ~config'.review => seen'.spent = 0
    BY <2>1, <2>5
  <2> QED
    BY <1>0, <2>1, <2>2, <2>5, <2>6
<1>46. CASE \E g \in Gates : Answer(g)
  BY <1>46 DEF Answer
<1>47. CASE Resume
  BY <1>47 DEF Resume
<1>48. CASE Trigger
  BY <1>48 DEF Trigger
<1>49. CASE ConflictResolved
  BY <1>49 DEF ConflictResolved
<1>50. CASE DependencyGateHit
  BY <1>50 DEF DependencyGateHit
<1>51. CASE CompleteManual
  BY <1>51 DEF CompleteManual
<1>52. CASE ClearPhaseStartRef
  BY <1>52, RefCleared
<1>53. CASE ClearBudgetMirror
  BY <1>53 DEF ClearBudgetMirror, Granted
<1>54. CASE RemediateLaunches
  BY <1>54 DEF RemediateLaunches
<1>55. CASE RemediateExits
  <2>1. run.pc = "fixing" /\ run'.pc \in {"remediatePush", "discard"} /\ UNCHANGED <<config, mirror>>
    BY <1>55 DEF RemediateExits
  <2>2. CASE ~config.review
    <3>1. UNCHANGED <<sidecar, seen>>
      BY <1>55, <2>2 DEF RemediateExits, BumpBudget
    <3> QED
      BY <1>0, <2>1, <2>2, <3>1
  <2>3. CASE config.review /\ sidecar' = [sidecar EXCEPT !.count = @ + 1] /\ UNCHANGED seen
    <3>1. sidecar'.count = sidecar.count + 1
      BY <2>3
    <3> QED
      BY <1>0, <2>1, <2>3, <3>1
  <2>4. CASE config.review /\ UNCHANGED sidecar /\ seen' = [seen EXCEPT !.lost = @ + 1]
    <3>1. seen'.lost = seen.lost + 1 /\ seen'.spent = seen.spent
      BY <2>4
    <3> QED
      BY <1>0, <2>1, <2>4, <3>1
  <2> QED
    BY <1>55, <2>2, <2>3, <2>4 DEF RemediateExits, BumpBudget
<1>56. CASE CheckoutLost
  <2> DEFINE n == Forgotten(NoSidecar, mirror)
             k == Max({0, mirror})
  <2>1. /\ sidecar'.count = 0 /\ mirror' = mirror /\ UNCHANGED config /\ run'.pc = "idle"
        /\ seen'.spent = Losing(n).spent /\ seen'.lost = Losing(n).lost
    BY <1>0, <1>56, LossTypes DEF CheckoutLost, NoSidecar, Losing
  <2>2. n \in Nat /\ k \in {0, mirror} /\ k \in Nat
    BY <1>0, LossTypes, MaxOfTwo DEF NoSidecar
  <2>3. n + k >= CutShort + Max({sidecar.count, mirror})
    <3>1. CutShort = 0 /\ NoSidecar.count = 0 /\ Max({sidecar.count, mirror}) \in Nat
      BY <1>0, <1>56, MaxOfTwo DEF CheckoutLost, NoSidecar
    <3>2. n = Max({sidecar.count, mirror}) - k
      BY <3>1 DEF Forgotten
    <3> HIDE DEF n, k, CutShort
    <3> QED
      BY <2>2, <3>1, <3>2
  <2> HIDE DEF n, k
  <2>4. Losing(n).spent = seen.spent /\ seen.spent <= Losing(n).lost + k
    BY <2>2, <2>3, LossCovered
  <2>5. seen'.spent = seen.spent /\ seen.spent <= seen'.lost + k
    BY <2>1, <2>4
  <2>6. ~config'.review => seen'.spent = 0
    BY <2>1, <2>5
  <2> QED
    BY <1>0, <2>1, <2>2, <2>5, <2>6
<1>57. CASE RefExpires
  BY <1>57 DEF RefExpires
<1>58. CASE MirrorExpires
  <2> DEFINE n == Forgotten(sidecar, 0)
             k == sidecar.count + CutShort
  <2>1. UNCHANGED <<sidecar, config, run>> /\ mirror' = 0 /\ seen' = Losing(n)
    BY <1>58 DEF MirrorExpires
  <2>2. n \in Nat /\ k \in Nat
    BY <1>0, LossTypes
  <2>3. n + k >= CutShort + Max({sidecar.count, mirror})
    <3>1. /\ Max({sidecar.count, 0}) = sidecar.count /\ Max({sidecar.count, mirror}) \in Nat
          /\ CutShort \in Nat
      BY <1>0, MaxOfTwo
    <3> QED
      BY <1>0, <3>1 DEF Forgotten
  <2> HIDE DEF n, k
  <2>4. Losing(n).spent = seen.spent /\ seen.spent <= Losing(n).lost + k
    BY <2>2, <2>3, LossCovered
  <2>5. seen'.spent = seen.spent /\ seen.spent <= seen'.lost + sidecar.count + CutShort
    BY <1>0, <2>1, <2>4 DEF k
  <2>6. CutShort' = CutShort
    BY <2>1
  <2> QED
    BY <1>0, <2>1, <2>5, <2>6
<1> QED
  BY <1>1, <1>2, <1>3, <1>4, <1>5, <1>6, <1>7, <1>8, <1>9, <1>10, <1>11, <1>12, <1>13, <1>14,
     <1>15, <1>16, <1>17, <1>18, <1>19, <1>20, <1>21, <1>22, <1>23, <1>24, <1>25, <1>26, <1>27,
     <1>28, <1>29, <1>30, <1>31, <1>32, <1>33, <1>34, <1>35, <1>36, <1>37, <1>38, <1>39, <1>40,
     <1>41, <1>42, <1>43, <1>44, <1>45, <1>46, <1>47, <1>48, <1>49, <1>50, <1>51, <1>52, <1>53,
     <1>54, <1>55, <1>56, <1>57, <1>58 DEF PhaseNext, RunStep

\* Every step keeps unaccepted product code in the range of the start ref.
LEMMA WorkStep ==
  ASSUME Shape, Shape', Control, WorkInRange, [PhaseNext]_phaseVars
  PROVE  WorkInRange'
<1> USE DEF Control, Shape, Runs, Histories, WorkInRange, GoTo, Leave, Enter, Idle, At, Captured, Pushed, SeenPush, NoRef
<1>1. CASE UNCHANGED phaseVars
  BY <1>1 DEF phaseVars, issueVars
<1>2. CASE Take
  BY <1>2 DEF Take
<1>3. CASE OnResumeStart
  BY <1>3 DEF OnResumeStart
<1>4. CASE EnterLoop
  BY <1>4 DEF EnterLoop
<1>5. CASE PushRefused
  BY <1>5 DEF PushRefused
<1>6. CASE OnPhaseStart
  BY <1>6 DEF OnPhaseStart
<1>7. CASE BaseMergeConflict
  BY <1>7 DEF BaseMergeConflict
<1>8. CASE AgentSucceeds
  BY <1>8 DEF AgentSucceeds
<1>9. CASE PhaseFails
  BY <1>9 DEF PhaseFails, EscalateAndAlert
<1>10. CASE ImplementSucceeds
  BY <1>10 DEF ImplementSucceeds
<1>11. CASE ImplementPartial
  BY <1>11 DEF ImplementPartial, ImplementPushes
<1>12. CASE ImplementStalls
  BY <1>12 DEF ImplementStalls, EscalateAndAlert
<1>13. CASE ImplementFails
  <2>1. PICK ok \in BOOLEAN, product \in BOOLEAN :
          diff' = Pushed(Captured(ok), ok, product) /\ seen' = SeenPush(diff', product)
    BY <1>13, ImplementTried
  <2>2. run'.pc \in {"start", "return"}
    BY <1>13, ImplementTried
  <2>3. seen'.worked => diff'.since /\ diff'.ref = "set"
    BY <2>1
  <2> QED
    BY <2>2, <2>3
<1>14. CASE DependencyBlocked
  BY <1>14 DEF DependencyBlocked, ImplementPushes
<1>15. CASE PauseForManualValidation
  BY <1>15 DEF PauseForManualValidation, ImplementPushes, SeenPush
<1>16. CASE ManualGateHit
  BY <1>16 DEF ManualGateHit, Pause
<1>17. CASE ReviewSucceeds
  BY <1>17 DEF ReviewSucceeds
<1>18. CASE ValidateSucceeds
  BY <1>18 DEF ValidateSucceeds
<1>19. CASE ValidateFailsAgain
  BY <1>19 DEF ValidateFailsAgain, EscalateAndAlert
<1>20. CASE ValidateFails
  BY <1>20 DEF ValidateFails
<1>21. CASE Commit
  <2>1. run.pc = "commit" /\ run'.pc \in {"guard", "ci", "gates"}
    BY <1>21 DEF Commit
  <2>2. CASE run.at = "implement"
    <3>1. PICK product \in BOOLEAN : diff' = Pushed(diff, run.refOk, product) /\ seen' = SeenPush(diff, product)
      BY <1>21, <2>2 DEF Commit
    <3> QED
      BY <2>1, <2>2, <3>1
  <2>3. CASE run.at # "implement"
    <3>1. UNCHANGED <<diff, seen>>
      BY <1>21, <2>3 DEF Commit
    <3> QED
      BY <2>1, <2>3, <3>1
  <2> QED
    BY <2>2, <2>3
<1>22. CASE GuardPasses
  BY <1>22 DEF GuardPasses
<1>23. CASE GuardRejects
  BY <1>23 DEF GuardRejects, EscalateAndAlert
<1>24. CASE CiGreen
  BY <1>24 DEF CiGreen
<1>25. CASE PauseForCiReadiness
  BY <1>25 DEF PauseForCiReadiness, Pause
<1>26. CASE GatesSkip
  BY <1>26 DEF GatesSkip
<1>27. CASE GatePauses
  BY <1>27 DEF GatePauses, Pause
<1>28. CASE ApprovalPause
  BY <1>28 DEF ApprovalPause
<1>29. CASE ApprovalGateHit
  BY <1>29 DEF ApprovalGateHit, Pause
<1>30. CASE ReviewGateSkips
  BY <1>30 DEF ReviewGateSkips
<1>31. CASE ReviewGatePauses
  BY <1>31 DEF ReviewGatePauses, Pause
<1>32. CASE ResetRemediationCount
  BY <1>32 DEF ResetRemediationCount, Granted
<1>33. CASE ClearMirror
  BY <1>33 DEF ClearMirror
<1>34. CASE RearmGate
  BY <1>34 DEF RearmGate
<1>35. CASE CompletePhase
  BY <1>35 DEF CompletePhase
<1>36. CASE RemediateStarts
  BY <1>36 DEF RemediateStarts
<1>37. CASE RemediatePush
  BY <1>37 DEF RemediatePush
<1>38. CASE MirrorCount
  BY <1>38 DEF MirrorCount
<1>39. CASE DiscardWorkingTree
  BY <1>39 DEF DiscardWorkingTree
<1>40. CASE Remediated
  BY <1>40 DEF Remediated
<1>41. CASE WorkflowComplete
  BY <1>41 DEF WorkflowComplete, Granted
<1>42. CASE Return
  BY <1>42 DEF Return
<1>43. CASE RunDies
  BY <1>43 DEF RunDies, Losing
<1>44. CASE PhaseThrows
  BY <1>44 DEF PhaseThrows
<1>45. CASE RunGivenUp
  BY <1>45 DEF RunGivenUp, Losing
<1>46. CASE \E g \in Gates : Answer(g)
  BY <1>46 DEF Answer
<1>47. CASE Resume
  BY <1>47 DEF Resume
<1>48. CASE Trigger
  BY <1>48 DEF Trigger
<1>49. CASE ConflictResolved
  BY <1>49 DEF ConflictResolved
<1>50. CASE DependencyGateHit
  BY <1>50 DEF DependencyGateHit
<1>51. CASE CompleteManual
  BY <1>51 DEF CompleteManual
<1>52. CASE ClearPhaseStartRef
  BY <1>52 DEF ClearPhaseStartRef
<1>53. CASE ClearBudgetMirror
  BY <1>53 DEF ClearBudgetMirror, Granted
<1>54. CASE RemediateLaunches
  BY <1>54 DEF RemediateLaunches
<1>55. CASE RemediateExits
  BY <1>55 DEF RemediateExits, BumpBudget
<1>56. CASE CheckoutLost
  BY <1>56 DEF CheckoutLost, Losing
<1>57. CASE RefExpires
  BY <1>57 DEF RefExpires
<1>58. CASE MirrorExpires
  BY <1>58 DEF MirrorExpires, Losing
<1> QED
  BY <1>1, <1>2, <1>3, <1>4, <1>5, <1>6, <1>7, <1>8, <1>9, <1>10, <1>11, <1>12, <1>13, <1>14,
     <1>15, <1>16, <1>17, <1>18, <1>19, <1>20, <1>21, <1>22, <1>23, <1>24, <1>25, <1>26, <1>27,
     <1>28, <1>29, <1>30, <1>31, <1>32, <1>33, <1>34, <1>35, <1>36, <1>37, <1>38, <1>39, <1>40,
     <1>41, <1>42, <1>43, <1>44, <1>45, <1>46, <1>47, <1>48, <1>49, <1>50, <1>51, <1>52, <1>53,
     <1>54, <1>55, <1>56, <1>57, <1>58 DEF PhaseNext, RunStep

\* Every step that leaves the loop says why.
LEMMA LoudStep ==
  ASSUME Shape, Shape', Control, Loud, [PhaseNext]_phaseVars
  PROVE  Loud'
<1> USE DEF Control, Shape, Runs, Histories, IssueLabels, Loud, Spoken, GoTo, Leave, Enter, Idle, At, GateHit, Errored, Cleaned
<1>1. CASE UNCHANGED phaseVars
  BY <1>1 DEF phaseVars, issueVars
<1>2. CASE Take
  BY <1>2 DEF Take
<1>3. CASE OnResumeStart
  BY <1>3 DEF OnResumeStart
<1>4. CASE EnterLoop
  BY <1>4 DEF EnterLoop
<1>5. CASE PushRefused
  BY <1>5 DEF PushRefused
<1>6. CASE OnPhaseStart
  BY <1>6 DEF OnPhaseStart
<1>7. CASE BaseMergeConflict
  BY <1>7 DEF BaseMergeConflict
<1>8. CASE AgentSucceeds
  BY <1>8 DEF AgentSucceeds
<1>9. CASE PhaseFails
  BY <1>9 DEF PhaseFails, EscalateAndAlert
<1>10. CASE ImplementSucceeds
  BY <1>10 DEF ImplementSucceeds
<1>11. CASE ImplementPartial
  BY <1>11 DEF ImplementPartial, ImplementPushes, SeenPush
<1>12. CASE ImplementStalls
  BY <1>12 DEF ImplementStalls, EscalateAndAlert
<1>13. CASE ImplementFails
  BY <1>13, ImplementTried DEF SeenPush
<1>14. CASE DependencyBlocked
  BY <1>14 DEF DependencyBlocked, ImplementPushes, SeenPush
<1>15. CASE PauseForManualValidation
  BY <1>15 DEF PauseForManualValidation, ImplementPushes, SeenPush
<1>16. CASE ManualGateHit
  BY <1>16 DEF ManualGateHit, Pause
<1>17. CASE ReviewSucceeds
  BY <1>17 DEF ReviewSucceeds
<1>18. CASE ValidateSucceeds
  BY <1>18 DEF ValidateSucceeds
<1>19. CASE ValidateFailsAgain
  BY <1>19 DEF ValidateFailsAgain, EscalateAndAlert
<1>20. CASE ValidateFails
  BY <1>20 DEF ValidateFails
<1>21. CASE Commit
  BY <1>21 DEF Commit, SeenPush
<1>22. CASE GuardPasses
  BY <1>22 DEF GuardPasses
<1>23. CASE GuardRejects
  BY <1>23 DEF GuardRejects, EscalateAndAlert
<1>24. CASE CiGreen
  BY <1>24 DEF CiGreen
<1>25. CASE PauseForCiReadiness
  BY <1>25 DEF PauseForCiReadiness, Pause
<1>26. CASE GatesSkip
  BY <1>26 DEF GatesSkip
<1>27. CASE GatePauses
  BY <1>27 DEF GatePauses, Pause
<1>28. CASE ApprovalPause
  BY <1>28 DEF ApprovalPause
<1>29. CASE ApprovalGateHit
  BY <1>29 DEF ApprovalGateHit, Pause
<1>30. CASE ReviewGateSkips
  BY <1>30 DEF ReviewGateSkips
<1>31. CASE ReviewGatePauses
  BY <1>31 DEF ReviewGatePauses, Pause
<1>32. CASE ResetRemediationCount
  BY <1>32 DEF ResetRemediationCount, Granted
<1>33. CASE ClearMirror
  BY <1>33 DEF ClearMirror
<1>34. CASE RearmGate
  BY <1>34 DEF RearmGate
<1>35. CASE CompletePhase
  BY <1>35 DEF CompletePhase
<1>36. CASE RemediateStarts
  BY <1>36 DEF RemediateStarts
<1>37. CASE RemediatePush
  BY <1>37 DEF RemediatePush
<1>38. CASE MirrorCount
  BY <1>38 DEF MirrorCount
<1>39. CASE DiscardWorkingTree
  BY <1>39 DEF DiscardWorkingTree
<1>40. CASE Remediated
  BY <1>40 DEF Remediated
<1>41. CASE WorkflowComplete
  BY <1>41 DEF WorkflowComplete, Granted
<1>42. CASE Return
  BY <1>42 DEF Return
<1>43. CASE RunDies
  BY <1>43 DEF RunDies, Losing
<1>44. CASE PhaseThrows
  BY <1>44 DEF PhaseThrows
<1>45. CASE RunGivenUp
  BY <1>45 DEF RunGivenUp, Losing
<1>46. CASE \E g \in Gates : Answer(g)
  BY <1>46 DEF Answer
<1>47. CASE Resume
  BY <1>47 DEF Resume
<1>48. CASE Trigger
  BY <1>48 DEF Trigger
<1>49. CASE ConflictResolved
  BY <1>49 DEF ConflictResolved
<1>50. CASE DependencyGateHit
  BY <1>50, BlockRaised
<1>51. CASE CompleteManual
  BY <1>51 DEF CompleteManual
<1>52. CASE ClearPhaseStartRef
  BY <1>52 DEF ClearPhaseStartRef
<1>53. CASE ClearBudgetMirror
  BY <1>53 DEF ClearBudgetMirror, Granted
<1>54. CASE RemediateLaunches
  BY <1>54 DEF RemediateLaunches
<1>55. CASE RemediateExits
  BY <1>55 DEF RemediateExits, BumpBudget
<1>56. CASE CheckoutLost
  BY <1>56 DEF CheckoutLost, Losing
<1>57. CASE RefExpires
  BY <1>57 DEF RefExpires
<1>58. CASE MirrorExpires
  BY <1>58 DEF MirrorExpires, Losing
<1> QED
  BY <1>1, <1>2, <1>3, <1>4, <1>5, <1>6, <1>7, <1>8, <1>9, <1>10, <1>11, <1>12, <1>13, <1>14,
     <1>15, <1>16, <1>17, <1>18, <1>19, <1>20, <1>21, <1>22, <1>23, <1>24, <1>25, <1>26, <1>27,
     <1>28, <1>29, <1>30, <1>31, <1>32, <1>33, <1>34, <1>35, <1>36, <1>37, <1>38, <1>39, <1>40,
     <1>41, <1>42, <1>43, <1>44, <1>45, <1>46, <1>47, <1>48, <1>49, <1>50, <1>51, <1>52, <1>53,
     <1>54, <1>55, <1>56, <1>57, <1>58 DEF PhaseNext, RunStep

\* Every step keeps completed:validate true of the tree, or the marker stale.
LEMMA ValidateStep ==
  ASSUME Shape, Shape', Control, ValidateMarked, [PhaseNext]_phaseVars
  PROVE  ValidateMarked'
<1> USE DEF Control, Shape, Runs, Histories, IssueLabels, ValidateMarked, InTurn, GoTo, Leave, Enter, Idle, At, GateHit, Errored, Cleaned, PhaseDone, PhaseActive, PhaseExecuted
<1>1. CASE UNCHANGED phaseVars
  BY <1>1 DEF phaseVars, issueVars
<1>2. CASE Take
  BY <1>2 DEF Take
<1>3. CASE OnResumeStart
  BY <1>3 DEF OnResumeStart
<1>4. CASE EnterLoop
  <2>1. UNCHANGED <<labels, seen>> /\ run.pc = "enter" /\ run' = Enter(IF NothingLeft THEN "end" ELSE run.at)
    BY <1>4 DEF EnterLoop
  <2>2. CASE NothingLeft
    BY <2>1, <2>2 DEF NothingLeft
  <2>3. CASE ~NothingLeft
    <3>1. run'.pc = "start"
      BY <2>1, <2>3 DEF Phases
    <3> QED
      BY <2>1, <3>1
  <2> QED
    BY <2>2, <2>3
<1>5. CASE PushRefused
  BY <1>5 DEF PushRefused
<1>6. CASE OnPhaseStart
  BY <1>6 DEF OnPhaseStart
<1>7. CASE BaseMergeConflict
  BY <1>7 DEF BaseMergeConflict
<1>8. CASE AgentSucceeds
  BY <1>8 DEF AgentSucceeds
<1>9. CASE PhaseFails
  BY <1>9 DEF PhaseFails, EscalateAndAlert
<1>10. CASE ImplementSucceeds
  BY <1>10 DEF ImplementSucceeds
<1>11. CASE ImplementPartial
  BY <1>11 DEF ImplementPartial, ImplementPushes, SeenPush
<1>12. CASE ImplementStalls
  BY <1>12 DEF ImplementStalls, EscalateAndAlert
<1>13. CASE ImplementFails
  <2>1. PICK ok \in BOOLEAN, product \in BOOLEAN : seen' = SeenPush(diff', product)
    BY <1>13, ImplementTried
  <2>2. run.pc = "run" /\ run'.pc \in {"start", "return"} /\ labels'.completed = labels.completed
    BY <1>13, ImplementTried
  <2>3. seen'.stale = seen.stale
    BY <2>1 DEF SeenPush
  <2> QED
    BY <2>2, <2>3
<1>14. CASE DependencyBlocked
  BY <1>14 DEF DependencyBlocked, ImplementPushes, SeenPush
<1>15. CASE PauseForManualValidation
  BY <1>15 DEF PauseForManualValidation, ImplementPushes, SeenPush
<1>16. CASE ManualGateHit
  BY <1>16 DEF ManualGateHit, Pause
<1>17. CASE ReviewSucceeds
  BY <1>17 DEF ReviewSucceeds
<1>18. CASE ValidateSucceeds
  BY <1>18 DEF ValidateSucceeds
<1>19. CASE ValidateFailsAgain
  BY <1>19 DEF ValidateFailsAgain, EscalateAndAlert
<1>20. CASE ValidateFails
  BY <1>20 DEF ValidateFails
<1>21. CASE Commit
  <2>1. /\ run.pc = "commit" /\ run'.at = run.at /\ run'.pc \in {"guard", "ci", "gates"} /\ labels' = labels
        /\ run'.pc = "ci" => run.at = "validate"
    BY <1>21 DEF Commit
  <2>2. CASE run.at = "implement"
    <3>1. PICK product \in BOOLEAN : seen' = SeenPush(diff, product)
      BY <1>21, <2>2 DEF Commit
    <3>2. seen'.stale = seen.stale
      BY <3>1 DEF SeenPush
    <3> QED
      BY <2>1, <2>2, <3>2
  <2>3. CASE run.at # "implement"
    <3>1. seen' = seen
      BY <1>21, <2>3 DEF Commit
    <3> QED
      BY <2>1, <3>1
  <2> QED
    BY <2>2, <2>3
<1>22. CASE GuardPasses
  BY <1>22 DEF GuardPasses
<1>23. CASE GuardRejects
  BY <1>23 DEF GuardRejects, EscalateAndAlert
<1>24. CASE CiGreen
  BY <1>24 DEF CiGreen
<1>25. CASE PauseForCiReadiness
  BY <1>25 DEF PauseForCiReadiness, Pause
<1>26. CASE GatesSkip
  BY <1>26 DEF GatesSkip
<1>27. CASE GatePauses
  BY <1>27 DEF GatePauses, Pause
<1>28. CASE ApprovalPause
  BY <1>28 DEF ApprovalPause
<1>29. CASE ApprovalGateHit
  BY <1>29 DEF ApprovalGateHit, Pause
<1>30. CASE ReviewGateSkips
  BY <1>30 DEF ReviewGateSkips
<1>31. CASE ReviewGatePauses
  BY <1>31 DEF ReviewGatePauses, Pause
<1>32. CASE ResetRemediationCount
  BY <1>32 DEF ResetRemediationCount, Granted
<1>33. CASE ClearMirror
  BY <1>33 DEF ClearMirror
<1>34. CASE RearmGate
  BY <1>34 DEF RearmGate
<1>35. CASE CompletePhase
  <2>1. seen'.stale = seen.stale /\ seen'.validated = seen.validated /\ run.pc = "complete"
    BY <1>35 DEF CompletePhase
  <2>2. /\ Following(run.at) \in Sequence \cup {"end"}
        /\ Following(run.at) = "end" => run.at = "validate"
    BY FollowingPhase
  <2>3. CASE run' = [run EXCEPT !.pc = "remediate"] /\ run.at = "review" /\ labels' = PhaseExecuted(labels)
    BY <2>1, <2>3
  <2>4. CASE run' = Enter(Following(run.at)) /\ labels'.completed \subseteq labels.completed \cup {run.at}
    <3>1. run'.pc \in {"start", "end"} /\ (run'.pc = "end" => run.at = "validate")
      BY <2>2, <2>4
    <3> QED
      BY <2>1, <2>4, <3>1
  <2>5. CASE run' = [run EXCEPT !.pc = "retire"] /\ labels'.completed = labels.completed \cup {"implement"}
    BY <2>1, <2>5
  <2> QED
    BY <1>35, <2>3, <2>4, <2>5 DEF CompletePhase
<1>36. CASE RemediateStarts
  BY <1>36 DEF RemediateStarts
<1>37. CASE RemediatePush
  BY <1>37 DEF RemediatePush
<1>38. CASE MirrorCount
  BY <1>38 DEF MirrorCount
<1>39. CASE DiscardWorkingTree
  BY <1>39 DEF DiscardWorkingTree
<1>40. CASE Remediated
  BY <1>40 DEF Remediated
<1>41. CASE WorkflowComplete
  BY <1>41 DEF WorkflowComplete, Granted
<1>42. CASE Return
  BY <1>42 DEF Return
<1>43. CASE RunDies
  BY <1>43 DEF RunDies, Losing
<1>44. CASE PhaseThrows
  BY <1>44 DEF PhaseThrows
<1>45. CASE RunGivenUp
  BY <1>45 DEF RunGivenUp, Losing
<1>46. CASE \E g \in Gates : Answer(g)
  <2>1. PICK g \in Gates : Answer(g)
    BY <1>46
  <2>2. labels'.completed = labels.completed \cup {g} /\ run' = run
    BY <2>1 DEF Answer
  <2>3. seen'.stale = seen.stale /\ seen'.validated = seen.validated
    BY <2>1 DEF Answer
  <2> QED
    BY <2>2, <2>3 DEF Gates
<1>47. CASE Resume
  BY <1>47 DEF Resume
<1>48. CASE Trigger
  BY <1>48 DEF Trigger
<1>49. CASE ConflictResolved
  BY <1>49 DEF ConflictResolved
<1>50. CASE DependencyGateHit
  BY <1>50, BlockRaised
<1>51. CASE CompleteManual
  BY <1>51 DEF CompleteManual
<1>52. CASE ClearPhaseStartRef
  BY <1>52, RefCleared
<1>53. CASE ClearBudgetMirror
  BY <1>53 DEF ClearBudgetMirror, Granted
<1>54. CASE RemediateLaunches
  BY <1>54 DEF RemediateLaunches
<1>55. CASE RemediateExits
  BY <1>55 DEF RemediateExits, BumpBudget
<1>56. CASE CheckoutLost
  BY <1>56 DEF CheckoutLost, Losing
<1>57. CASE RefExpires
  BY <1>57 DEF RefExpires
<1>58. CASE MirrorExpires
  BY <1>58 DEF MirrorExpires, Losing
<1> QED
  BY <1>1, <1>2, <1>3, <1>4, <1>5, <1>6, <1>7, <1>8, <1>9, <1>10, <1>11, <1>12, <1>13, <1>14,
     <1>15, <1>16, <1>17, <1>18, <1>19, <1>20, <1>21, <1>22, <1>23, <1>24, <1>25, <1>26, <1>27,
     <1>28, <1>29, <1>30, <1>31, <1>32, <1>33, <1>34, <1>35, <1>36, <1>37, <1>38, <1>39, <1>40,
     <1>41, <1>42, <1>43, <1>44, <1>45, <1>46, <1>47, <1>48, <1>49, <1>50, <1>51, <1>52, <1>53,
     <1>54, <1>55, <1>56, <1>57, <1>58 DEF PhaseNext, RunStep

\* Every step leaves a first question the last thing that happened: a run that
\* meets it stops at clarify, and one that starts over is led back there.
LEMMA QuestionStep ==
  ASSUME Shape, Shape', Control, Control', QuestionOpen, [PhaseNext]_phaseVars
  PROVE  QuestionOpen'
<1> USE DEF Control, Shape, Runs, Histories, IssueLabels, QuestionOpen, GoTo, Leave, Enter, Idle, At, GateHit, Errored, Cleaned, PhaseDone, PhaseActive, PhaseExecuted, issueVars
<1>1. CASE UNCHANGED phaseVars
  BY <1>1 DEF phaseVars, issueVars
<1>2. CASE Take
  <2>1. PICK p \in ResolveStartPhase :
          run' = [Idle EXCEPT !.pc = IF item = "process" THEN "enter" ELSE "resume", !.at = p]
    BY <1>2 DEF Take
  <2>2. /\ run'.at = p /\ run'.pc \in {"enter", "resume"} /\ seen'.asked = seen.asked
        /\ UNCHANGED <<config, item, labels, questions>> /\ item # "none"
    <3>1. run'.at = p
      BY <2>1
    <3>2. run'.pc \in {"enter", "resume"}
      BY <2>1
    <3>3. seen'.asked = seen.asked
      BY <1>2 DEF Take
    <3>4. UNCHANGED <<config, item, labels, questions>> /\ item # "none"
      BY <1>2 DEF Take
    <3> QED
      BY <3>1, <3>2, <3>3, <3>4
  <2>3. ASSUME seen.asked
        PROVE  p \in {"specify", "clarify"}
    <3>1. labels.completed \cap Mapped = {} /\ item \in {"process", "continue"}
      BY <2>2, <2>3 DEF Mapped, Gates
    <3>2. p = ResolveFromProcess
      BY <3>1, ContinueStart DEF ResolveStartPhase
    <3> QED
      BY <2>3, <3>2, ProcessStart
  <2> QED
    BY <2>2, <2>3
<1>3. CASE OnResumeStart
  BY <1>3 DEF OnResumeStart
<1>4. CASE EnterLoop
  <2>1. UNCHANGED <<item, questions, labels, seen>> /\ run.pc = "enter" /\ run'.at = run.at /\ run'.pc \in {"start", "end"}
    BY <1>4 DEF EnterLoop, NothingLeft
  <2> QED
    BY <2>1
<1>5. CASE PushRefused
  BY <1>5 DEF PushRefused
<1>6. CASE OnPhaseStart
  BY <1>6 DEF OnPhaseStart
<1>7. CASE BaseMergeConflict
  BY <1>7 DEF BaseMergeConflict
<1>8. CASE AgentSucceeds
  BY <1>8 DEF AgentSucceeds
<1>9. CASE PhaseFails
  BY <1>9 DEF PhaseFails, EscalateAndAlert
<1>10. CASE ImplementSucceeds
  BY <1>10 DEF ImplementSucceeds
<1>11. CASE ImplementPartial
  BY <1>11 DEF ImplementPartial, ImplementPushes, SeenPush
<1>12. CASE ImplementStalls
  BY <1>12 DEF ImplementStalls, EscalateAndAlert
<1>13. CASE ImplementFails
  <2>1. ~seen.asked
    BY <1>13, ImplementTried
  <2>2. seen'.asked = seen.asked
    BY <1>13, ImplementTried DEF SeenPush
  <2> QED
    BY <2>1, <2>2
<1>14. CASE DependencyBlocked
  BY <1>14 DEF DependencyBlocked, ImplementPushes, SeenPush
<1>15. CASE PauseForManualValidation
  BY <1>15 DEF PauseForManualValidation, ImplementPushes, SeenPush
<1>16. CASE ManualGateHit
  BY <1>16 DEF ManualGateHit, Pause, FirstQuestion
<1>17. CASE ReviewSucceeds
  BY <1>17 DEF ReviewSucceeds
<1>18. CASE ValidateSucceeds
  BY <1>18 DEF ValidateSucceeds
<1>19. CASE ValidateFailsAgain
  BY <1>19 DEF ValidateFailsAgain, EscalateAndAlert
<1>20. CASE ValidateFails
  BY <1>20 DEF ValidateFails
<1>21. CASE Commit
  <2>1. seen'.asked = seen.asked
    <3>1. CASE run.at = "implement"
      <4>1. PICK product \in BOOLEAN : seen' = SeenPush(diff, product)
        BY <1>21, <3>1 DEF Commit
      <4> QED
        BY <4>1 DEF SeenPush
    <3>2. CASE run.at # "implement"
      BY <1>21, <3>2 DEF Commit
    <3> QED
      BY <3>1, <3>2
  <2>2. run.pc = "commit" /\ run'.at = run.at /\ run'.pc # "complete" /\ UNCHANGED <<labels, item, questions>>
    BY <1>21 DEF Commit
  <2> QED
    BY <2>1, <2>2
<1>22. CASE GuardPasses
  BY <1>22 DEF GuardPasses
<1>23. CASE GuardRejects
  BY <1>23 DEF GuardRejects, EscalateAndAlert
<1>24. CASE CiGreen
  BY <1>24 DEF CiGreen
<1>25. CASE PauseForCiReadiness
  BY <1>25 DEF PauseForCiReadiness, Pause, FirstQuestion
<1>26. CASE GatesSkip
  <2>1. /\ UNCHANGED <<seen, questions, labels, item>> /\ run'.at = run.at /\ run'.pc = "complete"
        /\ run.pc = "gates" /\ Unsatisfied = {}
    BY <1>26 DEF GatesSkip
  <2>2. ASSUME seen.asked
        PROVE  run.at = "specify"
    <3>1. run.at = "clarify" => "clarification" \in Unsatisfied
      BY <2>2 DEF Unsatisfied, ActiveGates
    <3> QED
      BY <2>1, <2>2, <3>1
  <2> QED
    BY <2>1, <2>2
<1>27. CASE GatePauses
  <2>1. PICK g \in Unsatisfied : run.pc = "gates" /\ run.at \in {"clarify", "implement"} /\ Pause(g)
    BY <1>27 DEF GatePauses
  <2>2. /\ UNCHANGED <<config, item, questions>> /\ run'.pc = "return" /\ labels'.phase = "none"
        /\ labels'.completed = labels.completed /\ labels'.waiting = labels.waiting \cup {g}
    BY <1>27, <2>1 DEF GatePauses, Pause
  <2>3. seen'.asked => seen.asked \/ FirstQuestion(g)
    BY <2>1 DEF Pause
  <2>4. g \notin labels.completed /\ (g = "clarification" => questions /\ run.at = "clarify")
        /\ (run.at = "clarify" => g \in {"clarification", "implementation-review"})
    BY <2>1 DEF Unsatisfied, ActiveGates
  <2>5. ASSUME seen.asked
        PROVE  QuestionOpen'
    <3>1. run.at = "clarify"
      BY <2>1, <2>5
    <3>2. g = "clarification"
      <4>1. config.gate # "clarify"
        BY PhaseConstants DEF Configurations
      <4> QED
        BY <2>1, <3>1, <4>1 DEF Unsatisfied, ActiveGates
    <3> QED
      BY <2>2, <2>5, <3>2
  <2>6. ASSUME FirstQuestion(g)
        PROVE  QuestionOpen'
    <3>1. g = "clarification" /\ questions /\ run.at = "clarify" /\ labels.completed \subseteq {"specify"}
      BY <2>4, <2>6 DEF FirstQuestion
    <3>2. labels'.waiting \subseteq {"clarification"}
      BY <2>2, <2>6, <3>1 DEF FirstQuestion, Gates
    <3>3. item # "rereview"
      BY <2>1, <3>1
    <3> QED
      BY <2>2, <3>1, <3>2, <3>3
  <2> QED
    BY <2>3, <2>5, <2>6
<1>28. CASE ApprovalPause
  BY <1>28 DEF ApprovalPause
<1>29. CASE ApprovalGateHit
  BY <1>29 DEF ApprovalGateHit, Pause, FirstQuestion
<1>30. CASE ReviewGateSkips
  BY <1>30 DEF ReviewGateSkips
<1>31. CASE ReviewGatePauses
  BY <1>31 DEF ReviewGatePauses, Pause, FirstQuestion
<1>32. CASE ResetRemediationCount
  BY <1>32 DEF ResetRemediationCount, Granted
<1>33. CASE ClearMirror
  BY <1>33 DEF ClearMirror
<1>34. CASE RearmGate
  BY <1>34 DEF RearmGate
<1>35. CASE CompletePhase
  <2>1. seen'.asked = seen.asked /\ run.pc = "complete" /\ UNCHANGED <<item, questions>>
    BY <1>35 DEF CompletePhase
  <2>2. ASSUME seen.asked
        PROVE  QuestionOpen'
    <3>1. run.at = "specify" /\ Following(run.at) = "clarify"
      BY <2>1, <2>2, FollowingPhase
    <3>2. run'.pc = "start" /\ run'.at = "clarify"
      BY <1>35, <3>1 DEF CompletePhase
    <3>3. /\ labels'.completed \subseteq labels.completed \cup {"specify"}
          /\ labels'.waiting = labels.waiting /\ labels'.phase = "none"
      BY <1>35, <3>1 DEF CompletePhase
    <3> QED
      BY <2>1, <2>2, <3>2, <3>3
  <2> QED
    BY <2>1, <2>2
<1>36. CASE RemediateStarts
  BY <1>36 DEF RemediateStarts
<1>37. CASE RemediatePush
  BY <1>37 DEF RemediatePush
<1>38. CASE MirrorCount
  BY <1>38 DEF MirrorCount
<1>39. CASE DiscardWorkingTree
  BY <1>39 DEF DiscardWorkingTree
<1>40. CASE Remediated
  BY <1>40 DEF Remediated
<1>41. CASE WorkflowComplete
  BY <1>41 DEF WorkflowComplete, Granted
<1>42. CASE Return
  BY <1>42 DEF Return
<1>43. CASE RunDies
  BY <1>43 DEF RunDies, Losing
<1>44. CASE PhaseThrows
  BY <1>44 DEF PhaseThrows
<1>45. CASE RunGivenUp
  BY <1>45 DEF RunGivenUp, Losing
<1>46. CASE \E g \in Gates : Answer(g)
  <2>1. PICK g \in Gates : Answer(g)
    BY <1>46
  <2>2. CASE g = "clarification"
    <3>1. ~seen'.asked
      BY <2>1, <2>2 DEF Answer
    <3> QED
      BY <3>1
  <2>3. CASE g # "clarification"
    <3>1. ~seen.asked
      BY <2>1, <2>3 DEF Answer
    <3>2. ~seen'.asked
      BY <2>1, <3>1 DEF Answer
    <3> QED
      BY <3>2
  <2> QED
    BY <2>2, <2>3
<1>47. CASE Resume
  BY <1>47 DEF Resume
<1>48. CASE Trigger
  BY <1>48 DEF Trigger
<1>49. CASE ConflictResolved
  BY <1>49 DEF ConflictResolved
<1>50. CASE DependencyGateHit
  BY <1>50 DEF DependencyGateHit
<1>51. CASE CompleteManual
  BY <1>51 DEF CompleteManual
<1>52. CASE ClearPhaseStartRef
  BY <1>52 DEF ClearPhaseStartRef
<1>53. CASE ClearBudgetMirror
  BY <1>53 DEF ClearBudgetMirror, Granted
<1>54. CASE RemediateLaunches
  BY <1>54 DEF RemediateLaunches
<1>55. CASE RemediateExits
  BY <1>55 DEF RemediateExits, BumpBudget
<1>56. CASE CheckoutLost
  BY <1>56 DEF CheckoutLost, Losing
<1>57. CASE RefExpires
  BY <1>57 DEF RefExpires
<1>58. CASE MirrorExpires
  BY <1>58 DEF MirrorExpires, Losing
<1> QED
  BY <1>1, <1>2, <1>3, <1>4, <1>5, <1>6, <1>7, <1>8, <1>9, <1>10, <1>11, <1>12, <1>13, <1>14,
     <1>15, <1>16, <1>17, <1>18, <1>19, <1>20, <1>21, <1>22, <1>23, <1>24, <1>25, <1>26, <1>27,
     <1>28, <1>29, <1>30, <1>31, <1>32, <1>33, <1>34, <1>35, <1>36, <1>37, <1>38, <1>39, <1>40,
     <1>41, <1>42, <1>43, <1>44, <1>45, <1>46, <1>47, <1>48, <1>49, <1>50, <1>51, <1>52, <1>53,
     <1>54, <1>55, <1>56, <1>57, <1>58 DEF PhaseNext, RunStep

\* Every step that gets past implement, and every trace it leaves, has its
\* approval or its exception.
LEMMA ReviewStep ==
  ASSUME Shape, Shape', Control, Control', ReviewTraced, [PhaseNext]_phaseVars
  PROVE  ReviewTraced'
<1> USE DEF Control, Shape, Runs, Histories, IssueLabels, ReviewTraced, Excused, GoTo, Leave, Enter, Idle, At, GateHit, Errored, Cleaned, PhaseDone, PhaseActive, PhaseExecuted
<1>1. CASE UNCHANGED phaseVars
  BY <1>1 DEF phaseVars, issueVars
<1>2. CASE Take
  <2>1. PICK p \in ResolveStartPhase :
          run' = [Idle EXCEPT !.pc = IF item = "process" THEN "enter" ELSE "resume", !.at = p]
    BY <1>2 DEF Take
  <2>0. /\ seen'.approved = seen.approved /\ seen'.manual = seen.manual
        /\ seen'.conflictAt = seen.conflictAt
    BY <1>2 DEF Take
  <2>5. /\ run'.at = p /\ run'.pc \in {"enter", "resume"}
        /\ UNCHANGED <<config, item, labels>> /\ item # "none"
    <3>1. run'.at = p /\ run'.pc \in {"enter", "resume"}
      <4> HIDE DEF Control, Shape, Runs, Histories, IssueLabels, ReviewTraced
      <4> QED
        BY <2>1
    <3>2. UNCHANGED <<config, item, labels>> /\ item # "none"
      BY <1>2 DEF Take
    <3> QED
      BY <3>1, <3>2
  <2>2. /\ run'.at = p /\ run'.pc \in {"enter", "resume"} /\ seen'.approved = seen.approved
        /\ seen'.manual = seen.manual /\ seen'.conflictAt = seen.conflictAt
        /\ UNCHANGED <<config, item, labels>> /\ item # "none"
    BY <2>0, <2>5
  <2>3. seen.jumped \/ (item = "process" /\ BlockAnswered) => seen'.jumped
    BY <1>2 DEF Take
  <2>4. ASSUME config.gate = "implement", p \in {"review", "validate"}
        PROVE  Excused'
    <3>1. ASSUME p = ResolveFromProcess,
                 \A g \in labels.completed \cap Mapped : OwnerOf(g) = "implement" => item = "process"
          PROVE  Excused'
      <4>1. CASE labels.phase \in {"review", "validate"} \/ "implement" \in labels.completed
        BY <2>2, <2>3, <2>4, <4>1
      <4>2. ASSUME NEW g \in labels.completed \cap Mapped, OwnerOf(g) = "implement"
            PROVE  Excused'
        <5>1. g \in {"dependencies", "dependency-limit", "implementation-review"} /\ item = "process"
          BY <3>1, <4>2, OwnerPhases
        <5> QED
          BY <2>2, <2>3, <4>2, <5>1 DEF BlockAnswered
      <4> QED
        BY <2>4, <3>1, <4>1, <4>2, ProcessStart
    <3>2. ASSUME NEW g \in labels.completed \cap Mapped, ResumeFrom(g) = p
          PROVE  Excused'
      <4>1. g \in {"implementation-review", "manual-validation", "ci", "remediation-limit"}
        BY <2>4, <3>2, OwnerPhases
      <4> QED
        BY <2>2, <2>3, <2>4, <3>2, <4>1
    <3>3. CASE item = "process"
      BY <2>1, <3>1, <3>3 DEF ResolveStartPhase
    <3>4. CASE item = "continue"
      BY <2>4, <3>1, <3>2, <3>4, ContinueStart DEF ResolveStartPhase
    <3>5. CASE item = "rereview"
      BY <2>2, <2>3, <2>4, <3>5
    <3> QED
      BY <2>2, <3>3, <3>4, <3>5
  <2> QED
    BY <2>2, <2>3, <2>4
<1>3. CASE OnResumeStart
  BY <1>3 DEF OnResumeStart
<1>4. CASE EnterLoop
  <2>1. /\ UNCHANGED <<config, item, labels, seen>> /\ run.pc = "enter" /\ run'.at = run.at
        /\ run'.pc \in {"start", "end"} /\ (run'.pc = "end" => NothingLeft)
    BY <1>4 DEF EnterLoop, NothingLeft, Phases
  <2> QED
    BY <2>1 DEF NothingLeft
<1>5. CASE PushRefused
  BY <1>5 DEF PushRefused
<1>6. CASE OnPhaseStart
  BY <1>6 DEF OnPhaseStart
<1>7. CASE BaseMergeConflict
  BY <1>7 DEF BaseMergeConflict
<1>8. CASE AgentSucceeds
  BY <1>8 DEF AgentSucceeds
<1>9. CASE PhaseFails
  BY <1>9 DEF PhaseFails, EscalateAndAlert
<1>10. CASE ImplementSucceeds
  BY <1>10 DEF ImplementSucceeds
<1>11. CASE ImplementPartial
  BY <1>11 DEF ImplementPartial, ImplementPushes, SeenPush
<1>12. CASE ImplementStalls
  BY <1>12 DEF ImplementStalls, EscalateAndAlert
<1>13. CASE ImplementFails
  <2>1. PICK ok \in BOOLEAN, product \in BOOLEAN : seen' = SeenPush(diff', product)
    BY <1>13, ImplementTried
  <2>2. /\ seen'.approved = seen.approved /\ seen'.manual = seen.manual /\ seen'.jumped = seen.jumped
        /\ seen'.conflictAt = seen.conflictAt
    BY <2>1 DEF SeenPush
  <2>3. /\ run'.pc \in {"start", "return"} /\ (run'.pc = "start" => run'.at = "implement")
        /\ labels'.completed = labels.completed /\ labels'.waiting = labels.waiting
        /\ labels'.phase \in {labels.phase, "none"} /\ UNCHANGED <<config, item>>
    <3>1. /\ UNCHANGED <<config, item>>
          /\ \/ run'.pc = "start" /\ run'.at = "implement" /\ labels' = labels
             \/ run'.pc = "return" /\ run'.at = "specify" /\ labels' = Errored(labels)
      BY <1>13, ImplementTried
    <3>2. /\ Errored(labels).completed = labels.completed /\ Errored(labels).waiting = labels.waiting
          /\ Errored(labels).phase = "none"
      OBVIOUS
    <3> HIDE DEF Errored
    <3> QED
      BY <3>1, <3>2
  <2> QED
    BY <2>2, <2>3
<1>14. CASE DependencyBlocked
  BY <1>14 DEF DependencyBlocked, ImplementPushes, SeenPush
<1>15. CASE PauseForManualValidation
  BY <1>15 DEF PauseForManualValidation, ImplementPushes, SeenPush
<1>16. CASE ManualGateHit
  BY <1>16 DEF ManualGateHit, Pause
<1>17. CASE ReviewSucceeds
  BY <1>17 DEF ReviewSucceeds
<1>18. CASE ValidateSucceeds
  BY <1>18 DEF ValidateSucceeds
<1>19. CASE ValidateFailsAgain
  BY <1>19 DEF ValidateFailsAgain, EscalateAndAlert
<1>20. CASE ValidateFails
  BY <1>20 DEF ValidateFails
<1>21. CASE Commit
  <2>1. /\ seen'.approved = seen.approved /\ seen'.manual = seen.manual /\ seen'.jumped = seen.jumped
        /\ seen'.conflictAt = seen.conflictAt
    <3>1. CASE run.at = "implement"
      <4>1. PICK product \in BOOLEAN : seen' = SeenPush(diff, product)
        BY <1>21, <3>1 DEF Commit
      <4> QED
        BY <4>1 DEF SeenPush
    <3>2. CASE run.at # "implement"
      BY <1>21, <3>2 DEF Commit
    <3> QED
      BY <3>1, <3>2
  <2>2. /\ run.pc = "commit" /\ run'.at = run.at /\ run'.pc \in {"guard", "ci", "gates"}
        /\ UNCHANGED <<config, labels, item>>
    BY <1>21 DEF Commit
  <2> QED
    BY <2>1, <2>2
<1>22. CASE GuardPasses
  BY <1>22 DEF GuardPasses
<1>23. CASE GuardRejects
  BY <1>23 DEF GuardRejects, EscalateAndAlert
<1>24. CASE CiGreen
  BY <1>24 DEF CiGreen
<1>25. CASE PauseForCiReadiness
  BY <1>25 DEF PauseForCiReadiness, Pause
<1>26. CASE GatesSkip
  <2>1. /\ UNCHANGED <<config, item, labels, seen>> /\ run'.at = run.at /\ run'.pc = "complete"
        /\ run.pc = "gates" /\ Unsatisfied = {}
    BY <1>26 DEF GatesSkip
  <2>2. run.at = config.gate => seen.approved
    <3>1. run.at = config.gate /\ "implementation-review" \notin labels.completed =>
            "implementation-review" \in Unsatisfied
      BY DEF Unsatisfied, ActiveGates
    <3> QED
      BY <2>1, <3>1
  <2> QED
    BY <2>1, <2>2
<1>27. CASE GatePauses
  <2>1. PICK g \in Unsatisfied : Pause(g)
    BY <1>27 DEF GatePauses
  <2>2. g \in {"clarification", "implementation-review"}
    BY <2>1 DEF Unsatisfied, ActiveGates
  <2>3. /\ run'.pc = "return" /\ labels'.completed = labels.completed /\ labels'.phase = "none"
        /\ labels'.waiting = labels.waiting \cup {g}
    BY <2>1 DEF Pause
  <2>4. /\ seen'.approved = seen.approved /\ seen'.manual = seen.manual /\ seen'.jumped = seen.jumped
        /\ seen'.conflictAt = seen.conflictAt
    BY <2>1 DEF Pause
  <2>5. UNCHANGED <<config, item>>
    BY <1>27 DEF GatePauses
  <2> QED
    BY <2>2, <2>3, <2>4, <2>5
<1>28. CASE ApprovalPause
  BY <1>28 DEF ApprovalPause
<1>29. CASE ApprovalGateHit
  BY <1>29 DEF ApprovalGateHit, Pause
<1>30. CASE ReviewGateSkips
  BY <1>30 DEF ReviewGateSkips
<1>31. CASE ReviewGatePauses
  BY <1>31 DEF ReviewGatePauses, Pause
<1>32. CASE ResetRemediationCount
  BY <1>32 DEF ResetRemediationCount, Granted
<1>33. CASE ClearMirror
  BY <1>33 DEF ClearMirror
<1>34. CASE RearmGate
  BY <1>34 DEF RearmGate
<1>35. CASE CompletePhase
  <2>1. /\ seen'.approved = seen.approved /\ seen'.manual = seen.manual /\ seen'.jumped = seen.jumped
        /\ seen'.conflictAt = seen.conflictAt /\ run.pc = "complete" /\ UNCHANGED <<config, item>>
        /\ labels'.waiting = labels.waiting /\ labels'.phase = "none"
        /\ labels'.completed \subseteq labels.completed \cup {run.at}
    BY <1>35 DEF CompletePhase
  <2>2. /\ Following(run.at) \in Sequence \cup {"end"}
        /\ Following(run.at) = "end" => run.at = "validate"
        /\ Following(run.at) \in {"review", "validate"} => run.at \in {"implement", "review"}
    BY FollowingPhase
  <2>3. \/ run'.pc = "remediate" /\ run'.at = "review" /\ run.at = "review"
        \/ run'.pc = "retire" /\ run'.at = "implement" /\ run.at = "implement"
        \/ run'.pc = "end" /\ run'.at = run.at /\ run.at = "validate"
        \/ run'.pc = "start" /\ run'.at = Following(run.at)
    <3>1. CASE run' = [run EXCEPT !.pc = "remediate"] /\ run.at = "review"
      BY <3>1
    <3>2. CASE run' = Enter(Following(run.at))
      BY <2>2, <3>2
    <3>3. CASE run' = [run EXCEPT !.pc = "retire"] /\ run.at = "implement"
      BY <3>3
    <3> QED
      BY <1>35, <3>1, <3>2, <3>3 DEF CompletePhase
  <2> QED
    <3>1. run.at \in Phases /\ Phases \cap Gates = {}
      BY DEF Phases, Gates
    <3>2. /\ "implementation-review" \in labels'.completed => seen'.approved
          /\ "manual-validation" \in labels'.completed \cup labels'.waiting
               \/ run'.pc \in {"retireManual", "pauseManual"} => seen'.manual
          /\ "merge-conflicts" \in labels'.waiting => seen'.conflictAt # "none"
          /\ "ci" \in labels'.completed \cup labels'.waiting => config'.gate = "validate"
      BY <2>1, <2>3, <3>1 DEF Gates
    <3>3. config.gate = "validate" /\ run'.pc = "end" => seen'.approved
      BY <2>1, <2>3
    <3>4. ASSUME config.gate = "implement", run.at \in {"implement", "review", "validate"}
          PROVE  Excused'
      BY <2>1, <3>4
    <3>5. run'.at \in {"review", "validate"} => run.at \in {"implement", "review", "validate"}
      BY <2>2, <2>3
    <3>6. "remediation-limit" \in labels'.completed \cup labels'.waiting =>
            "remediation-limit" \in labels.completed \cup labels.waiting
      BY <2>1, <3>1 DEF Gates
    <3>7. Excused' = Excused
      BY <2>1
    <3>8. ASSUME config.gate = "implement"
          PROVE  /\ run'.pc \notin {"idle", "return"} /\ run'.at \in {"review", "validate"} => Excused'
                 /\ run'.pc \in {"complete", "retire"} /\ run'.at = "implement" => Excused'
                 /\ labels'.phase \in {"review", "validate"} => Excused'
                 /\ labels'.completed \cap {"implement", "review", "validate"} # {} => Excused'
                 /\ "remediation-limit" \in labels'.completed \cup labels'.waiting => Excused'
                 /\ "merge-conflicts" \in labels'.waiting /\ seen'.conflictAt = "validate" => Excused'
                 /\ item' = "rereview" => Excused'
      <4> HIDE DEF Excused
      <4> QED
        BY <2>1, <2>3, <3>4, <3>5, <3>6, <3>7, <3>8
    <3> HIDE DEF Excused
    <3> QED
      BY <2>1, <2>3, <3>2, <3>3, <3>8
<1>36. CASE RemediateStarts
  BY <1>36 DEF RemediateStarts
<1>37. CASE RemediatePush
  BY <1>37 DEF RemediatePush
<1>38. CASE MirrorCount
  BY <1>38 DEF MirrorCount
<1>39. CASE DiscardWorkingTree
  BY <1>39 DEF DiscardWorkingTree
<1>40. CASE Remediated
  BY <1>40 DEF Remediated
<1>41. CASE WorkflowComplete
  BY <1>41 DEF WorkflowComplete, Granted
<1>42. CASE Return
  BY <1>42 DEF Return
<1>43. CASE RunDies
  BY <1>43 DEF RunDies, Losing
<1>44. CASE PhaseThrows
  BY <1>44 DEF PhaseThrows
<1>45. CASE RunGivenUp
  BY <1>45 DEF RunGivenUp, Losing
<1>46. CASE \E g \in Gates : Answer(g)
  <2>1. PICK g \in Gates : Answer(g)
    BY <1>46
  <2>2. /\ labels'.completed = labels.completed \cup {g} /\ labels'.waiting = labels.waiting
        /\ labels'.phase = labels.phase /\ UNCHANGED <<config, run, item>> /\ g \in labels.waiting
    BY <2>1 DEF Answer
  <2>3. seen'.manual = seen.manual /\ seen'.jumped = seen.jumped /\ seen'.conflictAt = seen.conflictAt
    BY <2>1 DEF Answer
  <2>4. seen.approved \/ g = "implementation-review" => seen'.approved
    BY <2>1 DEF Answer
  <2> QED
    BY <2>2, <2>3, <2>4 DEF Gates, Phases
<1>47. CASE Resume
  BY <1>47 DEF Resume
<1>48. CASE Trigger
  BY <1>48 DEF Trigger
<1>49. CASE ConflictResolved
  <2>1. /\ "merge-conflicts" \in labels.waiting /\ UNCHANGED <<config, run>> /\ run.pc = "idle"
    BY <1>49 DEF ConflictResolved
  <2>7. /\ labels'.waiting \subseteq labels.waiting /\ labels'.phase = labels.phase
        /\ labels'.completed \subseteq labels.completed
    <3>1. CASE labels' = labels
      BY <3>1
    <3>2. CASE labels' = [labels EXCEPT !.waiting = @ \ {"merge-conflicts"},
                                       !.completed = @ \ {"validate", "implementation-review"}]
      BY <3>2
    <3> QED
      BY <1>49, <3>1, <3>2 DEF ConflictResolved
  <2>8. "merge-conflicts" \in labels'.waiting => seen'.conflictAt = seen.conflictAt
    BY <1>49 DEF ConflictResolved
  <2>2. seen'.approved = seen.approved /\ seen'.manual = seen.manual
    BY <1>49 DEF ConflictResolved
  <2>3. seen.jumped \/ (config.review /\ seen.conflictAt = "implement") => seen'.jumped
    BY <1>49 DEF ConflictResolved
  <2>4. item' = "rereview" => config.review
    BY <1>49 DEF ConflictResolved
  <2>5. config.gate = "implement" /\ item' = "rereview" => Excused'
    BY <2>1, <2>2, <2>3, <2>4
  <2>6. Excused => Excused'
    BY <2>2, <2>3
  <2> HIDE DEF Excused
  <2> QED
    BY <2>1, <2>2, <2>5, <2>6, <2>7, <2>8
<1>50. CASE DependencyGateHit
  <2>1. Excused' = Excused
    BY <1>50, BlockRaised
  <2> HIDE DEF Excused
  <2> QED
    BY <1>50, <2>1, BlockRaised
<1>51. CASE CompleteManual
  BY <1>51 DEF CompleteManual
<1>52. CASE ClearPhaseStartRef
  <2>1. UNCHANGED <<config, item, labels, seen>> /\ run.at = "implement"
    BY <1>52, RefCleared
  <2>2. Excused' = Excused
    BY <2>1
  <2> HIDE DEF Excused
  <2> QED
    BY <1>52, <2>1, <2>2, RefCleared
<1>53. CASE ClearBudgetMirror
  BY <1>53 DEF ClearBudgetMirror, Granted
<1>54. CASE RemediateLaunches
  BY <1>54 DEF RemediateLaunches
<1>55. CASE RemediateExits
  BY <1>55 DEF RemediateExits, BumpBudget
<1>56. CASE CheckoutLost
  BY <1>56 DEF CheckoutLost, Losing
<1>57. CASE RefExpires
  BY <1>57 DEF RefExpires
<1>58. CASE MirrorExpires
  BY <1>58 DEF MirrorExpires, Losing
<1> QED
  BY <1>1, <1>2, <1>3, <1>4, <1>5, <1>6, <1>7, <1>8, <1>9, <1>10, <1>11, <1>12, <1>13, <1>14,
     <1>15, <1>16, <1>17, <1>18, <1>19, <1>20, <1>21, <1>22, <1>23, <1>24, <1>25, <1>26, <1>27,
     <1>28, <1>29, <1>30, <1>31, <1>32, <1>33, <1>34, <1>35, <1>36, <1>37, <1>38, <1>39, <1>40,
     <1>41, <1>42, <1>43, <1>44, <1>45, <1>46, <1>47, <1>48, <1>49, <1>50, <1>51, <1>52, <1>53,
     <1>54, <1>55, <1>56, <1>57, <1>58 DEF PhaseNext, RunStep

-----------------------------------------------------------------------------
(* The theorems *)

\* Every issue starts with the invariant.
LEMMA PhaseInvInit == PhaseInit => PhaseInv
<1> SUFFICES ASSUME PhaseInit
             PROVE  PhaseInv
  OBVIOUS
<1> USE DEF PhaseInit, NoSidecar, NoRef
<1>1. Shape
  <2>1. labels \in IssueLabels /\ seen \in Histories
    BY DEF IssueLabels, Histories
  <2>2. run \in Runs
    BY IdleType
  <2>3. /\ sidecar \in [verdict : {"clean", "changes"}, count : 0 .. AttemptsPerGrant]
        /\ mirror \in 0 .. AttemptsPerGrant /\ blocks \in 0 .. MaxBlockCycles
    BY Bounds
  <2>4. diff \in [ref : {"none", "set"}, since : BOOLEAN] /\ questions \in BOOLEAN
    OBVIOUS
  <2> QED
    BY <2>1, <2>2, <2>3, <2>4 DEF Shape
<1>2. Control
  BY SequenceMembers DEF Control, Idle, Phases
<1>3. BudgetCounted /\ WorkInRange /\ Loud /\ ValidateMarked
  BY DEF BudgetCounted, CutShort, WorkInRange, Loud, ValidateMarked, InTurn, Idle
<1>4. QuestionOpen /\ ReviewTraced
  BY DEF QuestionOpen, ReviewTraced, Idle
<1> QED
  BY <1>1, <1>2, <1>3, <1>4 DEF PhaseInv

\* Every step keeps it.
LEMMA PhaseInvStep == PhaseInv /\ [PhaseNext]_phaseVars => PhaseInv'
<1> SUFFICES ASSUME PhaseInv, [PhaseNext]_phaseVars
             PROVE  PhaseInv'
  OBVIOUS
<1>1. Shape /\ Control /\ BudgetCounted
  BY DEF PhaseInv
<1>2. Shape'
  BY <1>1, ShapeStep
<1>3. Control'
  BY <1>1, <1>2, ControlStep
<1>4. BudgetCounted'
  BY <1>1, <1>2, BudgetStep
<1>5. WorkInRange'
  BY <1>1, <1>2, WorkStep DEF PhaseInv
<1>6. Loud'
  BY <1>1, <1>2, LoudStep DEF PhaseInv
<1>7. ValidateMarked'
  BY <1>1, <1>2, ValidateStep DEF PhaseInv
<1>8. QuestionOpen'
  BY <1>1, <1>2, <1>3, QuestionStep DEF PhaseInv
<1>9. ReviewTraced'
  BY <1>1, <1>2, <1>3, ReviewStep DEF PhaseInv
<1> QED
  BY <1>2, <1>3, <1>4, <1>5, <1>6, <1>7, <1>8, <1>9 DEF PhaseInv

\* The invariant holds in every behaviour of the phase loop.
THEOREM PhaseInvariant == PhaseSpec => []PhaseInv
BY PhaseInvInit, PhaseInvStep, PTL DEF PhaseSpec

\* Every label, local and counter keeps its range, for every set of
\* configurations and every bound: no count of remediations passes what a
\* grant allows, whatever a run that died left on disk and in Redis.
THEOREM PhaseTypeCorrect == PhaseSpec => []PhaseTypeOK
<1>1. PhaseInv => PhaseTypeOK
  BY DEF PhaseInv, Shape, Control, PhaseTypeOK, Runs, IssueLabels, Mapped
<1> QED
  BY <1>1, PhaseInvariant, PTL

\* No run, however many died before it, starts a phase after clarify over a
\* first question, or one after an implementation review nobody approved.
THEOREM GatesRespectedHolds == PhaseSpec => []GatesRespected
<1>1. PhaseInv => GatesRespected
  <2> SUFFICES ASSUME PhaseInv
               PROVE  GatesRespected
    OBVIOUS
  <2>1. run.at \in Phases
    BY DEF PhaseInv, Shape, Runs
  <2>2. Beyond("clarify") => ~seen.asked
    BY <2>1, OrderValues DEF PhaseInv, QuestionOpen, Beyond
  <2>3. Beyond("implement") => run.at \in {"review", "validate"} /\ run.pc = "start"
    BY <2>1, OrderValues DEF Beyond, Phases
  <2>4. run.pc = "end" => run.at = "validate"
    BY DEF PhaseInv, Control
  <2>5. config.gate = "implement" /\ (Beyond("implement") \/ run.pc = "end") =>
          seen.approved \/ seen.manual \/ seen.jumped
    BY <2>3, <2>4 DEF PhaseInv, ReviewTraced, Excused
  <2>6. config.gate = "validate" /\ run.pc = "end" => seen.approved
    BY DEF PhaseInv, ReviewTraced
  <2> QED
    BY <2>2, <2>5, <2>6 DEF GatesRespected
<1> QED
  BY <1>1, PhaseInvariant, PTL

\* The remediation cap holds across dead runs, lost checkouts and grants.
THEOREM RemediationBudgetHolds == PhaseSpec => []RemediationBudget
<1>1. PhaseInv => RemediationBudget
  <2> SUFFICES ASSUME PhaseInv
               PROVE  seen.spent <= AttemptsPerGrant + seen.lost
    BY DEF RemediationBudget
  <2>1. /\ seen.spent \in Nat /\ seen.lost \in Nat /\ AttemptsPerGrant \in Nat
        /\ sidecar.count \in 0 .. AttemptsPerGrant /\ mirror \in 0 .. AttemptsPerGrant
    BY Bounds DEF PhaseInv, Shape, Histories
  <2>2. CASE run.pc = "fixing" /\ config.review
    <3>1. seen.spent <= seen.lost + sidecar.count + 1 /\ sidecar.count < AttemptsPerGrant
      BY <2>2 DEF PhaseInv, BudgetCounted, CutShort
    <3> QED
      BY <2>1, <3>1
  <2>3. CASE ~(run.pc = "fixing" /\ config.review)
    <3>1. seen.spent <= seen.lost + sidecar.count + 0 \/ seen.spent <= seen.lost + mirror + 0
      BY <2>3 DEF PhaseInv, BudgetCounted, CutShort
    <3> QED
      BY <2>1, <3>1
  <2> QED
    BY <2>2, <2>3
<1> QED
  BY <1>1, PhaseInvariant, PTL

\* The product-diff guard turns no finished work away.
THEOREM FinishedWorkAcceptedHolds == PhaseSpec => []FinishedWorkAccepted
<1>1. PhaseInv => FinishedWorkAccepted
  BY DEF PhaseInv, WorkInRange, FinishedWorkAccepted
<1> QED
  BY <1>1, PhaseInvariant, PTL

\* A workflow that finishes was validated after the last push, but for the
\* stale marker.
THEOREM FinishedMeansValidatedHolds == PhaseSpec => []FinishedMeansValidated
<1>1. PhaseInv => FinishedMeansValidated
  BY DEF PhaseInv, ValidateMarked, FinishedMeansValidated
<1> QED
  BY <1>1, PhaseInvariant, PTL

\* No exit of the loop leaves an issue silently behind.
THEOREM NoSilentStopHolds == PhaseSpec => []NoSilentStop
<1>1. PhaseInv => NoSilentStop
  BY DEF PhaseInv, Loud, Spoken, NoSilentStop
<1> QED
  BY <1>1, PhaseInvariant, PTL
=============================================================================
