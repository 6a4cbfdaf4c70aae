-------------------------- MODULE RedisQueueProofs --------------------------
(***************************************************************************)
(* Proofs about RedisQueue for every set of items, workers and processes   *)
(* and every retry bound.                                                  *)
(*                                                                         *)
(* OneOwner is inductive together with TypeOK, because the history         *)
(* variable `tainted` remembers the only items for which it may fail.      *)
(* The argument is by how a step moves copies: it takes copies away        *)
(* (Shrinks), turns a claim into a pending member (ClaimToPending), a      *)
(* pending member into a claim (ClaimScript), or adds one (Enqueue).       *)
(*                                                                         *)
(* The refinement of QueueContract counts copies, so it needs one more     *)
(* invariant: there are only ever finitely many (FiniteCopies).  A step    *)
(* then adds a numbered copy, drops the last one of a member, drops a      *)
(* claim, or moves a copy between the two without changing the count.      *)
(***************************************************************************)
EXTENDS RedisQueue, FiniteSetTheorems, TLAPS

-----------------------------------------------------------------------------
(* Type correctness *)

\* Moving an item into pending keeps pending a bag of members.
LEMMA ZAddType ==
  ASSUME pending \in [Member -> Nat], NEW m \in Member, ZAdd(m)
  PROVE  pending' \in [Member -> Nat]
BY DEF ZAdd

\* A retry that is not the last one stays below maxRetries.
LEMMA AttemptType ==
  ASSUME NEW a \in Attempts, a + 1 < MaxRetries
  PROVE  a + 1 \in Attempts
BY RetriesAssumption DEF Attempts

\* A fresh item has made no attempt.
LEMMA ZeroAttempt == 0 \in Attempts
BY RetriesAssumption DEF Attempts

\* What the claim hash of a worker holds when it holds something.
LEMMA ClaimType ==
  ASSUME TypeOK, NEW w \in Workers, claimed[w] # None
  PROVE  claimed[w] \in Claim /\ claimed[w].key \in Items /\ claimed[w].attempts \in Attempts
                              /\ claimed[w].aged \in BOOLEAN
BY DEF TypeOK, Claim

\* The initial state is well-typed.
LEMMA InitType == Init => TypeOK
BY DEF Init, TypeOK, SweepPcs

\* A step of a worker keeps the types.
LEMMA WorkerType ==
  ASSUME TypeOK, NEW w \in Workers, WorkerNext(w)
  PROVE  TypeOK'
<1>1. ASSUME NEW m \in Member, ClaimScript(w, m), held' = held \/ held' = [held EXCEPT ![w] = m.key]
      PROVE  TypeOK'
  <2>1. m.key \in Items /\ m.attempts \in Attempts
    BY DEF Member
  <2>2. pending' \in [Member -> Nat]
    BY <1>1 DEF TypeOK, ClaimScript
  <2>3. claimed' \in [Workers -> Claim \cup {None}]
    BY <1>1, <2>1 DEF TypeOK, ClaimScript, Claim
  <2>4. held' \in [Workers -> Items \cup {None}]
    BY <1>1, <2>1 DEF TypeOK
  <2> QED
    BY <1>1, <2>2, <2>3, <2>4 DEF TypeOK, ClaimScript, sweepVars
<1>2. CASE ClaimItem(w)
  BY <1>1, <1>2 DEF ClaimItem
<1>3. CASE ClaimReplyLost(w)
  BY <1>1, <1>3 DEF ClaimReplyLost
<1>4. CASE ClaimAlreadyCleared(w)
  BY <1>4 DEF ClaimAlreadyCleared, TypeOK, sweepVars
<1>5. CASE ReleaseRetry(w)
  <2>1. held[w] \in Items /\ claimed[w].attempts + 1 \in Attempts
    BY <1>5, ClaimType, AttemptType DEF ReleaseRetry, OwnsClaim, ClaimOn, TypeOK
  <2>2. [key |-> held[w], reason |-> "retry", attempts |-> claimed[w].attempts + 1] \in Member
    BY <2>1 DEF Member, Reasons
  <2>3. pending' \in [Member -> Nat]
    BY <1>5, <2>2, ZAddType DEF ReleaseRetry, TypeOK
  <2> QED
    BY <1>5, <2>3 DEF ReleaseRetry, HDelClaim, TypeOK, sweepVars
<1>6. CASE ReleaseDeadLetter(w)
  <2>1. tainted' \subseteq Items
    BY <1>6 DEF ReleaseDeadLetter, TaintAfter
  <2> QED
    BY <1>6, <2>1 DEF ReleaseDeadLetter, OwnsClaim, HDelClaim, TypeOK, sweepVars
<1>7. CASE RequeueResume(w)
  <2>1. held[w] \in Items /\ claimed[w].attempts \in Attempts
    BY <1>7, ClaimType DEF RequeueResume, OwnsClaim, ClaimOn, TypeOK
  <2>2. [key |-> held[w], reason |-> "resume", attempts |-> claimed[w].attempts] \in Member
    BY <2>1 DEF Member, Reasons
  <2>3. pending' \in [Member -> Nat]
    BY <1>7, <2>2, ZAddType DEF RequeueResume, TypeOK
  <2> QED
    BY <1>7, <2>3 DEF RequeueResume, HDelClaim, TypeOK, sweepVars
<1>8. CASE Complete(w)
  <2>1. tainted' \subseteq Items
    BY <1>8 DEF Complete, TaintAfter
  <2> QED
    BY <1>8, <2>1 DEF Complete, TypeOK, sweepVars
<1>9. CASE HeartbeatExpires(w) \/ HeartbeatSet(w) \/ Forget(w)
  BY <1>9 DEF HeartbeatExpires, HeartbeatSet, Forget, TypeOK, sweepVars
<1>10. CASE GraceWindowPasses(w)
  <2>1. [claimed[w] EXCEPT !.aged = TRUE] \in Claim
    BY <1>10, ClaimType DEF GraceWindowPasses, Claim
  <2> QED
    BY <1>10, <2>1 DEF GraceWindowPasses, TypeOK, sweepVars
<1> QED
  BY <1>2, <1>3, <1>4, <1>5, <1>6, <1>7, <1>8, <1>9, <1>10
     DEF WorkerNext, Release, RequeueForResume

\* A step of a process's reaper cycle keeps the types.
LEMMA SweepType ==
  ASSUME TypeOK, NEW s \in Sweepers, ReapNext(s) \/ ReconcileNext(s) \/ SweepFault(s)
  PROVE  TypeOK'
<1>1. CASE ReapScan(s) \/ ReapEnd(s) \/ ReapAborted(s)
  BY <1>1 DEF ReapScan, ReapEnd, ReapAborted, SweepGoes, SweepPcs, TypeOK, redisVars
<1>2. CASE \E w \in Workers : ReapRead(s, w)
  <2>1. PICK w \in Workers : ReapRead(s, w)
    BY <1>2
  <2>2. claimed[w] # None =>
          [worker |-> w, key |-> claimed[w].key, attempts |-> claimed[w].attempts, aged |-> claimed[w].aged]
            \in Orphan
    BY ClaimType DEF Orphan
  <2>3. orphan' \in [Sweepers -> Orphan \cup {None}]
    BY <2>1, <2>2 DEF ReapRead, TypeOK
  <2> QED
    BY <2>1, <2>3 DEF ReapRead, TypeOK, redisVars
<1>3. CASE ReclaimOrphan(s)
  <2>1. orphan[s] \in Orphan
    BY <1>3 DEF ReclaimOrphan, TypeOK
  <2>2. [key |-> orphan[s].key, reason |-> "resume", attempts |-> orphan[s].attempts] \in Member
    BY <2>1 DEF Orphan, Member, Reasons
  <2>3. pending' \in [Member -> Nat]
    BY <1>3, <2>2, ZAddType DEF ReclaimOrphan, TypeOK
  <2> QED
    BY <1>3, <2>3 DEF ReclaimOrphan, OrphanDone, TypeOK
<1>4. CASE ReclaimSkipped(s)
  BY <1>4 DEF ReclaimSkipped, OrphanDone, TypeOK, redisVars
<1>5. CASE ReconcileSnapshotIndex(s) \/ ReconcileSnapshotPending(s) \/ ReconcileScanClaims(s)
  BY <1>5 DEF ReconcileSnapshotIndex, ReconcileSnapshotPending, ReconcileScanClaims, SweepGoes,
              SweepPcs, TypeOK, redisVars
<1>6. CASE ReconcileGate(s) \/ ReconcileEnd(s) \/ ReconcileAborted(s)
  BY <1>6 DEF ReconcileGate, ReconcileEnd, ReconcileAborted, SweepGoes, SweepPcs, TypeOK, redisVars
<1>7. CASE \E w \in Workers : ReconcileReadClaim(s, w)
  BY <1>7 DEF ReconcileReadClaim, TypeOK, redisVars
<1>8. CASE \E k \in Items : ReconcileRemove(s, k)
  <2>1. tainted' \subseteq Items
    BY <1>8 DEF ReconcileRemove, TaintAfter
  <2> QED
    BY <1>8, <2>1 DEF ReconcileRemove, TypeOK
<1>9. CASE \E k \in Items : ReconcileRemoveError(s, k)
  <2>1. tainted' \subseteq Items
    BY <1>9 DEF ReconcileRemoveError, TaintAfter
  <2> QED
    BY <1>9, <2>1 DEF ReconcileRemoveError, TypeOK
<1>10. CASE ProcessRestart(s)
  BY <1>10 DEF ProcessRestart, HoldersGone, SweepReset, SweepGoes, SweepPcs, TypeOK, redisVars
<1> QED
  BY <1>1, <1>2, <1>3, <1>4, <1>5, <1>6, <1>7, <1>8, <1>9, <1>10
     DEF ReapNext, ReconcileNext, SweepFault

\* Every step keeps the types.
LEMMA NextType == TypeOK /\ [Next]_queueVars => TypeOK'
<1> SUFFICES ASSUME TypeOK, [Next]_queueVars PROVE TypeOK'
  OBVIOUS
<1>1. CASE EnqueueNext
  <2>1. PICK k \in Items, reason \in {"new", "resume"} : Enqueue(k, reason)
    BY <1>1 DEF EnqueueNext
  <2>2. [key |-> k, reason |-> reason, attempts |-> 0] \in Member
    BY ZeroAttempt DEF Member, Reasons
  <2>3. pending' \in [Member -> Nat]
    BY <2>1, <2>2, ZAddType DEF Enqueue, TypeOK
  <2> QED
    BY <2>1, <2>3 DEF Enqueue, TypeOK, sweepVars
<1>2. CASE \E w \in Workers : WorkerNext(w)
  BY <1>2, WorkerType
<1>3. CASE \E s \in Sweepers : ReapNext(s) \/ ReconcileNext(s) \/ SweepFault(s)
  BY <1>3, SweepType
<1>4. CASE UNCHANGED queueVars
  BY <1>4 DEF queueVars, redisVars, sweepVars, TypeOK
<1>5. CASE WorkersDie
  BY <1>5 DEF WorkersDie, HoldersGone, redisVars, sweepVars, TypeOK
<1> QED
  BY <1>1, <1>2, <1>3, <1>4, <1>5 DEF Next, CalmNext

\* The adapter's state is always well-typed; in particular no pending member
\* and no claim ever carries an attempt count that has reached maxRetries.
THEOREM TypeCorrect == Spec => []TypeOK
<1>1. Init => TypeOK
  BY InitType
<1>2. TypeOK /\ [Next]_queueVars => TypeOK'
  BY NextType
<1> QED
  BY <1>1, <1>2, PTL DEF Spec

-----------------------------------------------------------------------------
(* One owner *)

\* No member and no claim is added.
Shrinks ==
  /\ \A m \in Member : pending'[m] <= pending[m]
  /\ \A w \in Workers, k \in Items : ClaimOn(w, k)' => ClaimOn(w, k)

\* The claim of w becomes the pending member m.
ClaimToPending(w, m) ==
  /\ ClaimOn(w, m.key)
  /\ claimed' = [claimed EXCEPT ![w] = None]
  /\ pending' = [pending EXCEPT ![m] = @ + 1]

\* OneOwner for one item.
Sole(k) == SingleCopy(k) /\ (HasWork(k) => k \in inFlight)

\* An item without work has no second copy.
LEMMA NoWork ==
  ASSUME TypeOK, NEW k \in Items, ~HasWork(k)
  PROVE  Sole(k)
BY DEF TypeOK, HasWork, IsPending, IsClaimed, SingleCopy, Sole

\* Taking copies away keeps an item single and brings no work.
LEMMA ShrinksSingle ==
  ASSUME TypeOK, TypeOK', Shrinks, NEW k \in Items
  PROVE  /\ HasWork(k)' => HasWork(k)
         /\ SingleCopy(k) => SingleCopy(k)'
<1>1. \A m \in Member : pending[m] \in Nat /\ pending'[m] \in Nat
  BY DEF TypeOK
<1>2. IsPending(k)' => IsPending(k)
  BY <1>1 DEF Shrinks, IsPending
<1>3. IsClaimed(k)' => IsClaimed(k)
  BY DEF Shrinks, IsClaimed
<1>4. SingleCopy(k) => SingleCopy(k)'
  BY <1>1, <1>2, <1>3 DEF SingleCopy, Shrinks
<1> QED
  BY <1>2, <1>3, <1>4 DEF HasWork

\* Turning a claim into a pending member keeps an item single and brings no
\* work.
LEMMA MoveSingle ==
  ASSUME TypeOK, NEW w \in Workers, NEW m \in Member, ClaimToPending(w, m), NEW k \in Items
  PROVE  /\ HasWork(k)' => HasWork(k)
         /\ SingleCopy(k) => SingleCopy(k)'
<1>1. m.key \in Items
  BY DEF Member
<1>2. \A n \in Member : pending[n] \in Nat /\ pending'[n] = IF n = m THEN pending[n] + 1 ELSE pending[n]
  BY DEF TypeOK, ClaimToPending
<1>3. \A v \in Workers : ClaimOn(v, k)' <=> v # w /\ ClaimOn(v, k)
  BY DEF TypeOK, ClaimToPending, ClaimOn
<1>4. ClaimOn(w, m.key)
  BY DEF ClaimToPending
<1>5. CASE m.key # k
  <2>1. IsPending(k)' <=> IsPending(k)
    BY <1>2, <1>5 DEF IsPending
  <2>2. IsClaimed(k)' => IsClaimed(k)
    BY <1>3 DEF IsClaimed
  <2>3. SingleCopy(k) => SingleCopy(k)'
    BY <1>2, <1>3, <1>5, <2>1, <2>2 DEF SingleCopy
  <2> QED
    BY <2>1, <2>2, <2>3 DEF HasWork
<1>6. CASE m.key = k
  <2>1. IsClaimed(k)
    BY <1>4, <1>6 DEF IsClaimed
  <2>2. ASSUME SingleCopy(k) PROVE SingleCopy(k)'
    <3>1. ~IsClaimed(k)'
      BY <1>3, <1>4, <1>6, <2>2 DEF SingleCopy, IsClaimed
    <3>2. \A n \in Member : n.key = k => pending[n] = 0
      BY <1>2, <2>1, <2>2 DEF SingleCopy, IsPending
    <3>3. \A n \in Member : n.key = k => pending'[n] = IF n = m THEN 1 ELSE 0
      BY <1>2, <3>2
    <3> QED
      BY <1>3, <3>1, <3>3 DEF SingleCopy, IsClaimed
  <2> QED
    BY <2>1, <2>2 DEF HasWork
<1> QED
  BY <1>5, <1>6

\* A step that adds no copy and leaves the index and the history alone keeps
\* every item that was sole so.
LEMMA KeepsSole ==
  ASSUME OneOwner, inFlight' = inFlight, tainted' = tainted,
         \A k \in Items : (HasWork(k)' => HasWork(k)) /\ (SingleCopy(k) => SingleCopy(k)')
  PROVE  OneOwner'
BY DEF OneOwner

\* A step that takes copies away, removes an index entry or not, and brings
\* the history up to date, keeps the invariant: an item it leaves without an
\* entry has no work, or had none in the index before, or becomes tainted.
LEMMA UntrackKeeps ==
  ASSUME TypeOK, TypeOK', OneOwner, Shrinks, inFlight' \subseteq inFlight, tainted' = TaintAfter
  PROVE  OneOwner'
<1> SUFFICES ASSUME NEW k \in Items, k \notin tainted' PROVE Sole(k)'
  BY DEF OneOwner, Sole
<1>1. CASE ~HasWork(k)'
  <2>1. \A m \in Member : pending'[m] \in Nat
    BY DEF TypeOK
  <2> QED
    BY <1>1, <2>1 DEF HasWork, IsPending, IsClaimed, SingleCopy, Sole
<1>2. CASE HasWork(k)'
  <2>1. k \notin tainted /\ (k \in inFlight => k \in inFlight')
    BY <1>2 DEF TaintAfter
  <2>2. HasWork(k) /\ Sole(k)
    BY <1>2, <2>1, ShrinksSingle DEF OneOwner, Sole
  <2> QED
    BY <2>1, <2>2, ShrinksSingle DEF Sole
<1> QED
  BY <1>1, <1>2

\* A step of a worker keeps the invariant.
LEMMA WorkerOneOwner ==
  ASSUME TypeOK, TypeOK', OneOwner, NEW w \in Workers, WorkerNext(w)
  PROVE  OneOwner'
<1>1. ASSUME NEW m \in Member, ClaimScript(w, m) PROVE OneOwner'
  <2>1. m.key \in Items
    BY DEF Member
  <2>2. pending[m] > 0 /\ claimed[w] = None /\ inFlight' = inFlight /\ tainted' = tainted
    BY <1>1 DEF ClaimScript, Fresh
  <2>3. \A n \in Member : pending[n] \in Nat /\ pending'[n] = IF n = m THEN pending[n] - 1 ELSE pending[n]
    BY <1>1 DEF TypeOK, ClaimScript
  <2>4. \A v \in Workers : claimed'[v] =
          IF v = w THEN [key |-> m.key, attempts |-> m.attempts, aged |-> FALSE] ELSE claimed[v]
    BY <1>1 DEF TypeOK, ClaimScript
  <2>5. [key |-> m.key, attempts |-> m.attempts, aged |-> FALSE] # None
    <3>1. [key |-> m.key, attempts |-> m.attempts, aged |-> FALSE] \in Claim
      BY DEF Claim, Member
    <3> QED
      BY <3>1, NoneAssumption
  <2>6. \A v \in Workers, k \in Items : ClaimOn(v, k)' <=> IF v = w THEN k = m.key ELSE ClaimOn(v, k)
    BY <2>4, <2>5 DEF ClaimOn
  <2>7. ASSUME NEW k \in Items
        PROVE  (HasWork(k)' => HasWork(k)) /\ (SingleCopy(k) => SingleCopy(k)')
    <3>1. CASE k # m.key
      <4>1. IsPending(k)' <=> IsPending(k)
        BY <2>3, <3>1 DEF IsPending
      <4>2. IsClaimed(k)' => IsClaimed(k)
        BY <2>6, <3>1 DEF IsClaimed
      <4>3. SingleCopy(k) => SingleCopy(k)'
        BY <2>3, <2>6, <3>1, <4>1, <4>2 DEF SingleCopy
      <4> QED
        BY <4>1, <4>2, <4>3 DEF HasWork
    <3>2. CASE k = m.key
      <4>1. IsPending(k)
        BY <2>2, <3>2 DEF IsPending
      <4>2. ASSUME SingleCopy(k) PROVE SingleCopy(k)'
        <5>1. \A n \in Member : n.key = k => pending'[n] = 0
          BY <2>2, <2>3, <3>2, <4>2 DEF SingleCopy
        <5>2. \A v \in Workers : ClaimOn(v, k)' => v = w
          BY <2>6, <4>1, <4>2 DEF SingleCopy, IsClaimed
        <5> QED
          BY <5>1, <5>2 DEF SingleCopy, IsPending
      <4> QED
        BY <4>1, <4>2 DEF HasWork
    <3> QED
      BY <3>1, <3>2
  <2> QED
    BY <2>2, <2>7, KeepsSole
<1>2. CASE ClaimItem(w) \/ ClaimReplyLost(w)
  BY <1>1, <1>2 DEF ClaimItem, ClaimReplyLost
<1>3. ASSUME NEW m \in Member, ClaimToPending(w, m), inFlight' = inFlight, tainted' = tainted
      PROVE  OneOwner'
  BY <1>3, MoveSingle, KeepsSole
<1>4. CASE ReleaseRetry(w)
  <2> DEFINE m == [key |-> held[w], reason |-> "retry", attempts |-> claimed[w].attempts + 1]
  <2>1. held[w] \in Items /\ claimed[w].attempts + 1 \in Attempts
    BY <1>4, ClaimType, AttemptType DEF ReleaseRetry, OwnsClaim, ClaimOn, TypeOK
  <2>2. m \in Member /\ m.key = held[w]
    BY <2>1 DEF Member, Reasons
  <2>3. ClaimToPending(w, m)
    BY <1>4, <2>2 DEF ReleaseRetry, OwnsClaim, HDelClaim, ZAdd, ClaimToPending
  <2> QED
    BY <1>3, <1>4, <2>2, <2>3 DEF ReleaseRetry
<1>5. CASE RequeueResume(w)
  <2> DEFINE m == [key |-> held[w], reason |-> "resume", attempts |-> claimed[w].attempts]
  <2>1. held[w] \in Items /\ claimed[w].attempts \in Attempts
    BY <1>5, ClaimType DEF RequeueResume, OwnsClaim, ClaimOn, TypeOK
  <2>2. m \in Member /\ m.key = held[w]
    BY <2>1 DEF Member, Reasons
  <2>3. ClaimToPending(w, m)
    BY <1>5, <2>2 DEF RequeueResume, OwnsClaim, HDelClaim, ZAdd, ClaimToPending
  <2> QED
    BY <1>3, <1>5, <2>2, <2>3 DEF RequeueResume
<1>6. CASE ReleaseDeadLetter(w)
  <2>1. Shrinks
    BY <1>6 DEF ReleaseDeadLetter, HDelClaim, Shrinks, ClaimOn, TypeOK
  <2> QED
    BY <1>6, <2>1, UntrackKeeps DEF ReleaseDeadLetter
<1>7. CASE Complete(w)
  <2>1. Shrinks
    BY <1>7 DEF Complete, Shrinks, ClaimOn, TypeOK
  <2> QED
    BY <1>7, <2>1, UntrackKeeps DEF Complete
<1>8. CASE ClaimAlreadyCleared(w) \/ HeartbeatExpires(w) \/ HeartbeatSet(w) \/ Forget(w)
  <2>1. pending' = pending /\ claimed' = claimed /\ inFlight' = inFlight /\ tainted' = tainted
    BY <1>8 DEF ClaimAlreadyCleared, HeartbeatExpires, HeartbeatSet, Forget
  <2> QED
    BY <2>1 DEF OneOwner, SingleCopy, HasWork, IsPending, IsClaimed, ClaimOn
<1>9. CASE GraceWindowPasses(w)
  <2>1. pending' = pending /\ inFlight' = inFlight /\ tainted' = tainted
    BY <1>9 DEF GraceWindowPasses
  <2>2. claimed[w] \in Claim /\ claimed' = [claimed EXCEPT ![w] = [claimed[w] EXCEPT !.aged = TRUE]]
    BY <1>9, ClaimType DEF GraceWindowPasses
  <2>3. [claimed[w] EXCEPT !.aged = TRUE].key = claimed[w].key
    BY <2>2 DEF Claim
  <2>4. Shrinks
    BY <1>9, <2>1, <2>2, <2>3 DEF GraceWindowPasses, Shrinks, ClaimOn, TypeOK
  <2> QED
    BY <2>1, <2>4, ShrinksSingle, KeepsSole
<1> QED
  BY <1>2, <1>4, <1>5, <1>6, <1>7, <1>8, <1>9 DEF WorkerNext, Release, RequeueForResume

\* A step of a process's reaper cycle keeps the invariant.
LEMMA SweepOneOwner ==
  ASSUME TypeOK, TypeOK', OneOwner, NEW s \in Sweepers, ReapNext(s) \/ ReconcileNext(s) \/ SweepFault(s)
  PROVE  OneOwner'
<1>1. CASE ReclaimOrphan(s)
  <2> DEFINE o == orphan[s]
             m == [key |-> o.key, reason |-> "resume", attempts |-> o.attempts]
  <2>1. o \in Orphan
    BY <1>1 DEF ReclaimOrphan, TypeOK
  <2>2. o.worker \in Workers /\ m \in Member /\ m.key = o.key
    BY <2>1 DEF Orphan, Member, Reasons
  <2>3. ClaimToPending(o.worker, m)
    BY <1>1, <2>2 DEF ReclaimOrphan, Reclaimable, ZAdd, ClaimToPending
  <2> QED
    BY <1>1, <2>2, <2>3, MoveSingle, KeepsSole DEF ReclaimOrphan
<1>2. CASE \E k \in Items : ReconcileRemove(s, k) \/ ReconcileRemoveError(s, k)
  <2>1. Shrinks
    BY <1>2 DEF ReconcileRemove, ReconcileRemoveError, Shrinks, ClaimOn, TypeOK
  <2> QED
    BY <1>2, <2>1, UntrackKeeps DEF ReconcileRemove, ReconcileRemoveError
<1>3. ASSUME pending' = pending, claimed' = claimed, inFlight' = inFlight, tainted' = tainted
      PROVE  OneOwner'
  BY <1>3 DEF OneOwner, SingleCopy, HasWork, IsPending, IsClaimed, ClaimOn
<1>4. CASE ReapScan(s) \/ ReapEnd(s) \/ ReapAborted(s) \/ ReclaimSkipped(s)
           \/ \E w \in Workers : ReapRead(s, w)
  BY <1>3, <1>4 DEF ReapScan, ReapEnd, ReapAborted, ReclaimSkipped, ReapRead, redisVars
<1>5. CASE ReconcileSnapshotIndex(s) \/ ReconcileSnapshotPending(s) \/ ReconcileScanClaims(s)
           \/ \E w \in Workers : ReconcileReadClaim(s, w)
  BY <1>3, <1>5 DEF ReconcileSnapshotIndex, ReconcileSnapshotPending, ReconcileScanClaims,
                    ReconcileReadClaim, redisVars
<1>6. CASE ReconcileGate(s) \/ ReconcileEnd(s) \/ ReconcileAborted(s) \/ ProcessRestart(s)
  BY <1>3, <1>6 DEF ReconcileGate, ReconcileEnd, ReconcileAborted, ProcessRestart, redisVars
<1> QED
  BY <1>1, <1>2, <1>4, <1>5, <1>6 DEF ReapNext, ReconcileNext, SweepFault

\* An enqueue keeps the invariant: outside the index an untainted item has no
\* copy yet.
LEMMA EnqueueOneOwner ==
  ASSUME TypeOK, OneOwner, NEW j \in Items, NEW reason \in {"new", "resume"}, Enqueue(j, reason)
  PROVE  OneOwner'
<1> DEFINE m == [key |-> j, reason |-> reason, attempts |-> 0]
<1>1. m \in Member /\ m.key = j
  BY ZeroAttempt DEF Member, Reasons
<1>2. \A n \in Member : pending[n] \in Nat /\ pending'[n] = IF n = m THEN pending[n] + 1 ELSE pending[n]
  BY <1>1 DEF TypeOK, Enqueue, ZAdd
<1>3. claimed' = claimed /\ tainted' = tainted /\ inFlight' = inFlight \cup {j} /\ j \notin inFlight
  BY DEF Enqueue
<1>4. \A v \in Workers, k \in Items : ClaimOn(v, k)' <=> ClaimOn(v, k)
  BY <1>3 DEF ClaimOn
<1> SUFFICES ASSUME NEW k \in Items, k \notin tainted PROVE Sole(k)'
  BY <1>3 DEF OneOwner, Sole
<1>5. Sole(k)
  BY DEF OneOwner, Sole
<1>6. CASE k # j
  <2>1. IsPending(k)' <=> IsPending(k)
    BY <1>1, <1>2, <1>6 DEF IsPending
  <2>2. IsClaimed(k)' <=> IsClaimed(k)
    BY <1>4 DEF IsClaimed
  <2>3. SingleCopy(k)'
    BY <1>1, <1>2, <1>4, <1>5, <1>6, <2>1, <2>2 DEF SingleCopy, Sole
  <2> QED
    BY <1>3, <1>5, <2>1, <2>2, <2>3 DEF Sole, HasWork
<1>7. CASE k = j
  <2>1. ~IsPending(k) /\ ~IsClaimed(k)
    BY <1>3, <1>5, <1>7 DEF Sole, HasWork
  <2>2. \A n \in Member : n.key = k => pending'[n] = IF n = m THEN 1 ELSE 0
    BY <1>2, <2>1 DEF IsPending
  <2>3. ~IsClaimed(k)'
    BY <1>4, <2>1 DEF IsClaimed
  <2>4. SingleCopy(k)'
    BY <2>2, <2>3 DEF SingleCopy, IsClaimed
  <2> QED
    BY <1>3, <1>7, <2>4 DEF Sole
<1> QED
  BY <1>6, <1>7

\* Every step keeps the invariant.
LEMMA NextOneOwner == TypeOK /\ TypeOK' /\ OneOwner /\ [Next]_queueVars => OneOwner'
<1> SUFFICES ASSUME TypeOK, TypeOK', OneOwner, [Next]_queueVars PROVE OneOwner'
  OBVIOUS
<1>1. CASE EnqueueNext
  BY <1>1, EnqueueOneOwner DEF EnqueueNext
<1>2. CASE \E w \in Workers : WorkerNext(w)
  BY <1>2, WorkerOneOwner
<1>3. CASE \E s \in Sweepers : ReapNext(s) \/ ReconcileNext(s) \/ SweepFault(s)
  BY <1>3, SweepOneOwner
<1>4. CASE WorkersDie \/ UNCHANGED queueVars
  BY <1>4 DEF WorkersDie, queueVars, redisVars, OneOwner, SingleCopy, HasWork, IsPending, IsClaimed, ClaimOn
<1> QED
  BY <1>1, <1>2, <1>3, <1>4 DEF Next, CalmNext

\* At the start nothing is pending or claimed.
LEMMA InitOneOwner == Init => OneOwner
BY DEF Init, OneOwner, SingleCopy, HasWork, IsPending, IsClaimed, ClaimOn

\* An item whose index entry was never removed from under its work has at
\* most one live copy, in pending or in one claim, and is in the index,
\* whatever releases, requeues, reclaims, crashes and lost replies interleave.
THEOREM OneOwnerHolds == Spec => []OneOwner
<1>1. Init => TypeOK /\ OneOwner
  BY InitType, InitOneOwner
<1>2. (TypeOK /\ OneOwner) /\ [Next]_queueVars => (TypeOK /\ OneOwner)'
  BY NextType, NextOneOwner
<1> QED
  BY <1>1, <1>2, PTL DEF Spec

-----------------------------------------------------------------------------
(* How the index entry of live work can disappear *)

\* A worker that owns its claim leaves no work behind when it gives up the
\* claim of an item that was sole.
LEMMA OwnerLeavesNothing ==
  ASSUME TypeOK, NEW w \in Workers, NEW k \in Items, ClaimOn(w, k), SingleCopy(k),
         claimed' = [claimed EXCEPT ![w] = None], pending' = pending
  PROVE  ~HasWork(k)'
<1>1. IsClaimed(k)
  BY DEF IsClaimed
<1>2. ~IsPending(k)
  BY <1>1 DEF SingleCopy
<1>3. \A v \in Workers : ~ClaimOn(v, k)'
  BY DEF SingleCopy, ClaimOn, TypeOK
<1> QED
  BY <1>2, <1>3 DEF HasWork, IsPending, IsClaimed

\* What OnlyStaleCompleteOrSweepUntracks says of one step and one item.
Untracking(k) ==
  \/ \E w \in Workers : held[w] = k /\ ~OwnsClaim(w) /\ Complete(w)
  \/ \E s \in Sweepers : ReconcileRemove(s, k) \/ ReconcileRemoveError(s, k)

\* Only an untracking step taints an item.
LEMMA TaintCause ==
  ASSUME TypeOK, OneOwner, Next, NEW k \in Items, k \in tainted' \ tainted
  PROVE  Untracking(k)
<1>1. SingleCopy(k)
  BY DEF OneOwner
<1>2. ASSUME tainted' = TaintAfter PROVE HasWork(k)' /\ k \in inFlight /\ k \notin inFlight'
  BY <1>2 DEF TaintAfter
<1>3. CASE EnqueueNext
  BY <1>3 DEF EnqueueNext, Enqueue
<1>4. CASE \E w \in Workers : WorkerNext(w)
  <2>1. PICK w \in Workers : WorkerNext(w)
    BY <1>4
  <2>2. CASE ReleaseDeadLetter(w)
    <3>1. held[w] = k
      BY <1>2, <2>2 DEF ReleaseDeadLetter
    <3>2. ~HasWork(k)'
      BY <1>1, <2>2, <3>1, OwnerLeavesNothing DEF ReleaseDeadLetter, OwnsClaim, HDelClaim
    <3> QED
      BY <1>2, <2>2, <3>2 DEF ReleaseDeadLetter
  <2>3. CASE Complete(w)
    <3>1. held[w] = k
      BY <1>2, <2>3 DEF Complete
    <3>2. CASE OwnsClaim(w)
      <4>1. ~HasWork(k)'
        BY <1>1, <2>3, <3>1, <3>2, OwnerLeavesNothing DEF Complete, OwnsClaim
      <4> QED
        BY <1>2, <2>3, <4>1 DEF Complete
    <3> QED
      BY <2>3, <3>1, <3>2 DEF Untracking
  <2>4. CASE ClaimItem(w) \/ ClaimReplyLost(w) \/ ClaimAlreadyCleared(w) \/ ReleaseRetry(w)
             \/ RequeueResume(w) \/ HeartbeatExpires(w) \/ HeartbeatSet(w)
             \/ GraceWindowPasses(w) \/ Forget(w)
    BY <2>4 DEF ClaimItem, ClaimReplyLost, ClaimScript, ClaimAlreadyCleared, ReleaseRetry,
                RequeueResume, HeartbeatExpires, HeartbeatSet, GraceWindowPasses, Forget
  <2> QED
    BY <2>1, <2>2, <2>3, <2>4 DEF WorkerNext, Release, RequeueForResume
<1>5. CASE \E s \in Sweepers : ReapNext(s) \/ ReconcileNext(s) \/ SweepFault(s)
  <2>1. PICK s \in Sweepers : ReapNext(s) \/ ReconcileNext(s) \/ SweepFault(s)
    BY <1>5
  <2>2. ASSUME NEW j \in Items, ReconcileRemove(s, j) \/ ReconcileRemoveError(s, j)
        PROVE  Untracking(k)
    <3>1. j = k
      BY <1>2, <2>2 DEF ReconcileRemove, ReconcileRemoveError
    <3> QED
      BY <2>2, <3>1 DEF Untracking
  <2>3. CASE ReapNext(s)
    BY <2>3 DEF ReapNext, ReapScan, ReclaimOrphan, ReclaimSkipped, ReapEnd, ReapRead
  <2>4. CASE ReconcileNext(s)
    BY <2>2, <2>4 DEF ReconcileNext, ReconcileSnapshotIndex, ReconcileSnapshotPending,
                      ReconcileScanClaims, ReconcileGate, ReconcileEnd, ReconcileReadClaim
  <2>5. CASE SweepFault(s)
    BY <2>2, <2>5 DEF SweepFault, ReapAborted, ReconcileAborted, ProcessRestart
  <2> QED
    BY <2>1, <2>3, <2>4, <2>5
<1>6. CASE WorkersDie
  BY <1>6 DEF WorkersDie
<1> QED
  BY <1>3, <1>4, <1>5, <1>6 DEF Next, CalmNext

\* The index entry of an item disappears from under live work only by the
\* complete() of a worker that lost its claim or by the residue sweep; never
\* by dead-lettering and never by the complete() of the owner.
THEOREM UntrackedOnlyByStaleCompleteOrSweep == Spec => OnlyStaleCompleteOrSweepUntracks
<1>1. TypeOK /\ OneOwner /\ [Next]_queueVars =>
        [\A k \in Items : k \in tainted' \ tainted =>
           \/ \E w \in Workers : held[w] = k /\ ~OwnsClaim(w) /\ Complete(w)
           \/ \E s \in Sweepers : ReconcileRemove(s, k) \/ ReconcileRemoveError(s, k)]_queueVars
  BY TaintCause DEF Untracking
<1> QED
  BY <1>1, TypeCorrect, OneOwnerHolds, PTL DEF Spec, OnlyStaleCompleteOrSweepUntracks


-----------------------------------------------------------------------------
(* The contract *)

\* Only finitely many copies are alive at a time.
FiniteCopies ==
  /\ \A k \in Items : IsFiniteSet(PendingCopies(k))
  /\ IsFiniteSet({w \in Workers : claimed[w] # None})

\* The inductive invariant of the refinement.
ContractInv == TypeOK /\ FiniteCopies

\* A copy is a member of the item with one of its numbers.
LEMMA NumberedCopies ==
  ASSUME NEW k
  PROVE  \A x : x \in PendingCopies(k) <=>
                  \E m \in Member : m.key = k /\ \E i \in 1 .. pending[m] : x = <<m, i>>
<1>1. \A m : {m} \X (1 .. pending[m]) = {<<m, i>> : i \in 1 .. pending[m]}
  OBVIOUS
<1>2. \A x : x \in PendingCopies(k) <=> \E m \in {n \in Member : n.key = k} : x \in {m} \X (1 .. pending[m])
  BY DEF PendingCopies
<1> QED
  BY <1>1, <1>2

\* The same after a step.
LEMMA NumberedCopiesNext ==
  ASSUME NEW k
  PROVE  \A x : x \in PendingCopies(k)' <=>
                  \E m \in Member : m.key = k /\ \E i \in 1 .. pending'[m] : x = <<m, i>>
<1>1. \A m : {m} \X (1 .. pending'[m]) = {<<m, i>> : i \in 1 .. pending'[m]}
  OBVIOUS
<1>2. \A x : x \in PendingCopies(k)' <=> \E m \in {n \in Member : n.key = k} : x \in {m} \X (1 .. pending'[m])
  BY DEF PendingCopies
<1> QED
  BY <1>1, <1>2

\* The parts of the count are natural numbers.
LEMMA CopiesCounted ==
  ASSUME ContractInv, NEW k \in Items
  PROVE  /\ IsFiniteSet(PendingCopies(k)) /\ Cardinality(PendingCopies(k)) \in Nat
         /\ IsFiniteSet(Claimants(k)) /\ Cardinality(Claimants(k)) \in Nat
         /\ Copies(k) = Cardinality(PendingCopies(k)) + Cardinality(Claimants(k))
<1>1. IsFiniteSet(PendingCopies(k)) /\ IsFiniteSet({w \in Workers : claimed[w] # None})
  BY DEF ContractInv, FiniteCopies
<1>2. Claimants(k) \in SUBSET {w \in Workers : claimed[w] # None}
  BY DEF Claimants, ClaimOn
<1>3. IsFiniteSet(Claimants(k))
  BY <1>1, <1>2, FS_Subset
<1> QED
  BY <1>1, <1>3, FS_CardinalityType DEF Copies

\* ZADD of a member makes one copy more of its item.
LEMMA AddedCopy ==
  ASSUME ContractInv, NEW m \in Member, ZAdd(m), NEW k \in Items
  PROVE  /\ IsFiniteSet(PendingCopies(k))'
         /\ Cardinality(PendingCopies(k))' = Cardinality(PendingCopies(k)) + (IF m.key = k THEN 1 ELSE 0)
<1> DEFINE new == <<m, pending[m] + 1>>
<1>1. /\ pending \in [Member -> Nat] /\ pending[m] \in Nat
      /\ \A n \in Member : pending'[n] = IF n = m THEN pending[m] + 1 ELSE pending[n]
  BY DEF ContractInv, TypeOK, ZAdd
<1>2. IsFiniteSet(PendingCopies(k)) /\ Cardinality(PendingCopies(k)) \in Nat
  BY CopiesCounted
<1>3. CASE m.key # k
  <2>1. PendingCopies(k)' = PendingCopies(k)
    <3>1. \A n \in Member : n.key = k => pending'[n] = pending[n]
      BY <1>1, <1>3
    <3>2. \A x : x \in PendingCopies(k)' <=> x \in PendingCopies(k)
      BY <3>1, NumberedCopies, NumberedCopiesNext
    <3> QED
      BY <3>2
  <2> QED
    BY <1>2, <1>3, <2>1
<1>4. CASE m.key = k
  <2>1. new \notin PendingCopies(k)
    BY <1>1, NumberedCopies
  <2>2. ASSUME NEW x \in PendingCopies(k)
        PROVE  x \in PendingCopies(k)'
    <3>1. PICK n \in Member : n.key = k /\ \E i \in 1 .. pending[n] : x = <<n, i>>
      BY <2>2, NumberedCopies
    <3>0. PICK i \in 1 .. pending[n] : x = <<n, i>>
      BY <3>1
    <3>2. i \in 1 .. pending'[n]
      BY <1>1, <3>0, <3>1
    <3> QED
      BY <3>0, <3>1, <3>2, NumberedCopiesNext
  <2>3. new \in PendingCopies(k)'
    <3>1. pending[m] + 1 \in 1 .. pending'[m]
      BY <1>1
    <3> QED
      BY <1>4, <3>1, NumberedCopiesNext
  <2>4. ASSUME NEW x \in PendingCopies(k)', x # new
        PROVE  x \in PendingCopies(k)
    <3>1. PICK n \in Member : n.key = k /\ \E i \in 1 .. pending'[n] : x = <<n, i>>
      BY <2>4, NumberedCopiesNext
    <3>0. PICK i \in 1 .. pending'[n] : x = <<n, i>>
      BY <3>1
    <3>2. i \in 1 .. pending[n]
      BY <1>1, <2>4, <3>0, <3>1
    <3> QED
      BY <3>0, <3>1, <3>2, NumberedCopies
  <2> HIDE DEF new
  <2>5. PendingCopies(k)' = PendingCopies(k) \cup {new}
    BY <2>2, <2>3, <2>4
  <2>6. IsFiniteSet(PendingCopies(k) \cup {new}) /\ Cardinality(PendingCopies(k) \cup {new}) = Cardinality(PendingCopies(k)) + 1
    BY <1>2, <2>1, FS_AddElement
  <2> QED
    BY <1>4, <2>5, <2>6
<1> QED
  BY <1>3, <1>4

\* ZPOPMIN takes one copy away.
LEMMA PoppedCopy ==
  ASSUME ContractInv, NEW m \in Member, pending[m] > 0, pending' = [pending EXCEPT ![m] = @ - 1], NEW k \in Items
  PROVE  /\ IsFiniteSet(PendingCopies(k))'
         /\ Cardinality(PendingCopies(k))' = Cardinality(PendingCopies(k)) - (IF m.key = k THEN 1 ELSE 0)
<1> DEFINE old == <<m, pending[m]>>
<1>1. /\ pending \in [Member -> Nat] /\ pending[m] \in Nat \ {0}
      /\ \A n \in Member : pending'[n] = IF n = m THEN pending[m] - 1 ELSE pending[n]
  BY DEF ContractInv, TypeOK
<1>2. IsFiniteSet(PendingCopies(k)) /\ Cardinality(PendingCopies(k)) \in Nat
  BY CopiesCounted
<1>3. CASE m.key # k
  <2>1. PendingCopies(k)' = PendingCopies(k)
    <3>1. \A n \in Member : n.key = k => pending'[n] = pending[n]
      BY <1>1, <1>3
    <3>2. \A x : x \in PendingCopies(k)' <=> x \in PendingCopies(k)
      BY <3>1, NumberedCopies, NumberedCopiesNext
    <3> QED
      BY <3>2
  <2> QED
    BY <1>2, <1>3, <2>1
<1>4. CASE m.key = k
  <2>1. old \in PendingCopies(k)
    <3>1. pending[m] \in 1 .. pending[m]
      BY <1>1
    <3> QED
      BY <1>4, <3>1, NumberedCopies
  <2>2. ASSUME NEW x \in PendingCopies(k), x # old
        PROVE  x \in PendingCopies(k)'
    <3>1. PICK n \in Member : n.key = k /\ \E i \in 1 .. pending[n] : x = <<n, i>>
      BY <2>2, NumberedCopies
    <3>0. PICK i \in 1 .. pending[n] : x = <<n, i>>
      BY <3>1
    <3>2. i \in 1 .. pending'[n]
      BY <1>1, <2>2, <3>0, <3>1
    <3> QED
      BY <3>0, <3>1, <3>2, NumberedCopiesNext
  <2>3. ASSUME NEW x \in PendingCopies(k)'
        PROVE  x \in PendingCopies(k) /\ x # old
    <3>1. PICK n \in Member : n.key = k /\ \E i \in 1 .. pending'[n] : x = <<n, i>>
      BY <2>3, NumberedCopiesNext
    <3>0. PICK i \in 1 .. pending'[n] : x = <<n, i>>
      BY <3>1
    <3>2. i \in 1 .. pending[n] /\ (n = m => i # pending[m])
      BY <1>1, <3>0, <3>1
    <3>3. x # old
      BY <3>0, <3>1, <3>2
    <3> QED
      BY <3>0, <3>1, <3>2, <3>3, NumberedCopies
  <2> HIDE DEF old
  <2>4. PendingCopies(k)' = PendingCopies(k) \ {old}
    BY <2>2, <2>3
  <2>5. IsFiniteSet(PendingCopies(k) \ {old}) /\ Cardinality(PendingCopies(k) \ {old}) = Cardinality(PendingCopies(k)) - 1
    BY <1>2, <2>1, FS_RemoveElement
  <2> QED
    BY <1>4, <2>4, <2>5
<1> QED
  BY <1>3, <1>4

\* A claim that is dropped is one claimant fewer of its item.
LEMMA DroppedClaim ==
  ASSUME ContractInv, NEW w \in Workers, NEW c \in Items, ClaimOn(w, c),
         claimed' = [claimed EXCEPT ![w] = None], NEW k \in Items
  PROVE  /\ IsFiniteSet({v \in Workers : claimed[v] # None})'
         /\ Cardinality(Claimants(k))' = Cardinality(Claimants(k)) - (IF c = k THEN 1 ELSE 0)
         /\ c = k => Cardinality(Claimants(k)) > 0
<1> DEFINE Busy == {v \in Workers : claimed[v] # None}
<1>1. claimed \in [Workers -> Claim \cup {None}] /\ IsFiniteSet(Busy)
  BY DEF ContractInv, TypeOK, FiniteCopies
<1>2. Busy' = Busy \ {w} /\ Claimants(k)' = Claimants(k) \ {w}
  BY <1>1 DEF Claimants, ClaimOn
<1>3. w \in Claimants(k) <=> c = k
  BY DEF ClaimOn, Claimants
<1>4. IsFiniteSet(Claimants(k)) /\ Cardinality(Claimants(k)) \in Nat
  BY CopiesCounted
<1>5. IsFiniteSet(Busy \ {w})
  BY <1>1, FS_RemoveElement
<1>6. CASE c = k
  <2>1. Cardinality(Claimants(k) \ {w}) = Cardinality(Claimants(k)) - 1
    BY <1>3, <1>4, <1>6, FS_RemoveElement
  <2>2. Cardinality(Claimants(k)) # 0
    BY <1>3, <1>4, <1>6, FS_EmptySet
  <2> QED
    BY <1>2, <1>4, <1>5, <1>6, <2>1, <2>2
<1>7. CASE c # k
  <2>1. Claimants(k)' = Claimants(k)
    BY <1>2, <1>3, <1>7
  <2>2. Cardinality(Claimants(k))' = Cardinality(Claimants(k))
    BY <2>1
  <2>3. IsFiniteSet(Busy')
    BY <1>2, <1>5
  <2> QED
    BY <1>4, <1>7, <2>2, <2>3
<1> QED
  BY <1>6, <1>7

\* A step that touches neither pending nor the claims' items leaves the count.
LEMMA SameCopies ==
  ASSUME ContractInv, pending' = pending, \A w \in Workers : \A k : ClaimOn(w, k)' <=> ClaimOn(w, k),
         {v \in Workers : claimed[v] # None}' = {v \in Workers : claimed[v] # None}
  PROVE  FiniteCopies' /\ \A k : Copies(k)' = Copies(k)
<1>1. \A k : PendingCopies(k)' = PendingCopies(k)
  BY DEF PendingCopies
<1>2. \A k : Claimants(k)' = Claimants(k)
  BY DEF Claimants
<1>3. FiniteCopies'
  BY <1>1 DEF ContractInv, FiniteCopies
<1>4. \A k : Copies(k)' = Cardinality(PendingCopies(k)') + Cardinality(Claimants(k)')
  BY DEF Copies
<1> QED
  BY <1>1, <1>2, <1>3, <1>4 DEF Copies

\* A step that leaves claims and pending alone.
LEMMA StillCopies ==
  ASSUME ContractInv, UNCHANGED <<pending, claimed>>
  PROVE  FiniteCopies' /\ \A k : Copies(k)' = Copies(k)
<1>1. \A w \in Workers : \A k : ClaimOn(w, k)' <=> ClaimOn(w, k)
  BY DEF ClaimOn
<1>2. {v \in Workers : claimed[v] # None}' = {v \in Workers : claimed[v] # None}
  OBVIOUS
<1> QED
  BY <1>1, <1>2, SameCopies

\* ENQUEUE_IF_ABSENT_SCRIPT is Enqueue of the contract.
LEMMA EnqueueContract ==
  ASSUME ContractInv, NEW k \in Items, NEW reason \in {"new", "resume"}, Enqueue(k, reason)
  PROVE  FiniteCopies' /\ QC!Next
<1> DEFINE m == [key |-> k, reason |-> reason, attempts |-> 0]
<1>1. m \in Member /\ m.key = k
  BY ZeroAttempt DEF Member, Reasons
<1>2. /\ k \notin inFlight /\ ZAdd(m) /\ inFlight' = inFlight \cup {k}
      /\ UNCHANGED <<claimed, deadLetter>>
  BY DEF Enqueue
<1> HIDE DEF m
<1>3. \A x : Claimants(x)' = Claimants(x)
  BY <1>2 DEF Claimants, ClaimOn
<1>4. ASSUME NEW x \in Items
      PROVE  IsFiniteSet(PendingCopies(x))' /\ Copies(x)' = IF x = k THEN Copies(x) + 1 ELSE Copies(x)
  <2>1. /\ IsFiniteSet(PendingCopies(x))'
        /\ Cardinality(PendingCopies(x))' = Cardinality(PendingCopies(x)) + (IF k = x THEN 1 ELSE 0)
    BY <1>1, <1>2, AddedCopy
  <2>2. Copies(x)' = Cardinality(PendingCopies(x))' + Cardinality(Claimants(x))'
    BY DEF Copies
  <2>3. Cardinality(Claimants(x))' = Cardinality(Claimants(x))
    BY <1>3
  <2> QED
    BY <2>1, <2>2, <2>3, CopiesCounted
<1>5. FiniteCopies'
  BY <1>2, <1>4 DEF ContractInv, FiniteCopies
<1>6. QC!Enqueue(k)
  BY <1>2, <1>4 DEF QC!Enqueue
<1> QED
  BY <1>5, <1>6 DEF QC!Next

\* CLAIM_SCRIPT moves a copy from pending to a worker.
LEMMA ClaimContract ==
  ASSUME ContractInv, NEW w \in Workers, NEW m \in Member, ClaimScript(w, m)
  PROVE  FiniteCopies' /\ UNCHANGED QC!contractVars
<1> DEFINE c == [key |-> m.key, attempts |-> m.attempts, aged |-> FALSE]
           Busy == {v \in Workers : claimed[v] # None}
<1>1. /\ pending[m] > 0 /\ pending' = [pending EXCEPT ![m] = @ - 1] /\ claimed[w] = None
      /\ claimed' = [claimed EXCEPT ![w] = c] /\ claimed \in [Workers -> Claim \cup {None}]
      /\ UNCHANGED <<inFlight, deadLetter>> /\ IsFiniteSet(Busy)
  BY DEF ClaimScript, Fresh, ContractInv, TypeOK, FiniteCopies
<1>2. c \in Claim /\ c.key = m.key
  BY DEF Member, Claim
<1>3. c # None
  BY <1>2, NoneAssumption
<1> HIDE DEF c
<1>4. Busy' = Busy \cup {w}
  BY <1>1, <1>3
<1>5. IsFiniteSet(Busy')
  BY <1>1, <1>4, FS_AddElement
<1>6. ASSUME NEW x \in Items
      PROVE  IsFiniteSet(PendingCopies(x))' /\ Copies(x)' = Copies(x)
  <2>1. /\ IsFiniteSet(PendingCopies(x))'
        /\ Cardinality(PendingCopies(x))' = Cardinality(PendingCopies(x)) - (IF m.key = x THEN 1 ELSE 0)
    BY <1>1, PoppedCopy
  <2>2. Claimants(x)' = (IF m.key = x THEN Claimants(x) \cup {w} ELSE Claimants(x)) /\ w \notin Claimants(x)
    BY <1>1, <1>2, <1>3 DEF Claimants, ClaimOn
  <2>3. Cardinality(Claimants(x) \cup {w}) = Cardinality(Claimants(x)) + 1
    BY <2>2, CopiesCounted, FS_AddElement
  <2>4. Cardinality(Claimants(x))' = Cardinality(Claimants(x)) + (IF m.key = x THEN 1 ELSE 0)
    BY <2>2, <2>3, CopiesCounted
  <2>5. Copies(x)' = Cardinality(PendingCopies(x))' + Cardinality(Claimants(x))'
    BY DEF Copies
  <2> QED
    BY <2>1, <2>4, <2>5, CopiesCounted
<1>7. FiniteCopies'
  BY <1>5, <1>6 DEF FiniteCopies
<1> QED
  BY <1>1, <1>6, <1>7 DEF QC!contractVars

\* release() for a retry, requeueForResume() and the reclaim of an orphan move
\* a copy back.
LEMMA MoveContract ==
  ASSUME ContractInv, NEW w \in Workers, NEW m \in Member, ClaimToPending(w, m),
         UNCHANGED <<inFlight, deadLetter>>
  PROVE  FiniteCopies' /\ UNCHANGED QC!contractVars
<1>1. /\ m.key \in Items /\ ClaimOn(w, m.key) /\ ZAdd(m)
      /\ claimed' = [claimed EXCEPT ![w] = None]
  BY DEF Member, ClaimToPending, ZAdd
<1>2. ASSUME NEW x \in Items
      PROVE  IsFiniteSet(PendingCopies(x))' /\ Copies(x)' = Copies(x)
  <2>1. /\ IsFiniteSet(PendingCopies(x))'
        /\ Cardinality(PendingCopies(x))' = Cardinality(PendingCopies(x)) + (IF m.key = x THEN 1 ELSE 0)
    BY <1>1, AddedCopy
  <2>2. Cardinality(Claimants(x))' = Cardinality(Claimants(x)) - (IF m.key = x THEN 1 ELSE 0)
    BY <1>1, DroppedClaim
  <2>3. Copies(x)' = Cardinality(PendingCopies(x))' + Cardinality(Claimants(x))'
    BY DEF Copies
  <2> QED
    BY <2>1, <2>2, <2>3, CopiesCounted
<1>3. IsFiniteSet({v \in Workers : claimed[v] # None})'
  BY <1>1, DroppedClaim
<1>4. FiniteCopies'
  BY <1>2, <1>3 DEF FiniteCopies
<1> QED
  BY <1>2, <1>4 DEF QC!contractVars

\* complete() and the dead-letter branch of release() by an owner end one copy
\* of its item.
LEMMA EndContract ==
  ASSUME ContractInv, NEW w \in Workers, NEW c \in Items, ClaimOn(w, c),
         claimed' = [claimed EXCEPT ![w] = None], pending' = pending
  PROVE  /\ FiniteCopies' /\ Copies(c) > 0
         /\ \A x \in Items : Copies(x)' = IF x = c THEN Copies(x) - 1 ELSE Copies(x)
<1>1. \A x : PendingCopies(x)' = PendingCopies(x)
  BY DEF PendingCopies
<1>2. ASSUME NEW x \in Items
      PROVE  Copies(x)' = IF x = c THEN Copies(x) - 1 ELSE Copies(x)
  <2>1. Cardinality(Claimants(x))' = Cardinality(Claimants(x)) - (IF c = x THEN 1 ELSE 0)
    BY DroppedClaim
  <2>2. Copies(x)' = Cardinality(PendingCopies(x))' + Cardinality(Claimants(x))'
    BY DEF Copies
  <2>3. Cardinality(PendingCopies(x))' = Cardinality(PendingCopies(x))
    BY <1>1
  <2> QED
    BY <2>1, <2>2, <2>3, CopiesCounted
<1>3. Copies(c) > 0
  <2>1. Cardinality(Claimants(c)) > 0
    BY DroppedClaim
  <2> QED
    BY <2>1, CopiesCounted
<1>4. IsFiniteSet({v \in Workers : claimed[v] # None})'
  BY DroppedClaim
<1>5. FiniteCopies'
  BY <1>1, <1>4 DEF ContractInv, FiniteCopies
<1> QED
  BY <1>2, <1>3, <1>5

\* An index entry that is removed while all copies stay.
LEMMA ForgetContract ==
  ASSUME ContractInv, NEW k \in Items, UNCHANGED <<pending, claimed, deadLetter>>,
         inFlight' \in {inFlight, inFlight \ {k}}
  PROVE  FiniteCopies' /\ [QC!Next]_QC!contractVars
<1>1. FiniteCopies' /\ \A x : Copies(x)' = Copies(x)
  BY StillCopies
<1>2. CASE k \in inFlight /\ inFlight' = inFlight \ {k}
  <2>1. QC!Forget(k)
    BY <1>1, <1>2 DEF QC!Forget
  <2> QED
    BY <1>1, <2>1 DEF QC!Next
<1>3. CASE inFlight' = inFlight
  BY <1>1, <1>3 DEF QC!contractVars
<1> QED
  BY <1>1, <1>2, <1>3

\* A step of a worker is one of the contract, or invisible to it.
LEMMA WorkerContract ==
  ASSUME ContractInv, NEW w \in Workers, WorkerNext(w)
  PROVE  FiniteCopies' /\ [QC!Next]_QC!contractVars
<1>0. TypeOK /\ held \in [Workers -> Items \cup {None}] /\ claimed \in [Workers -> Claim \cup {None}]
  BY DEF ContractInv, TypeOK
<1>1. CASE ClaimItem(w) \/ ClaimReplyLost(w)
  <2>1. PICK m \in Member : ClaimScript(w, m)
    BY <1>1 DEF ClaimItem, ClaimReplyLost
  <2> QED
    BY <2>1, ClaimContract
<1>2. CASE ReleaseRetry(w) \/ RequeueResume(w)
  <2>1. OwnsClaim(w) /\ held[w] \in Items
    BY <1>0, <1>2 DEF ReleaseRetry, RequeueResume, OwnsClaim
  <2>2. ClaimOn(w, held[w]) /\ claimed[w].attempts \in Attempts
    BY <1>0, <2>1, ClaimType DEF OwnsClaim, ClaimOn
  <2>3. \E m \in Member : ClaimToPending(w, m)
    <3>1. CASE ReleaseRetry(w)
      <4> DEFINE m == [key |-> held[w], reason |-> "retry", attempts |-> claimed[w].attempts + 1]
      <4>1. m \in Member
        BY <2>1, <2>2, <3>1, AttemptType DEF ReleaseRetry, Member, Reasons
      <4>2. ClaimToPending(w, m)
        BY <2>2, <3>1 DEF ReleaseRetry, ClaimToPending, ZAdd, HDelClaim
      <4> QED
        BY <4>1, <4>2
    <3>2. CASE RequeueResume(w)
      <4> DEFINE m == [key |-> held[w], reason |-> "resume", attempts |-> claimed[w].attempts]
      <4>1. m \in Member
        BY <2>1, <2>2 DEF Member, Reasons
      <4>2. ClaimToPending(w, m)
        BY <2>2, <3>2 DEF RequeueResume, ClaimToPending, ZAdd, HDelClaim
      <4> QED
        BY <4>1, <4>2
    <3> QED
      BY <1>2, <3>1, <3>2
  <2>4. UNCHANGED <<inFlight, deadLetter>>
    BY <1>2 DEF ReleaseRetry, RequeueResume
  <2> QED
    BY <2>3, <2>4, MoveContract
<1>3. CASE ReleaseDeadLetter(w)
  <2> DEFINE c == held[w]
  <2>1. c \in Items /\ ClaimOn(w, c)
    BY <1>0, <1>3 DEF ReleaseDeadLetter, OwnsClaim
  <2>2. /\ claimed' = [claimed EXCEPT ![w] = None] /\ pending' = pending
        /\ deadLetter' = deadLetter \cup {c} /\ inFlight' = inFlight \ {c}
    BY <1>3 DEF ReleaseDeadLetter, HDelClaim
  <2> HIDE DEF c
  <2>3. /\ FiniteCopies' /\ Copies(c) > 0
        /\ \A x \in Items : Copies(x)' = IF x = c THEN Copies(x) - 1 ELSE Copies(x)
    BY <2>1, <2>2, EndContract
  <2>4. QC!DeadLetter(c)
    BY <2>1, <2>2, <2>3 DEF QC!DeadLetter
  <2> QED
    BY <2>1, <2>3, <2>4 DEF QC!Next
<1>4. CASE Complete(w)
  <2> DEFINE c == held[w]
  <2>1. c \in Items /\ (OwnsClaim(w) <=> ClaimOn(w, c))
    BY <1>0, <1>4 DEF Complete, OwnsClaim
  <2>2. /\ claimed' = [claimed EXCEPT ![w] = IF OwnsClaim(w) THEN None ELSE @]
        /\ inFlight' = inFlight \ {c} /\ UNCHANGED <<pending, deadLetter>>
    BY <1>4 DEF Complete
  <2> HIDE DEF c
  <2>3. CASE ClaimOn(w, c)
    <3>1. claimed' = [claimed EXCEPT ![w] = None]
      BY <2>1, <2>2, <2>3
    <3>2. /\ FiniteCopies' /\ Copies(c) > 0
          /\ \A x \in Items : Copies(x)' = IF x = c THEN Copies(x) - 1 ELSE Copies(x)
      BY <2>1, <2>2, <2>3, <3>1, EndContract
    <3>3. QC!Complete(c)
      BY <2>1, <2>2, <3>2 DEF QC!Complete
    <3> QED
      BY <2>1, <3>2, <3>3 DEF QC!Next
  <2>4. CASE ~ClaimOn(w, c)
    <3>1. claimed' = claimed
      BY <1>0, <2>1, <2>2, <2>4
    <3> QED
      BY <2>1, <2>2, <3>1, ForgetContract
  <2> QED
    BY <2>3, <2>4
<1>5. CASE GraceWindowPasses(w)
  <2>1. /\ claimed[w] \in Claim /\ claimed' = [claimed EXCEPT ![w].aged = TRUE]
        /\ UNCHANGED <<pending, inFlight, deadLetter>>
    BY <1>0, <1>5, ClaimType DEF GraceWindowPasses
  <2>2. /\ claimed'[w] = [claimed[w] EXCEPT !.aged = TRUE]
        /\ \A v \in Workers : v # w => claimed'[v] = claimed[v]
    BY <1>0, <2>1
  <2>3. claimed'[w] \in Claim /\ claimed'[w].key = claimed[w].key
    <3>1. [claimed[w] EXCEPT !.aged = TRUE] \in Claim
      BY <1>0, <1>5, ClaimType DEF GraceWindowPasses, Claim
    <3>2. [claimed[w] EXCEPT !.aged = TRUE].key = claimed[w].key
      BY <2>1 DEF Claim
    <3> QED
      BY <2>2, <3>1, <3>2
  <2>4. claimed[w] # None /\ claimed'[w] # None
    BY <2>1, <2>3, NoneAssumption
  <2>5. \A v \in Workers : /\ claimed'[v] # None <=> claimed[v] # None
                           /\ claimed[v] # None => claimed'[v].key = claimed[v].key
    BY <2>2, <2>3, <2>4
  <2>6. \A v \in Workers : \A k : ClaimOn(v, k)' <=> ClaimOn(v, k)
    BY <2>5 DEF ClaimOn
  <2>7. {v \in Workers : claimed[v] # None}' = {v \in Workers : claimed[v] # None}
    BY <2>5
  <2>8. FiniteCopies' /\ \A k : Copies(k)' = Copies(k)
    BY <2>1, <2>6, <2>7, SameCopies
  <2> QED
    BY <2>1, <2>8 DEF QC!contractVars
<1>6. CASE ClaimAlreadyCleared(w) \/ HeartbeatExpires(w) \/ HeartbeatSet(w) \/ Forget(w)
  <2>1. UNCHANGED <<pending, claimed, inFlight, deadLetter>>
    BY <1>6 DEF ClaimAlreadyCleared, HeartbeatExpires, HeartbeatSet, Forget
  <2>2. FiniteCopies' /\ \A k : Copies(k)' = Copies(k)
    BY <2>1, StillCopies
  <2> QED
    BY <2>1, <2>2 DEF QC!contractVars
<1> QED
  BY <1>1, <1>2, <1>3, <1>4, <1>5, <1>6 DEF WorkerNext, Release, RequeueForResume

\* A step of a sweep is a move, the removal of an index entry, or invisible.
LEMMA SweepContract ==
  ASSUME ContractInv, NEW s \in Sweepers, ReapNext(s) \/ ReconcileNext(s) \/ SweepFault(s)
  PROVE  FiniteCopies' /\ [QC!Next]_QC!contractVars
<1>1. CASE ReclaimOrphan(s)
  <2> DEFINE o == orphan[s]
             m == [key |-> o.key, reason |-> "resume", attempts |-> o.attempts]
  <2>1. o \in Orphan /\ Reclaimable(o)
    BY <1>1 DEF ReclaimOrphan, ContractInv, TypeOK
  <2>2. o.worker \in Workers /\ m \in Member
    BY <2>1 DEF Orphan, Member, Reasons
  <2>3. ClaimToPending(o.worker, m) /\ UNCHANGED <<inFlight, deadLetter>>
    BY <1>1, <2>1 DEF ReclaimOrphan, Reclaimable, ClaimToPending, ZAdd
  <2> QED
    BY <2>2, <2>3, MoveContract
<1>2. CASE \E k \in Items : ReconcileRemove(s, k) \/ ReconcileRemoveError(s, k)
  <2>1. PICK k \in Items : ReconcileRemove(s, k) \/ ReconcileRemoveError(s, k)
    BY <1>2
  <2>2. inFlight' \in {inFlight, inFlight \ {k}} /\ UNCHANGED <<pending, claimed, deadLetter>>
    BY <2>1 DEF ReconcileRemove, ReconcileRemoveError
  <2> QED
    BY <2>2, ForgetContract
<1>3. CASE UNCHANGED redisVars
  <2>1. UNCHANGED <<pending, claimed, inFlight, deadLetter>>
    BY <1>3 DEF redisVars
  <2>2. FiniteCopies' /\ \A k : Copies(k)' = Copies(k)
    BY <2>1, StillCopies
  <2> QED
    BY <2>1, <2>2 DEF QC!contractVars
<1>4. CASE ReapNext(s)
  BY <1>1, <1>3, <1>4 DEF ReapNext, ReapScan, ReclaimSkipped, ReapEnd, ReapRead
<1>5. CASE ReconcileNext(s)
  BY <1>2, <1>3, <1>5 DEF ReconcileNext, ReconcileSnapshotIndex, ReconcileSnapshotPending,
     ReconcileScanClaims, ReconcileGate, ReconcileEnd, ReconcileReadClaim
<1>6. CASE SweepFault(s)
  BY <1>2, <1>3, <1>6 DEF SweepFault, ReapAborted, ReconcileAborted, ProcessRestart
<1> QED
  BY <1>4, <1>5, <1>6

\* The Redis adapter implements QueueContract: whatever scripts, sweeps, lost
\* replies and dead processes interleave, a step adds a copy of an item outside
\* the index, moves one, or ends one by complete() or the dead-letter branch of
\* release().
THEOREM RedisKeepsContract == Spec => KeepsContract
<1>1. Init => FiniteCopies /\ QC!Init
  <2> SUFFICES ASSUME Init
               PROVE  FiniteCopies /\ QC!Init
    OBVIOUS
  <2>1. /\ pending = [m \in Member |-> 0] /\ claimed = [w \in Workers |-> None]
        /\ inFlight \in SUBSET Items /\ deadLetter = {}
    BY DEF Init
  <2>2. \A k : PendingCopies(k) = {}
    BY <2>1, NumberedCopies
  <2>3. {w \in Workers : claimed[w] # None} = {} /\ \A k : Claimants(k) = {}
    BY <2>1 DEF Claimants, ClaimOn
  <2>4. \A k : Copies(k) = 0
    BY <2>2, <2>3, FS_EmptySet DEF Copies
  <2>5. QC!Init
    BY <2>1, <2>4 DEF QC!Init
  <2> QED
    BY <2>2, <2>3, <2>5, FS_EmptySet DEF FiniteCopies
<1>2. TypeOK /\ FiniteCopies /\ [Next]_queueVars => FiniteCopies' /\ [QC!Next]_QC!contractVars
  <2> SUFFICES ASSUME ContractInv, [Next]_queueVars
               PROVE  FiniteCopies' /\ [QC!Next]_QC!contractVars
    BY DEF ContractInv
  <2>1. CASE EnqueueNext
    BY <2>1, EnqueueContract DEF EnqueueNext
  <2>2. CASE \E w \in Workers : WorkerNext(w)
    BY <2>2, WorkerContract
  <2>3. CASE \E s \in Sweepers : ReapNext(s) \/ ReconcileNext(s) \/ SweepFault(s)
    BY <2>3, SweepContract
  <2>4. CASE WorkersDie \/ UNCHANGED queueVars
    <3>1. UNCHANGED <<pending, claimed, inFlight, deadLetter>>
      BY <2>4 DEF WorkersDie, queueVars, redisVars
    <3>2. FiniteCopies' /\ \A k : Copies(k)' = Copies(k)
      BY <3>1, StillCopies
    <3> QED
      BY <3>1, <3>2 DEF QC!contractVars
  <2> QED
    BY <2>1, <2>2, <2>3, <2>4 DEF Next, CalmNext
<1> QED
  BY <1>1, <1>2, TypeCorrect, PTL DEF Spec, KeepsContract, QC!Spec

=============================================================================
