----------------------------- MODULE RedisQueue -----------------------------
(***************************************************************************)
(* RedisQueueAdapter (packages/orchestrator/src/services/                  *)
(* redis-queue-adapter.ts): the dispatch queue every orchestrator process  *)
(* shares through Redis.  Each Lua script (and the MULTI of complete()) is *)
(* one atomic action; the two sweeps, reapOrphanClaims and                 *)
(* reconcileInFlight, are sequences of round trips and therefore several   *)
(* actions, with what the process remembers between them as state.         *)
(*                                                                         *)
(* The pending ZSET is a bag of members: two members with the same itemKey *)
(* are distinct strings (they carry their own timestamps), so Redis keeps  *)
(* both.  A score orders by queue reason; the timestamps that order        *)
(* members of one reason come from the clocks of several processes and are *)
(* left out, so any member of the best reason may be popped.               *)
(*                                                                         *)
(* A worker id is a fresh UUID for every poll.  A model worker id is used  *)
(* again only when nothing anywhere remembers it (Fresh).                  *)
(***************************************************************************)
EXTENDS Naturals, FiniteSets

CONSTANTS
  Items,        \* itemKeys, "owner/repo#issue"
  Workers,      \* worker ids
  Sweepers,     \* processes that run the reaper loop
  MaxRetries,   \* DispatchConfig.maxRetries
  MaxCopies,    \* bound: live copies of one item that an enqueue may lead to
  None          \* no item, no claim, no orphan

Reasons  == {"resume", "retry", "new"}
Attempts == 0 .. MaxRetries - 1

Member == [key : Items, reason : Reasons, attempts : Attempts]
Claim  == [key : Items, attempts : Attempts, aged : BOOLEAN]
Orphan == [worker : Workers, key : Items, attempts : Attempts, aged : BOOLEAN]

ASSUME RetriesAssumption == MaxRetries \in Nat \ {0}
ASSUME NoneAssumption ==
  None \notin Items /\ None \notin Claim /\ None \notin Orphan

VARIABLES
  pending,      \* orchestrator:queue:pending, a bag of members
  claimed,      \* orchestrator:queue:claimed:<workerId>
  heartbeat,    \* the workers whose heartbeat key exists
  inFlight,     \* orchestrator:queue:in-flight-items
  deadLetter,   \* the keys in orchestrator:queue:dead-letter
  held,         \* the item claim() returned to a worker that still runs
  sweepPc,      \* where a process is in its reaper cycle
  orphan,       \* reapOrphanClaims: the claim read and not yet reclaimed
  cand,         \* reconcileInFlight: index members not yet found to be live
  todo,         \* reconcileInFlight: claim hashes still to be read
  tracker,      \* reconcileTracker: residue seen by the previous sweep
  tainted       \* history: items whose index entry went while work was left

redisVars == <<pending, claimed, heartbeat, inFlight, deadLetter>>
sweepVars == <<sweepPc, orphan, cand, todo, tracker>>
queueVars == <<redisVars, held, sweepVars, tainted>>

-----------------------------------------------------------------------------
(* Reading the state *)

Rank(reason) == CASE reason = "resume" -> 0
                  [] reason = "retry"  -> 1
                  [] OTHER             -> 2

ClaimOn(w, k)  == claimed[w] # None /\ claimed[w].key = k
IsPending(k)   == \E m \in Member : pending[m] > 0 /\ m.key = k
IsClaimed(k)   == \E w \in Workers : ClaimOn(w, k)
HasWork(k)     == IsPending(k) \/ IsClaimed(k)

\* A member is in the bag pending[m] times; its copies are numbered.
PendingCopies(k) == UNION {{m} \X (1 .. pending[m]) : m \in {n \in Member : n.key = k}}
Claimants(k)     == {w \in Workers : ClaimOn(w, k)}

\* How many live copies of k there are.
Copies(k) == Cardinality(PendingCopies(k)) + Cardinality(Claimants(k))

\* Nothing remembers w: it can stand for a newly drawn UUID.
Fresh(w) ==
  /\ claimed[w] = None
  /\ held[w] = None
  /\ w \notin heartbeat
  /\ \A s \in Sweepers : w \notin todo[s] /\ (orphan[s] # None => orphan[s].worker # w)

\* The items whose index entry the step removed while a copy stayed behind;
\* an item is clean again once its last copy is gone.
TaintAfter == {k \in Items : HasWork(k)' /\ (k \in tainted \/ (k \in inFlight /\ k \notin inFlight'))}

-----------------------------------------------------------------------------
(* enqueue, claim *)

ZAdd(m) == pending' = [pending EXCEPT ![m] = @ + 1]

\* ENQUEUE_IF_ABSENT_SCRIPT; an item in the index is dropped (no change).
Enqueue(k, reason) ==
  /\ k \notin inFlight
  /\ Copies(k) < MaxCopies
  /\ inFlight' = inFlight \cup {k}
  /\ ZAdd([key |-> k, reason |-> reason, attempts |-> 0])
  /\ UNCHANGED <<claimed, heartbeat, deadLetter, held, sweepVars, tainted>>

\* Mutant: the claim itself counts as an attempt.
ClaimCountsAttempt(w, m) ==
  /\ Fresh(w)
  /\ pending[m] > 0
  /\ pending' = [pending EXCEPT ![m] = @ - 1]
  /\ claimed' = [claimed EXCEPT ![w] = [key |-> m.key, attempts |-> m.attempts + 1, aged |-> FALSE]]
  /\ heartbeat' = heartbeat \cup {w}
  /\ UNCHANGED <<inFlight, deadLetter, sweepVars, tainted>>

\* CLAIM_SCRIPT: ZPOPMIN, HSET claimed, SET heartbeat.
ClaimScript(w, m) ==
  /\ Fresh(w)
  /\ pending[m] > 0
  /\ \A n \in Member : pending[n] > 0 => Rank(m.reason) <= Rank(n.reason)
  /\ pending' = [pending EXCEPT ![m] = @ - 1]
  /\ claimed' = [claimed EXCEPT ![w] = [key |-> m.key, attempts |-> m.attempts, aged |-> FALSE]]
  /\ heartbeat' = heartbeat \cup {w}
  /\ UNCHANGED <<inFlight, deadLetter, sweepVars, tainted>>

\* claim() returns the item to its caller ...
ClaimItem(w) ==
  \E m \in Member : ClaimScript(w, m) /\ held' = [held EXCEPT ![w] = m.key]

\* ... or the reply is lost and the catch returns null: nobody runs the item.
ClaimReplyLost(w) ==
  \E m \in Member : ClaimScript(w, m) /\ UNCHANGED held

-----------------------------------------------------------------------------
(* release, requeueForResume, complete: called with the item claim() gave, *)
(* by a worker that may have lost its claim meanwhile.                     *)

OwnsClaim(w) == held[w] # None /\ ClaimOn(w, held[w])

HDelClaim(w) ==
  /\ claimed' = [claimed EXCEPT ![w] = None]
  /\ heartbeat' = heartbeat \ {w}

\* Code 0 of both scripts: the claim is gone, only the heartbeat is deleted.
ClaimAlreadyCleared(w) ==
  /\ held[w] # None /\ ~OwnsClaim(w)
  /\ heartbeat' = heartbeat \ {w}
  /\ UNCHANGED <<pending, claimed, inFlight, deadLetter, held, sweepVars, tainted>>

\* RELEASE_SCRIPT, code 1.
ReleaseRetry(w) ==
  /\ OwnsClaim(w)
  /\ claimed[w].attempts + 1 < MaxRetries
  /\ ZAdd([key |-> held[w], reason |-> "retry", attempts |-> claimed[w].attempts + 1])
  /\ HDelClaim(w)
  /\ UNCHANGED <<inFlight, deadLetter, held, sweepVars, tainted>>

\* RELEASE_SCRIPT, code 2.
ReleaseDeadLetter(w) ==
  /\ OwnsClaim(w)
  /\ claimed[w].attempts + 1 >= MaxRetries
  /\ HDelClaim(w)
  /\ deadLetter' = deadLetter \cup {held[w]}
  /\ inFlight' = inFlight \ {held[w]}
  /\ UNCHANGED <<pending, held, sweepVars>>
  /\ tainted' = TaintAfter

Release(w) == ReleaseRetry(w) \/ ReleaseDeadLetter(w) \/ ClaimAlreadyCleared(w)

\* Mutant: re-pends without looking whether the claim is still there.
RequeueUnguarded(w) ==
  /\ held[w] # None
  /\ ZAdd([key |-> held[w], reason |-> "resume", attempts |-> 0])
  /\ HDelClaim(w)
  /\ UNCHANGED <<inFlight, deadLetter, held, sweepVars, tainted>>

\* REQUEUE_FOR_RESUME_SCRIPT, code 1: the attempt count is kept.
RequeueResume(w) ==
  /\ OwnsClaim(w)
  /\ ZAdd([key |-> held[w], reason |-> "resume", attempts |-> claimed[w].attempts])
  /\ HDelClaim(w)
  /\ UNCHANGED <<inFlight, deadLetter, held, sweepVars, tainted>>

RequeueForResume(w) == RequeueResume(w) \/ ClaimAlreadyCleared(w)

\* complete(): MULTI HDEL, DEL, SREM.  Unlike the scripts it does not look
\* whether the claim is still there before it removes the index entry.
Complete(w) ==
  /\ held[w] # None
  /\ claimed' = [claimed EXCEPT ![w] = IF OwnsClaim(w) THEN None ELSE @]
  /\ heartbeat' = heartbeat \ {w}
  /\ inFlight' = inFlight \ {held[w]}
  /\ UNCHANGED <<pending, deadLetter, held, sweepVars>>
  /\ tainted' = TaintAfter

-----------------------------------------------------------------------------
(* Time: heartbeat keys expire or are refreshed, claims leave the grace    *)
(* window of 2 x heartbeatCheckIntervalMs.                                 *)

HeartbeatExpires(w) ==
  /\ w \in heartbeat
  /\ heartbeat' = heartbeat \ {w}
  /\ UNCHANGED <<pending, claimed, inFlight, deadLetter, held, sweepVars, tainted>>

HeartbeatSet(w) ==
  /\ held[w] # None
  /\ heartbeat' = heartbeat \cup {w}
  /\ UNCHANGED <<pending, claimed, inFlight, deadLetter, held, sweepVars, tainted>>

GraceWindowPasses(w) ==
  /\ claimed[w] # None
  /\ ~claimed[w].aged
  /\ claimed' = [claimed EXCEPT ![w].aged = TRUE]
  /\ UNCHANGED <<pending, heartbeat, inFlight, deadLetter, held, sweepVars, tainted>>

\* The worker's code returns; it has deleted its heartbeat key or failed to.
Forget(w) ==
  /\ held[w] # None
  /\ held' = [held EXCEPT ![w] = None]
  /\ heartbeat' \in {heartbeat, heartbeat \ {w}}
  /\ UNCHANGED <<pending, claimed, inFlight, deadLetter, sweepVars, tainted>>

-----------------------------------------------------------------------------
(* The reaper cycle of one process: reapOrphanClaims, then                 *)
(* reconcileInFlight; a process that starts runs one reconcileInFlight     *)
(* before its first cycle ("boot").                                        *)

SweepGoes(s, pc) == sweepPc' = [sweepPc EXCEPT ![s] = pc]

\* reapOrphanClaims: SCAN claimed:*.
ReapScan(s) ==
  /\ sweepPc[s] = "idle"
  /\ SweepGoes(s, "reap")
  /\ todo' = [todo EXCEPT ![s] = {w \in Workers : claimed[w] # None}]
  /\ UNCHANGED <<redisVars, held, orphan, cand, tracker, tainted>>

\* HGETALL and EXISTS of one claim hash: an orphan is remembered as read.
ReapRead(s, w) ==
  /\ sweepPc[s] = "reap"
  /\ orphan[s] = None
  /\ w \in todo[s]
  /\ todo' = [todo EXCEPT ![s] = @ \ {w}]
  /\ orphan' = [orphan EXCEPT ![s] =
        IF claimed[w] = None \/ w \in heartbeat THEN None
        ELSE [worker |-> w, key |-> claimed[w].key,
              attempts |-> claimed[w].attempts, aged |-> claimed[w].aged]]
  /\ UNCHANGED <<redisVars, held, sweepPc, cand, tracker, tainted>>

\* Mutants: the script trusts the claim that was read before; the comparison
\* with the grace window is turned around.
ReclaimTrustsRead(o)  == o.worker \notin heartbeat /\ o.aged
ReclaimYoungOnly(o)   == ClaimOn(o.worker, o.key) /\ o.worker \notin heartbeat /\ ~o.aged

Reclaimable(o) == ClaimOn(o.worker, o.key) /\ o.worker \notin heartbeat /\ o.aged

OrphanDone(s) ==
  /\ orphan' = [orphan EXCEPT ![s] = None]
  /\ UNCHANGED <<sweepPc, cand, todo, tracker>>

\* Mutant: the reclaim also removes the index entry.
ReclaimUntracks(s) ==
  /\ orphan[s] # None
  /\ Reclaimable(orphan[s])
  /\ claimed' = [claimed EXCEPT ![orphan[s].worker] = None]
  /\ ZAdd([key |-> orphan[s].key, reason |-> "resume", attempts |-> orphan[s].attempts])
  /\ inFlight' = inFlight \ {orphan[s].key}
  /\ OrphanDone(s)
  /\ UNCHANGED <<heartbeat, deadLetter, held>>
  /\ tainted' = TaintAfter

\* RECLAIM_ORPHAN_SCRIPT, code 1: the claim goes back to pending at resume
\* priority with its attempt count, and stays in the index.
ReclaimOrphan(s) ==
  /\ orphan[s] # None
  /\ Reclaimable(orphan[s])
  /\ claimed' = [claimed EXCEPT ![orphan[s].worker] = None]
  /\ ZAdd([key |-> orphan[s].key, reason |-> "resume", attempts |-> orphan[s].attempts])
  /\ OrphanDone(s)
  /\ UNCHANGED <<heartbeat, inFlight, deadLetter, held, tainted>>

\* Codes 0 (claim gone), 2 (heartbeat back) and 3 (within the grace window).
ReclaimSkipped(s) ==
  /\ orphan[s] # None
  /\ ~Reclaimable(orphan[s])
  /\ OrphanDone(s)
  /\ UNCHANGED <<redisVars, held, tainted>>

\* The scan is exhausted: the cycle goes on to reconcileInFlight.
ReapEnd(s) ==
  /\ sweepPc[s] = "reap"
  /\ orphan[s] = None
  /\ todo[s] = {}
  /\ SweepGoes(s, "sscan")
  /\ UNCHANGED <<redisVars, held, orphan, cand, todo, tracker, tainted>>

\* A transport error ends the sweep with a partial report.
ReapAborted(s) ==
  /\ sweepPc[s] = "reap"
  /\ SweepGoes(s, "sscan")
  /\ orphan' = [orphan EXCEPT ![s] = None]
  /\ todo' = [todo EXCEPT ![s] = {}]
  /\ UNCHANGED <<redisVars, held, cand, tracker, tainted>>

-----------------------------------------------------------------------------
(* reconcileInFlight: three snapshots taken one after the other, the       *)
(* difference, and RECONCILE_IN_FLIGHT_SCRIPT for what two sweeps saw.     *)

ReconcileSnapshotIndex(s) ==
  /\ sweepPc[s] \in {"boot", "sscan"}
  /\ SweepGoes(s, "zrange")
  /\ cand' = [cand EXCEPT ![s] = inFlight]
  /\ UNCHANGED <<redisVars, held, orphan, todo, tracker, tainted>>

ReconcileSnapshotPending(s) ==
  /\ sweepPc[s] = "zrange"
  /\ SweepGoes(s, "scan")
  /\ cand' = [cand EXCEPT ![s] = {k \in @ : ~IsPending(k)}]
  /\ UNCHANGED <<redisVars, held, orphan, todo, tracker, tainted>>

ReconcileScanClaims(s) ==
  /\ sweepPc[s] = "scan"
  /\ SweepGoes(s, "hkeys")
  /\ todo' = [todo EXCEPT ![s] = {w \in Workers : claimed[w] # None}]
  /\ UNCHANGED <<redisVars, held, orphan, cand, tracker, tainted>>

ReconcileReadClaim(s, w) ==
  /\ sweepPc[s] = "hkeys"
  /\ w \in todo[s]
  /\ todo' = [todo EXCEPT ![s] = @ \ {w}]
  /\ cand' = [cand EXCEPT ![s] = {k \in @ : ~ClaimOn(w, k)}]
  /\ UNCHANGED <<redisVars, held, sweepPc, orphan, tracker, tainted>>

\* Mutant: the tracker is cleared at the end of every sweep.
GateForgets(s) ==
  /\ sweepPc[s] = "hkeys"
  /\ todo[s] = {}
  /\ SweepGoes(s, "srem")
  /\ cand' = [cand EXCEPT ![s] = @ \cap tracker[s]]
  /\ tracker' = [tracker EXCEPT ![s] = {}]
  /\ UNCHANGED <<redisVars, held, orphan, todo, tainted>>

\* The two-sweep gate.  Residue the previous sweep saw too goes on to the
\* script; residue seen for the first time is tracked; a tracked key that is
\* no longer residue is dropped from the tracker.
ReconcileGate(s) ==
  /\ sweepPc[s] = "hkeys"
  /\ todo[s] = {}
  /\ SweepGoes(s, "srem")
  /\ cand' = [cand EXCEPT ![s] = @ \cap tracker[s]]
  /\ tracker' = [tracker EXCEPT ![s] = cand[s]]
  /\ UNCHANGED <<redisVars, held, orphan, todo, tainted>>

\* RECONCILE_IN_FLIGHT_SCRIPT for one key.  Code 1 also clears the tracker
\* entry; code 0 (the key was gone already) keeps it for the next sweep.
ReconcileRemove(s, k) ==
  /\ sweepPc[s] = "srem"
  /\ k \in cand[s]
  /\ cand' = [cand EXCEPT ![s] = @ \ {k}]
  /\ tracker' = [tracker EXCEPT ![s] = IF k \in inFlight THEN @ \ {k} ELSE @]
  /\ inFlight' = inFlight \ {k}
  /\ UNCHANGED <<pending, claimed, heartbeat, deadLetter, held, sweepPc, orphan, todo>>
  /\ tainted' = TaintAfter

\* The script call fails, before or after Redis ran it; the tracker entry is
\* kept.
ReconcileRemoveError(s, k) ==
  /\ sweepPc[s] = "srem"
  /\ k \in cand[s]
  /\ cand' = [cand EXCEPT ![s] = @ \ {k}]
  /\ inFlight' \in {inFlight, inFlight \ {k}}
  /\ UNCHANGED <<pending, claimed, heartbeat, deadLetter, held, sweepPc, orphan, todo, tracker>>
  /\ tainted' = TaintAfter

ReconcileEnd(s) ==
  /\ sweepPc[s] = "srem"
  /\ cand[s] = {}
  /\ SweepGoes(s, "idle")
  /\ UNCHANGED <<redisVars, held, orphan, cand, todo, tracker, tainted>>

\* A transport error during the snapshot: the sweep ends, the tracker stays.
ReconcileAborted(s) ==
  /\ sweepPc[s] \in {"zrange", "scan", "hkeys"}
  /\ SweepGoes(s, "idle")
  /\ cand' = [cand EXCEPT ![s] = {}]
  /\ todo' = [todo EXCEPT ![s] = {}]
  /\ UNCHANGED <<redisVars, held, orphan, tracker, tainted>>

\* Workers of a dead process no longer hold their items.
HoldersGone ==
  \E gone \in SUBSET Workers :
    held' = [w \in Workers |-> IF w \in gone THEN None ELSE held[w]]

SweepReset(s) ==
  /\ SweepGoes(s, "boot")
  /\ orphan' = [orphan EXCEPT ![s] = None]
  /\ cand' = [cand EXCEPT ![s] = {}]
  /\ todo' = [todo EXCEPT ![s] = {}]
  /\ tracker' = [tracker EXCEPT ![s] = {}]

\* A process dies and starts again: its sweep, its tracker and the workers
\* it ran are gone; everything in Redis stays.
ProcessRestart(s) ==
  /\ SweepReset(s)
  /\ HoldersGone
  /\ UNCHANGED <<redisVars, tainted>>

\* A process that was in no sweep dies.
WorkersDie == HoldersGone /\ UNCHANGED <<redisVars, sweepVars, tainted>>

-----------------------------------------------------------------------------
(* The specification.  The callers are unconstrained: a worker that was    *)
(* given an item may call release, requeueForResume and complete at any    *)
(* time, in any order, whatever happened to its claim.                     *)

Init ==
  /\ pending = [m \in Member |-> 0]
  /\ claimed = [w \in Workers |-> None]
  /\ heartbeat = {}
  /\ inFlight \in SUBSET Items     \* residue left by an earlier process
  /\ deadLetter = {}
  /\ held = [w \in Workers |-> None]
  /\ sweepPc = [s \in Sweepers |-> "boot"]
  /\ orphan = [s \in Sweepers |-> None]
  /\ cand = [s \in Sweepers |-> {}]
  /\ todo = [s \in Sweepers |-> {}]
  /\ tracker = [s \in Sweepers |-> {}]
  /\ tainted = {}

EnqueueNext == \E k \in Items, reason \in {"new", "resume"} : Enqueue(k, reason)

WorkerNext(w) ==
  \/ ClaimItem(w) \/ ClaimReplyLost(w)
  \/ Release(w) \/ RequeueForResume(w) \/ Complete(w)
  \/ HeartbeatExpires(w) \/ HeartbeatSet(w) \/ GraceWindowPasses(w) \/ Forget(w)

ReapNext(s) ==
  \/ ReapScan(s) \/ ReclaimOrphan(s) \/ ReclaimSkipped(s) \/ ReapEnd(s)
  \/ \E w \in Workers : ReapRead(s, w)

ReconcileNext(s) ==
  \/ ReconcileSnapshotIndex(s) \/ ReconcileSnapshotPending(s)
  \/ ReconcileScanClaims(s) \/ ReconcileGate(s) \/ ReconcileEnd(s)
  \/ \E w \in Workers : ReconcileReadClaim(s, w)
  \/ \E k \in Items : ReconcileRemove(s, k)

SweepFault(s) ==
  \/ ReapAborted(s) \/ ReconcileAborted(s) \/ ProcessRestart(s)
  \/ \E k \in Items : ReconcileRemoveError(s, k)

CalmNext ==
  \/ EnqueueNext
  \/ \E w \in Workers : WorkerNext(w)
  \/ WorkersDie
  \/ \E s \in Sweepers : ReapNext(s) \/ ReconcileNext(s)

Next == CalmNext \/ \E s \in Sweepers : SweepFault(s)

Spec == Init /\ [][Next]_queueVars

-----------------------------------------------------------------------------
(* Properties *)

SweepPcs == {"boot", "idle", "reap", "sscan", "zrange", "scan", "hkeys", "srem"}

\* Every variable keeps its shape; in particular no live copy ever carries an
\* attempt count that has reached maxRetries.
TypeOK ==
  /\ pending \in [Member -> Nat]
  /\ claimed \in [Workers -> Claim \cup {None}]
  /\ heartbeat \subseteq Workers
  /\ inFlight \subseteq Items
  /\ deadLetter \subseteq Items
  /\ held \in [Workers -> Items \cup {None}]
  /\ sweepPc \in [Sweepers -> SweepPcs]
  /\ orphan \in [Sweepers -> Orphan \cup {None}]
  /\ cand \in [Sweepers -> SUBSET Items]
  /\ todo \in [Sweepers -> SUBSET Workers]
  /\ tracker \in [Sweepers -> SUBSET Items]
  /\ tainted \subseteq Items

\* At most one live copy of k, counted without arithmetic.
SingleCopy(k) ==
  /\ \A m \in Member : m.key = k => pending[m] <= 1
  /\ \A m, n \in Member : m.key = k /\ n.key = k /\ pending[m] > 0 /\ pending[n] > 0 => m = n
  /\ \A v, w \in Workers : ClaimOn(v, k) /\ ClaimOn(w, k) => v = w
  /\ ~(IsPending(k) /\ IsClaimed(k))

\* An item whose index entry was never removed from under it is live at most
\* once -- one pending member or one claim, never two -- and is in the index.
\* No interleaving of release, requeueForResume, reclaim and claim of any
\* number of processes duplicates it, whoever lost its claim to whom.
OneOwner == \A k \in Items \ tainted : SingleCopy(k) /\ (HasWork(k) => k \in inFlight)

\* The index entry of live work disappears in two ways only: complete() by a
\* worker whose claim was taken from it, and the residue sweep.  In
\* particular no dead-lettering and no complete() by the owner can do it.
OnlyStaleCompleteOrSweepUntracks ==
  [][\A k \in Items : k \in tainted' \ tainted =>
        \/ \E w \in Workers : held[w] = k /\ ~OwnsClaim(w) /\ Complete(w)
        \/ \E s \in Sweepers : ReconcileRemove(s, k) \/ ReconcileRemoveError(s, k)]_queueVars

\* The adapter keeps the QueueManager contract: whatever the interleaving of
\* scripts, sweeps, crashes and lost replies, a step moves one copy, adds one
\* for an item outside the index, or removes one by completing or
\* dead-lettering it.  Work is neither lost nor doubled on the way.
QC == INSTANCE QueueContract WITH
        copies <- [k \in Items |-> Copies(k)], index <- inFlight, dead <- deadLetter
KeepsContract == QC!Spec

-----------------------------------------------------------------------------
(* Liveness, under the fairness that MCRedisLive states *)

\* Residue -- an index entry without work, which blocks every enqueue of its
\* item -- is always repaired by the two-sweep reconciliation.
ResidueRepaired ==
  \A k \in Items : (k \in inFlight /\ ~HasWork(k)) ~> k \notin inFlight

\* A claim nobody is working on (its process died, or the reply of claim()
\* was lost) does not stay a claim: some process's reaper takes it back.
OrphanRecovered ==
  \A w \in Workers : (claimed[w] # None /\ held[w] = None) ~> claimed[w] = None

-----------------------------------------------------------------------------
(* What the comment on RECONCILE_IN_FLIGHT_SCRIPT says of the sweep.       *)

\* "it makes snapshot-interleaving artifacts self-clear before they can reach
\* an SREM": the script only ever runs for an item without work.
SweepRemovesOnlyResidue ==
  [][\A s \in Sweepers, k \in Items : ReconcileRemove(s, k) => ~HasWork(k)]_queueVars
=============================================================================
