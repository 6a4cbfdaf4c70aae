---------------------------- MODULE InMemoryQueue ----------------------------
(***************************************************************************)
(* InMemoryQueueAdapter (packages/orchestrator/src/services/               *)
(* in-memory-queue-adapter.ts): the QueueManager of an orchestrator that   *)
(* runs without Redis.  No method awaits between its reads and its writes, *)
(* so each is one action.  Its two sweeps return an empty report and have  *)
(* no action; NoResidue is what makes that right for reconcileInFlight.    *)
(*                                                                         *)
(* A priority is the pair of a queue reason and the clock reading taken by *)
(* getPriorityScore; the clock may step back, so any reading is possible.  *)
(***************************************************************************)
EXTENDS Naturals, FiniteSets, Sequences, SequencesExt

CONSTANTS
  Items,        \* itemKeys
  Workers,      \* worker ids, a fresh one for every claim
  Times,        \* bound: clock readings, also of the monitor that made an item
  MaxRetries,   \* DispatchConfig.maxRetries
  MaxCount,     \* bound: an attempt count an enqueue() may start from
  MaxCopies,    \* bound: live copies of one item that an enqueue may lead to
  None          \* no item, no claim

ASSUME TimesAssumption   == Times \subseteq Nat
ASSUME RetriesAssumption == MaxRetries \in Nat \ {0} /\ MaxCount \in Nat

VARIABLES
  pending,        \* the sorted array
  claimed,        \* the entry a worker has claimed
  deadLetter,     \* the keys in the dead-letter array
  attemptCounts,  \* the map; a key that is absent reads 0
  inFlightSet,
  held            \* the item claim() returned to a worker that still runs

vars == <<pending, claimed, deadLetter, attemptCounts, inFlightSet, held>>

Entry(k, reason, now, at, attempts) ==
  [key |-> k, reason |-> reason, stamp |-> now, enqueuedAt |-> at, attempts |-> attempts]

Rank(reason) == CASE reason = "resume" -> 0
                  [] reason = "retry"  -> 1
                  [] OTHER             -> 2

-----------------------------------------------------------------------------
(* insertSorted *)

SamePriority(a, b) == a.reason = b.reason /\ a.stamp = b.stamp

Before(a, b) ==
  \/ Rank(a.reason) < Rank(b.reason)
  \/ a.reason = b.reason /\ a.stamp < b.stamp

\* The comparison of the loop: e goes somewhere after m.
GoesAfter(e, m) == Before(m, e) \/ (SamePriority(m, e) /\ m.enqueuedAt <= e.enqueuedAt)

\* The binary search: r holds the loop's variables, 0-based as in the array.
Search(q, e) ==
  LET bisect[r \in [lo : 0 .. Len(q), hi : 0 .. Len(q)]] ==
        LET mid == (r.lo + r.hi) \div 2
        IN  IF r.lo >= r.hi THEN r.lo
            ELSE IF GoesAfter(e, q[mid + 1]) THEN bisect[[r EXCEPT !.lo = mid + 1]]
            ELSE bisect[[r EXCEPT !.hi = mid]]
  IN  bisect[[lo |-> 0, hi |-> Len(q)]]

\* Mutant: a re-queued entry goes to the end of its array.
InsertLast(e) == pending' = Append(pending, e)

InsertSorted(e) == pending' = InsertAt(pending, Search(pending, e) + 1, e)

-----------------------------------------------------------------------------
(* The operations *)

ClaimOn(w, k) == claimed[w] # None /\ claimed[w].key = k
HasWork(k)    == (\E i \in DOMAIN pending : pending[i].key = k) \/ (\E w \in Workers : ClaimOn(w, k))
OwnsClaim(w)  == held[w] # None /\ ClaimOn(w, held[w].key)

Copies(k) == Cardinality({i \in DOMAIN pending : pending[i].key = k})
               + Cardinality({w \in Workers : ClaimOn(w, k)})

EnqueueWith(k, reason, now, at, attempts) ==
  /\ k \notin inFlightSet
  /\ Copies(k) < MaxCopies
  /\ InsertSorted(Entry(k, reason, now, at, attempts))
  /\ inFlightSet' = inFlightSet \cup {k}
  /\ UNCHANGED <<claimed, deadLetter, attemptCounts, held>>

\* enqueue() goes on counting where the last release() of the item stopped,
\* even past maxRetries (MaxCount bounds it) ...
Enqueue(k, reason, now, at) ==
  /\ attemptCounts[k] <= MaxCount
  /\ EnqueueWith(k, reason, now, at, attemptCounts[k])

\* ... and enqueueIfAbsent() starts at 0.
EnqueueIfAbsent(k, reason, now, at) == EnqueueWith(k, reason, now, at, 0)

Claim(w) ==
  /\ claimed[w] = None /\ held[w] = None
  /\ pending # <<>>
  /\ pending' = Tail(pending)
  /\ claimed' = [claimed EXCEPT ![w] = Head(pending)]
  /\ held' = [held EXCEPT ![w] = [key |-> Head(pending).key, enqueuedAt |-> Head(pending).enqueuedAt]]
  /\ UNCHANGED <<deadLetter, attemptCounts, inFlightSet>>

\* Mutant: the retry branch does not compare the count with maxRetries.
ReleaseRetriesForever(w, now) ==
  /\ OwnsClaim(w)
  /\ claimed' = [claimed EXCEPT ![w] = None]
  /\ attemptCounts' = [attemptCounts EXCEPT ![held[w].key] = claimed[w].attempts + 1]
  /\ InsertSorted(Entry(held[w].key, "retry", now, held[w].enqueuedAt, claimed[w].attempts + 1))
  /\ UNCHANGED <<deadLetter, inFlightSet, held>>

\* release() below maxRetries.  (Without a claim neither release() nor
\* requeueForResume() does anything.)
ReleaseRetry(w, now) ==
  /\ OwnsClaim(w)
  /\ claimed[w].attempts + 1 < MaxRetries
  /\ claimed' = [claimed EXCEPT ![w] = None]
  /\ attemptCounts' = [attemptCounts EXCEPT ![held[w].key] = claimed[w].attempts + 1]
  /\ InsertSorted(Entry(held[w].key, "retry", now, held[w].enqueuedAt, claimed[w].attempts + 1))
  /\ UNCHANGED <<deadLetter, inFlightSet, held>>

\* Mutant: a dead-lettered item stays in the in-flight index.
DeadLetterKeepsIndex(w) ==
  /\ OwnsClaim(w)
  /\ claimed[w].attempts + 1 >= MaxRetries
  /\ claimed' = [claimed EXCEPT ![w] = None]
  /\ attemptCounts' = [attemptCounts EXCEPT ![held[w].key] = claimed[w].attempts + 1]
  /\ deadLetter' = deadLetter \cup {held[w].key}
  /\ UNCHANGED <<pending, inFlightSet, held>>

\* Mutant: the dead-lettered item stays claimed.
DeadLetterKeepsClaim(w) ==
  /\ OwnsClaim(w)
  /\ claimed[w].attempts + 1 >= MaxRetries
  /\ attemptCounts' = [attemptCounts EXCEPT ![held[w].key] = claimed[w].attempts + 1]
  /\ deadLetter' = deadLetter \cup {held[w].key}
  /\ inFlightSet' = inFlightSet \ {held[w].key}
  /\ UNCHANGED <<pending, claimed, held>>

ReleaseDeadLetter(w) ==
  /\ OwnsClaim(w)
  /\ claimed[w].attempts + 1 >= MaxRetries
  /\ claimed' = [claimed EXCEPT ![w] = None]
  /\ attemptCounts' = [attemptCounts EXCEPT ![held[w].key] = claimed[w].attempts + 1]
  /\ deadLetter' = deadLetter \cup {held[w].key}
  /\ inFlightSet' = inFlightSet \ {held[w].key}
  /\ UNCHANGED <<pending, held>>

RequeueForResume(w, now) ==
  /\ OwnsClaim(w)
  /\ claimed' = [claimed EXCEPT ![w] = None]
  /\ InsertSorted(Entry(held[w].key, "resume", now, held[w].enqueuedAt, claimed[w].attempts))
  /\ UNCHANGED <<deadLetter, attemptCounts, inFlightSet, held>>

\* complete() clears the index and the count whether or not the claim is
\* still there.
Complete(w) ==
  /\ held[w] # None
  /\ claimed' = [claimed EXCEPT ![w] = IF OwnsClaim(w) THEN None ELSE @]
  /\ attemptCounts' = [attemptCounts EXCEPT ![held[w].key] = 0]
  /\ inFlightSet' = inFlightSet \ {held[w].key}
  /\ UNCHANGED <<pending, deadLetter, held>>

\* The worker's code returns: WorkerDispatcher.runWorker ends only after
\* complete() or release().
Forget(w) ==
  /\ held[w] # None /\ ~OwnsClaim(w)
  /\ held' = [held EXCEPT ![w] = None]
  /\ UNCHANGED <<pending, claimed, deadLetter, attemptCounts, inFlightSet>>

-----------------------------------------------------------------------------
Init ==
  /\ pending = <<>>
  /\ claimed = [w \in Workers |-> None]
  /\ deadLetter = {}
  /\ attemptCounts = [k \in Items |-> 0]
  /\ inFlightSet = {}
  /\ held = [w \in Workers |-> None]

Next ==
  \/ \E k \in Items, reason \in {"new", "resume"}, now, at \in Times :
       Enqueue(k, reason, now, at) \/ EnqueueIfAbsent(k, reason, now, at)
  \/ \E w \in Workers : Claim(w) \/ ReleaseDeadLetter(w) \/ Complete(w) \/ Forget(w)
  \/ \E w \in Workers, now \in Times : ReleaseRetry(w, now) \/ RequeueForResume(w, now)

Spec == Init /\ [][Next]_vars

-----------------------------------------------------------------------------
(* Properties *)

Entries ==
  [key : Items, reason : {"resume", "retry", "new"}, stamp : Times, enqueuedAt : Times,
   attempts : 0 .. MaxRetries + MaxCount]

ASSUME NoneAssumption == None \notin Entries

\* Every variable keeps its shape.  A retry never carries maxRetries attempts;
\* only enqueue() after a dead-lettering makes an entry that does.
TypeOK ==
  /\ pending \in Seq(Entries)
  /\ \A i \in DOMAIN pending : pending[i].reason = "retry" => pending[i].attempts < MaxRetries
  /\ claimed \in [Workers -> Entries \cup {None}]
  /\ deadLetter \subseteq Items
  /\ attemptCounts \in [Items -> 0 .. MaxRetries + MaxCount + 1]
  /\ inFlightSet \subseteq Items
  /\ held \in [Workers -> [key : Items, enqueuedAt : Times] \cup {None}]

\* The array is sorted by priority, then by enqueuedAt, after any sequence of
\* inserts: the binary search always finds the place a linear one would, so
\* claim() returns an item of the best priority.
PendingSorted ==
  \A i, j \in DOMAIN pending : i < j => GoesAfter(pending[j], pending[i])

\* No index entry is left without work: reconcileInFlight may be a no-op.
NoResidue == \A k \in inFlightSet : HasWork(k)

\* The in-memory adapter keeps the contract the Redis adapter keeps.
QC == INSTANCE QueueContract WITH
        copies <- [k \in Items |-> Copies(k)], index <- inFlightSet, dead <- deadLetter
KeepsContract == QC!Spec
=============================================================================
