--------------------------- MODULE MCInMemoryQueue ---------------------------
(***************************************************************************)
(* The run has one clock reading, so that three reasons and two items are  *)
(* affordable; the order among different readings is checked on the search *)
(* itself, as a function.                                                  *)
(***************************************************************************)
EXTENDS InMemoryQueue, TLC

\* Neither items nor workers are compared with anything but themselves.
Symmetry == Permutations(Items) \cup Permutations(Workers)

\* What Search reads of an entry, at two clock readings.
Priorities == [reason : {"resume", "retry", "new"}, stamp : 1 .. 2, enqueuedAt : 1 .. 2]
Sorted(q)  == \A i, j \in DOMAIN q : i < j => GoesAfter(q[j], q[i])

\* In every sorted array of up to three entries the binary search finds the
\* place a linear one would: after all entries that do not go after e.
ASSUME SearchIsLinear ==
  \A q \in BoundedSeq(Priorities, 3) : Sorted(q) =>
    \A e \in Priorities : Search(q, e) = Cardinality({i \in DOMAIN q : GoesAfter(e, q[i])})
=============================================================================
