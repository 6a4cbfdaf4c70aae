--------------------------- MODULE QueueContract ---------------------------
(***************************************************************************)
(* What the orchestrator's QueueManager interface promises, whichever      *)
(* adapter implements it.  An item (itemKey, "owner/repo#issue") is work:  *)
(* `copies` counts the live copies of it (pending members plus claims),    *)
(* `index` is the in-flight index that gates an enqueue, `dead` the items  *)
(* that were dead-lettered.                                                *)
(*                                                                         *)
(* Moving work between pending and claimed -- claim, release, reclaim,     *)
(* requeueForResume -- is invisible here: it may neither create nor lose a *)
(* copy.  Work appears only by an enqueue of an item that is not in the    *)
(* index, and disappears only by complete() or by the dead-letter branch   *)
(* of release().                                                           *)
(***************************************************************************)
EXTENDS Naturals

CONSTANT Items          \* the itemKeys

VARIABLES copies, index, dead

contractVars == <<copies, index, dead>>

Init ==
  /\ copies = [k \in Items |-> 0]
  /\ index \in SUBSET Items        \* residue of an earlier process is possible
  /\ dead = {}

\* enqueue() / enqueueIfAbsent() that returned true.
Enqueue(k) ==
  /\ k \notin index
  /\ copies' = [copies EXCEPT ![k] = @ + 1]
  /\ index' = index \cup {k}
  /\ UNCHANGED dead

\* complete() by a worker that still owns the claim.
Complete(k) ==
  /\ copies[k] > 0
  /\ copies' = [copies EXCEPT ![k] = @ - 1]
  /\ index' = index \ {k}
  /\ UNCHANGED dead

\* release() of the last attempt.
DeadLetter(k) ==
  /\ copies[k] > 0
  /\ copies' = [copies EXCEPT ![k] = @ - 1]
  /\ index' = index \ {k}
  /\ dead' = dead \cup {k}

\* An index entry is dropped without work being finished: the residue sweep,
\* or complete() by a worker whose claim was taken from it meanwhile.
Forget(k) ==
  /\ k \in index
  /\ index' = index \ {k}
  /\ UNCHANGED <<copies, dead>>

Next == \E k \in Items : Enqueue(k) \/ Complete(k) \/ DeadLetter(k) \/ Forget(k)

Spec == Init /\ [][Next]_contractVars
=============================================================================
