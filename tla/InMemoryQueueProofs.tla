------------------------- MODULE InMemoryQueueProofs -------------------------
(***************************************************************************)
(* Proofs about the in-memory adapter: its type invariant, that its array  *)
(* stays sorted, that its in-flight index has no residue, and that it      *)
(* implements QueueContract.                                               *)
(*                                                                         *)
(* The search.  The binary search of insertSorted is a recursive function  *)
(* on the pairs lo, hi, and TLA+ gives such a definition its meaning only  *)
(* where a function with that equation exists.  BisectionExists shows that *)
(* one does, by the least width of a range up to which there would be no   *)
(* solution; SearchSplits then shows, by the least width of a range with a *)
(* wrong answer, that the search finds the place between the entries e     *)
(* goes after and the others.  For that the comparison has to be total and *)
(* transitive (GoesAfterTotal, GoesAfterTransitive).                       *)
(*                                                                         *)
(* The adapter.  QueueInv is inductive: the array has to be sorted for the *)
(* next search to be right, and the shape of a claim is needed to see that *)
(* what a worker gives back is an entry.                                   *)
(*                                                                         *)
(* The contract.  Its copies of an item are the places the item has in the *)
(* array plus the workers that have claimed it; every operation is shown   *)
(* to move, add or drop exactly one of them.                               *)
(***************************************************************************)
EXTENDS InMemoryQueue, FiniteSetTheorems, TLAPS

-----------------------------------------------------------------------------
(* The search *)

\* A nonempty set of naturals has a least member.
LEMMA LeastNatural ==
  ASSUME NEW T \in SUBSET Nat, T # {}
  PROVE  \E n \in T : \A m \in T : n <= m
<1> DEFINE R == {ss \in Nat \X Nat : ss[1] < ss[2]}
<1>1. IsWellFoundedOn(R, Nat)
  BY NatLessThanWellFounded DEF OpToRel
<1> HIDE DEF R
<1>2. PICK x \in T : \A y \in T : ~ (<<y, x>> \in R)
  BY <1>1, WFMin
<1>3. ASSUME NEW y \in T
      PROVE  x <= y
  <2>1. x \in Nat /\ y \in Nat /\ <<y, x>> \notin R
    BY <1>2
  <2>2. y < x => <<y, x>> \in R
    BY <2>1 DEF R
  <2> QED
    BY <2>1, <2>2
<1> QED BY <1>3

\* The values the loop variables of insertSorted may have.
Ranges(q) == [lo : 0 .. Len(q), hi : 0 .. Len(q)]
\* One round of the loop on r, with g for the rounds that follow.
Halved(q, e, g, r) ==
  LET mid == (r.lo + r.hi) \div 2
  IN  IF r.lo >= r.hi THEN r.lo
      ELSE IF GoesAfter(e, q[mid + 1]) THEN g[[r EXCEPT !.lo = mid + 1]]
      ELSE g[[r EXCEPT !.hi = mid]]
\* The search is a fixed point of this.
Bisection(q, e, g) == [r \in Ranges(q) |-> Halved(q, e, g, r)]

\* The meaning TLA+ gives to the recursive function of Search.
LEMMA SearchIsBisection ==
  ASSUME NEW q, NEW e
  PROVE  Search(q, e) = (CHOOSE f : f = Bisection(q, e, f))[[lo |-> 0, hi |-> Len(q)]]
BY DEF Search, Bisection, Halved, Ranges

\* Halving leaves a smaller range.
LEMMA Middle ==
  ASSUME NEW q, Len(q) \in Nat, NEW r \in Ranges(q), r.lo < r.hi
  PROVE  LET mid == (r.lo + r.hi) \div 2
         IN  /\ mid \in Nat /\ r.lo <= mid /\ mid < r.hi
             /\ [r EXCEPT !.lo = mid + 1] \in Ranges(q) /\ [r EXCEPT !.hi = mid] \in Ranges(q)
             /\ [r EXCEPT !.lo = mid + 1] = [lo |-> mid + 1, hi |-> r.hi]
             /\ [r EXCEPT !.hi = mid] = [lo |-> r.lo, hi |-> mid]
<1> DEFINE mid == (r.lo + r.hi) \div 2
<1>1. r.lo \in 0 .. Len(q) /\ r.hi \in 0 .. Len(q) /\ r = [lo |-> r.lo, hi |-> r.hi]
  BY DEF Ranges
<1>2. mid \in Nat /\ r.lo <= mid /\ mid < r.hi
  BY <1>1
<1> HIDE DEF mid
<1>3. mid \in 0 .. Len(q) /\ mid + 1 \in 0 .. Len(q)
  BY <1>1, <1>2
<1>4. /\ [r EXCEPT !.lo = mid + 1] = [lo |-> mid + 1, hi |-> r.hi]
      /\ [r EXCEPT !.hi = mid] = [lo |-> r.lo, hi |-> mid]
  BY <1>1
<1>5. [r EXCEPT !.lo = mid + 1] \in Ranges(q) /\ [r EXCEPT !.hi = mid] \in Ranges(q)
  BY <1>1, <1>3, <1>4 DEF Ranges
<1> QED
  BY <1>2, <1>4, <1>5 DEF mid

\* What a round of the loop makes smaller.
Width(r) == r.hi - r.lo

\* A round uses its successor on smaller ranges only.
LEMMA HalvedAgrees ==
  ASSUME NEW q, Len(q) \in Nat, NEW e, NEW g, NEW h, NEW r \in Ranges(q),
         \A s \in Ranges(q) : Width(s) < Width(r) => g[s] = h[s]
  PROVE  Halved(q, e, g, r) = Halved(q, e, h, r)
<1>0. r.lo \in Int /\ r.hi \in Int
  BY DEF Ranges
<1>1. CASE r.lo >= r.hi
  BY <1>1 DEF Halved
<1>2. CASE r.lo < r.hi
  <2> DEFINE mid == (r.lo + r.hi) \div 2
             left == [r EXCEPT !.hi = mid]
             right == [r EXCEPT !.lo = mid + 1]
  <2>1. /\ mid \in Nat /\ r.lo <= mid /\ mid < r.hi
        /\ left \in Ranges(q) /\ right \in Ranges(q)
        /\ right = [lo |-> mid + 1, hi |-> r.hi] /\ left = [lo |-> r.lo, hi |-> mid]
    BY <1>2, Middle
  <2>3. ~ (r.lo >= r.hi)
    BY <1>0, <1>2
  <2>4. \A k : Halved(q, e, k, r) = IF GoesAfter(e, q[mid + 1]) THEN k[right] ELSE k[left]
    BY <2>3 DEF Halved
  <2> HIDE DEF mid
  <2>5. Width(left) < Width(r) /\ Width(right) < Width(r)
    BY <1>0, <2>1 DEF Width
  <2> HIDE DEF left, right
  <2>6. g[left] = h[left] /\ g[right] = h[right]
    BY <2>1, <2>5
  <2> QED
    BY <2>4, <2>6
<1> QED
  BY <1>0, <1>1, <1>2

\* What Bisection(q, e, g) is at one range.
LEMMA BisectionValue ==
  ASSUME NEW q, NEW e, NEW g, NEW r \in Ranges(q)
  PROVE  Bisection(q, e, g)[r] = Halved(q, e, g, r)
BY DEF Bisection

\* g answers as the search would on the ranges of width n or less.
Solves(q, e, g, n) == \A r \in Ranges(q) : Width(r) <= n => g[r] = Halved(q, e, g, r)

\* One more round solves one width more.
LEMMA NextSolves ==
  ASSUME NEW q, Len(q) \in Nat, NEW e, NEW g, NEW n \in Int, Solves(q, e, g, n)
  PROVE  Solves(q, e, Bisection(q, e, g), n + 1)
<1> DEFINE h == Bisection(q, e, g)
<1>1. \A s \in Ranges(q) : Width(s) \in Int
  BY DEF Ranges, Width
<1>2. \A s \in Ranges(q) : Width(s) <= n => g[s] = h[s]
  BY BisectionValue DEF Solves
<1>3. ASSUME NEW r \in Ranges(q), Width(r) <= n + 1
      PROVE  h[r] = Halved(q, e, h, r)
  <2>1. h[r] = Halved(q, e, g, r)
    BY BisectionValue
  <2>2. \A s \in Ranges(q) : Width(s) < Width(r) => g[s] = h[s]
    BY <1>1, <1>2, <1>3
  <2> HIDE DEF h
  <2> QED
    BY <2>1, <2>2, HalvedAgrees
<1> QED
  BY <1>3 DEF Solves

\* The recursive function of Search exists.
LEMMA BisectionExists ==
  ASSUME NEW q, Len(q) \in Nat, NEW e
  PROVE  \E f : f = Bisection(q, e, f)
<1> DEFINE Bad == {n \in Nat : ~ \E g : Solves(q, e, g, n)}
<1>1. \A r \in Ranges(q) : Width(r) \in Int /\ Width(r) <= Len(q)
  BY DEF Ranges, Width
<1>2. Solves(q, e, [r \in Ranges(q) |-> r.lo], 0)
  BY DEF Solves, Halved, Ranges, Width
<1>3. Bad = {}
  <2> SUFFICES ASSUME Bad # {}
               PROVE  FALSE
    OBVIOUS
  <2>1. PICK n \in Bad : \A m \in Bad : n <= m
    BY LeastNatural
  <2>2. n \in Nat /\ n # 0 /\ ~ \E g : Solves(q, e, g, n)
    BY <1>2, <2>1
  <2>3. n - 1 \in Nat /\ n - 1 \notin Bad
    BY <2>1, <2>2
  <2>4. PICK g : Solves(q, e, g, n - 1)
    BY <2>3
  <2>5. Solves(q, e, Bisection(q, e, g), (n - 1) + 1)
    BY <2>3, <2>4, NextSolves
  <2> QED
    BY <2>2, <2>5
<1>4. PICK g : Solves(q, e, g, Len(q))
  BY <1>3
<1> DEFINE h == Bisection(q, e, g)
<1>5. Solves(q, e, h, Len(q) + 1)
  BY <1>4, NextSolves
<1>6. h = Bisection(q, e, h)
  <2>1. \A r \in Ranges(q) : h[r] = Halved(q, e, h, r)
    BY <1>1, <1>5 DEF Solves
  <2>2. h = [r \in Ranges(q) |-> h[r]]
    BY DEF Bisection
  <2> HIDE DEF h
  <2> QED
    BY <2>1, <2>2 DEF Bisection
<1> QED
  BY <1>6

\* Search is the value on the whole array of a function that obeys the loop.
LEMMA SearchValue ==
  ASSUME NEW q, Len(q) \in Nat, NEW e
  PROVE  \E f : /\ Search(q, e) = f[[lo |-> 0, hi |-> Len(q)]]
                /\ \A r \in Ranges(q) : f[r] = Halved(q, e, f, r)
<1> DEFINE f == CHOOSE g : g = Bisection(q, e, g)
<1>1. f = Bisection(q, e, f)
  BY BisectionExists
<1>2. Search(q, e) = f[[lo |-> 0, hi |-> Len(q)]]
  BY SearchIsBisection
<1> HIDE DEF f
<1>3. \A r \in Ranges(q) : f[r] = Halved(q, e, f, r)
  BY <1>1, BisectionValue
<1> QED
  BY <1>2, <1>3

\* The order of the entries is total ...
LEMMA GoesAfterTotal ==
  ASSUME NEW a \in Entries, NEW b \in Entries
  PROVE  GoesAfter(a, b) \/ GoesAfter(b, a)
BY TimesAssumption DEF GoesAfter, Before, SamePriority, Rank, Entries

\* ... and transitive.
LEMMA GoesAfterTransitive ==
  ASSUME NEW a \in Entries, NEW b \in Entries, NEW c \in Entries, GoesAfter(a, b), GoesAfter(b, c)
  PROVE  GoesAfter(a, c)
BY TimesAssumption DEF GoesAfter, Before, SamePriority, Rank, Entries

\* PendingSorted, for any array.
Sorted(q) == \A i, j \in DOMAIN q : i < j => GoesAfter(q[j], q[i])

\* p splits q at the place of e.
Splits(q, e, p) ==
  /\ \A i \in 1 .. p : GoesAfter(e, q[i])
  /\ \A i \in p + 1 .. Len(q) : ~ GoesAfter(e, q[i])

\* The place of e is within r: the invariant of the loop.
Around(q, e, r) ==
  /\ \A i \in 1 .. r.lo : GoesAfter(e, q[i])
  /\ \A i \in r.hi + 1 .. Len(q) : ~ GoesAfter(e, q[i])

\* A round keeps the place of e within its range.
LEMMA HalfStaysAround ==
  ASSUME NEW q \in Seq(Entries), NEW e \in Entries, Sorted(q),
         NEW r \in Ranges(q), r.lo < r.hi, Around(q, e, r)
  PROVE  LET mid == (r.lo + r.hi) \div 2
         IN  IF GoesAfter(e, q[mid + 1]) THEN Around(q, e, [r EXCEPT !.lo = mid + 1])
             ELSE Around(q, e, [r EXCEPT !.hi = mid])
<1> DEFINE mid == (r.lo + r.hi) \div 2
<1>0. Len(q) \in Nat /\ DOMAIN q = 1 .. Len(q) /\ \A i \in 1 .. Len(q) : q[i] \in Entries
  OBVIOUS
<1>1. /\ mid \in Nat /\ r.lo <= mid /\ mid < r.hi
      /\ [r EXCEPT !.lo = mid + 1] = [lo |-> mid + 1, hi |-> r.hi]
      /\ [r EXCEPT !.hi = mid] = [lo |-> r.lo, hi |-> mid]
  BY <1>0, Middle
<1> HIDE DEF mid
<1>2. r.lo \in Nat /\ r.hi \in Nat /\ r.hi <= Len(q) /\ mid + 1 \in 1 .. Len(q)
  BY <1>0, <1>1 DEF Ranges
<1>3. CASE GoesAfter(e, q[mid + 1])
  <2>1. ASSUME NEW i \in 1 .. mid + 1
        PROVE  GoesAfter(e, q[i])
    <3>1. CASE i = mid + 1
      BY <1>3, <3>1
    <3>2. CASE i # mid + 1
      <4>1. i \in 1 .. Len(q) /\ i < mid + 1
        BY <1>1, <1>2, <3>2
      <4>2. GoesAfter(q[mid + 1], q[i])
        BY <1>0, <1>2, <4>1 DEF Sorted
      <4> QED
        BY <1>0, <1>2, <1>3, <4>1, <4>2, GoesAfterTransitive
    <3> QED
      BY <3>1, <3>2
  <2>2. Around(q, e, [lo |-> mid + 1, hi |-> r.hi])
    BY <2>1 DEF Around
  <2> QED
    BY <1>1, <1>3, <2>2 DEF mid
<1>4. CASE ~ GoesAfter(e, q[mid + 1])
  <2>1. ASSUME NEW i \in mid + 1 .. Len(q)
        PROVE  ~ GoesAfter(e, q[i])
    <3>1. CASE i = mid + 1
      BY <1>4, <3>1
    <3>2. CASE i # mid + 1
      <4>1. i \in 1 .. Len(q) /\ mid + 1 < i
        BY <1>1, <1>2, <3>2
      <4>2. GoesAfter(q[i], q[mid + 1])
        BY <1>0, <1>2, <4>1 DEF Sorted
      <4> QED
        BY <1>0, <1>2, <1>4, <4>1, <4>2, GoesAfterTransitive
    <3> QED
      BY <3>1, <3>2
  <2>2. Around(q, e, [lo |-> r.lo, hi |-> mid])
    BY <2>1 DEF Around
  <2> QED
    BY <1>1, <1>4, <2>2 DEF mid
<1> QED
  BY <1>3, <1>4

\* The binary search finds the place: everything up to it goes before e,
\* nothing after it does.
LEMMA SearchSplits ==
  ASSUME NEW q \in Seq(Entries), NEW e \in Entries, Sorted(q)
  PROVE  Search(q, e) \in 0 .. Len(q) /\ Splits(q, e, Search(q, e))
<1>0. Len(q) \in Nat
  OBVIOUS
<1>1. PICK f : /\ Search(q, e) = f[[lo |-> 0, hi |-> Len(q)]]
               /\ \A r \in Ranges(q) : f[r] = Halved(q, e, f, r)
  BY <1>0, SearchValue
<1> DEFINE Right(r) == f[r] \in 0 .. Len(q) /\ Splits(q, e, f[r])
           Proper == {r \in Ranges(q) : r.lo <= r.hi /\ Around(q, e, r)}
           Bad == {n \in Nat : \E r \in Proper : Width(r) = n /\ ~ Right(r)}
<1>2. Bad = {}
  <2> SUFFICES ASSUME Bad # {}
               PROVE  FALSE
    OBVIOUS
  <2>1. PICK n \in Bad : \A m \in Bad : n <= m
    BY LeastNatural
  <2>2. PICK r \in Proper : Width(r) = n /\ ~ Right(r)
    BY <2>1
  <2>3. /\ r \in Ranges(q) /\ r.lo <= r.hi /\ Around(q, e, r) /\ f[r] = Halved(q, e, f, r)
        /\ r.lo \in 0 .. Len(q) /\ r.hi \in 0 .. Len(q)
    BY <1>1, <2>2 DEF Ranges
  <2>4. CASE r.lo = r.hi
    <3>1. f[r] = r.lo
      BY <1>0, <2>3, <2>4 DEF Halved
    <3>2. Splits(q, e, r.lo)
      BY <2>3, <2>4 DEF Splits, Around
    <3> QED
      BY <2>2, <2>3, <3>1, <3>2
  <2>5. CASE r.lo < r.hi
    <3> DEFINE mid == (r.lo + r.hi) \div 2
               s == IF GoesAfter(e, q[mid + 1]) THEN [r EXCEPT !.lo = mid + 1] ELSE [r EXCEPT !.hi = mid]
    <3>1. /\ mid \in Nat /\ r.lo <= mid /\ mid < r.hi
          /\ [r EXCEPT !.lo = mid + 1] \in Ranges(q) /\ [r EXCEPT !.hi = mid] \in Ranges(q)
          /\ [r EXCEPT !.lo = mid + 1] = [lo |-> mid + 1, hi |-> r.hi]
          /\ [r EXCEPT !.hi = mid] = [lo |-> r.lo, hi |-> mid]
      BY <1>0, <2>3, <2>5, Middle
    <3>2. Around(q, e, s)
      BY <2>3, <2>5, HalfStaysAround
    <3>3. f[r] = f[s]
      BY <1>0, <2>3, <2>5 DEF Halved
    <3> HIDE DEF mid
    <3>4. s \in Ranges(q) /\ s.lo <= s.hi /\ Width(s) \in Nat /\ Width(s) < n
      BY <1>0, <2>2, <2>3, <3>1 DEF Width
    <3> HIDE DEF s
    <3>5. s \in Proper /\ Width(s) \notin Bad
      BY <2>1, <3>2, <3>4
    <3>6. Right(s)
      BY <3>4, <3>5
    <3> QED
      BY <2>2, <3>3, <3>6
  <2> QED
    BY <1>0, <2>3, <2>4, <2>5
<1> DEFINE all == [lo |-> 0, hi |-> Len(q)]
<1>3. all \in Proper /\ Width(all) \in Nat
  BY <1>0 DEF Ranges, Around, Width
<1>4. Right(all)
  BY <1>2, <1>3
<1> QED
  BY <1>1, <1>4

\* What an insert makes of an array.
LEMMA Inserted ==
  ASSUME NEW q \in Seq(Entries), NEW e \in Entries, NEW p \in 0 .. Len(q)
  PROVE  LET t == InsertAt(q, p + 1, e)
         IN  /\ t \in Seq(Entries) /\ Len(t) = Len(q) + 1
             /\ \A i \in 1 .. p : t[i] = q[i]
             /\ t[p + 1] = e
             /\ \A i \in p + 2 .. Len(q) + 1 : t[i] = q[i - 1]
<1> DEFINE a == SubSeq(q, 1, (p + 1) - 1)
           b == SubSeq(q, p + 1, Len(q))
           t == InsertAt(q, p + 1, e)
<1>0. Len(q) \in Nat /\ p \in Nat /\ p <= Len(q) /\ (p + 1) - 1 = p
  OBVIOUS
<1>1. a \in Seq(Entries) /\ Len(a) = p /\ \A i \in 1 .. p : a[i] = q[i]
  BY <1>0
<1>2. b \in Seq(Entries) /\ Len(b) = Len(q) - p /\ \A i \in 1 .. Len(q) - p : b[i] = q[p + i]
  BY <1>0
<1>3. t = (a \o <<e>>) \o b
  BY DEF InsertAt
<1> HIDE DEF a, b, t
<1> DEFINE c == a \o <<e>>
<1>4. c \in Seq(Entries) /\ Len(c) = p + 1 /\ (\A i \in 1 .. p : c[i] = q[i]) /\ c[p + 1] = e
  BY <1>0, <1>1
<1>5. t = c \o b
  BY <1>3
<1> HIDE DEF c
<1>6. t \in Seq(Entries) /\ Len(t) = Len(q) + 1
  BY <1>0, <1>2, <1>4, <1>5
<1>7. \A i \in 1 .. p : t[i] = q[i]
  BY <1>0, <1>2, <1>4, <1>5
<1>8. t[p + 1] = e
  BY <1>0, <1>2, <1>4, <1>5
<1>9. ASSUME NEW i \in p + 2 .. Len(q) + 1
      PROVE  t[i] = q[i - 1]
  <2>1. i - (p + 1) \in 1 .. Len(q) - p /\ p + (i - (p + 1)) = i - 1
    BY <1>0
  <2>2. t[i] = b[i - (p + 1)]
    BY <1>0, <1>2, <1>4, <1>5, <2>1
  <2> QED
    BY <1>2, <2>1, <2>2
<1> QED
  BY <1>6, <1>7, <1>8, <1>9 DEF t

\* insertSorted keeps the array sorted, and adds the entry and nothing else.
LEMMA InsertKeepsSorted ==
  ASSUME NEW q \in Seq(Entries), NEW e \in Entries, Sorted(q)
  PROVE  LET t == InsertAt(q, Search(q, e) + 1, e)
         IN  /\ t \in Seq(Entries) /\ Sorted(t)
             /\ \A x : (\E i \in DOMAIN t : t[i] = x) <=> (x = e \/ \E i \in DOMAIN q : q[i] = x)
<1> DEFINE p == Search(q, e)
           t == InsertAt(q, p + 1, e)
<1>0. Len(q) \in Nat /\ DOMAIN q = 1 .. Len(q) /\ \A i \in 1 .. Len(q) : q[i] \in Entries
  OBVIOUS
<1>1. p \in 0 .. Len(q) /\ Splits(q, e, p)
  BY SearchSplits
<1> HIDE DEF p
<1>2. /\ t \in Seq(Entries) /\ Len(t) = Len(q) + 1
      /\ \A i \in 1 .. p : t[i] = q[i]
      /\ t[p + 1] = e
      /\ \A i \in p + 2 .. Len(q) + 1 : t[i] = q[i - 1]
  BY <1>1, Inserted
<1> HIDE DEF t
<1>3. DOMAIN t = 1 .. Len(q) + 1 /\ p \in Nat /\ p <= Len(q)
  BY <1>0, <1>1, <1>2
<1>4. ASSUME NEW i \in DOMAIN t, NEW j \in DOMAIN t, i < j
      PROVE  GoesAfter(t[j], t[i])
  <2>0. i \in Nat /\ j \in Nat /\ i >= 1 /\ j <= Len(q) + 1
    BY <1>0, <1>3
  <2>1. CASE i <= p /\ j <= p
    BY <1>0, <1>2, <1>3, <1>4, <2>0, <2>1 DEF Sorted
  <2>2. CASE i <= p /\ j = p + 1
    BY <1>1, <1>2, <2>0, <2>2 DEF Splits
  <2>3. CASE i <= p /\ j > p + 1
    <3>1. i \in DOMAIN q /\ j - 1 \in DOMAIN q /\ i < j - 1 /\ t[i] = q[i] /\ t[j] = q[j - 1]
      BY <1>0, <1>2, <1>3, <2>0, <2>3
    <3> QED
      BY <3>1 DEF Sorted
  <2>4. CASE i = p + 1
    <3>1. j - 1 \in 1 .. Len(q) /\ j - 1 \in p + 1 .. Len(q) /\ t[i] = e /\ t[j] = q[j - 1]
      BY <1>0, <1>2, <1>3, <1>4, <2>0, <2>4
    <3>2. ~ GoesAfter(e, q[j - 1])
      BY <1>1, <3>1 DEF Splits
    <3> QED
      BY <1>0, <3>1, <3>2, GoesAfterTotal
  <2>5. CASE i > p + 1
    <3>1. i - 1 \in DOMAIN q /\ j - 1 \in DOMAIN q /\ i - 1 < j - 1 /\ t[i] = q[i - 1] /\ t[j] = q[j - 1]
      BY <1>0, <1>2, <1>3, <1>4, <2>0, <2>5
    <3> QED
      BY <3>1 DEF Sorted
  <2> QED
    BY <1>3, <1>4, <2>0, <2>1, <2>2, <2>3, <2>4, <2>5
<1>5. ASSUME NEW x
      PROVE  (\E i \in DOMAIN t : t[i] = x) <=> (x = e \/ \E i \in DOMAIN q : q[i] = x)
  <2>1. ASSUME NEW i \in DOMAIN t, t[i] = x
        PROVE  x = e \/ \E k \in DOMAIN q : q[k] = x
    <3>0. i \in Nat /\ i >= 1 /\ i <= Len(q) + 1
      BY <1>0, <1>3
    <3>1. CASE i <= p
      BY <1>0, <1>2, <1>3, <2>1, <3>0, <3>1
    <3>2. CASE i = p + 1
      BY <1>2, <2>1, <3>2
    <3>3. CASE i > p + 1
      <4>1. i - 1 \in DOMAIN q /\ t[i] = q[i - 1]
        BY <1>0, <1>2, <1>3, <3>0, <3>3
      <4> QED
        BY <2>1, <4>1
    <3> QED
      BY <1>3, <3>0, <3>1, <3>2, <3>3
  <2>2. p + 1 \in DOMAIN t /\ t[p + 1] = e
    BY <1>0, <1>2, <1>3
  <2>3. ASSUME NEW k \in DOMAIN q, q[k] = x
        PROVE  \E i \in DOMAIN t : t[i] = x
    <3>0. k \in Nat /\ k >= 1 /\ k <= Len(q)
      BY <1>0
    <3>1. CASE k <= p
      <4>1. k \in DOMAIN t /\ t[k] = q[k]
        BY <1>0, <1>2, <1>3, <3>0, <3>1
      <4> QED
        BY <2>3, <4>1
    <3>2. CASE k > p
      <4>1. k + 1 \in DOMAIN t /\ k + 1 \in p + 2 .. Len(q) + 1 /\ (k + 1) - 1 = k
        BY <1>0, <1>3, <3>0, <3>2
      <4>2. t[k + 1] = q[k]
        BY <1>2, <4>1
      <4> QED
        BY <2>3, <4>1, <4>2
    <3> QED
      BY <1>3, <3>0, <3>1, <3>2
  <2> QED
    BY <2>1, <2>2, <2>3
<1> QED
  BY <1>2, <1>4, <1>5 DEF Sorted, t, p

-----------------------------------------------------------------------------
(* The adapter *)

\* The inductive invariant.
QueueInv == TypeOK /\ PendingSorted /\ NoResidue

\* The array holds an entry of the item.
Queued(k) == \E i \in DOMAIN pending : pending[i].key = k

\* A retry carries fewer than maxRetries attempts.
Lawful(e) == e.reason = "retry" => e.attempts < MaxRetries

\* What insertSorted does to the array of the adapter.
LEMMA InsertStep ==
  ASSUME TypeOK, PendingSorted, NEW e \in Entries, Lawful(e), InsertSorted(e)
  PROVE  /\ pending' \in Seq(Entries)
         /\ \A i \in DOMAIN pending' : Lawful(pending'[i])
         /\ PendingSorted'
         /\ Queued(e.key)'
         /\ \A k : Queued(k) => Queued(k)'
<1>1. pending \in Seq(Entries) /\ Sorted(pending) /\ \A i \in DOMAIN pending : Lawful(pending[i])
  BY DEF TypeOK, PendingSorted, Sorted, Lawful
<1> DEFINE t == InsertAt(pending, Search(pending, e) + 1, e)
<1>2. /\ t \in Seq(Entries) /\ Sorted(t)
      /\ \A x : (\E i \in DOMAIN t : t[i] = x) <=> (x = e \/ \E i \in DOMAIN pending : pending[i] = x)
  BY <1>1, InsertKeepsSorted
<1>8. pending' = t
  BY DEF InsertSorted
<1> HIDE DEF t
<1>3. /\ pending' \in Seq(Entries) /\ Sorted(pending')
      /\ \A x : (\E i \in DOMAIN pending' : pending'[i] = x) <=> (x = e \/ \E i \in DOMAIN pending : pending[i] = x)
  BY <1>2, <1>8
<1>4. \A i \in DOMAIN pending' : Lawful(pending'[i])
  BY <1>1, <1>3
<1>5. PendingSorted'
  BY <1>3 DEF PendingSorted, Sorted
<1>6. Queued(e.key)'
  BY <1>3 DEF Queued
<1>7. ASSUME NEW k, Queued(k)
      PROVE  Queued(k)'
  <2>1. PICK i \in DOMAIN pending : pending[i].key = k
    BY <1>7 DEF Queued
  <2>2. PICK j \in DOMAIN pending' : pending'[j] = pending[i]
    BY <1>3
  <2> QED
    BY <2>1, <2>2 DEF Queued
<1> QED
  BY <1>3, <1>4, <1>5, <1>6, <1>7

\* What an owner of a claim has in its hands.
LEMMA HeldClaim ==
  ASSUME TypeOK, NEW w \in Workers, OwnsClaim(w)
  PROVE  /\ held[w] \in [key : Items, enqueuedAt : Times] /\ claimed[w] \in Entries
         /\ claimed[w].key = held[w].key /\ held[w].key \in Items /\ claimed[w].attempts \in Nat
BY RetriesAssumption DEF TypeOK, OwnsClaim, ClaimOn, Entries

\* enqueue() and enqueueIfAbsent() keep the invariant.
LEMMA EnqueueInv ==
  ASSUME QueueInv, NEW k \in Items, NEW reason \in {"new", "resume"}, NEW now \in Times, NEW at \in Times,
         NEW attempts \in 0 .. MaxCount, EnqueueWith(k, reason, now, at, attempts)
  PROVE  QueueInv'
<1> DEFINE e == Entry(k, reason, now, at, attempts)
<1>1. e \in Entries /\ Lawful(e) /\ e.key = k
  BY RetriesAssumption DEF Entry, Entries, Lawful
<1>2. /\ InsertSorted(e) /\ inFlightSet' = inFlightSet \cup {k}
      /\ UNCHANGED <<claimed, deadLetter, attemptCounts, held>>
  BY DEF EnqueueWith
<1> HIDE DEF e
<1>3. /\ pending' \in Seq(Entries) /\ (\A i \in DOMAIN pending' : Lawful(pending'[i])) /\ PendingSorted'
      /\ Queued(k)' /\ \A x : Queued(x) => Queued(x)'
  BY <1>1, <1>2, InsertStep DEF QueueInv
<1>4. TypeOK'
  BY <1>2, <1>3 DEF QueueInv, TypeOK, Lawful
<1>5. ASSUME NEW x \in inFlightSet'
      PROVE  HasWork(x)'
  <2>1. CASE x = k
    BY <1>3, <2>1 DEF HasWork, Queued
  <2>2. CASE x # k
    <3>1. Queued(x) \/ \E w \in Workers : ClaimOn(w, x)
      BY <1>2, <1>5, <2>2 DEF QueueInv, NoResidue, HasWork, Queued
    <3>2. \A w \in Workers : ClaimOn(w, x) => ClaimOn(w, x)'
      BY <1>2 DEF ClaimOn
    <3>3. Queued(x)' \/ \E w \in Workers : ClaimOn(w, x)'
      BY <1>3, <3>1, <3>2
    <3> QED
      BY <3>3 DEF HasWork, Queued
  <2> QED
    BY <2>1, <2>2
<1> QED
  BY <1>3, <1>4, <1>5 DEF QueueInv, NoResidue

\* claim() keeps the invariant: the rest of a sorted array is sorted, and
\* the work of the entry it takes goes on as a claim.
LEMMA ClaimInv ==
  ASSUME QueueInv, NEW w \in Workers, Claim(w)
  PROVE  QueueInv'
<1>0. /\ pending \in Seq(Entries) /\ pending # <<>> /\ pending' = Tail(pending)
      /\ Head(pending) \in Entries /\ claimed[w] = None
      /\ claimed' = [claimed EXCEPT ![w] = Head(pending)]
      /\ claimed \in [Workers -> Entries \cup {None}]
      /\ UNCHANGED <<deadLetter, attemptCounts, inFlightSet>>
  BY DEF Claim, QueueInv, TypeOK
<1>1. /\ Len(pending) \in Nat \ {0} /\ DOMAIN pending = 1 .. Len(pending) /\ Head(pending) = pending[1]
      /\ pending' \in Seq(Entries) /\ Len(pending') = Len(pending) - 1
      /\ DOMAIN pending' = 1 .. Len(pending) - 1
      /\ \A i \in 1 .. Len(pending) - 1 : pending'[i] = pending[i + 1]
  BY <1>0
<1>2. \A i \in DOMAIN pending' : i + 1 \in DOMAIN pending /\ i \in Nat /\ pending'[i] = pending[i + 1]
  BY <1>1
<1>3. PendingSorted'
  <2> SUFFICES ASSUME NEW i \in DOMAIN pending', NEW j \in DOMAIN pending', i < j
               PROVE  GoesAfter(pending'[j], pending'[i])
    BY DEF PendingSorted, GoesAfter, Before, SamePriority
  <2>1. i + 1 < j + 1
    BY <1>2
  <2> QED
    BY <1>2, <2>1 DEF QueueInv, PendingSorted
<1>4. TypeOK'
  <2>1. \A i \in DOMAIN pending' : pending'[i].reason = "retry" => pending'[i].attempts < MaxRetries
    BY <1>2 DEF QueueInv, TypeOK
  <2>2. claimed' \in [Workers -> Entries \cup {None}]
    BY <1>0
  <2>3. held' \in [Workers -> [key : Items, enqueuedAt : Times] \cup {None}]
    BY <1>0 DEF Claim, QueueInv, TypeOK, Entries
  <2> QED
    BY <1>0, <1>1, <2>1, <2>2, <2>3 DEF QueueInv, TypeOK
<1>5. ASSUME NEW k \in inFlightSet'
      PROVE  HasWork(k)'
  <2>1. HasWork(k)
    BY <1>0, <1>5 DEF QueueInv, NoResidue
  <2>2. CASE \E v \in Workers : ClaimOn(v, k)
    <3>1. PICK v \in Workers : ClaimOn(v, k)
      BY <2>2
    <3>2. v # w /\ claimed'[v] = claimed[v]
      BY <1>0, <3>1 DEF ClaimOn
    <3> QED
      BY <3>1, <3>2 DEF HasWork, ClaimOn
  <2>3. CASE \E i \in DOMAIN pending : pending[i].key = k
    <3>1. PICK i \in DOMAIN pending : pending[i].key = k
      BY <2>3
    <3>2. CASE i = 1
      <4>1. claimed'[w] = Head(pending) /\ claimed'[w] # None
        BY <1>0, NoneAssumption
      <4>2. ClaimOn(w, k)'
        BY <1>1, <3>1, <3>2, <4>1 DEF ClaimOn
      <4> QED
        BY <4>2 DEF HasWork
    <3>3. CASE i # 1
      <4>1. i - 1 \in DOMAIN pending' /\ pending'[i - 1] = pending[i]
        BY <1>1, <3>3
      <4> QED
        BY <3>1, <4>1 DEF HasWork
    <3> QED
      BY <3>2, <3>3
  <2> QED
    BY <2>1, <2>2, <2>3 DEF HasWork
<1> QED
  BY <1>3, <1>4, <1>5 DEF QueueInv, NoResidue

\* release() for a retry and requeueForResume(): the claim becomes an entry.
LEMMA RequeueInv ==
  ASSUME QueueInv, NEW w \in Workers, OwnsClaim(w), NEW e \in Entries, Lawful(e), e.key = held[w].key,
         InsertSorted(e), claimed' = [claimed EXCEPT ![w] = None],
         UNCHANGED <<deadLetter, inFlightSet, held>>,
         attemptCounts' \in [Items -> 0 .. MaxRetries + MaxCount + 1]
  PROVE  QueueInv'
<1>1. /\ pending' \in Seq(Entries) /\ (\A i \in DOMAIN pending' : Lawful(pending'[i])) /\ PendingSorted'
      /\ Queued(e.key)' /\ \A x : Queued(x) => Queued(x)'
  BY InsertStep DEF QueueInv
<1>2. claimed \in [Workers -> Entries \cup {None}]
  BY DEF QueueInv, TypeOK
<1>3. TypeOK'
  BY <1>1, <1>2 DEF QueueInv, TypeOK, Lawful
<1>4. ASSUME NEW k \in inFlightSet'
      PROVE  HasWork(k)'
  <2>1. CASE k = e.key
    BY <1>1, <2>1 DEF HasWork, Queued
  <2>2. CASE k # e.key /\ Queued(k)
    BY <1>1, <2>2 DEF HasWork, Queued
  <2>3. ASSUME NEW v \in Workers, ClaimOn(v, k), k # e.key
        PROVE  HasWork(k)'
    <3>1. v # w
      BY <2>3 DEF OwnsClaim, ClaimOn
    <3>2. claimed'[v] = claimed[v]
      BY <1>2, <3>1
    <3> QED
      BY <2>3, <3>2 DEF HasWork, ClaimOn
  <2> QED
    BY <1>4, <2>1, <2>2, <2>3 DEF QueueInv, NoResidue, HasWork, Queued
<1> QED
  BY <1>1, <1>3, <1>4 DEF QueueInv, NoResidue

\* The dead-letter branch of release() and complete(): the claim goes, and with it the index entry.
LEMMA DropInv ==
  ASSUME QueueInv, NEW w \in Workers, held[w] # None,
         claimed' = [claimed EXCEPT ![w] = IF OwnsClaim(w) THEN None ELSE @],
         inFlightSet' = inFlightSet \ {held[w].key}, deadLetter' \subseteq Items,
         attemptCounts' \in [Items -> 0 .. MaxRetries + MaxCount + 1],
         UNCHANGED <<pending, held>>
  PROVE  QueueInv'
<1>1. claimed \in [Workers -> Entries \cup {None}]
  BY DEF QueueInv, TypeOK
<1>2. TypeOK'
  BY <1>1 DEF QueueInv, TypeOK
<1>3. PendingSorted'
  BY DEF QueueInv, PendingSorted, GoesAfter, Before, SamePriority
<1>4. ASSUME NEW k \in inFlightSet'
      PROVE  HasWork(k)'
  <2>1. HasWork(k) /\ k # held[w].key
    BY <1>4 DEF QueueInv, NoResidue
  <2>2. ASSUME NEW v \in Workers, ClaimOn(v, k)
        PROVE  ClaimOn(v, k)'
    <3>1. claimed'[v] = claimed[v]
      BY <1>1, <2>1, <2>2 DEF OwnsClaim, ClaimOn
    <3> QED
      BY <2>2, <3>1 DEF ClaimOn
  <2> QED
    BY <2>1, <2>2 DEF HasWork
<1> QED
  BY <1>2, <1>3, <1>4 DEF QueueInv, NoResidue

\* Every step keeps the invariant.
LEMMA QueueInvStep == QueueInv /\ [Next]_vars => QueueInv'
<1> SUFFICES ASSUME QueueInv, [Next]_vars
             PROVE  QueueInv'
  OBVIOUS
<1>0. /\ attemptCounts \in [Items -> 0 .. MaxRetries + MaxCount + 1] /\ deadLetter \subseteq Items
      /\ held \in [Workers -> [key : Items, enqueuedAt : Times] \cup {None}] /\ TypeOK
  BY DEF QueueInv, TypeOK
<1>1. ASSUME NEW k \in Items, NEW reason \in {"new", "resume"}, NEW now \in Times, NEW at \in Times,
             Enqueue(k, reason, now, at) \/ EnqueueIfAbsent(k, reason, now, at)
      PROVE  QueueInv'
  <2>1. CASE Enqueue(k, reason, now, at)
    <3>1. attemptCounts[k] \in 0 .. MaxCount /\ EnqueueWith(k, reason, now, at, attemptCounts[k])
      BY <1>0, <2>1, RetriesAssumption DEF Enqueue
    <3> QED
      BY <3>1, EnqueueInv
  <2>2. CASE EnqueueIfAbsent(k, reason, now, at)
    <3>1. 0 \in 0 .. MaxCount /\ EnqueueWith(k, reason, now, at, 0)
      BY <2>2, RetriesAssumption DEF EnqueueIfAbsent
    <3> QED
      BY <3>1, EnqueueInv
  <2> QED
    BY <1>1, <2>1, <2>2
<1>2. ASSUME NEW w \in Workers, Claim(w)
      PROVE  QueueInv'
  BY <1>2, ClaimInv
<1>3. ASSUME NEW w \in Workers, ReleaseDeadLetter(w)
      PROVE  QueueInv'
  <2>1. OwnsClaim(w) /\ held[w] # None
    BY <1>3 DEF ReleaseDeadLetter, OwnsClaim
  <2>2. held[w].key \in Items /\ claimed[w].attempts \in 0 .. MaxRetries + MaxCount
    BY <1>0, <2>1, HeldClaim DEF Entries
  <2>3. attemptCounts' \in [Items -> 0 .. MaxRetries + MaxCount + 1]
    BY <1>0, <1>3, <2>2, RetriesAssumption DEF ReleaseDeadLetter
  <2>4. claimed' = [claimed EXCEPT ![w] = IF OwnsClaim(w) THEN None ELSE @]
    BY <1>3, <2>1 DEF ReleaseDeadLetter
  <2>5. /\ inFlightSet' = inFlightSet \ {held[w].key} /\ deadLetter' \subseteq Items
        /\ UNCHANGED <<pending, held>>
    BY <1>0, <1>3, <2>2 DEF ReleaseDeadLetter
  <2> QED
    BY <2>1, <2>3, <2>4, <2>5, DropInv
<1>4. ASSUME NEW w \in Workers, Complete(w)
      PROVE  QueueInv'
  <2>1. held[w] # None /\ held[w].key \in Items
    BY <1>0, <1>4 DEF Complete
  <2>2. attemptCounts' \in [Items -> 0 .. MaxRetries + MaxCount + 1]
    BY <1>0, <1>4, <2>1, RetriesAssumption DEF Complete
  <2>3. /\ claimed' = [claimed EXCEPT ![w] = IF OwnsClaim(w) THEN None ELSE @]
        /\ inFlightSet' = inFlightSet \ {held[w].key} /\ deadLetter' \subseteq Items
        /\ UNCHANGED <<pending, held>>
    BY <1>0, <1>4 DEF Complete
  <2> QED
    BY <2>1, <2>2, <2>3, DropInv
<1>5. ASSUME NEW w \in Workers, Forget(w)
      PROVE  QueueInv'
  BY <1>5 DEF Forget, QueueInv, TypeOK, PendingSorted, GoesAfter, Before, SamePriority,
              NoResidue, HasWork, ClaimOn
<1>6. ASSUME NEW w \in Workers, NEW now \in Times, ReleaseRetry(w, now)
      PROVE  QueueInv'
  <2> DEFINE e == Entry(held[w].key, "retry", now, held[w].enqueuedAt, claimed[w].attempts + 1)
  <2>1. /\ OwnsClaim(w) /\ claimed[w].attempts + 1 < MaxRetries /\ InsertSorted(e)
        /\ claimed' = [claimed EXCEPT ![w] = None] /\ UNCHANGED <<deadLetter, inFlightSet, held>>
        /\ attemptCounts' = [attemptCounts EXCEPT ![held[w].key] = claimed[w].attempts + 1]
    BY <1>6 DEF ReleaseRetry
  <2>2. /\ held[w] \in [key : Items, enqueuedAt : Times] /\ held[w].key \in Items
        /\ claimed[w].attempts \in Nat
    BY <1>0, <2>1, HeldClaim
  <2>3. e \in Entries /\ Lawful(e) /\ e.key = held[w].key
    BY <2>1, <2>2, RetriesAssumption DEF Entry, Entries, Lawful
  <2>4. attemptCounts' \in [Items -> 0 .. MaxRetries + MaxCount + 1]
    BY <1>0, <2>1, <2>2, RetriesAssumption
  <2> HIDE DEF e
  <2> QED
    BY <2>1, <2>3, <2>4, RequeueInv
<1>7. ASSUME NEW w \in Workers, NEW now \in Times, RequeueForResume(w, now)
      PROVE  QueueInv'
  <2> DEFINE e == Entry(held[w].key, "resume", now, held[w].enqueuedAt, claimed[w].attempts)
  <2>1. /\ OwnsClaim(w) /\ InsertSorted(e) /\ claimed' = [claimed EXCEPT ![w] = None]
        /\ UNCHANGED <<deadLetter, attemptCounts, inFlightSet, held>>
    BY <1>7 DEF RequeueForResume
  <2>2. held[w] \in [key : Items, enqueuedAt : Times] /\ claimed[w] \in Entries
    BY <1>0, <2>1, HeldClaim
  <2>3. e \in Entries /\ Lawful(e) /\ e.key = held[w].key
    BY <2>2 DEF Entry, Entries, Lawful
  <2>4. attemptCounts' \in [Items -> 0 .. MaxRetries + MaxCount + 1]
    BY <1>0, <2>1
  <2> HIDE DEF e
  <2> QED
    BY <2>1, <2>3, <2>4, RequeueInv
<1>8. CASE UNCHANGED vars
  BY <1>8 DEF vars, QueueInv, TypeOK, PendingSorted, GoesAfter, Before, SamePriority,
              NoResidue, HasWork, ClaimOn
<1> QED
  BY <1>1, <1>2, <1>3, <1>4, <1>5, <1>6, <1>7, <1>8 DEF Next

\* The inductive invariant of the in-memory adapter.
THEOREM QueueInvariant == Spec => []QueueInv
<1>1. Init => QueueInv
  <2> SUFFICES ASSUME Init
               PROVE  QueueInv
    OBVIOUS
  <2>1. TypeOK
    BY RetriesAssumption DEF Init, TypeOK
  <2>2. PendingSorted /\ NoResidue
    BY DEF Init, PendingSorted, NoResidue
  <2> QED
    BY <2>1, <2>2 DEF QueueInv
<1> QED
  BY <1>1, QueueInvStep, PTL DEF Spec

\* Every variable of the adapter keeps its shape, and a retry never carries
\* maxRetries attempts (release()).
THEOREM InMemoryTypeCorrect == Spec => []TypeOK
<1>1. QueueInv => TypeOK
  BY DEF QueueInv
<1> QED
  BY <1>1, QueueInvariant, PTL

\* insertSorted keeps the array sorted by priority and then by enqueuedAt,
\* for any clock readings, so claim() returns an entry of the best priority.
THEOREM PendingSortedHolds == Spec => []PendingSorted
<1>1. QueueInv => PendingSorted
  BY DEF QueueInv
<1> QED
  BY <1>1, QueueInvariant, PTL

\* No key is in the in-flight index without an entry or a claim, which is
\* why reconcileInFlight of this adapter may do nothing.
THEOREM NoResidueHolds == Spec => []NoResidue
<1>1. QueueInv => NoResidue
  BY DEF QueueInv
<1> QED
  BY <1>1, QueueInvariant, PTL

-----------------------------------------------------------------------------
(* The contract *)

\* The copies of an item: its places in the array, and the workers that
\* have claimed it.
KeyPlaces(q, k) == {i \in DOMAIN q : q[i].key = k}
Claimants(k)    == {w \in Workers : ClaimOn(w, k)}
Busy            == {w \in Workers : claimed[w] # None}

\* Sets with a one-to-one correspondence have the same number of members.
LEMMA Renumbered ==
  ASSUME NEW S, NEW T, IsFiniteSet(S), NEW f \in [S -> T],
         \A a, b \in S : f[a] = f[b] => a = b,
         \A y \in T : \E x \in S : f[x] = y
  PROVE  IsFiniteSet(T) /\ Cardinality(T) = Cardinality(S)
<1>1. f \in Bijection(S, T)
  BY DEF Bijection, Injection, Surjection, IsInjective
<1>2. ExistsBijection(S, T)
  BY <1>1 DEF ExistsBijection
<1> QED
  BY <1>2, FS_Bijection

\* An item has finitely many places in the array.
LEMMA PlacesFinite ==
  ASSUME NEW q \in Seq(Entries), NEW k
  PROVE  IsFiniteSet(KeyPlaces(q, k)) /\ Cardinality(KeyPlaces(q, k)) \in Nat
<1>1. IsFiniteSet(1 .. Len(q)) /\ KeyPlaces(q, k) \in SUBSET (1 .. Len(q))
  BY FS_Interval DEF KeyPlaces
<1> QED
  BY <1>1, FS_Subset, FS_CardinalityType

\* An insert adds one place to those of its key and none to the others.
LEMMA InsertCounts ==
  ASSUME NEW q \in Seq(Entries), NEW e \in Entries, NEW p \in 0 .. Len(q), NEW k
  PROVE  Cardinality(KeyPlaces(InsertAt(q, p + 1, e), k)) =
           Cardinality(KeyPlaces(q, k)) + (IF e.key = k THEN 1 ELSE 0)
<1> DEFINE t == InsertAt(q, p + 1, e)
           S == KeyPlaces(q, k)
           T == KeyPlaces(t, k) \ {p + 1}
           f == [i \in S |-> IF i <= p THEN i ELSE i + 1]
<1>1. /\ t \in Seq(Entries) /\ Len(t) = Len(q) + 1
      /\ \A i \in 1 .. p : t[i] = q[i]
      /\ t[p + 1] = e
      /\ \A i \in p + 2 .. Len(q) + 1 : t[i] = q[i - 1]
  BY Inserted
<1> HIDE DEF t
<1>2. Len(q) \in Nat /\ p \in Nat /\ p <= Len(q) /\ DOMAIN q = 1 .. Len(q) /\ DOMAIN t = 1 .. Len(q) + 1
  BY <1>1
<1>3. ASSUME NEW i \in S
      PROVE  /\ i \in Nat /\ i >= 1 /\ i <= Len(q) /\ q[i].key = k
             /\ f[i] \in T /\ f[i] = IF i <= p THEN i ELSE i + 1
  <2>1. i \in Nat /\ i >= 1 /\ i <= Len(q) /\ q[i].key = k /\ f[i] = IF i <= p THEN i ELSE i + 1
    BY <1>2 DEF KeyPlaces
  <2> HIDE DEF f
  <2>2. CASE i <= p
    BY <1>1, <1>2, <2>1, <2>2 DEF KeyPlaces
  <2>3. CASE i > p
    <3>1. i + 1 \in p + 2 .. Len(q) + 1 /\ (i + 1) - 1 = i /\ f[i] = i + 1
      BY <1>2, <2>1, <2>3
    <3>2. t[i + 1] = q[i]
      BY <1>1, <3>1
    <3> QED
      BY <1>2, <2>1, <3>1, <3>2 DEF KeyPlaces
  <2> QED
    BY <1>2, <2>1, <2>2, <2>3
<1>4. ASSUME NEW y \in T
      PROVE  \E x \in S : f[x] = y
  <2>1. y \in Nat /\ y >= 1 /\ y <= Len(q) + 1 /\ y # p + 1 /\ t[y].key = k
    BY <1>2 DEF KeyPlaces
  <2>2. CASE y <= p
    <3>1. y \in S
      BY <1>1, <1>2, <2>1, <2>2 DEF KeyPlaces
    <3> QED
      BY <1>3, <2>2, <3>1
  <2>3. CASE y > p
    <3>1. y \in p + 2 .. Len(q) + 1 /\ y - 1 \in 1 .. Len(q) /\ ~ (y - 1 <= p) /\ (y - 1) + 1 = y
      BY <1>2, <2>1, <2>3
    <3>2. y - 1 \in S
      BY <1>1, <1>2, <2>1, <3>1 DEF KeyPlaces
    <3> QED
      BY <1>3, <3>1, <3>2
  <2> QED
    BY <1>2, <2>1, <2>2, <2>3
<1>5. f \in [S -> T]
  BY <1>3
<1>6. \A a, b \in S : f[a] = f[b] => a = b
  BY <1>2, <1>3
<1>7. IsFiniteSet(S) /\ Cardinality(S) \in Nat /\ IsFiniteSet(KeyPlaces(t, k)) /\ Cardinality(KeyPlaces(t, k)) \in Nat
  BY <1>1, PlacesFinite
<1> HIDE DEF f, S, T
<1>8. Cardinality(T) = Cardinality(S)
  BY <1>4, <1>5, <1>6, <1>7, Renumbered
<1>9. Cardinality(T) = IF p + 1 \in KeyPlaces(t, k) THEN Cardinality(KeyPlaces(t, k)) - 1
                       ELSE Cardinality(KeyPlaces(t, k))
  BY <1>7, FS_RemoveElement DEF T
<1>10. p + 1 \in KeyPlaces(t, k) <=> e.key = k
  BY <1>1, <1>2 DEF KeyPlaces
<1> QED
  BY <1>7, <1>8, <1>9, <1>10 DEF S, t

\* Taking the first entry removes one place of its key and none of the others.
LEMMA TailCounts ==
  ASSUME NEW q \in Seq(Entries), q # <<>>, NEW k
  PROVE  Cardinality(KeyPlaces(q, k)) =
           Cardinality(KeyPlaces(Tail(q), k)) + (IF Head(q).key = k THEN 1 ELSE 0)
<1> DEFINE t == Tail(q)
           S == KeyPlaces(t, k)
           T == KeyPlaces(q, k) \ {1}
           f == [i \in S |-> i + 1]
<1>1. /\ Len(q) \in Nat \ {0} /\ DOMAIN q = 1 .. Len(q) /\ Head(q) = q[1]
      /\ t \in Seq(Entries) /\ DOMAIN t = 1 .. Len(q) - 1
      /\ \A i \in 1 .. Len(q) - 1 : t[i] = q[i + 1]
  OBVIOUS
<1> HIDE DEF t
<1>3. ASSUME NEW i \in S
      PROVE  i \in Nat /\ f[i] \in T /\ f[i] = i + 1
  <2>1. i \in Nat /\ i >= 1 /\ i + 1 <= Len(q) /\ q[i + 1].key = k /\ f[i] = i + 1
    BY <1>1 DEF KeyPlaces
  <2> QED
    BY <1>1, <2>1 DEF KeyPlaces
<1>4. ASSUME NEW y \in T
      PROVE  \E x \in S : f[x] = y
  <2>1. y - 1 \in 1 .. Len(q) - 1 /\ (y - 1) + 1 = y /\ q[y].key = k
    BY <1>1 DEF KeyPlaces
  <2>2. y - 1 \in S
    BY <1>1, <2>1 DEF KeyPlaces
  <2> QED
    BY <1>3, <2>1, <2>2
<1>5. f \in [S -> T]
  BY <1>3
<1>6. \A a, b \in S : f[a] = f[b] => a = b
  BY <1>3
<1>7. IsFiniteSet(S) /\ Cardinality(S) \in Nat /\ IsFiniteSet(KeyPlaces(q, k)) /\ Cardinality(KeyPlaces(q, k)) \in Nat
  BY <1>1, PlacesFinite
<1> HIDE DEF f, S, T
<1>8. Cardinality(T) = Cardinality(S)
  BY <1>4, <1>5, <1>6, <1>7, Renumbered
<1>9. Cardinality(T) = IF 1 \in KeyPlaces(q, k) THEN Cardinality(KeyPlaces(q, k)) - 1
                       ELSE Cardinality(KeyPlaces(q, k))
  BY <1>7, FS_RemoveElement DEF T
<1>10. 1 \in KeyPlaces(q, k) <=> Head(q).key = k
  BY <1>1 DEF KeyPlaces
<1> QED
  BY <1>7, <1>8, <1>9, <1>10 DEF S, t

\* Only finitely many workers hold a claim at a time.
FewClaims == IsFiniteSet(Busy)

\* The two counts Copies adds are natural numbers.
LEMMA CopiesCounted ==
  ASSUME QueueInv, FewClaims, NEW k
  PROVE  /\ IsFiniteSet(Claimants(k)) /\ Cardinality(Claimants(k)) \in Nat
         /\ Cardinality(KeyPlaces(pending, k)) \in Nat
         /\ Copies(k) = Cardinality(KeyPlaces(pending, k)) + Cardinality(Claimants(k))
         /\ Copies(k) \in Nat
<1>1. Claimants(k) \in SUBSET Busy
  BY DEF Claimants, Busy, ClaimOn
<1>2. IsFiniteSet(Claimants(k)) /\ Cardinality(Claimants(k)) \in Nat
  BY <1>1, FS_Subset, FS_CardinalityType DEF FewClaims
<1>3. Cardinality(KeyPlaces(pending, k)) \in Nat
  BY PlacesFinite DEF QueueInv, TypeOK
<1>4. Copies(k) = Cardinality(KeyPlaces(pending, k)) + Cardinality(Claimants(k))
  BY DEF Copies, KeyPlaces, Claimants
<1> QED
  BY <1>2, <1>3, <1>4

\* insertSorted adds one copy to those of its key.
LEMMA InsertedPlaces ==
  ASSUME QueueInv, NEW e \in Entries, InsertSorted(e), NEW k
  PROVE  Cardinality(KeyPlaces(pending, k))' =
           Cardinality(KeyPlaces(pending, k)) + (IF e.key = k THEN 1 ELSE 0)
<1>1. pending \in Seq(Entries) /\ Sorted(pending)
  BY DEF QueueInv, TypeOK, PendingSorted, Sorted
<1>2. Search(pending, e) \in 0 .. Len(pending)
  BY <1>1, SearchSplits
<1>3. Cardinality(KeyPlaces(InsertAt(pending, Search(pending, e) + 1, e), k)) =
        Cardinality(KeyPlaces(pending, k)) + (IF e.key = k THEN 1 ELSE 0)
  BY <1>1, <1>2, InsertCounts
<1> QED
  BY <1>3 DEF InsertSorted

\* Dropping a claim removes its worker from the claimants of its key.
LEMMA ClaimDropped ==
  ASSUME QueueInv, FewClaims, NEW w \in Workers, OwnsClaim(w), claimed' = [claimed EXCEPT ![w] = None], NEW k
  PROVE  /\ FewClaims'
         /\ Cardinality(Claimants(k))' = Cardinality(Claimants(k)) - (IF held[w].key = k THEN 1 ELSE 0)
<1>1. claimed \in [Workers -> Entries \cup {None}]
  BY DEF QueueInv, TypeOK
<1>2. Busy' = Busy \ {w} /\ Claimants(k)' = Claimants(k) \ {w}
  BY <1>1 DEF Busy, Claimants, ClaimOn
<1>3. w \in Claimants(k) <=> held[w].key = k
  BY DEF OwnsClaim, ClaimOn, Claimants
<1>4. IsFiniteSet(Claimants(k)) /\ Cardinality(Claimants(k)) \in Nat
  BY CopiesCounted
<1>5. IsFiniteSet(Busy \ {w})
  BY FS_RemoveElement DEF FewClaims
<1>6. Cardinality(Claimants(k) \ {w}) = Cardinality(Claimants(k)) - (IF held[w].key = k THEN 1 ELSE 0)
  <2>1. Cardinality(Claimants(k) \ {w}) =
          IF w \in Claimants(k) THEN Cardinality(Claimants(k)) - 1 ELSE Cardinality(Claimants(k))
    BY <1>4, FS_RemoveElement
  <2>2. CASE held[w].key = k
    BY <1>3, <1>4, <2>1, <2>2
  <2>3. CASE held[w].key # k
    BY <1>3, <1>4, <2>1, <2>3
  <2> QED
    BY <2>2, <2>3
<1> QED
  BY <1>2, <1>5, <1>6 DEF FewClaims

\* enqueue() and enqueueIfAbsent() are Enqueue of the contract.
LEMMA EnqueueCopies ==
  ASSUME QueueInv, FewClaims, QueueInv', NEW k \in Items, NEW reason \in {"new", "resume"},
         NEW now \in Times, NEW at \in Times, NEW attempts \in 0 .. MaxCount,
         EnqueueWith(k, reason, now, at, attempts)
  PROVE  FewClaims' /\ QC!Next
<1> DEFINE e == Entry(k, reason, now, at, attempts)
<1>1. e \in Entries /\ e.key = k
  BY RetriesAssumption DEF Entry, Entries
<1>2. /\ k \notin inFlightSet /\ InsertSorted(e) /\ inFlightSet' = inFlightSet \cup {k}
      /\ UNCHANGED <<claimed, deadLetter>>
  BY DEF EnqueueWith
<1> HIDE DEF e
<1>3. FewClaims' /\ \A x : Claimants(x)' = Claimants(x)
  BY <1>2 DEF FewClaims, Busy, Claimants, ClaimOn
<1>4. ASSUME NEW x \in Items
      PROVE  Copies(x)' = IF x = k THEN Copies(x) + 1 ELSE Copies(x)
  <2>1. Cardinality(KeyPlaces(pending, x))' = Cardinality(KeyPlaces(pending, x)) + (IF k = x THEN 1 ELSE 0)
    BY <1>1, <1>2, InsertedPlaces
  <2>2. Copies(x)' = Cardinality(KeyPlaces(pending, x))' + Cardinality(Claimants(x))'
    BY DEF Copies, KeyPlaces, Claimants
  <2>3. Cardinality(Claimants(x))' = Cardinality(Claimants(x))
    BY <1>3
  <2> QED
    BY <2>1, <2>2, <2>3, CopiesCounted
<1> HIDE DEF Copies
<1>5. QC!Enqueue(k)
  BY <1>2, <1>4 DEF QC!Enqueue
<1> QED
  BY <1>3, <1>5 DEF QC!Next

\* claim() moves a copy from the array to a worker.
LEMMA ClaimCopies ==
  ASSUME QueueInv, FewClaims, NEW w \in Workers, Claim(w)
  PROVE  FewClaims' /\ UNCHANGED QC!contractVars
<1>1. /\ pending \in Seq(Entries) /\ pending # <<>> /\ pending' = Tail(pending) /\ claimed[w] = None
      /\ claimed' = [claimed EXCEPT ![w] = Head(pending)] /\ claimed \in [Workers -> Entries \cup {None}]
      /\ Head(pending) \in Entries /\ UNCHANGED <<deadLetter, inFlightSet>>
  BY DEF Claim, QueueInv, TypeOK
<1>2. Head(pending) # None
  BY <1>1, NoneAssumption
<1>3. Busy' = Busy \cup {w}
  BY <1>1, <1>2 DEF Busy
<1>4. FewClaims'
  BY <1>3, FS_AddElement DEF FewClaims
<1>5. ASSUME NEW x \in Items
      PROVE  Copies(x)' = Copies(x)
  <2>1. Claimants(x)' = (IF Head(pending).key = x THEN Claimants(x) \cup {w} ELSE Claimants(x)) /\ w \notin Claimants(x)
    BY <1>1, <1>2 DEF Claimants, ClaimOn
  <2>2. Cardinality(Claimants(x) \cup {w}) = Cardinality(Claimants(x)) + 1
    BY <2>1, CopiesCounted, FS_AddElement
  <2>3. Cardinality(Claimants(x))' = Cardinality(Claimants(x)) + (IF Head(pending).key = x THEN 1 ELSE 0)
    BY <2>1, <2>2, CopiesCounted
  <2>4. Cardinality(KeyPlaces(pending, x)) =
          Cardinality(KeyPlaces(Tail(pending), x)) + (IF Head(pending).key = x THEN 1 ELSE 0)
    BY <1>1, TailCounts
  <2>5. Cardinality(KeyPlaces(pending, x))' = Cardinality(KeyPlaces(Tail(pending), x))
    BY <1>1
  <2>6. Cardinality(KeyPlaces(Tail(pending), x)) \in Nat
    <3>1. Tail(pending) \in Seq(Entries)
      BY <1>1
    <3> QED
      BY <3>1, PlacesFinite
  <2>7. Copies(x)' = Cardinality(KeyPlaces(pending, x))' + Cardinality(Claimants(x))'
    BY DEF Copies, KeyPlaces, Claimants
  <2> QED
    BY <2>3, <2>4, <2>5, <2>6, <2>7, CopiesCounted
<1> HIDE DEF Copies
<1> QED
  BY <1>1, <1>4, <1>5 DEF QC!contractVars

\* release() for a retry and requeueForResume() move a copy.
LEMMA RequeueCopies ==
  ASSUME QueueInv, FewClaims, NEW w \in Workers, OwnsClaim(w), NEW e \in Entries, e.key = held[w].key,
         InsertSorted(e), claimed' = [claimed EXCEPT ![w] = None], UNCHANGED <<deadLetter, inFlightSet>>
  PROVE  FewClaims' /\ UNCHANGED QC!contractVars
<1>1. FewClaims'
  BY ClaimDropped
<1>2. ASSUME NEW x \in Items
      PROVE  Copies(x)' = Copies(x)
  <2>1. Cardinality(KeyPlaces(pending, x))' =
          Cardinality(KeyPlaces(pending, x)) + (IF e.key = x THEN 1 ELSE 0)
    BY InsertedPlaces
  <2>2. Cardinality(Claimants(x))' = Cardinality(Claimants(x)) - (IF held[w].key = x THEN 1 ELSE 0)
    BY ClaimDropped
  <2>3. Copies(x)' = Cardinality(KeyPlaces(pending, x))' + Cardinality(Claimants(x))'
    BY DEF Copies, KeyPlaces, Claimants
  <2> QED
    BY <2>1, <2>2, <2>3, CopiesCounted
<1> HIDE DEF Copies
<1> QED
  BY <1>1, <1>2 DEF QC!contractVars

\* complete() and the dead-letter branch of release() of an owner drop one copy of their item.
LEMMA DropCopies ==
  ASSUME QueueInv, FewClaims, NEW w \in Workers, OwnsClaim(w),
         claimed' = [claimed EXCEPT ![w] = None], UNCHANGED pending
  PROVE  /\ FewClaims'
         /\ \A x \in Items : Copies(x)' = IF x = held[w].key THEN Copies(x) - 1 ELSE Copies(x)
         /\ Copies(held[w].key) \in Nat \ {0}
<1>1. FewClaims'
  BY ClaimDropped
<1>2. ASSUME NEW x \in Items
      PROVE  Copies(x)' = IF x = held[w].key THEN Copies(x) - 1 ELSE Copies(x)
  <2>1. Cardinality(KeyPlaces(pending, x))' = Cardinality(KeyPlaces(pending, x))
    BY DEF KeyPlaces
  <2>2. Cardinality(Claimants(x))' = Cardinality(Claimants(x)) - (IF held[w].key = x THEN 1 ELSE 0)
    BY ClaimDropped
  <2>3. Copies(x)' = Cardinality(KeyPlaces(pending, x))' + Cardinality(Claimants(x))'
    BY DEF Copies, KeyPlaces, Claimants
  <2> QED
    BY <2>1, <2>2, <2>3, CopiesCounted
<1>3. Copies(held[w].key) \in Nat \ {0}
  <2> DEFINE k == held[w].key
  <2>1. w \in Claimants(k)
    BY DEF OwnsClaim, ClaimOn, Claimants
  <2> HIDE DEF k
  <2>2. Cardinality(Claimants(k)) # 0
    BY <2>1, CopiesCounted, FS_EmptySet
  <2>3. Copies(k) \in Nat \ {0}
    BY <2>2, CopiesCounted
  <2> QED
    BY <2>3 DEF k
<1> QED
  BY <1>1, <1>2, <1>3

\* Every step is one of the contract, or invisible to it.
LEMMA ContractStep ==
  ASSUME QueueInv, FewClaims, [Next]_vars
  PROVE  FewClaims' /\ [QC!Next]_QC!contractVars
<1>0. /\ held \in [Workers -> [key : Items, enqueuedAt : Times] \cup {None}] /\ TypeOK /\ QueueInv'
  BY QueueInvStep DEF QueueInv, TypeOK
<1>1. ASSUME NEW k \in Items, NEW reason \in {"new", "resume"}, NEW now \in Times, NEW at \in Times,
             Enqueue(k, reason, now, at) \/ EnqueueIfAbsent(k, reason, now, at)
      PROVE  FewClaims' /\ QC!Next
  <2>1. CASE Enqueue(k, reason, now, at)
    <3>1. attemptCounts[k] \in 0 .. MaxCount /\ EnqueueWith(k, reason, now, at, attemptCounts[k])
      BY <1>0, <2>1, RetriesAssumption DEF Enqueue, TypeOK
    <3> QED
      BY <1>0, <3>1, EnqueueCopies
  <2>2. CASE EnqueueIfAbsent(k, reason, now, at)
    <3>1. 0 \in 0 .. MaxCount /\ EnqueueWith(k, reason, now, at, 0)
      BY <2>2, RetriesAssumption DEF EnqueueIfAbsent
    <3> QED
      BY <1>0, <3>1, EnqueueCopies
  <2> QED
    BY <1>1, <2>1, <2>2
<1>2. ASSUME NEW w \in Workers, Claim(w)
      PROVE  FewClaims' /\ UNCHANGED QC!contractVars
  BY <1>2, ClaimCopies
<1>3. ASSUME NEW w \in Workers, ReleaseDeadLetter(w)
      PROVE  FewClaims' /\ QC!Next
  <2>1. /\ OwnsClaim(w) /\ claimed' = [claimed EXCEPT ![w] = None] /\ UNCHANGED pending
        /\ deadLetter' = deadLetter \cup {held[w].key} /\ inFlightSet' = inFlightSet \ {held[w].key}
    BY <1>3 DEF ReleaseDeadLetter
  <2>2. held[w].key \in Items
    BY <1>0, <2>1, HeldClaim
  <2>3. /\ FewClaims' /\ Copies(held[w].key) \in Nat \ {0}
        /\ \A x \in Items : Copies(x)' = IF x = held[w].key THEN Copies(x) - 1 ELSE Copies(x)
    BY <2>1, DropCopies
  <2> HIDE DEF Copies
  <2>4. QC!DeadLetter(held[w].key)
    BY <2>1, <2>2, <2>3 DEF QC!DeadLetter
  <2> QED
    BY <2>2, <2>3, <2>4 DEF QC!Next
<1>4. ASSUME NEW w \in Workers, Complete(w)
      PROVE  FewClaims' /\ [QC!Next]_QC!contractVars
  <2>1. /\ held[w].key \in Items /\ UNCHANGED <<pending, deadLetter>>
        /\ inFlightSet' = inFlightSet \ {held[w].key}
    BY <1>0, <1>4 DEF Complete
  <2>2. CASE OwnsClaim(w)
    <3>1. claimed' = [claimed EXCEPT ![w] = None]
      BY <1>4, <2>2 DEF Complete
    <3>2. /\ FewClaims' /\ Copies(held[w].key) \in Nat \ {0}
          /\ \A x \in Items : Copies(x)' = IF x = held[w].key THEN Copies(x) - 1 ELSE Copies(x)
      BY <2>1, <2>2, <3>1, DropCopies
    <3> HIDE DEF Copies
    <3>3. QC!Complete(held[w].key)
      BY <2>1, <3>2 DEF QC!Complete
    <3> QED
      BY <2>1, <3>2, <3>3 DEF QC!Next
  <2>3. CASE ~OwnsClaim(w)
    <3>1. claimed' = claimed
      BY <1>4, <2>3 DEF Complete, QueueInv, TypeOK
    <3>2. FewClaims' /\ \A x : Copies(x)' = Copies(x)
      BY <2>1, <3>1 DEF FewClaims, Busy, Copies, ClaimOn
    <3> HIDE DEF Copies
    <3>3. CASE held[w].key \in inFlightSet
      <4>1. QC!Forget(held[w].key)
        BY <2>1, <3>2, <3>3 DEF QC!Forget
      <4> QED
        BY <2>1, <3>2, <4>1 DEF QC!Next
    <3>4. CASE held[w].key \notin inFlightSet
      BY <2>1, <3>2, <3>4 DEF QC!contractVars
    <3> QED
      BY <3>3, <3>4
  <2> QED
    BY <2>2, <2>3
<1>5. ASSUME NEW w \in Workers, Forget(w)
      PROVE  FewClaims' /\ UNCHANGED QC!contractVars
  BY <1>5 DEF Forget, FewClaims, Busy, QC!contractVars, Copies, ClaimOn
<1>6. ASSUME NEW w \in Workers, NEW now \in Times, ReleaseRetry(w, now)
      PROVE  FewClaims' /\ UNCHANGED QC!contractVars
  <2> DEFINE e == Entry(held[w].key, "retry", now, held[w].enqueuedAt, claimed[w].attempts + 1)
  <2>1. /\ OwnsClaim(w) /\ claimed[w].attempts + 1 < MaxRetries /\ InsertSorted(e)
        /\ claimed' = [claimed EXCEPT ![w] = None] /\ UNCHANGED <<deadLetter, inFlightSet>>
    BY <1>6 DEF ReleaseRetry
  <2>2. /\ held[w] \in [key : Items, enqueuedAt : Times] /\ claimed[w].attempts \in Nat
    BY <1>0, <2>1, HeldClaim
  <2>3. e \in Entries /\ e.key = held[w].key
    BY <2>1, <2>2, RetriesAssumption DEF Entry, Entries
  <2> HIDE DEF e
  <2> QED
    BY <2>1, <2>3, RequeueCopies
<1>7. ASSUME NEW w \in Workers, NEW now \in Times, RequeueForResume(w, now)
      PROVE  FewClaims' /\ UNCHANGED QC!contractVars
  <2> DEFINE e == Entry(held[w].key, "resume", now, held[w].enqueuedAt, claimed[w].attempts)
  <2>1. /\ OwnsClaim(w) /\ InsertSorted(e) /\ claimed' = [claimed EXCEPT ![w] = None]
        /\ UNCHANGED <<deadLetter, inFlightSet>>
    BY <1>7 DEF RequeueForResume
  <2>2. held[w] \in [key : Items, enqueuedAt : Times] /\ claimed[w] \in Entries
    BY <1>0, <2>1, HeldClaim
  <2>3. e \in Entries /\ e.key = held[w].key
    BY <2>2 DEF Entry, Entries
  <2> HIDE DEF e
  <2> QED
    BY <2>1, <2>3, RequeueCopies
<1>8. CASE UNCHANGED vars
  BY <1>8 DEF vars, FewClaims, Busy, QC!contractVars, Copies, ClaimOn
<1> QED
  BY <1>1, <1>2, <1>3, <1>4, <1>5, <1>6, <1>7, <1>8 DEF Next

\* The in-memory adapter implements QueueContract, the contract the Redis
\* adapter keeps too: each enqueue(), claim(), release(), complete()
\* and requeueForResume() makes, moves or ends exactly one copy of its item,
\* in step with the in-flight index.
THEOREM KeepsContractHolds == Spec => KeepsContract
<1>1. Init => FewClaims /\ QC!Init
  <2> SUFFICES ASSUME Init
               PROVE  FewClaims /\ QC!Init
    OBVIOUS
  <2>1. Busy = {} /\ \A k : KeyPlaces(pending, k) = {} /\ Claimants(k) = {}
    BY DEF Init, Busy, KeyPlaces, Claimants, ClaimOn
  <2>2. \A k : Copies(k) = 0
    BY <2>1, FS_EmptySet DEF Copies, KeyPlaces, Claimants
  <2> HIDE DEF Copies
  <2>3. QC!Init
    BY <2>2 DEF QC!Init, Init
  <2> QED
    BY <2>1, <2>3, FS_EmptySet DEF FewClaims
<1>2. QueueInv /\ FewClaims /\ [Next]_vars => FewClaims' /\ [QC!Next]_QC!contractVars
  BY ContractStep
<1> QED
  BY <1>1, <1>2, QueueInvariant, PTL DEF Spec, KeepsContract, QC!Spec
=============================================================================
