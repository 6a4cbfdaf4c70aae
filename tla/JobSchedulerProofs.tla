------------------------- MODULE JobSchedulerProofs -------------------------
(***************************************************************************)
(* Proofs about JobScheduler for every set of jobs, processes and slots    *)
(* and every maxAttempts.                                                  *)
(*                                                                         *)
(* A job is moved by several Redis commands, and between two of them any   *)
(* other thread may act on the same job.  NoJobLost by itself says nothing *)
(* of the middle of an operation: Kept adds that a job which is in no set  *)
(* at that moment is in the hand of a thread that will still put it into   *)
(* one, for which JobTypeOK records exactly which commands each kind of    *)
(* operation has left.                                                     *)
(*                                                                         *)
(* DeadOnlyByFailures is about a count that is read, increased and written *)
(* back, so that updates of two threads may be lost.  AllAccounted bounds  *)
(* what any of them may still write: the attempts stored, read or decided  *)
(* upon, plus the nacks that have not written yet, never exceed what the   *)
(* failures and the nacks repeated for one of them account for.  Losing an *)
(* update only lowers the left side.  AllLimited bounds the repeats: each  *)
(* failure was reported at most once, and a report that is under way can   *)
(* still become a repeat.  Jobs that succeeded or were torn are excepted,  *)
(* as they are in the property.                                            *)
(***************************************************************************)
EXTENDS JobScheduler, FiniteSetTheorems, TLAPS

\* The commands an operation may still have to do: those of dequeue (its last
\* two are those of enqueue), of nack and release, and of acknowledge.
Z     == <<"zadd">>
HZ    == <<"hset", "zadd">>
GHZ   == <<"hgetall", "hset", "zadd">>
RHZ   == <<"zrem", "hset", "zadd">>
GRHZ  == <<"hgetall", "zrem", "hset", "zadd">>
H     == <<"hset">>
GH    == <<"hgetall", "hset">>
HGH   == <<"hset", "hgetall", "hset">>
RHGH  == <<"zrem", "hset", "hgetall", "hset">>
GRHGH == <<"hgetall", "zrem", "hset", "hgetall", "hset">>

\* The suffixes of its command list an operation of each kind can be left with.
Remains(kind, left) ==
  \/ kind \in {"none", "handle"}            /\ left = <<>>
  \/ kind = "enqueue"                       /\ left \in {HZ, Z}
  \/ kind = "dequeue"                       /\ left \in {GHZ, HZ, Z}
  \/ kind \in {"nack", "report", "release"} /\ left \in {GRHZ, RHZ, HZ, Z}
  \/ kind = "acknowledge"                   /\ left \in {GRHGH, RHGH, HGH, GH, H}
  \/ kind \in ReadsBack                     /\ left = <<>>

\* The operations of a thread, and all the suffixes.
Kinds == {"none", "handle", "enqueue", "dequeue", "acknowledge", "nack", "report", "release"}
Lefts == {<<>>, Z, HZ, GHZ, RHZ, GRHZ, H, GH, HGH, RHGH, GRHGH}

\* A thread is at some command of its operation, with a job unless it is idle.
OpOK(o) ==
  /\ o \in [kind : Kinds, left : Lefts, job : Jobs \cup {NoJob}, read : 0 .. MaxAttempts]
  /\ Remains(o.kind, o.left)
  /\ o.kind # "none" => o.job \in Jobs

\* The shape of every variable.
JobTypeOK ==
  /\ attempts \in [Jobs -> 0 .. MaxAttempts] /\ failures \in [Jobs -> 0 .. MaxAttempts]
  /\ repeats \in [Jobs -> 0 .. MaxAttempts]
  /\ queue \subseteq Jobs /\ processing \subseteq Jobs /\ expired \subseteq Jobs /\ dlq \subseteq Jobs
  /\ DOMAIN op = Threads /\ \A t \in Threads : OpOK(op[t])
  /\ timedOut \in [Sweeps -> SUBSET Jobs]
  /\ fate \in [Jobs -> {"none", "enqueued", "shared", "acked", "torn"}]

\* A thread acknowledges only a job whose handler succeeded, or a torn one.
AckedIsTold == \A t \in Threads : op[t].kind = "acknowledge" => Told(op[t].job)

\* The jobs some thread is about to put into a set.
InSomeHand == {j \in Jobs : \E t \in Threads : op[t].job = j /\ InHand(op[t])}

\* A job nobody enqueued is nowhere.
Unknown(j) ==
  /\ j \notin queue \cup processing \cup expired
  /\ \A s \in Sweeps : j \notin timedOut[s]
  /\ \A t \in Threads : op[t].job # j
Known == \A j \in Jobs : fate[j] = "none" => Unknown(j)

\* A job that was enqueued and never acknowledged is in a set or in a hand.
Kept ==
  \A j \in Jobs : fate[j] \in {"enqueued", "shared"} => j \in queue \cup processing \cup dlq \cup InSomeHand

\* How many commands a thread has still to do.
ToDo(o) == Len(o.left)

\* The nacks of a job that have still to write its attempts.
Nacking(j) == {t \in Threads : op[t].job = j /\ op[t].kind \in Nacks /\ ToDo(op[t]) >= 2}

\* The attempts a thread may write, or has decided upon.
Reckons(o)  == IF o.kind \in Nacks /\ ToDo(o) = 1 THEN o.read + 1 ELSE o.read
Reckoned(j) == {attempts[j]} \cup {Reckons(op[t]) : t \in {u \in Threads : op[u].job = j}}

\* What the history accounts for.
Booked(j) == failures[j] + repeats[j]

\* No count of attempts in anyone's hands runs ahead of it.
Accounted(j) ==
  \/ Told(j) \/ failures[j] = MaxAttempts
  \/ /\ IsFiniteSet(Nacking(j))
     /\ \A n \in Reckoned(j) : n + Cardinality(Nacking(j)) <= Booked(j)

AllAccounted == \A j \in Jobs : Accounted(j)

\* The reports of a job's failures that have not returned.
Reporting(j) == {t \in Threads : op[t].job = j /\ op[t].kind = "report"}

\* Every repeat, made or still possible, belongs to a failure of its own.
Limited(j) ==
  \/ Told(j) \/ failures[j] = MaxAttempts
  \/ /\ IsFiniteSet(Reporting(j))
     /\ repeats[j] + Cardinality(Reporting(j)) <= failures[j]

AllLimited == \A j \in Jobs : Limited(j)

\* A job that may be dead.
Deserved(j) ==
  \/ Told(j)
  \/ failures[j] >= MaxAttempts
  \/ repeats[j] > 0 /\ 2 * failures[j] >= MaxAttempts

\* The inductive invariant.
JobInv == JobTypeOK /\ AckedIsTold /\ Known /\ Kept /\ AllAccounted /\ AllLimited /\ DeadOnlyByFailures

-----------------------------------------------------------------------------
(* One operation *)

\* How the commands follow each other.
LEMMA Lists ==
  /\ Len(Z) = 1     /\ Head(Z) = "zadd"
  /\ Len(HZ) = 2    /\ Head(HZ) = "hset"       /\ Tail(HZ) = Z
  /\ Len(GHZ) = 3   /\ Head(GHZ) = "hgetall"   /\ Tail(GHZ) = HZ
  /\ Len(RHZ) = 3   /\ Head(RHZ) = "zrem"      /\ Tail(RHZ) = HZ
  /\ Len(GRHZ) = 4  /\ Head(GRHZ) = "hgetall"  /\ Tail(GRHZ) = RHZ
  /\ Len(H) = 1     /\ Head(H) = "hset"
  /\ Len(GH) = 2    /\ Head(GH) = "hgetall"    /\ Tail(GH) = H
  /\ Len(HGH) = 3   /\ Head(HGH) = "hset"      /\ Tail(HGH) = GH
  /\ Len(RHGH) = 4  /\ Head(RHGH) = "zrem"     /\ Tail(RHGH) = HGH
  /\ Len(GRHGH) = 5 /\ Head(GRHGH) = "hgetall" /\ Tail(GRHGH) = RHGH
  /\ Len(<<>>) = 0
<1>1. Len(Z) = 1 /\ Head(Z) = "zadd" /\ Len(H) = 1 /\ Head(H) = "hset" /\ Len(<<>>) = 0
  BY DEF Z, H
<1>2. Len(HZ) = 2 /\ Head(HZ) = "hset" /\ Tail(HZ) = Z
  BY DEF HZ, Z
<1>3. Len(GHZ) = 3 /\ Head(GHZ) = "hgetall" /\ Tail(GHZ) = HZ
  BY DEF GHZ, HZ
<1>4. Len(RHZ) = 3 /\ Head(RHZ) = "zrem" /\ Tail(RHZ) = HZ
  BY DEF RHZ, HZ
<1>5. Len(GRHZ) = 4 /\ Head(GRHZ) = "hgetall" /\ Tail(GRHZ) = RHZ
  BY DEF GRHZ, RHZ
<1>6. Len(GH) = 2 /\ Head(GH) = "hgetall" /\ Tail(GH) = H
  BY DEF GH, H
<1>7. Len(HGH) = 3 /\ Head(HGH) = "hset" /\ Tail(HGH) = GH
  BY DEF HGH, GH
<1>8. Len(RHGH) = 4 /\ Head(RHGH) = "zrem" /\ Tail(RHGH) = HGH
  BY DEF RHGH, HGH
<1>9. Len(GRHGH) = 5 /\ Head(GRHGH) = "hgetall" /\ Tail(GRHGH) = RHGH
  BY DEF GRHGH, RHGH
<1> QED
  BY <1>1, <1>2, <1>3, <1>4, <1>5, <1>6, <1>7, <1>8, <1>9, Zenon

\* Where a thread can be in its operation.
LEMMA Shape ==
  ASSUME NEW o, OpOK(o), o.left # <<>>
  PROVE  LET c == Head(o.left) IN
         /\ ToDo(o) \in 1 .. 5
         /\ ToDo(o) > 1 => /\ Remains(o.kind, Tail(o.left)) /\ Tail(o.left) \in Lefts
                           /\ Len(Tail(o.left)) = ToDo(o) - 1
         /\ ToDo(o) = 1 => \/ o.kind \in {"enqueue", "dequeue", "nack", "report", "release"} /\ c = "zadd"
                           \/ o.kind = "acknowledge" /\ c = "hset"
         /\ c = "zadd" => ToDo(o) = 1 /\ o.kind # "acknowledge"
         /\ c = "hgetall" => ToDo(o) > 1 /\ (o.kind \in {"nack", "report", "release"} => ToDo(o) = 4)
         /\ c = "zrem" => /\ ToDo(o) > 1 /\ o.kind \in {"nack", "report", "release", "acknowledge"}
                          /\ o.kind # "acknowledge" => ToDo(o) = 3
         /\ c = "hset" /\ o.kind \in {"nack", "report", "release"} => ToDo(o) = 2
         /\ o.kind \notin {"none", "handle"}
<1>1. Remains(o.kind, o.left)
  BY DEF OpOK
<1>2. CASE o.left = Z /\ o.kind \in {"enqueue", "dequeue", "nack", "report", "release"}
  <2>1. ToDo(o) = 1 /\ Head(o.left) = "zadd"
    BY <1>2, Lists, Zenon DEF ToDo
  <2> QED
    BY <1>2, <2>1 DEF Remains, Lefts
<1>3. CASE o.left = HZ /\ o.kind \in {"enqueue", "dequeue", "nack", "report", "release"}
  <2>1. ToDo(o) = 2 /\ Head(o.left) = "hset" /\ Tail(o.left) = Z /\ Len(Tail(o.left)) = 1
    BY <1>3, Lists, Zenon DEF ToDo
  <2> QED
    BY <1>3, <2>1 DEF Remains, Lefts
<1>4. CASE o.left = GHZ /\ o.kind = "dequeue"
  <2>1. ToDo(o) = 3 /\ Head(o.left) = "hgetall" /\ Tail(o.left) = HZ /\ Len(Tail(o.left)) = 2
    BY <1>4, Lists, Zenon DEF ToDo
  <2> QED
    BY <1>4, <2>1 DEF Remains, Lefts
<1>5. CASE o.left = RHZ /\ o.kind \in {"nack", "report", "release"}
  <2>1. ToDo(o) = 3 /\ Head(o.left) = "zrem" /\ Tail(o.left) = HZ /\ Len(Tail(o.left)) = 2
    BY <1>5, Lists, Zenon DEF ToDo
  <2> QED
    BY <1>5, <2>1 DEF Remains, Lefts
<1>6. CASE o.left = GRHZ /\ o.kind \in {"nack", "report", "release"}
  <2>1. ToDo(o) = 4 /\ Head(o.left) = "hgetall" /\ Tail(o.left) = RHZ /\ Len(Tail(o.left)) = 3
    BY <1>6, Lists, Zenon DEF ToDo
  <2> QED
    BY <1>6, <2>1 DEF Remains, Lefts
<1>7. CASE o.left = H /\ o.kind \in {"acknowledge"}
  <2>1. ToDo(o) = 1 /\ Head(o.left) = "hset"
    BY <1>7, Lists, Zenon DEF ToDo
  <2> QED
    BY <1>7, <2>1 DEF Remains, Lefts
<1>8. CASE o.left = GH /\ o.kind \in {"acknowledge"}
  <2>1. ToDo(o) = 2 /\ Head(o.left) = "hgetall" /\ Tail(o.left) = H /\ Len(Tail(o.left)) = 1
    BY <1>8, Lists, Zenon DEF ToDo
  <2> QED
    BY <1>8, <2>1 DEF Remains, Lefts
<1>9. CASE o.left = HGH /\ o.kind \in {"acknowledge"}
  <2>1. ToDo(o) = 3 /\ Head(o.left) = "hset" /\ Tail(o.left) = GH /\ Len(Tail(o.left)) = 2
    BY <1>9, Lists, Zenon DEF ToDo
  <2> QED
    BY <1>9, <2>1 DEF Remains, Lefts
<1>10. CASE o.left = RHGH /\ o.kind \in {"acknowledge"}
  <2>1. ToDo(o) = 4 /\ Head(o.left) = "zrem" /\ Tail(o.left) = HGH /\ Len(Tail(o.left)) = 3
    BY <1>10, Lists, Zenon DEF ToDo
  <2> QED
    BY <1>10, <2>1 DEF Remains, Lefts
<1>11. CASE o.left = GRHGH /\ o.kind \in {"acknowledge"}
  <2>1. ToDo(o) = 5 /\ Head(o.left) = "hgetall" /\ Tail(o.left) = RHGH /\ Len(Tail(o.left)) = 4
    BY <1>11, Lists, Zenon DEF ToDo
  <2> QED
    BY <1>11, <2>1 DEF Remains, Lefts
<1> QED
  BY <1>1, <1>2, <1>3, <1>4, <1>5, <1>6, <1>7, <1>8, <1>9, <1>10, <1>11 DEF Remains

\* An operation starts with all of its commands and nothing read.
LEMMA StartsOK ==
  ASSUME NEW kind \in Kinds \ {"none"}, NEW j \in Jobs
  PROVE  /\ OpOK(Starts(kind, j)) /\ Starts(kind, j).read = 0
         /\ Starts(kind, j).kind = kind /\ Starts(kind, j).job = j
         /\ kind \in Nacks => ToDo(Starts(kind, j)) = 4
<1>1. Remains(kind, Commands(kind)) /\ Commands(kind) \in Lefts /\ (kind \in Nacks => Commands(kind) = GRHZ)
  BY DEF Kinds, Remains, Lefts, Commands, Nacks, HZ, GHZ, GRHZ, GRHGH
<1>2. 0 \in 0 .. MaxAttempts
  BY JobConstants
<1> QED
  BY <1>1, <1>2, Lists DEF OpOK, Starts, ToDo

\* When a job is in no set, by the commands that are left.
LEMMA InHandIs ==
  ASSUME NEW o
  PROVE  InHand(o) <=> \/ o.kind \in {"enqueue", "dequeue"}
                       \/ o.kind \in {"nack", "report", "release"} /\ ToDo(o) \in 1 .. 2
BY DEF InHand, ToDo, Nacks

\* The idle thread.
LEMMA NoOpOK == OpOK(NoOp) /\ NoOp.kind = "none" /\ NoOp.read = 0 /\ NoOp.job = NoJob /\ NoOp.left = <<>> /\ ~InHand(NoOp)
BY JobConstants DEF OpOK, NoOp, Remains, Kinds, Lefts, InHand

\* A command is done.
LEMMA AfterOK ==
  ASSUME NEW o, OpOK(o), o.left # <<>>
  PROVE  /\ OpOK(After(o))
         /\ ToDo(o) > 1 =>
              /\ After(o).kind = o.kind /\ After(o).job = o.job /\ After(o).left = Tail(o.left)
              /\ ToDo(After(o)) = ToDo(o) - 1
              /\ After(o).read = (IF o.kind \notin Nacks /\ Head(o.left) = "hset" THEN 0 ELSE o.read)
         /\ ToDo(o) = 1 =>
              /\ After(o).read = 0 /\ ToDo(After(o)) = 0 /\ After(o).job \in {o.job, NoJob}
              /\ \/ After(o).kind \in {"handle", "none"}
                 \/ After(o).kind = o.kind /\ o.kind \in ReadsBack /\ After(o).job = o.job
<1>1. ToDo(o) \in 1 .. 5 /\ o.job \in Jobs /\ "handle" \in Kinds \ {"none"}
  BY Shape DEF OpOK, Kinds
<1>2. CASE ToDo(o) > 1
  <2>1. /\ Remains(o.kind, Tail(o.left)) /\ Tail(o.left) \in Lefts
        /\ Len(Tail(o.left)) = ToDo(o) - 1
    BY <1>2, Shape
  <2>2. After(o) = [o EXCEPT !.left = Tail(@), !.read = IF o.kind \notin Nacks /\ Head(o.left) = "hset" THEN 0 ELSE @]
    BY <1>2 DEF After, ToDo
  <2>3. /\ After(o).kind = o.kind /\ After(o).job = o.job /\ After(o).left = Tail(o.left)
        /\ After(o).read = (IF o.kind \notin Nacks /\ Head(o.left) = "hset" THEN 0 ELSE o.read)
    BY <2>2 DEF OpOK
  <2>4. After(o).read \in 0 .. MaxAttempts
    BY <2>3, JobConstants DEF OpOK
  <2>5. After(o) \in [kind : Kinds, left : Lefts, job : Jobs \cup {NoJob}, read : 0 .. MaxAttempts]
    BY <2>1, <2>2, <2>4 DEF OpOK
  <2>6. OpOK(After(o))
    <3>1. Remains(After(o).kind, After(o).left)
      BY <2>1, <2>3 DEF Remains
    <3>2. After(o).job \in Jobs
      BY <1>1, <2>3
    <3> QED
      BY <2>5, <3>1, <3>2 DEF OpOK
  <2> QED
    <3>1. ToDo(After(o)) = ToDo(o) - 1
      BY <2>1, <2>3, Zenon DEF ToDo
    <3> QED
      BY <1>1, <1>2, <2>3, <2>6, <3>1
<1>3. CASE ToDo(o) = 1
  <2>1. CASE o.kind = "dequeue"
    <3>1. After(o) = Starts("handle", o.job) /\ Starts("handle", o.job).left = <<>>
      <4>1. After(o) = Starts("handle", o.job)
        <5>1. Len(o.left) = 1 /\ o.kind \notin ReadsBack
          BY <1>3, <2>1 DEF ToDo, ReadsBack, Nacks
        <5> QED
          BY <2>1, <5>1 DEF After
      <4>2. Starts("handle", o.job).left = <<>>
        BY DEF Starts, Commands, Nacks
      <4> QED
        BY <4>1, <4>2
    <3>2. ToDo(After(o)) = 0
      BY <3>1, Lists, Zenon DEF ToDo
    <3> QED
      BY <1>1, <1>3, <3>1, <3>2, StartsOK
  <2>2. CASE o.kind \in ReadsBack
    <3> DEFINE b == [Starts(o.kind, o.job) EXCEPT !.left = <<>>]
    <3>1. After(o) = b
      <4>1. Len(o.left) = 1 /\ o.kind # "dequeue"
        BY <1>3, <2>2 DEF ToDo, ReadsBack, Nacks
      <4>2. After(o) = CASE o.kind = "dequeue"    -> Starts("handle", o.job)
                         [] o.kind \in ReadsBack -> b
                         [] OTHER                 -> NoOp
        BY <4>1 DEF After
      <4> QED
        BY <2>2, <4>1, <4>2
    <3>2. b.left = <<>> /\ b.kind = o.kind /\ b.job = o.job /\ b.read = 0
      BY DEF Starts
    <3>3. OpOK(b)
      <4>1. o.kind \in Kinds /\ 0 \in 0 .. MaxAttempts /\ <<>> \in Lefts
        BY JobConstants DEF OpOK, Lefts
      <4>2. b \in [kind : Kinds, left : Lefts, job : Jobs \cup {NoJob}, read : 0 .. MaxAttempts]
        BY <1>1, <4>1 DEF Starts
      <4> QED
        BY <1>1, <2>2, <3>2, <4>2 DEF OpOK, Remains
    <3>4. ToDo(b) = 0
      BY <3>2, Lists, Zenon DEF ToDo
    <3> HIDE DEF b
    <3> QED
      BY <1>3, <2>2, <3>1, <3>2, <3>3, <3>4
  <2>3. CASE o.kind # "dequeue" /\ o.kind \notin ReadsBack
    <3>1. After(o) = NoOp
      BY <1>3, <2>3 DEF After, ToDo
    <3>2. ToDo(NoOp) = 0
      BY NoOpOK, Lists, Zenon DEF ToDo
    <3> QED
      BY <1>3, <3>1, <3>2, NoOpOK
  <2> QED
    BY <2>1, <2>2, <2>3
<1> QED
  BY <1>1, <1>2, <1>3

\* What is told of a job stays told.
LEMMA BecomesOK ==
  ASSUME JobTypeOK, NEW js, NEW f \in {"enqueued", "shared", "acked", "torn"}, Becomes(js, f)
  PROVE  /\ fate' \in [Jobs -> {"none", "enqueued", "shared", "acked", "torn"}]
         /\ \A j \in Jobs : Told(j) => Told(j)'
         /\ \A j \in Jobs : j \in js /\ f \in {"acked", "torn"} => Told(j)'
         /\ \A j \in Jobs \ js : fate'[j] = fate[j]
BY DEF JobTypeOK, Becomes, Told

-----------------------------------------------------------------------------
(* What a step of one thread does to the three parts of the invariant *)

\* The types.
LEMMA ThreadType ==
  ASSUME JobTypeOK, NEW t \in Threads, NEW o, OpOK(o), op' = [op EXCEPT ![t] = o]
  PROVE  /\ DOMAIN op' = Threads /\ \A u \in Threads : OpOK(op'[u])
         /\ op'[t] = o /\ \A u \in Threads \ {t} : op'[u] = op[u]
BY DEF JobTypeOK

\* Acknowledged jobs, kept jobs and dead jobs.  A job is kept when it is in a
\* set, when this thread has it in hand, or when another thread has.
LEMMA ThreadKeeps ==
  ASSUME JobInv, NEW t \in Threads, NEW o, OpOK(o), op' = [op EXCEPT ![t] = o],
         \A j \in Jobs : Told(j) => Told(j)', \A j \in Jobs : failures'[j] >= failures[j],
         \A j \in Jobs : repeats'[j] >= repeats[j],
         failures' \in [Jobs -> 0 .. MaxAttempts], repeats' \in [Jobs -> 0 .. MaxAttempts], dlq' \subseteq Jobs,
         o.kind = "acknowledge" => fate'[o.job] \in {"acked", "torn"},
         \A j \in dlq' : j \in dlq \/ Deserved(j)',
         \A j \in Jobs : fate'[j] \in {"enqueued", "shared"} =>
           \/ j \in queue' \cup processing' \cup dlq'
           \/ o.job = j /\ InHand(o)
           \/ /\ fate[j] \in {"enqueued", "shared"}
              /\ j \notin queue \cup processing \cup dlq
              /\ ~(op[t].job = j /\ InHand(op[t]))
  PROVE  AckedIsTold' /\ Kept' /\ DeadOnlyByFailures'
<1>1. op'[t] = o /\ \A u \in Threads \ {t} : op'[u] = op[u]
  BY DEF JobInv, JobTypeOK
<1>2. AckedIsTold'
  <2> SUFFICES ASSUME NEW u \in Threads, op'[u].kind = "acknowledge"
               PROVE  fate'[op'[u].job] \in {"acked", "torn"}
    BY DEF AckedIsTold, Told
  <2>1. CASE u = t
    BY <1>1, <2>1
  <2>2. CASE u # t
    <3>1. op'[u] = op[u] /\ op[u].job \in Jobs /\ Told(op[u].job)
      BY <1>1, <2>2 DEF JobInv, JobTypeOK, AckedIsTold, OpOK
    <3> QED
      BY <3>1 DEF Told
  <2> QED
    BY <2>1, <2>2
<1>3. Kept'
  <2> SUFFICES ASSUME NEW j \in Jobs, fate'[j] \in {"enqueued", "shared"}
               PROVE  j \in queue' \cup processing' \cup dlq' \cup InSomeHand'
    BY DEF Kept
  <2>1. CASE o.job = j /\ InHand(o)
    BY <1>1, <2>1 DEF InSomeHand
  <2>2. CASE /\ fate[j] \in {"enqueued", "shared"}
             /\ j \notin queue \cup processing \cup dlq
             /\ ~(op[t].job = j /\ InHand(op[t]))
    <3>1. PICK u \in Threads : op[u].job = j /\ InHand(op[u])
      BY <2>2 DEF JobInv, Kept, InSomeHand
    <3> QED
      BY <1>1, <2>2, <3>1 DEF InSomeHand
  <2> QED
    BY <2>1, <2>2
<1>4. DeadOnlyByFailures'
  <2> SUFFICES ASSUME NEW j \in dlq' PROVE Deserved(j)'
    BY DEF DeadOnlyByFailures, Deserved
  <2>1. CASE j \in dlq
    <3>1. j \in Jobs /\ Deserved(j) /\ failures[j] \in Nat /\ repeats[j] \in Nat
      BY <2>1 DEF JobInv, JobTypeOK, DeadOnlyByFailures, Deserved
    <3>2. failures'[j] \in Nat /\ repeats'[j] \in Nat /\ failures'[j] >= failures[j] /\ repeats'[j] >= repeats[j]
      BY <3>1
    <3>3. Told(j) => Told(j)'
      BY <3>1
    <3> QED
      BY <3>1, <3>2, <3>3, JobConstants DEF Deserved
  <2> QED
    BY <2>1
<1> QED
  BY <1>2, <1>3, <1>4

\* A thread with a job that somebody enqueued brings it nowhere new.
LEMMA ThreadKnown ==
  ASSUME JobInv, JobTypeOK', NEW t \in Threads, NEW o, op' = [op EXCEPT ![t] = o],
         \A j \in Jobs : fate'[j] = "none" => fate[j] = "none",
         o.job \in Jobs => fate'[o.job] # "none",
         queue' \cup processing' \cup expired' \subseteq queue \cup processing \cup expired \cup {op[t].job},
         \A s \in Sweeps : timedOut'[s] \subseteq timedOut[s]
  PROVE  Known'
<1> SUFFICES ASSUME NEW j \in Jobs, fate'[j] = "none" PROVE Unknown(j)'
  BY DEF Known
<1>1. op'[t] = o /\ \A u \in Threads \ {t} : op'[u] = op[u]
  BY DEF JobInv, JobTypeOK
<1>2. Unknown(j)
  BY DEF JobInv, Known
<1>3. j \notin queue' \cup processing' \cup expired'
  BY <1>2 DEF Unknown
<1>4. \A u \in Threads : op'[u].job # j
  BY <1>1, <1>2 DEF Unknown
<1>5. \A s \in Sweeps : j \notin timedOut'[s]
  BY <1>2 DEF Unknown
<1> QED
  BY <1>3, <1>4, <1>5 DEF Unknown

\* Fewer nacks are under way.
LEMMA FewerNacks ==
  ASSUME NEW j \in Jobs, IsFiniteSet(Nacking(j)), Nacking(j)' \subseteq Nacking(j)
  PROVE  /\ IsFiniteSet(Nacking(j))' /\ Cardinality(Nacking(j)') <= Cardinality(Nacking(j))
         /\ Cardinality(Nacking(j)) \in Nat /\ Cardinality(Nacking(j)') \in Nat
BY FS_Subset, FS_CardinalityType

\* Nothing that may be written grew, and no nack began.
LEMMA StillAccounted ==
  ASSUME JobTypeOK, JobTypeOK', NEW j \in Jobs, Accounted(j),
         Told(j) => Told(j)', failures'[j] = failures[j], repeats'[j] = repeats[j],
         Nacking(j)' \subseteq Nacking(j),
         \A n \in Reckoned(j)' : n \in Nat /\ \E m \in Reckoned(j) : m \in Nat /\ n <= m
  PROVE  Accounted(j)'
<1>1. CASE Told(j) \/ failures[j] = MaxAttempts
  BY <1>1 DEF Accounted
<1>2. CASE IsFiniteSet(Nacking(j)) /\ \A n \in Reckoned(j) : n + Cardinality(Nacking(j)) <= Booked(j)
  <2>1. /\ IsFiniteSet(Nacking(j))' /\ Cardinality(Nacking(j)') <= Cardinality(Nacking(j))
        /\ Cardinality(Nacking(j)) \in Nat /\ Cardinality(Nacking(j)') \in Nat
    BY <1>2, FewerNacks
  <2>2. Booked(j) \in Nat /\ Booked(j)' = Booked(j)
    BY DEF JobTypeOK, Booked
  <2>3. ASSUME NEW n \in Reckoned(j)' PROVE n + Cardinality(Nacking(j)') <= Booked(j)'
    <3>1. PICK m \in Reckoned(j) : n \in Nat /\ m \in Nat /\ n <= m
      OBVIOUS
    <3>2. m + Cardinality(Nacking(j)) <= Booked(j)
      BY <1>2
    <3> QED
      BY <2>1, <2>2, <3>1, <3>2
  <2> QED
    BY <2>1, <2>3 DEF Accounted
<1> QED
  BY <1>1, <1>2 DEF Accounted

\* What may be written is a number of attempts.
LEMMA ReckonsType ==
  ASSUME NEW o, OpOK(o)
  PROVE  Reckons(o) \in Nat /\ o.read \in Nat /\ ToDo(o) \in 0 .. 5 /\ (o.left = <<>> => ToDo(o) = 0)
<1>1. o.read \in Nat
  BY DEF OpOK
<1>2. ToDo(o) \in 0 .. 5 /\ (o.left = <<>> => ToDo(o) = 0)
  BY Lists, Shape DEF ToDo
<1> QED
  BY <1>1, <1>2 DEF Reckons

\* The attempts of a job and of the threads that have it.
LEMMA ReckonedType ==
  ASSUME JobTypeOK, NEW j \in Jobs
  PROVE  /\ attempts[j] \in Reckoned(j) /\ attempts[j] \in Nat
         /\ \A t \in Threads : op[t].job = j => Reckons(op[t]) \in Reckoned(j) /\ Reckons(op[t]) \in Nat
BY ReckonsType DEF Reckoned, JobTypeOK

\* A step of one thread that begins no nack and reckons with no more.
LEMMA ThreadAccounted ==
  ASSUME JobTypeOK, JobTypeOK', AllAccounted, NEW t \in Threads, NEW o, OpOK(o), op' = [op EXCEPT ![t] = o],
         \A j \in Jobs : Told(j) => Told(j)', failures' = failures, repeats' = repeats,
         \A j \in Jobs : attempts'[j] <= attempts[j] \/ (op[t].job = j /\ attempts'[j] <= Reckons(op[t])),
         \A j \in Jobs : o.job = j => \/ Reckons(o) <= attempts[j]
                                      \/ op[t].job = j /\ Reckons(o) <= Reckons(op[t]),
         o.kind \in Nacks /\ ToDo(o) >= 2 =>
           o.job = op[t].job /\ op[t].kind \in Nacks /\ ToDo(op[t]) >= 2
  PROVE  AllAccounted'
<1> SUFFICES ASSUME NEW j \in Jobs PROVE Accounted(j)'
  BY DEF AllAccounted
<1>1. op'[t] = o /\ (\A u \in Threads \ {t} : op'[u] = op[u]) /\ \A u \in Threads : OpOK(op'[u])
  BY ThreadType
<1>2. Nacking(j)' \subseteq Nacking(j)
  BY <1>1 DEF Nacking
<1>3. ASSUME NEW n \in Reckoned(j)'
      PROVE  n \in Nat /\ \E m \in Reckoned(j) : m \in Nat /\ n <= m
  <2>1. attempts'[j] \in Nat
    BY DEF JobTypeOK
  <2>2. CASE n = attempts'[j]
    BY <2>1, <2>2, ReckonedType
  <2>3. ASSUME NEW u \in Threads, op'[u].job = j, n = Reckons(op'[u])
        PROVE  n \in Nat /\ \E m \in Reckoned(j) : m \in Nat /\ n <= m
    <3>1. n \in Nat
      BY <1>1, <2>3, ReckonsType
    <3>2. CASE u = t
      BY <1>1, <2>3, <3>1, <3>2, ReckonedType
    <3>3. CASE u # t
      BY <1>1, <2>3, <3>1, <3>3, ReckonedType
    <3> QED
      BY <3>2, <3>3
  <2> QED
    BY <2>2, <2>3 DEF Reckoned
<1>4. Accounted(j)
  BY DEF AllAccounted
<1> QED
  BY <1>2, <1>3, <1>4, StillAccounted

\* A step of one thread that reports no failure anew.
LEMMA ThreadLimited ==
  ASSUME JobTypeOK, AllLimited, NEW t \in Threads, NEW o, op' = [op EXCEPT ![t] = o],
         \A j \in Jobs : Told(j) => Told(j)', failures' = failures, repeats' = repeats,
         o.kind = "report" => o.job = op[t].job /\ op[t].kind = "report"
  PROVE  AllLimited'
<1> SUFFICES ASSUME NEW j \in Jobs PROVE Limited(j)'
  BY DEF AllLimited
<1>1. op'[t] = o /\ \A u \in Threads \ {t} : op'[u] = op[u]
  BY DEF JobTypeOK
<1>2. Reporting(j)' \subseteq Reporting(j)
  BY <1>1 DEF Reporting
<1>3. Limited(j) /\ failures[j] \in Nat /\ repeats[j] \in Nat
  BY DEF AllLimited, JobTypeOK
<1>4. CASE Told(j) \/ failures[j] = MaxAttempts
  BY <1>4 DEF Limited
<1>5. CASE IsFiniteSet(Reporting(j)) /\ repeats[j] + Cardinality(Reporting(j)) <= failures[j]
  <2>1. /\ IsFiniteSet(Reporting(j)') /\ Cardinality(Reporting(j)') <= Cardinality(Reporting(j))
        /\ Cardinality(Reporting(j)) \in Nat /\ Cardinality(Reporting(j)') \in Nat
    BY <1>2, <1>5, FS_Subset, FS_CardinalityType
  <2> QED
    BY <1>3, <1>5, <2>1 DEF Limited
<1> QED
  BY <1>3, <1>4, <1>5 DEF Limited

-----------------------------------------------------------------------------
(* The commands of Redis *)

\* The thread that does a command, and what it turns into.
LEMMA CommandFacts ==
  ASSUME JobInv, NEW t \in Threads, op[t].left # <<>>
  PROVE  /\ OpOK(op[t]) /\ op[t].job \in Jobs /\ OpOK(After(op[t]))
         /\ Reckons(op[t]) \in Nat /\ op[t].read \in 0 .. MaxAttempts /\ ToDo(op[t]) \in 1 .. 5
BY Shape, AfterOK, ReckonsType DEF JobInv, JobTypeOK, OpOK

\* hgetall reads the attempts of the job.
LEMMA ReadJobInv ==
  ASSUME JobInv, NEW t \in Threads, ReadJob(t)
  PROVE  JobInv'
<1> DEFINE o == [After(op[t]) EXCEPT !.read = attempts[op[t].job]]
<1>1. op[t].left # <<>> /\ Head(op[t].left) = "hgetall" /\ op' = [op EXCEPT ![t] = o]
  BY DEF ReadJob, Does
<1>2. /\ OpOK(op[t]) /\ op[t].job \in Jobs /\ OpOK(After(op[t]))
      /\ Reckons(op[t]) \in Nat /\ op[t].read \in 0 .. MaxAttempts /\ ToDo(op[t]) \in 1 .. 5
  BY <1>1, CommandFacts
<1>3. /\ ToDo(op[t]) > 1 /\ (op[t].kind \in {"nack", "report", "release"} => ToDo(op[t]) = 4)
  BY <1>1, <1>2, Shape
<1>4. /\ After(op[t]).kind = op[t].kind /\ After(op[t]).job = op[t].job
      /\ ToDo(After(op[t])) = ToDo(op[t]) - 1
  BY <1>1, <1>2, <1>3, AfterOK
<1>5. attempts[op[t].job] \in 0 .. MaxAttempts
  BY <1>2 DEF JobInv, JobTypeOK
<1>6. /\ OpOK(o) /\ o.kind = op[t].kind /\ o.job = op[t].job /\ ToDo(o) = ToDo(op[t]) - 1
      /\ o.read = attempts[op[t].job]
  <2>1. /\ OpOK(o) /\ o.kind = op[t].kind /\ o.job = op[t].job /\ o.read = attempts[op[t].job]
        /\ o.left = After(op[t]).left
    BY <1>2, <1>4, <1>5 DEF OpOK
  <2>2. ToDo(o) = ToDo(After(op[t]))
    BY <2>1, Zenon DEF ToDo
  <2> QED
    BY <1>4, <2>1, <2>2
<1>7. UNCHANGED <<attempts, queue, processing, expired, dlq, timedOut, fate, failures, repeats>>
  BY DEF ReadJob, jobSets, processorVars, jobHistory, counts
<1>8. JobTypeOK'
  BY <1>1, <1>6, <1>7, ThreadType DEF JobInv, JobTypeOK
<1> HIDE DEF o
<1>9. \A j \in Jobs : Told(j) => Told(j)'
  BY <1>7 DEF Told
<1>10. AckedIsTold' /\ Kept' /\ DeadOnlyByFailures'
  <2>1. o.kind = "acknowledge" => fate'[o.job] \in {"acked", "torn"}
    BY <1>6, <1>7 DEF JobInv, AckedIsTold, Told
  <2>2. InHand(op[t]) => InHand(o)
    BY <1>3, <1>6, InHandIs
  <2>3. (\A j \in Jobs : failures'[j] >= failures[j]) /\ \A j \in Jobs : repeats'[j] >= repeats[j]
    BY <1>7 DEF JobInv, JobTypeOK
  <2>4. failures' \in [Jobs -> 0 .. MaxAttempts] /\ repeats' \in [Jobs -> 0 .. MaxAttempts] /\ dlq' \subseteq Jobs
    BY <1>7 DEF JobInv, JobTypeOK
  <2>5. \A j \in dlq' : j \in dlq \/ Deserved(j)'
    BY <1>7
  <2>6. ASSUME NEW j \in Jobs, fate'[j] \in {"enqueued", "shared"}
        PROVE  \/ j \in queue' \cup processing' \cup dlq'
               \/ o.job = j /\ InHand(o)
               \/ /\ fate[j] \in {"enqueued", "shared"}
                  /\ j \notin queue \cup processing \cup dlq
                  /\ ~(op[t].job = j /\ InHand(op[t]))
    BY <1>6, <1>7, <2>2, <2>6
  <2> QED
    BY <1>1, <1>6, <1>9, <2>1, <2>3, <2>4, <2>5, <2>6, ThreadKeeps
<1>11. AllAccounted'
  <2>1. o.kind \in Nacks => ToDo(o) = 3
    BY <1>3, <1>6 DEF Nacks
  <2>2. Reckons(o) = attempts[op[t].job]
    BY <1>6, <2>1 DEF Reckons
  <2>3. \A j \in Jobs : attempts'[j] <= attempts[j] \/ (op[t].job = j /\ attempts'[j] <= Reckons(op[t]))
    BY <1>7 DEF JobInv, JobTypeOK
  <2>4. \A j \in Jobs : o.job = j => \/ Reckons(o) <= attempts[j]
                                     \/ op[t].job = j /\ Reckons(o) <= Reckons(op[t])
    BY <1>5, <1>6, <2>2
  <2>5. o.kind \in Nacks /\ ToDo(o) >= 2 =>
           o.job = op[t].job /\ op[t].kind \in Nacks /\ ToDo(op[t]) >= 2
    BY <1>3, <1>6 DEF Nacks
  <2> QED
    BY <1>1, <1>6, <1>7, <1>8, <1>9, <2>3, <2>4, <2>5, ThreadAccounted DEF JobInv
<1>13. AllLimited'
  BY <1>1, <1>6, <1>7, <1>9, ThreadLimited DEF JobInv
<1>12. Known'
  <2>1. fate'[op[t].job] # "none"
    BY <1>2, <1>7 DEF JobInv, Known, Unknown
  <2> QED
    BY <1>1, <1>6, <1>7, <1>8, <2>1, ThreadKnown
<1> QED
  BY <1>8, <1>10, <1>11, <1>12, <1>13 DEF JobInv

\* What the last lines of a command change and leave alone.
LEMMA AdvanceFacts ==
  ASSUME JobInv, NEW t \in Threads, op[t].left # <<>>, Advance(t)
  PROVE  /\ op' = [op EXCEPT ![t] = After(op[t])]
         /\ UNCHANGED <<timedOut, fate, failures, repeats>>
         /\ DOMAIN op' = Threads /\ \A u \in Threads : OpOK(op'[u])
         /\ \A j \in Jobs : Told(j) => Told(j)'
         /\ (\A j \in Jobs : failures'[j] >= failures[j]) /\ \A j \in Jobs : repeats'[j] >= repeats[j]
         /\ failures' \in [Jobs -> 0 .. MaxAttempts] /\ repeats' \in [Jobs -> 0 .. MaxAttempts]
         /\ After(op[t]).kind = "acknowledge" => fate'[After(op[t]).job] \in {"acked", "torn"}
         /\ After(op[t]).kind = "report" => After(op[t]).job = op[t].job /\ op[t].kind = "report"
         /\ AllLimited'
         /\ After(op[t]).job \in Jobs => fate'[After(op[t]).job] # "none"
         /\ \A j \in Jobs : fate'[j] = "none" => fate[j] = "none"
         /\ \A s \in Sweeps : timedOut'[s] \subseteq timedOut[s]
<1>1. op' = [op EXCEPT ![t] = After(op[t])] /\ UNCHANGED <<timedOut, fate, failures, repeats>>
  BY DEF Advance, jobHistory, counts
<1>2. OpOK(op[t]) /\ OpOK(After(op[t])) /\ ToDo(op[t]) \in 1 .. 5 /\ op[t].job \in Jobs
  BY CommandFacts
<1>3. DOMAIN op' = Threads /\ \A u \in Threads : OpOK(op'[u])
  BY <1>1, <1>2, ThreadType DEF JobInv
<1>4. \A j \in Jobs : Told(j) => Told(j)'
  BY <1>1 DEF Told
<1>5. /\ (\A j \in Jobs : failures'[j] >= failures[j]) /\ \A j \in Jobs : repeats'[j] >= repeats[j]
      /\ failures' \in [Jobs -> 0 .. MaxAttempts] /\ repeats' \in [Jobs -> 0 .. MaxAttempts]
  BY <1>1 DEF JobInv, JobTypeOK
<1>6. After(op[t]).kind \in {"acknowledge", "report"} => After(op[t]).job = op[t].job /\ op[t].kind = After(op[t]).kind
  <2>1. CASE ToDo(op[t]) > 1
    BY <1>2, <2>1, AfterOK
  <2>2. CASE ToDo(op[t]) = 1
    BY <1>2, <2>2, AfterOK
  <2> QED
    BY <1>2, <2>1, <2>2
<1>7. After(op[t]).kind = "acknowledge" => fate'[After(op[t]).job] \in {"acked", "torn"}
  BY <1>1, <1>6 DEF JobInv, AckedIsTold, Told
<1>8. After(op[t]).job \in Jobs => After(op[t]).job = op[t].job
  <2>1. CASE ToDo(op[t]) > 1
    BY <1>2, <2>1, AfterOK
  <2>2. CASE ToDo(op[t]) = 1
    <3>1. After(op[t]).job \in {op[t].job, NoJob}
      BY <1>2, <2>2, AfterOK
    <3> QED
      BY <3>1, JobConstants
  <2> QED
    BY <1>2, <2>1, <2>2
<1>9. After(op[t]).job \in Jobs => fate'[After(op[t]).job] # "none"
  BY <1>1, <1>8 DEF JobInv, Known, Unknown
<1>10. /\ \A j \in Jobs : fate'[j] = "none" => fate[j] = "none"
       /\ \A s \in Sweeps : timedOut'[s] \subseteq timedOut[s]
  BY <1>1
<1>11. AllLimited'
  BY <1>1, <1>4, <1>6, ThreadLimited DEF JobInv
<1> QED
  BY <1>1, <1>3, <1>4, <1>5, <1>6, <1>7, <1>9, <1>10, <1>11

\* zrem takes the job out of the PROCESSING set: from now on a nack or a
\* release has it in hand, and an acknowledged job is told.
LEMMA RemoveJobInv ==
  ASSUME JobInv, NEW t \in Threads, RemoveJob(t)
  PROVE  JobInv'
<1> DEFINE o == After(op[t])
<1>1. op[t].left # <<>> /\ Head(op[t].left) = "zrem" /\ Advance(t)
  BY DEF RemoveJob, Does
<1>2. /\ OpOK(op[t]) /\ op[t].job \in Jobs /\ OpOK(o)
      /\ Reckons(op[t]) \in Nat /\ op[t].read \in 0 .. MaxAttempts /\ ToDo(op[t]) \in 1 .. 5
  BY <1>1, CommandFacts
<1>3. /\ ToDo(op[t]) > 1 /\ op[t].kind \in {"nack", "report", "release", "acknowledge"}
      /\ op[t].kind # "acknowledge" => ToDo(op[t]) = 3
  BY <1>1, <1>2, Shape
<1>4. /\ o.kind = op[t].kind /\ o.job = op[t].job /\ ToDo(o) = ToDo(op[t]) - 1 /\ o.read = op[t].read
  BY <1>1, <1>2, <1>3, AfterOK
<1>5. /\ op' = [op EXCEPT ![t] = o]
      /\ UNCHANGED <<timedOut, fate, failures, repeats>>
      /\ DOMAIN op' = Threads /\ \A u \in Threads : OpOK(op'[u])
      /\ \A j \in Jobs : Told(j) => Told(j)'
      /\ (\A j \in Jobs : failures'[j] >= failures[j]) /\ \A j \in Jobs : repeats'[j] >= repeats[j]
      /\ failures' \in [Jobs -> 0 .. MaxAttempts] /\ repeats' \in [Jobs -> 0 .. MaxAttempts]
      /\ o.kind = "acknowledge" => fate'[o.job] \in {"acked", "torn"}
      /\ AllLimited'
      /\ o.job \in Jobs => fate'[o.job] # "none"
      /\ \A i \in Jobs : fate'[i] = "none" => fate[i] = "none"
      /\ \A s \in Sweeps : timedOut'[s] \subseteq timedOut[s]
  BY <1>1, AdvanceFacts
<1>6. /\ processing' = processing \ {op[t].job} /\ expired' = expired \ {op[t].job}
      /\ UNCHANGED <<attempts, queue, dlq>>
  BY DEF RemoveJob
<1>7. JobTypeOK'
  BY <1>5, <1>6 DEF JobInv, JobTypeOK
<1> HIDE DEF o
<1>8. o.kind # "acknowledge" => ToDo(o) = 2 /\ InHand(o)
  <2>1. op[t].kind # "acknowledge" => ToDo(o) = 2
    BY <1>3, <1>4
  <2> QED
    BY <1>3, <1>4, <2>1, InHandIs
<1>9. AckedIsTold' /\ Kept' /\ DeadOnlyByFailures'
  <2>1. \A j \in dlq' : j \in dlq \/ Deserved(j)'
    BY <1>6
  <2>2. ASSUME NEW j \in Jobs, fate'[j] \in {"enqueued", "shared"}
        PROVE  \/ j \in queue' \cup processing' \cup dlq'
               \/ o.job = j /\ InHand(o)
               \/ /\ fate[j] \in {"enqueued", "shared"}
                  /\ j \notin queue \cup processing \cup dlq
                  /\ ~(op[t].job = j /\ InHand(op[t]))
    BY <1>4, <1>5, <1>6, <1>8, <2>2
  <2>3. dlq' \subseteq Jobs
    BY <1>7 DEF JobTypeOK
  <2> QED
    BY <1>2, <1>5, <2>1, <2>2, <2>3, ThreadKeeps
<1>10. AllAccounted'
  <2>1. Reckons(o) <= Reckons(op[t])
    BY <1>2, <1>3, <1>4, <1>8 DEF Reckons, Nacks
  <2>2. \A j \in Jobs : attempts'[j] <= attempts[j] \/ (op[t].job = j /\ attempts'[j] <= Reckons(op[t]))
    BY <1>6 DEF JobInv, JobTypeOK
  <2>3. \A j \in Jobs : o.job = j => \/ Reckons(o) <= attempts[j]
                                     \/ op[t].job = j /\ Reckons(o) <= Reckons(op[t])
    BY <1>4, <2>1
  <2>4. o.kind \in Nacks => o.job = op[t].job /\ op[t].kind \in Nacks /\ ToDo(op[t]) >= 2
    BY <1>3, <1>4 DEF Nacks
  <2> QED
    BY <1>2, <1>5, <1>7, <2>2, <2>3, <2>4, ThreadAccounted DEF JobInv
<1>11. Known'
  BY <1>5, <1>6, <1>7, ThreadKnown
<1> QED
  BY <1>5, <1>7, <1>9, <1>10, <1>11 DEF JobInv

\* zadd, the last command, puts the job where it belongs; it is dead only if
\* its failures have reached the limit.
LEMMA AddJobInv ==
  ASSUME JobInv, NEW t \in Threads, AddJob(t)
  PROVE  JobInv'
<1> DEFINE o == After(op[t])
           j == op[t].job
<1>1. op[t].left # <<>> /\ Head(op[t].left) = "zadd" /\ Advance(t)
  BY DEF AddJob, Does
<1>2. /\ OpOK(op[t]) /\ j \in Jobs /\ OpOK(o)
      /\ Reckons(op[t]) \in Nat /\ op[t].read \in 0 .. MaxAttempts /\ ToDo(op[t]) \in 1 .. 5
  BY <1>1, CommandFacts
<1>3. ToDo(op[t]) = 1
  BY <1>1, <1>2, Shape
<1>4. ToDo(o) = 0 /\ o.read = 0
  BY <1>1, <1>2, <1>3, AfterOK
<1>5. /\ op' = [op EXCEPT ![t] = o]
      /\ UNCHANGED <<timedOut, fate, failures, repeats>>
      /\ DOMAIN op' = Threads /\ \A u \in Threads : OpOK(op'[u])
      /\ \A i \in Jobs : Told(i) => Told(i)'
      /\ (\A i \in Jobs : failures'[i] >= failures[i]) /\ \A i \in Jobs : repeats'[i] >= repeats[i]
      /\ failures' \in [Jobs -> 0 .. MaxAttempts] /\ repeats' \in [Jobs -> 0 .. MaxAttempts]
      /\ o.kind = "acknowledge" => fate'[o.job] \in {"acked", "torn"}
      /\ AllLimited'
      /\ o.job \in Jobs => fate'[o.job] # "none"
      /\ \A i \in Jobs : fate'[i] = "none" => fate[i] = "none"
      /\ \A s \in Sweeps : timedOut'[s] \subseteq timedOut[s]
  BY <1>1, AdvanceFacts
<1>6. /\ \/ /\ processing' = processing \cup {j} /\ expired' = expired \ {j} /\ UNCHANGED <<queue, dlq>>
         \/ /\ ShouldDie(op[t]) /\ dlq' = dlq \cup {j} /\ UNCHANGED <<queue, processing, expired>>
         \/ /\ queue' = queue \cup {j} /\ UNCHANGED <<processing, expired, dlq>>
      /\ UNCHANGED attempts
  BY DEF AddJob
<1>7. JobTypeOK'
  BY <1>2, <1>5, <1>6 DEF JobInv, JobTypeOK
<1> HIDE DEF o
<1>8. AckedIsTold' /\ Kept' /\ DeadOnlyByFailures'
  <2>1. ASSUME NEW i \in dlq' PROVE i \in dlq \/ Deserved(i)'
    <3>1. CASE i \in dlq
      BY <3>1
    <3>2. CASE i \notin dlq
      <4>1. i = j /\ ShouldDie(op[t])
        BY <1>6, <3>2
      <4>2. Reckons(op[t]) >= MaxAttempts
        BY <1>2, <1>3, <4>1, JobConstants DEF Reckons, ShouldDie
      <4>3. Reckons(op[t]) \in Reckoned(j)
        BY <1>2, ReckonedType DEF JobInv
      <4>4. IsFiniteSet(Nacking(j)) => Cardinality(Nacking(j)) \in Nat
        BY FS_CardinalityType
      <4>5. failures[j] \in Nat /\ repeats[j] \in Nat
        BY <1>2 DEF JobInv, JobTypeOK
      <4>6. Told(j) \/ failures[j] = MaxAttempts \/ failures[j] + repeats[j] >= MaxAttempts
        BY <1>2, <4>2, <4>3, <4>4, <4>5, JobConstants DEF JobInv, AllAccounted, Accounted, Booked
      <4>7. Told(j) \/ failures[j] = MaxAttempts \/ repeats[j] <= failures[j]
        <5>1. IsFiniteSet(Reporting(j)) => Cardinality(Reporting(j)) \in Nat
          BY FS_CardinalityType
        <5> QED
          BY <1>2, <4>5, <5>1 DEF JobInv, AllLimited, Limited
      <4>8. Deserved(i)
        BY <4>1, <4>5, <4>6, <4>7, JobConstants DEF Deserved
      <4>9. Told(i) => Told(i)'
        BY <1>2, <1>5, <4>1
      <4> QED
        BY <1>5, <4>1, <4>8, <4>9 DEF Deserved
    <3> QED
      BY <3>1, <3>2
  <2>2. ASSUME NEW i \in Jobs, fate'[i] \in {"enqueued", "shared"}
        PROVE  \/ i \in queue' \cup processing' \cup dlq'
               \/ o.job = i /\ InHand(o)
               \/ /\ fate[i] \in {"enqueued", "shared"}
                  /\ i \notin queue \cup processing \cup dlq
                  /\ ~(op[t].job = i /\ InHand(op[t]))
    BY <1>5, <1>6, <2>2
  <2>3. dlq' \subseteq Jobs
    BY <1>7 DEF JobTypeOK
  <2> QED
    BY <1>2, <1>5, <2>1, <2>2, <2>3, ThreadKeeps
<1>9. AllAccounted'
  <2>1. Reckons(o) = 0
    BY <1>4 DEF Reckons
  <2>2. \A i \in Jobs : attempts'[i] <= attempts[i] \/ (op[t].job = i /\ attempts'[i] <= Reckons(op[t]))
    BY <1>6 DEF JobInv, JobTypeOK
  <2>3. \A i \in Jobs : o.job = i => \/ Reckons(o) <= attempts[i]
                                     \/ op[t].job = i /\ Reckons(o) <= Reckons(op[t])
    BY <2>1 DEF JobInv, JobTypeOK
  <2>4. ~(ToDo(o) >= 2)
    BY <1>4
  <2> QED
    BY <1>2, <1>5, <1>7, <2>2, <2>3, <2>4, ThreadAccounted DEF JobInv
<1>10. Known'
  <2>1. queue' \cup processing' \cup expired' \subseteq queue \cup processing \cup expired \cup {op[t].job}
    BY <1>6
  <2> QED
    BY <1>5, <1>7, <2>1, ThreadKnown
<1> QED
  BY <1>5, <1>7, <1>8, <1>9, <1>10 DEF JobInv

\* A nack that has read n attempts writes no more than n + 1, and from then on
\* is no longer one of those under way.
LEMMA NackWritten ==
  ASSUME JobInv, JobTypeOK', NEW t \in Threads, NEW o, OpOK(o), op' = [op EXCEPT ![t] = o],
         \A j \in Jobs : Told(j) => Told(j)', failures' = failures, repeats' = repeats,
         op[t].kind \in Nacks, ToDo(op[t]) = 2, op[t].job \in Jobs, o.kind = op[t].kind, ToDo(o) = 1,
         o.job = op[t].job, o.read = op[t].read,
         attempts' = [attempts EXCEPT ![op[t].job] = Capped(op[t].read + 1)]
  PROVE  AllAccounted'
<1> SUFFICES ASSUME NEW j \in Jobs PROVE Accounted(j)'
  BY DEF AllAccounted
<1>1. op'[t] = o /\ (\A u \in Threads \ {t} : op'[u] = op[u]) /\ \A u \in Threads : OpOK(op'[u])
  BY ThreadType DEF JobInv
<1>2. Accounted(j)
  BY DEF JobInv, AllAccounted
<1>3. CASE j # op[t].job
  <2>1. Nacking(j)' = Nacking(j)
    BY <1>1, <1>3 DEF Nacking
  <2>2. attempts'[j] = attempts[j]
    BY <1>3 DEF JobInv, JobTypeOK
  <2>3. Reckoned(j)' = Reckoned(j)
    BY <1>1, <1>3, <2>2 DEF Reckoned
  <2> QED
    BY <1>2, <2>1, <2>3 DEF Accounted, Booked
<1>4. CASE j = op[t].job
  <2>1. CASE Told(j) \/ failures[j] = MaxAttempts
    BY <2>1 DEF Accounted
  <2>2. CASE IsFiniteSet(Nacking(j)) /\ \A n \in Reckoned(j) : n + Cardinality(Nacking(j)) <= Booked(j)
    <3>1. t \in Nacking(j)
      BY <1>4 DEF Nacking, Nacks
    <3>2. Nacking(j)' = Nacking(j) \ {t}
      BY <1>1 DEF Nacking
    <3>3. /\ IsFiniteSet(Nacking(j))' /\ Cardinality(Nacking(j)') = Cardinality(Nacking(j)) - 1
          /\ Cardinality(Nacking(j)) \in Nat /\ Cardinality(Nacking(j)') \in Nat
      BY <2>2, <3>1, <3>2, FS_RemoveElement, FS_CardinalityType
    <3>4. op[t].read \in Nat /\ Booked(j) \in Nat /\ Booked(j)' = Booked(j)
      BY ReckonsType DEF JobInv, JobTypeOK, Booked
    <3>5. op[t].read + Cardinality(Nacking(j)) <= Booked(j)
      <4>1. Reckons(op[t]) = op[t].read
        BY DEF Reckons
      <4> QED
        BY <1>4, <2>2, <4>1, ReckonedType DEF JobInv
    <3>6. ASSUME NEW n \in Reckoned(j)' PROVE n + Cardinality(Nacking(j)') <= Booked(j)'
      <4>1. CASE n = attempts'[j]
        <5>1. n \in Nat /\ n <= op[t].read + 1
          BY <1>4, <3>4, <4>1, JobConstants DEF Capped, JobInv, JobTypeOK
        <5> QED
          BY <3>3, <3>4, <3>5, <5>1
      <4>2. ASSUME NEW u \in Threads, op'[u].job = j, n = Reckons(op'[u])
            PROVE  n + Cardinality(Nacking(j)') <= Booked(j)'
        <5>1. CASE u = t
          <6>1. n = op[t].read + 1
            BY <1>1, <4>2, <5>1 DEF Reckons
          <6> QED
            BY <3>3, <3>4, <3>5, <6>1
        <5>2. CASE u # t
          <6>1. n \in Nat /\ n \in Reckoned(j)
            BY <1>1, <4>2, <5>2, ReckonedType DEF JobInv
          <6>2. n + Cardinality(Nacking(j)) <= Booked(j)
            BY <2>2, <6>1
          <6> QED
            BY <3>3, <3>4, <6>1, <6>2
        <5> QED
          BY <5>1, <5>2
      <4> QED
        BY <4>1, <4>2 DEF Reckoned
    <3> QED
      BY <3>3, <3>6 DEF Accounted
  <2> QED
    BY <1>2, <2>1, <2>2 DEF Accounted
<1> QED
  BY <1>3, <1>4

\* hset writes back what an earlier hgetall read.
LEMMA UpdateJobInv ==
  ASSUME JobInv, NEW t \in Threads, UpdateJobInternal(t)
  PROVE  JobInv'
<1> DEFINE o == After(op[t])
           j == op[t].job
<1>1. op[t].left # <<>> /\ Head(op[t].left) = "hset" /\ Advance(t)
  BY DEF UpdateJobInternal, Does
<1>2. /\ OpOK(op[t]) /\ j \in Jobs /\ OpOK(o)
      /\ Reckons(op[t]) \in Nat /\ op[t].read \in 0 .. MaxAttempts /\ ToDo(op[t]) \in 1 .. 5
  BY <1>1, CommandFacts
<1>3. /\ ToDo(op[t]) = 1 => op[t].kind = "acknowledge"
      /\ op[t].kind \in {"nack", "report", "release"} => ToDo(op[t]) = 2
  BY <1>1, <1>2, Shape
<1>4. ToDo(op[t]) > 1 => /\ o.kind = op[t].kind /\ o.job = j /\ ToDo(o) = ToDo(op[t]) - 1
                         /\ o.read = IF op[t].kind \notin Nacks THEN 0 ELSE op[t].read
  BY <1>1, <1>2, AfterOK
<1>5. ToDo(op[t]) = 1 => ToDo(o) = 0 /\ o.read = 0
  BY <1>1, <1>2, <1>3, AfterOK
<1>6. /\ op' = [op EXCEPT ![t] = o]
      /\ UNCHANGED <<timedOut, fate, failures, repeats>>
      /\ DOMAIN op' = Threads /\ \A u \in Threads : OpOK(op'[u])
      /\ \A i \in Jobs : Told(i) => Told(i)'
      /\ (\A i \in Jobs : failures'[i] >= failures[i]) /\ \A i \in Jobs : repeats'[i] >= repeats[i]
      /\ failures' \in [Jobs -> 0 .. MaxAttempts] /\ repeats' \in [Jobs -> 0 .. MaxAttempts]
      /\ o.kind = "acknowledge" => fate'[o.job] \in {"acked", "torn"}
      /\ AllLimited'
      /\ o.job \in Jobs => fate'[o.job] # "none"
      /\ \A i \in Jobs : fate'[i] = "none" => fate[i] = "none"
      /\ \A s \in Sweeps : timedOut'[s] \subseteq timedOut[s]
  BY <1>1, AdvanceFacts
<1>7. /\ attempts' = [attempts EXCEPT ![j] = Written(op[t])]
      /\ UNCHANGED <<queue, processing, expired, dlq>>
  BY DEF UpdateJobInternal, jobSets
<1>8. /\ op[t].kind \in Nacks => Written(op[t]) = Capped(op[t].read + 1)
      /\ op[t].kind \notin Nacks => Written(op[t]) \in {0, op[t].read}
  BY DEF Written, Nacks
<1>9. Written(op[t]) \in 0 .. MaxAttempts
  BY <1>2, <1>8, JobConstants DEF Capped
<1>10. JobTypeOK'
  BY <1>2, <1>6, <1>7, <1>9 DEF JobInv, JobTypeOK
<1> HIDE DEF o
<1>11. AckedIsTold' /\ Kept' /\ DeadOnlyByFailures'
  <2>1. \A i \in dlq' : i \in dlq \/ Deserved(i)'
    BY <1>7
  <2>2. InHand(op[t]) => InHand(o) /\ o.job = j
    BY <1>2, <1>3, <1>4, InHandIs
  <2>3. ASSUME NEW i \in Jobs, fate'[i] \in {"enqueued", "shared"}
        PROVE  \/ i \in queue' \cup processing' \cup dlq'
               \/ o.job = i /\ InHand(o)
               \/ /\ fate[i] \in {"enqueued", "shared"}
                  /\ i \notin queue \cup processing \cup dlq
                  /\ ~(op[t].job = i /\ InHand(op[t]))
    BY <1>6, <1>7, <2>2, <2>3
  <2>4. dlq' \subseteq Jobs
    BY <1>10 DEF JobTypeOK
  <2> QED
    BY <1>2, <1>6, <2>1, <2>3, <2>4, ThreadKeeps
<1>14. Known'
  BY <1>6, <1>7, <1>10, ThreadKnown
<1>12. CASE op[t].kind \in Nacks
  <2>1. AllAccounted'
    <3>1. /\ ToDo(op[t]) = 2 /\ o.kind = op[t].kind /\ ToDo(o) = 1
          /\ o.job = op[t].job /\ o.read = op[t].read
      BY <1>3, <1>4, <1>12 DEF Nacks
    <3>2. attempts' = [attempts EXCEPT ![op[t].job] = Capped(op[t].read + 1)] /\ failures' = failures /\ repeats' = repeats
      BY <1>6, <1>7, <1>8, <1>12
    <3> QED
      BY <1>2, <1>6, <1>10, <1>12, <3>1, <3>2, NackWritten
  <2> QED
    BY <1>6, <1>10, <1>11, <1>14, <2>1 DEF JobInv
<1>13. CASE op[t].kind \notin Nacks
  <2>1. ~(o.kind \in Nacks /\ ToDo(o) >= 1) /\ o.read = 0 /\ ToDo(o) \in Nat
    BY <1>2, <1>4, <1>5, <1>13
  <2>2. Reckons(o) = 0
    BY <2>1 DEF Reckons
  <2>3. Reckons(op[t]) = op[t].read
    BY <1>13 DEF Reckons
  <2>4. \A i \in Jobs : attempts'[i] <= attempts[i] \/ (op[t].job = i /\ attempts'[i] <= Reckons(op[t]))
    <3>1. attempts \in [Jobs -> 0 .. MaxAttempts]
      BY DEF JobInv, JobTypeOK
    <3>2. Written(op[t]) <= Reckons(op[t])
      BY <1>2, <1>8, <1>13, <2>3
    <3> QED
      BY <1>2, <1>7, <3>1, <3>2
  <2>5. \A i \in Jobs : o.job = i => \/ Reckons(o) <= attempts[i]
                                     \/ op[t].job = i /\ Reckons(o) <= Reckons(op[t])
    BY <2>2 DEF JobInv, JobTypeOK
  <2>7. ~(o.kind \in Nacks /\ ToDo(o) >= 2)
    BY <2>1
  <2>6. AllAccounted'
    BY <1>2, <1>6, <1>10, <2>4, <2>5, <2>7, ThreadAccounted DEF JobInv
  <2> QED
    BY <1>6, <1>10, <1>11, <1>14, <2>6 DEF JobInv
<1> QED
  BY <1>12, <1>13

-----------------------------------------------------------------------------
(* The processes *)

\* A thread takes up an operation that is not a nack: it has read nothing yet.
LEMMA BeginAccounted ==
  ASSUME JobInv, JobTypeOK', NEW t \in Threads, NEW o, OpOK(o), op' = [op EXCEPT ![t] = o],
         o.kind \notin Nacks, o.read = 0, attempts' = attempts,
         \A j \in Jobs : Told(j) => Told(j)', failures' = failures, repeats' = repeats
  PROVE  AllAccounted' /\ AllLimited'
<1>1. Reckons(o) = 0
  BY DEF Reckons
<1>2. \A j \in Jobs : attempts'[j] <= attempts[j] \/ (op[t].job = j /\ attempts'[j] <= Reckons(op[t]))
  BY DEF JobInv, JobTypeOK
<1>3. \A j \in Jobs : o.job = j => \/ Reckons(o) <= attempts[j]
                                   \/ op[t].job = j /\ Reckons(o) <= Reckons(op[t])
  BY <1>1 DEF JobInv, JobTypeOK
<1>4. AllAccounted'
  BY <1>2, <1>3, ThreadAccounted DEF JobInv
<1>5. o.kind # "report"
  BY DEF Nacks
<1> QED
  BY <1>4, <1>5, ThreadLimited DEF JobInv

\* An idle thread takes up a job that is, or comes, in hand or stays in its
\* set: poll, release and enqueue.
LEMMA TakeUpInv ==
  ASSUME JobInv, NEW t \in Threads, op[t] = NoOp, NEW j \in Jobs, NEW kind \in {"dequeue", "release", "enqueue"},
         op' = [op EXCEPT ![t] = Starts(kind, j)],
         NEW js, NEW f \in {"enqueued", "shared"}, Becomes(js, f), js \subseteq {j},
         queue' \subseteq queue, queue \subseteq queue' \cup {j}, kind = "release" => queue' = queue,
         fate[j] # "none" \/ (kind = "enqueue" /\ js = {j}),
         UNCHANGED <<attempts, processing, expired, dlq, failures, repeats>>,
         timedOut' \in [Sweeps -> SUBSET Jobs], \A s \in Sweeps : timedOut'[s] \subseteq timedOut[s]
  PROVE  JobInv'
<1> DEFINE o == Starts(kind, j)
<1>1. /\ OpOK(o) /\ o.read = 0 /\ o.kind = kind /\ o.job = j
  <2>1. kind \in Kinds \ {"none"}
    BY DEF Kinds
  <2> QED
    BY <2>1, StartsOK
<1>2. /\ fate' \in [Jobs -> {"none", "enqueued", "shared", "acked", "torn"}]
      /\ \A i \in Jobs : Told(i) => Told(i)'
      /\ \A i \in Jobs \ js : fate'[i] = fate[i]
  BY BecomesOK DEF JobInv
<1>3. JobTypeOK'
  BY <1>1, <1>2, ThreadType DEF JobInv, JobTypeOK
<1> HIDE DEF o
<1>4. kind # "release" => InHand(o)
  BY <1>1, InHandIs
<1>5. ~InHand(op[t])
  BY NoOpOK
<1>6. (\A i \in Jobs : failures'[i] >= failures[i]) /\ \A i \in Jobs : repeats'[i] >= repeats[i]
  BY DEF JobInv, JobTypeOK
<1>7. failures' \in [Jobs -> 0 .. MaxAttempts] /\ repeats' \in [Jobs -> 0 .. MaxAttempts] /\ dlq' \subseteq Jobs
  BY DEF JobInv, JobTypeOK
<1>8. o.kind # "acknowledge" /\ o.kind \notin Nacks
  BY <1>1 DEF Nacks
<1>9. ASSUME NEW i \in Jobs, fate'[i] \in {"enqueued", "shared"}
      PROVE  \/ i \in queue' \cup processing' \cup dlq'
             \/ o.job = i /\ InHand(o)
             \/ /\ fate[i] \in {"enqueued", "shared"}
                /\ i \notin queue \cup processing \cup dlq
                /\ ~(op[t].job = i /\ InHand(op[t]))
  <2>1. fate[i] \in {"none", "enqueued", "shared"}
    BY <1>2, <1>9 DEF JobInv, JobTypeOK, Told
  <2>2. CASE i # j
    BY <1>2, <1>5, <1>9, <2>2
  <2>3. CASE i = j /\ kind # "release"
    BY <1>1, <1>4, <2>3
  <2>4. CASE i = j /\ kind = "release"
    BY <1>2, <1>5, <1>9, <2>1, <2>4
  <2> QED
    BY <2>2, <2>3, <2>4
<1>10. op' = [op EXCEPT ![t] = o]
  BY DEF o
<1>11. AckedIsTold' /\ Kept' /\ DeadOnlyByFailures'
  BY <1>1, <1>2, <1>6, <1>7, <1>8, <1>9, <1>10, ThreadKeeps
<1>12. AllAccounted' /\ AllLimited'
  BY <1>1, <1>2, <1>3, <1>8, <1>10, BeginAccounted
<1>13. Known'
  <2>1. /\ \A i \in Jobs : fate'[i] = "none" => fate[i] = "none"
        /\ fate'[j] # "none"
    BY DEF Becomes, Told, JobInv, JobTypeOK
  <2> QED
    BY <1>1, <1>3, <1>10, <2>1, ThreadKnown
<1> QED
  BY <1>3, <1>11, <1>12, <1>13 DEF JobInv

\* poll(), the visibility check and enqueue() take a job up.
LEMMA PollInv ==
  ASSUME JobInv, NEW p \in Procs, NEW n \in Slots, Poll(p, n)
  PROVE  JobInv'
<1>1. PICK j \in queue : /\ queue' = queue \ {j}
                         /\ op' = [op EXCEPT ![<<p, n>>] = Starts("dequeue", j)]
                         /\ Becomes({j} \cap Worked, "shared")
  BY DEF Poll
<1>2. <<p, n>> \in Threads /\ op[<<p, n>>] = NoOp
  BY DEF Poll, Threads
<1>3. j \in Jobs /\ fate[j] # "none"
  BY DEF JobInv, JobTypeOK, Known, Unknown
<1>4. UNCHANGED <<attempts, processing, expired, dlq, failures, repeats, timedOut>>
  BY DEF Poll, processorVars, counts
<1>5. timedOut' \in [Sweeps -> SUBSET Jobs] /\ \A s \in Sweeps : timedOut'[s] \subseteq timedOut[s]
  BY <1>4 DEF JobInv, JobTypeOK
<1>6. /\ {j} \cap Worked \subseteq {j}
      /\ queue' \subseteq queue /\ queue \subseteq queue' \cup {j}
  BY <1>1
<1> QED
  BY <1>1, <1>2, <1>3, <1>4, <1>5, <1>6, TakeUpInv

\* The timeout sweep takes up the next job it found expired.
LEMMA ReleaseNextInv ==
  ASSUME JobInv, NEW s \in Sweeps, ReleaseNext(s)
  PROVE  JobInv'
<1>1. PICK j \in timedOut[s] : /\ op' = [op EXCEPT ![s] = Starts("release", j)]
                               /\ timedOut' = [timedOut EXCEPT ![s] = @ \ {j}]
                               /\ Becomes({j} \cap Worked, "shared")
  BY DEF ReleaseNext
<1>2. s \in Threads /\ op[s] = NoOp
  BY DEF ReleaseNext, Threads
<1>3. j \in Jobs /\ fate[j] # "none"
  BY DEF JobInv, JobTypeOK, Known, Unknown
<1>4. UNCHANGED <<attempts, queue, processing, expired, dlq, failures, repeats>>
  BY DEF ReleaseNext, jobSets, counts
<1>5. timedOut' \in [Sweeps -> SUBSET Jobs] /\ \A u \in Sweeps : timedOut'[u] \subseteq timedOut[u]
  BY <1>1 DEF JobInv, JobTypeOK
<1>6. /\ {j} \cap Worked \subseteq {j}
      /\ queue' \subseteq queue /\ queue \subseteq queue' \cup {j}
  BY <1>1, <1>4
<1> QED
  BY <1>1, <1>2, <1>3, <1>4, <1>5, <1>6, TakeUpInv

\* A client submits a job.
LEMMA EnqueueJobInv ==
  ASSUME JobInv, NEW j \in Jobs, EnqueueJob(j)
  PROVE  JobInv'
<1>1. client \in Threads /\ op[client] = NoOp
  BY DEF EnqueueJob, Threads
<1>2. UNCHANGED <<attempts, queue, processing, expired, dlq, failures, repeats, timedOut>>
  BY DEF EnqueueJob, jobSets, processorVars, counts
<1>3. timedOut' \in [Sweeps -> SUBSET Jobs] /\ \A s \in Sweeps : timedOut'[s] \subseteq timedOut[s]
  BY <1>2 DEF JobInv, JobTypeOK
<1>4. op' = [op EXCEPT ![client] = Starts("enqueue", j)] /\ Becomes({j}, "enqueued")
  BY DEF EnqueueJob
<1> QED
  BY <1>1, <1>2, <1>3, <1>4, TakeUpInv

\* A thread goes over to an operation that holds nothing, or to none at all;
\* the job it held in hand, if any, is told.
LEMMA LetGoInv ==
  ASSUME JobInv, NEW t \in Threads, NEW o, OpOK(o), op' = [op EXCEPT ![t] = o], o.read = 0,
         o.job \in {op[t].job, NoJob}, o.kind \in {"none", "nack", "acknowledge"},
         \A j \in Jobs : Told(j) => Told(j)',
         \A j \in Jobs : fate'[j] # fate[j] =>
           fate'[j] # "none" /\ (fate'[j] \in {"acked", "torn"} \/ fate[j] \in {"enqueued", "shared"}),
         fate' \in [Jobs -> {"none", "enqueued", "shared", "acked", "torn"}],
         InHand(op[t]) => fate'[op[t].job] \in {"acked", "torn"},
         o.kind = "acknowledge" => fate'[o.job] \in {"acked", "torn"},
         UNCHANGED <<attempts, queue, processing, expired, dlq, failures>>,
         repeats' \in [Jobs -> 0 .. MaxAttempts], \A j \in Jobs : repeats'[j] >= repeats[j],
         timedOut' \in [Sweeps -> SUBSET Jobs], \A s \in Sweeps : timedOut'[s] \subseteq timedOut[s]
  PROVE  JobTypeOK' /\ AckedIsTold' /\ Known' /\ Kept' /\ DeadOnlyByFailures'
<1>1. JobTypeOK'
  BY ThreadType DEF JobInv, JobTypeOK
<1>2. \A j \in Jobs : failures'[j] >= failures[j]
  BY DEF JobInv, JobTypeOK
<1>3. failures' \in [Jobs -> 0 .. MaxAttempts] /\ dlq' \subseteq Jobs
  BY DEF JobInv, JobTypeOK
<1>4. ASSUME NEW j \in Jobs, fate'[j] \in {"enqueued", "shared"}
      PROVE  \/ j \in queue' \cup processing' \cup dlq'
             \/ o.job = j /\ InHand(o)
             \/ /\ fate[j] \in {"enqueued", "shared"}
                /\ j \notin queue \cup processing \cup dlq
                /\ ~(op[t].job = j /\ InHand(op[t]))
  BY <1>4
<1>5. AckedIsTold' /\ Kept' /\ DeadOnlyByFailures'
  BY <1>2, <1>3, <1>4, ThreadKeeps
<1>6. o.job \in Jobs => fate'[o.job] # "none"
  <2>1. o.job \in Jobs => fate[o.job] # "none"
    BY JobConstants DEF JobInv, Known, Unknown
  <2> QED
    BY <2>1
<1>7. \A j \in Jobs : fate'[j] = "none" => fate[j] = "none"
  OBVIOUS
<1>8. Known'
  BY <1>1, <1>6, <1>7, ThreadKnown
<1> QED
  BY <1>1, <1>5, <1>8

\* The handler is done: acknowledge().
LEMMA HandlerSucceedsInv ==
  ASSUME JobInv, NEW t \in Threads, HandlerSucceeds(t)
  PROVE  JobInv'
<1> DEFINE o == Starts("acknowledge", op[t].job)
<1>1. op[t].kind = "handle" /\ OpOK(op[t]) /\ op[t].job \in Jobs
  BY DEF HandlerSucceeds, JobInv, JobTypeOK, OpOK
<1>2. /\ OpOK(o) /\ o.read = 0 /\ o.kind = "acknowledge" /\ o.job = op[t].job
  BY <1>1, StartsOK DEF Kinds
<1>3. /\ fate' \in [Jobs -> {"none", "enqueued", "shared", "acked", "torn"}]
      /\ \A j \in Jobs : Told(j) => Told(j)'
      /\ fate'[op[t].job] \in {"acked", "torn"}
      /\ \A j \in Jobs : fate'[j] # fate[j] => fate'[j] \in {"acked", "torn"}
  BY <1>1 DEF HandlerSucceeds, Becomes, Told, JobInv, JobTypeOK
<1>4. op' = [op EXCEPT ![t] = o] /\ UNCHANGED <<attempts, queue, processing, expired, dlq, failures, repeats, timedOut>>
  BY DEF HandlerSucceeds, Begin, jobSets, processorVars, counts
<1>5. ~InHand(op[t])
  BY <1>1, InHandIs
<1>6. timedOut' \in [Sweeps -> SUBSET Jobs] /\ \A s \in Sweeps : timedOut'[s] \subseteq timedOut[s]
  BY <1>4 DEF JobInv, JobTypeOK
<1> HIDE DEF o
<1>9. repeats' \in [Jobs -> 0 .. MaxAttempts] /\ \A j \in Jobs : repeats'[j] >= repeats[j]
  BY <1>4 DEF JobInv, JobTypeOK
<1>7. JobTypeOK' /\ AckedIsTold' /\ Known' /\ Kept' /\ DeadOnlyByFailures'
  BY <1>2, <1>3, <1>4, <1>5, <1>6, <1>9, LetGoInv
<1>10. o.kind \notin Nacks
  BY <1>2 DEF Nacks
<1>8. AllAccounted' /\ AllLimited'
  BY <1>2, <1>3, <1>4, <1>7, <1>10, BeginAccounted
<1> QED
  BY <1>7, <1>8 DEF JobInv

\* The call has returned.
LEMMA ReadBackInv ==
  ASSUME JobInv, NEW t \in Threads, ReadBack(t)
  PROVE  JobInv'
<1>1. op[t].left = <<>> /\ OpOK(op[t])
  BY DEF ReadBack, ReadingBack, JobInv, JobTypeOK
<1>2. op' = [op EXCEPT ![t] = NoOp]
      /\ UNCHANGED <<attempts, queue, processing, expired, dlq, fate, failures, repeats, timedOut>>
  BY DEF ReadBack, jobSets, jobHistory, counts
<1>3. ~InHand(op[t])
  <2>1. ToDo(op[t]) = 0
    BY <1>1, ReckonsType
  <2>2. op[t].kind \in ReadsBack
    BY DEF ReadBack, ReadingBack
  <2> QED
    BY <2>1, <2>2, InHandIs DEF ReadsBack, Nacks
<1>4. /\ OpOK(NoOp) /\ NoOp.read = 0 /\ NoOp.kind = "none" /\ NoOp.job = NoJob
  BY NoOpOK
<1>5. /\ \A j \in Jobs : Told(j) => Told(j)'
      /\ fate' \in [Jobs -> {"none", "enqueued", "shared", "acked", "torn"}]
      /\ \A s \in Sweeps : timedOut'[s] \subseteq timedOut[s]
      /\ timedOut' \in [Sweeps -> SUBSET Jobs]
      /\ repeats' \in [Jobs -> 0 .. MaxAttempts] /\ \A j \in Jobs : repeats'[j] >= repeats[j]
  BY <1>2 DEF JobInv, JobTypeOK, Told
<1>6. JobTypeOK' /\ AckedIsTold' /\ Known' /\ Kept' /\ DeadOnlyByFailures'
  BY <1>2, <1>3, <1>4, <1>5, LetGoInv
<1>7. NoOp.kind \notin Nacks
  BY <1>4 DEF Nacks
<1>8. AllAccounted' /\ AllLimited'
  BY <1>2, <1>4, <1>5, <1>6, <1>7, BeginAccounted
<1> QED
  BY <1>6, <1>8 DEF JobInv

\* One nack more is under way, and it is booked.
LEMMA NackBegins ==
  ASSUME JobInv, JobTypeOK', NEW t \in Threads, NEW o, OpOK(o), op' = [op EXCEPT ![t] = o],
         ToDo(op[t]) = 0, op[t].job \in Jobs,
         o.kind \in Nacks, ToDo(o) = 4, o.job = op[t].job, o.read = 0, attempts' = attempts,
         \A j \in Jobs : Told(j) => Told(j)',
         \A j \in Jobs \ {op[t].job} : failures'[j] = failures[j] /\ repeats'[j] = repeats[j],
         \A j \in Jobs : j = op[t].job =>
           \/ Told(j)' \/ failures'[j] = MaxAttempts
           \/ failures[j] # MaxAttempts /\ ~Told(j) /\ Booked(j)' = Booked(j) + 1
  PROVE  AllAccounted'
<1> SUFFICES ASSUME NEW j \in Jobs PROVE Accounted(j)'
  BY DEF AllAccounted
<1>1. op'[t] = o /\ (\A u \in Threads \ {t} : op'[u] = op[u]) /\ \A u \in Threads : OpOK(op'[u])
  BY ThreadType DEF JobInv
<1>2. Accounted(j) /\ Booked(j) \in Nat /\ attempts[j] \in Nat
  BY DEF JobInv, AllAccounted, JobTypeOK, Booked
<1>3. CASE Told(j)
  BY <1>3 DEF Accounted
<1>4. CASE ~Told(j) /\ j # op[t].job
  <2>1. Nacking(j)' = Nacking(j)
    BY <1>1, <1>4 DEF Nacking
  <2>2. Reckoned(j)' = Reckoned(j)
    BY <1>1, <1>4 DEF Reckoned
  <2>3. failures'[j] = failures[j] /\ Booked(j)' = Booked(j)
    BY <1>4 DEF Booked
  <2> QED
    BY <1>2, <1>4, <2>1, <2>2, <2>3 DEF Accounted
<1>5. CASE ~Told(j) /\ j = op[t].job
  <2>2. CASE Told(j)' \/ failures'[j] = MaxAttempts
    BY <2>2 DEF Accounted
  <2>3. CASE failures[j] # MaxAttempts /\ ~Told(j) /\ Booked(j)' = Booked(j) + 1
    <3>3. IsFiniteSet(Nacking(j)) /\ \A n \in Reckoned(j) : n + Cardinality(Nacking(j)) <= Booked(j)
      BY <1>2, <1>5, <2>3 DEF Accounted
    <3>4. t \notin Nacking(j) /\ Nacking(j)' = Nacking(j) \cup {t}
      BY <1>1, <1>5 DEF Nacking
    <3>5. /\ IsFiniteSet(Nacking(j))' /\ Cardinality(Nacking(j)') = Cardinality(Nacking(j)) + 1
          /\ Cardinality(Nacking(j)) \in Nat
      BY <3>3, <3>4, FS_AddElement, FS_CardinalityType
    <3>6. ASSUME NEW n \in Reckoned(j)' PROVE n + Cardinality(Nacking(j)') <= Booked(j)'
      <4>1. \E m \in Reckoned(j) : n \in Nat /\ m \in Nat /\ n <= m
        <5>1. CASE n = attempts'[j]
          BY <1>2, <5>1, ReckonedType DEF JobInv
        <5>2. ASSUME NEW u \in Threads, op'[u].job = j, n = Reckons(op'[u])
              PROVE  \E m \in Reckoned(j) : n \in Nat /\ m \in Nat /\ n <= m
          <6>1. CASE u = t
            <7>1. n = 0
              BY <1>1, <5>2, <6>1 DEF Reckons
            <7> QED
              BY <1>2, <7>1, ReckonedType DEF JobInv
          <6>2. CASE u # t
            BY <1>1, <5>2, <6>2, ReckonedType DEF JobInv
          <6> QED
            BY <6>1, <6>2
        <5> QED
          BY <5>1, <5>2 DEF Reckoned
      <4>2. PICK m \in Reckoned(j) : n \in Nat /\ m \in Nat /\ n <= m
        BY <4>1
      <4>3. m + Cardinality(Nacking(j)) <= Booked(j)
        BY <3>3
      <4> QED
        BY <1>2, <2>3, <3>5, <4>2, <4>3
    <3> QED
      BY <3>5, <3>6 DEF Accounted
  <2> QED
    BY <1>5, <2>2, <2>3
<1> QED
  BY <1>3, <1>4, <1>5

\* The handler failed: report or nack().  Every failure allows for one report.
LEMMA HandlerFailsInv ==
  ASSUME JobInv, NEW t \in Threads, HandlerFails(t)
  PROVE  JobInv'
<1>1. op[t].kind = "handle" /\ OpOK(op[t]) /\ op[t].job \in Jobs
  BY DEF HandlerFails, JobInv, JobTypeOK, OpOK
<1>2. PICK o : /\ OpOK(o) /\ o.read = 0 /\ o.kind \in {"nack", "report"} /\ o.job = op[t].job /\ ToDo(o) = 4
               /\ op' = [op EXCEPT ![t] = o]
  <2>1. \A kind \in {"nack", "report"} :
          LET o == Starts(kind, op[t].job)
          IN  /\ OpOK(o) /\ o.read = 0 /\ o.kind \in {"nack", "report"} /\ o.job = op[t].job /\ ToDo(o) = 4
    BY <1>1, StartsOK DEF Kinds, Nacks
  <2> QED
    BY <2>1 DEF HandlerFails, Begin
<1>3. /\ UNCHANGED <<attempts, queue, processing, expired, dlq, fate, timedOut, repeats>>
      /\ failures' = IF Told(op[t].job) THEN failures ELSE [failures EXCEPT ![op[t].job] = Capped(@ + 1)]
  BY DEF HandlerFails, jobSets, processorVars
<1>4. failures \in [Jobs -> 0 .. MaxAttempts] /\ repeats \in [Jobs -> 0 .. MaxAttempts]
  BY DEF JobInv, JobTypeOK
<1>5. /\ failures' \in [Jobs -> 0 .. MaxAttempts] /\ \A j \in Jobs : failures'[j] >= failures[j]
      /\ repeats' \in [Jobs -> 0 .. MaxAttempts] /\ \A j \in Jobs : repeats'[j] >= repeats[j]
  BY <1>1, <1>3, <1>4, JobConstants DEF Capped
<1>6. JobTypeOK'
  BY <1>2, <1>3, <1>5, ThreadType DEF JobInv, JobTypeOK
<1>7. ~InHand(op[t])
  BY <1>1, InHandIs
<1>11. \A j \in Jobs : Told(j) => Told(j)'
  BY <1>3 DEF Told
<1>8. AckedIsTold' /\ Kept' /\ DeadOnlyByFailures'
  <2>2. dlq' \subseteq Jobs /\ \A j \in dlq' : j \in dlq \/ Deserved(j)'
    BY <1>3 DEF JobInv, JobTypeOK
  <2>3. ASSUME NEW j \in Jobs, fate'[j] \in {"enqueued", "shared"}
        PROVE  \/ j \in queue' \cup processing' \cup dlq'
               \/ o.job = j /\ InHand(o)
               \/ /\ fate[j] \in {"enqueued", "shared"}
                  /\ j \notin queue \cup processing \cup dlq
                  /\ ~(op[t].job = j /\ InHand(op[t]))
    BY <1>3, <1>7, <2>3
  <2> QED
    BY <1>2, <1>3, <1>5, <1>11, <2>2, <2>3, ThreadKeeps
<1>9. Known'
  <2>1. fate'[o.job] # "none"
    BY <1>1, <1>2, <1>3 DEF JobInv, Known, Unknown
  <2> QED
    BY <1>2, <1>3, <1>6, <2>1, ThreadKnown
<1>12. ToDo(op[t]) = 0 /\ o.kind \in Nacks
  <2>1. op[t].left = <<>>
    BY <1>1 DEF OpOK, Remains, ReadsBack, Nacks
  <2> QED
    BY <1>1, <1>2, <2>1, ReckonsType DEF Nacks
<1>13. \A j \in Jobs : j = op[t].job /\ ~Told(j) =>
          \/ failures'[j] = MaxAttempts
          \/ failures[j] # MaxAttempts /\ failures'[j] = failures[j] + 1
  BY <1>3, <1>4, JobConstants DEF Capped
<1>10. AllAccounted'
  <2>1. \A j \in Jobs \ {op[t].job} : failures'[j] = failures[j] /\ repeats'[j] = repeats[j]
    BY <1>3, <1>4
  <2>2. \A j \in Jobs : j = op[t].job =>
           \/ Told(j)' \/ failures'[j] = MaxAttempts
           \/ failures[j] # MaxAttempts /\ ~Told(j) /\ Booked(j)' = Booked(j) + 1
    BY <1>3, <1>4, <1>11, <1>13 DEF Booked
  <2> QED
    BY <1>1, <1>2, <1>3, <1>6, <1>11, <1>12, <2>1, <2>2, NackBegins
<1>14. AllLimited'
  <2> SUFFICES ASSUME NEW j \in Jobs PROVE Limited(j)'
    BY DEF AllLimited
  <2>1. op'[t] = o /\ \A u \in Threads \ {t} : op'[u] = op[u]
    BY <1>2 DEF JobInv, JobTypeOK
  <2>2. Limited(j) /\ failures[j] \in Nat /\ repeats[j] \in Nat
    BY DEF JobInv, AllLimited, JobTypeOK
  <2>3. CASE Told(j)
    BY <1>11, <2>3 DEF Limited
  <2>4. CASE ~Told(j) /\ j # op[t].job
    <3>1. Reporting(j)' = Reporting(j)
      BY <1>1, <1>2, <2>1, <2>4 DEF Reporting
    <3>2. failures'[j] = failures[j] /\ repeats'[j] = repeats[j]
      BY <1>3, <1>4, <2>4
    <3> QED
      BY <2>2, <2>4, <3>1, <3>2 DEF Limited
  <2>5. CASE ~Told(j) /\ j = op[t].job
    <3>1. CASE failures'[j] = MaxAttempts
      BY <3>1 DEF Limited
    <3>2. CASE failures[j] # MaxAttempts /\ failures'[j] = failures[j] + 1
      <4>1. IsFiniteSet(Reporting(j)) /\ repeats[j] + Cardinality(Reporting(j)) <= failures[j]
        BY <2>2, <2>5, <3>2 DEF Limited
      <4>2. Reporting(j)' \subseteq Reporting(j) \cup {t} /\ t \notin Reporting(j)
        BY <1>1, <2>1 DEF Reporting
      <4>3. /\ IsFiniteSet(Reporting(j) \cup {t})
            /\ Cardinality(Reporting(j) \cup {t}) = Cardinality(Reporting(j)) + 1
            /\ Cardinality(Reporting(j)) \in Nat
        BY <4>1, <4>2, FS_AddElement, FS_CardinalityType
      <4>4. /\ IsFiniteSet(Reporting(j)') /\ Cardinality(Reporting(j)') <= Cardinality(Reporting(j)) + 1
            /\ Cardinality(Reporting(j)') \in Nat
        BY <4>2, <4>3, FS_Subset, FS_CardinalityType
      <4>5. repeats'[j] = repeats[j]
        BY <1>3
      <4> QED
        BY <2>2, <3>2, <4>1, <4>3, <4>4, <4>5 DEF Limited
    <3> QED
      BY <1>13, <2>5, <3>1, <3>2
  <2> QED
    BY <2>3, <2>4, <2>5
<1> QED
  BY <1>6, <1>8, <1>9, <1>10, <1>14 DEF JobInv

-----------------------------------------------------------------------------
(* Faults and time *)

\* What a broken operation held in hand is told.
LEMMA BrokenTold ==
  ASSUME JobInv, NEW ts \in SUBSET Threads, Becomes(Broken(ts), "torn")
  PROVE  /\ fate' \in [Jobs -> {"none", "enqueued", "shared", "acked", "torn"}]
         /\ \A j \in Jobs : Told(j) => Told(j)'
         /\ \A j \in Jobs : fate'[j] # fate[j] => fate'[j] \in {"acked", "torn"}
         /\ \A t \in ts : InHand(op[t]) => fate'[op[t].job] \in {"acked", "torn"}
<1>1. ASSUME NEW t \in ts, InHand(op[t]) PROVE op[t].job \in Jobs /\ op[t].job \in Broken(ts)
  <2>1. op[t].kind # "none" /\ OpOK(op[t])
    BY <1>1, InHandIs DEF JobInv, JobTypeOK
  <2> QED
    BY <1>1, <2>1 DEF Broken, OpOK
<1>2. /\ fate' \in [Jobs -> {"none", "enqueued", "shared", "acked", "torn"}]
      /\ \A j \in Jobs : Told(j) => Told(j)'
      /\ \A j \in Jobs : fate'[j] # fate[j] => fate'[j] \in {"acked", "torn"}
      /\ \A j \in Jobs : j \in Broken(ts) => fate'[j] \in {"acked", "torn"}
  BY DEF Becomes, Told, JobInv, JobTypeOK
<1> QED
  BY <1>1, <1>2

\* A command of a run failed: the run nacks its job, with no new failure.  If
\* the nack is one too many, it uses up the report it comes after.
LEMMA RunCommandFailsInv ==
  ASSUME JobInv, NEW t \in Threads, RunCommandFails(t)
  PROVE  JobInv'
<1> DEFINE o     == Starts("nack", op[t].job)
           again == op[t].kind = "report" /\ op[t].left = <<>>
<1>1. op[t].kind \in {"acknowledge", "report"} /\ (again <=> op[t].kind = "report" /\ ReadingBack(op[t]))
  BY DEF RunCommandFails, ReadingBack, ReadsBack, Nacks
<1>2. op[t].job \in Jobs /\ OpOK(op[t]) /\ Reckons(op[t]) \in Nat /\ ToDo(op[t]) \in 0 .. 5 /\ fate[op[t].job] # "none"
  BY <1>1, ReckonsType DEF JobInv, JobTypeOK, OpOK, Known, Unknown
<1>3. /\ OpOK(o) /\ o.read = 0 /\ o.kind = "nack" /\ o.job = op[t].job /\ ToDo(o) = 4
  BY <1>2, StartsOK DEF Kinds, Nacks
<1>4. /\ fate' \in [Jobs -> {"none", "enqueued", "shared", "acked", "torn"}]
      /\ \A j \in Jobs : Told(j) => Told(j)'
      /\ \A j \in Jobs : fate'[j] # fate[j] =>
           fate'[j] # "none" /\ (fate'[j] \in {"acked", "torn"} \/ fate[j] \in {"enqueued", "shared"})
      /\ InHand(op[t]) => fate'[op[t].job] \in {"acked", "torn"}
  <2>1. CASE InHand(op[t])
    <3>1. Becomes({op[t].job}, "torn")
      BY <2>1 DEF RunCommandFails
    <3> QED
      BY <1>2, <3>1 DEF Becomes, Told, JobInv, JobTypeOK
  <2>2. CASE ~InHand(op[t])
    <3>1. PICK js \in SUBSET {op[t].job} : Becomes(js, "shared")
      BY <2>2 DEF RunCommandFails
    <3> QED
      BY <1>2, <2>2, <3>1 DEF Becomes, Told, JobInv, JobTypeOK
  <2> QED
    BY <2>1, <2>2
<1>5. op' = [op EXCEPT ![t] = o] /\ UNCHANGED <<attempts, queue, processing, expired, dlq, failures, timedOut>>
  BY DEF RunCommandFails, Begin, jobSets, processorVars
<1>6. timedOut' \in [Sweeps -> SUBSET Jobs] /\ \A s \in Sweeps : timedOut'[s] \subseteq timedOut[s]
  BY <1>5 DEF JobInv, JobTypeOK
<1>9. repeats' = IF again /\ ~Told(op[t].job) THEN [repeats EXCEPT ![op[t].job] = Capped(@ + 1)] ELSE repeats
  BY <1>1 DEF RunCommandFails
<1>10. repeats' \in [Jobs -> 0 .. MaxAttempts] /\ \A j \in Jobs : repeats'[j] >= repeats[j]
  <2>1. repeats \in [Jobs -> 0 .. MaxAttempts]
    BY DEF JobInv, JobTypeOK
  <2> QED
    BY <1>2, <1>9, <2>1, JobConstants DEF Capped
<1> HIDE DEF o, again
<1>7. JobTypeOK' /\ AckedIsTold' /\ Known' /\ Kept' /\ DeadOnlyByFailures'
  BY <1>3, <1>4, <1>5, <1>6, <1>10, LetGoInv
<1>11. op'[t] = o /\ (\A u \in Threads \ {t} : op'[u] = op[u]) /\ \A u \in Threads : OpOK(op'[u])
  BY <1>3, <1>5, ThreadType DEF JobInv
<1>12. \A j \in Jobs : failures[j] \in 0 .. MaxAttempts /\ repeats[j] \in 0 .. MaxAttempts /\ failures'[j] = failures[j]
  BY <1>5 DEF JobInv, JobTypeOK
\* The repeat is counted in full: the report that is over stands for a failure.
<1>13. ASSUME again, NEW j \in Jobs, j = op[t].job, ~Told(j), failures[j] # MaxAttempts
       PROVE  /\ repeats'[j] = repeats[j] + 1
              /\ IsFiniteSet(Reporting(j)') /\ repeats'[j] + Cardinality(Reporting(j)') <= failures[j]
  <2>1. IsFiniteSet(Reporting(j)) /\ repeats[j] + Cardinality(Reporting(j)) <= failures[j]
    BY <1>13 DEF JobInv, AllLimited, Limited
  <2>2. t \in Reporting(j)
    BY <1>13 DEF Reporting, again
  <2>3. Reporting(j)' = Reporting(j) \ {t}
    BY <1>3, <1>11 DEF Reporting
  <2>4. /\ IsFiniteSet(Reporting(j)') /\ Cardinality(Reporting(j)') = Cardinality(Reporting(j)) - 1
        /\ Cardinality(Reporting(j)) \in Nat /\ Cardinality(Reporting(j)') \in Nat
    BY <2>1, <2>2, <2>3, FS_RemoveElement, FS_CardinalityType
  <2>5. repeats[j] + 1 <= MaxAttempts
    BY <1>12, <2>1, <2>4, JobConstants
  <2>6. repeats'[j] = repeats[j] + 1
    BY <1>9, <1>12, <1>13, <2>5, JobConstants DEF Capped, JobInv, JobTypeOK
  <2> QED
    BY <1>12, <2>1, <2>4, <2>6
<1>14. ASSUME NEW j \in Jobs, ~(again /\ j = op[t].job)
       PROVE  repeats'[j] = repeats[j]
  BY <1>9, <1>14 DEF JobInv, JobTypeOK
<1>15. AllLimited'
  <2> SUFFICES ASSUME NEW j \in Jobs PROVE Limited(j)'
    BY DEF AllLimited
  <2>1. CASE Told(j) \/ failures[j] = MaxAttempts
    BY <1>4, <1>12, <2>1 DEF Limited
  <2>2. CASE ~Told(j) /\ failures[j] # MaxAttempts /\ again /\ j = op[t].job
    BY <1>12, <1>13, <2>2 DEF Limited
  <2>3. CASE ~Told(j) /\ failures[j] # MaxAttempts /\ ~(again /\ j = op[t].job)
    <3>1. IsFiniteSet(Reporting(j)) /\ repeats[j] + Cardinality(Reporting(j)) <= failures[j]
      BY <2>3 DEF JobInv, AllLimited, Limited
    <3>2. Reporting(j)' \subseteq Reporting(j)
      BY <1>3, <1>11 DEF Reporting
    <3>3. /\ IsFiniteSet(Reporting(j)') /\ Cardinality(Reporting(j)') <= Cardinality(Reporting(j))
          /\ Cardinality(Reporting(j)) \in Nat /\ Cardinality(Reporting(j)') \in Nat
      BY <3>1, <3>2, FS_Subset, FS_CardinalityType
    <3> QED
      BY <1>12, <1>14, <2>3, <3>1, <3>3 DEF Limited
  <2> QED
    BY <2>1, <2>2, <2>3
<1>16. CASE again
  <2>1. ToDo(op[t]) = 0
    BY <1>2, <1>16, ReckonsType DEF again
  <2>2. \A j \in Jobs \ {op[t].job} : failures'[j] = failures[j] /\ repeats'[j] = repeats[j]
    BY <1>12, <1>14
  <2>3. ASSUME NEW j \in Jobs, j = op[t].job
        PROVE  \/ Told(j)' \/ failures'[j] = MaxAttempts
               \/ failures[j] # MaxAttempts /\ ~Told(j) /\ Booked(j)' = Booked(j) + 1
    <3>1. CASE Told(j) \/ failures[j] = MaxAttempts
      BY <1>4, <1>12, <3>1
    <3>2. CASE ~Told(j) /\ failures[j] # MaxAttempts
      <4>1. repeats'[j] = repeats[j] + 1
        BY <1>13, <1>16, <2>3, <3>2
      <4> QED
        BY <1>12, <3>2, <4>1 DEF Booked
    <3> QED
      BY <3>1, <3>2
  <2>4. o.kind \in Nacks
    BY <1>3 DEF Nacks
  <2>5. AllAccounted'
    BY <1>2, <1>3, <1>4, <1>5, <1>7, <2>1, <2>2, <2>3, <2>4, NackBegins
  <2> QED
    BY <1>7, <1>15, <2>5 DEF JobInv
<1>17. CASE ~again
  <2> SUFFICES ASSUME NEW j \in Jobs PROVE Accounted(j)'
    BY <1>7, <1>15 DEF JobInv, AllAccounted
  <2>1. CASE j = op[t].job /\ (op[t].kind = "acknowledge" \/ InHand(op[t]))
    <3>1. fate'[j] \in {"acked", "torn"}
      BY <1>2, <1>4, <2>1 DEF JobInv, AckedIsTold, Told
    <3> QED
      BY <3>1 DEF Accounted, Told
  <2>2. CASE j # op[t].job \/ (op[t].kind = "report" /\ ~InHand(op[t]))
    <3>2. op[t].kind = "report" /\ ~InHand(op[t]) => ToDo(op[t]) >= 2
      <4>1. op[t].kind = "report" => ToDo(op[t]) \in 1 .. 5
        BY <1>2, <1>17, Shape DEF again
      <4> QED
        BY <4>1, InHandIs
    <3>3. Nacking(j)' \subseteq Nacking(j)
      BY <1>3, <1>11, <2>2, <3>2 DEF Nacking, Nacks
    <3>4. ASSUME NEW n \in Reckoned(j)'
          PROVE  n \in Nat /\ \E m \in Reckoned(j) : m \in Nat /\ n <= m
      <4>1. CASE n = attempts'[j]
        BY <1>5, <4>1, ReckonedType DEF JobInv, JobTypeOK
      <4>2. ASSUME NEW u \in Threads, op'[u].job = j, n = Reckons(op'[u])
            PROVE  n \in Nat /\ \E m \in Reckoned(j) : m \in Nat /\ n <= m
        <5>1. CASE u = t
          <6>1. n = 0
            BY <1>3, <1>11, <4>2, <5>1 DEF Reckons
          <6>2. attempts[j] \in Nat /\ attempts[j] \in Reckoned(j)
            BY ReckonedType DEF JobInv
          <6> QED
            BY <6>1, <6>2
        <5>2. CASE u # t
          BY <1>11, <4>2, <5>2, ReckonedType DEF JobInv
        <5> QED
          BY <5>1, <5>2
      <4> QED
        BY <4>1, <4>2 DEF Reckoned
    <3>5. Accounted(j) /\ failures'[j] = failures[j] /\ repeats'[j] = repeats[j]
      BY <1>12, <1>14, <1>17 DEF JobInv, AllAccounted
    <3> QED
      BY <1>4, <1>7, <3>3, <3>4, <3>5, StillAccounted DEF JobInv
  <2> QED
    BY <1>1, <2>1, <2>2
<1> QED
  BY <1>16, <1>17

\* A command of another operation failed: it is given up.
LEMMA JobCommandFailsInv ==
  ASSUME JobInv, NEW t \in Threads, JobCommandFails(t)
  PROVE  JobInv'
<1>1. op' = [op EXCEPT ![t] = NoOp] /\ UNCHANGED <<attempts, queue, processing, expired, dlq, failures, repeats>>
  BY DEF JobCommandFails, jobSets, counts
<1>2. /\ fate' \in [Jobs -> {"none", "enqueued", "shared", "acked", "torn"}]
      /\ \A j \in Jobs : Told(j) => Told(j)'
      /\ \A j \in Jobs : fate'[j] # fate[j] => fate'[j] \in {"acked", "torn"}
      /\ InHand(op[t]) => fate'[op[t].job] \in {"acked", "torn"}
  BY BrokenTold DEF JobCommandFails
<1>3. timedOut' \in [Sweeps -> SUBSET Jobs] /\ \A s \in Sweeps : timedOut'[s] \subseteq timedOut[s]
  BY DEF JobCommandFails, JobInv, JobTypeOK
<1>4. /\ OpOK(NoOp) /\ NoOp.read = 0 /\ NoOp.kind = "none" /\ NoOp.job = NoJob
  BY NoOpOK
<1>7. repeats' \in [Jobs -> 0 .. MaxAttempts] /\ \A j \in Jobs : repeats'[j] >= repeats[j]
  BY <1>1 DEF JobInv, JobTypeOK
<1>5. JobTypeOK' /\ AckedIsTold' /\ Known' /\ Kept' /\ DeadOnlyByFailures'
  BY <1>1, <1>2, <1>3, <1>4, <1>7, LetGoInv
<1>8. NoOp.kind \notin Nacks
  BY <1>4 DEF Nacks
<1>6. AllAccounted' /\ AllLimited'
  BY <1>1, <1>2, <1>4, <1>5, <1>8, BeginAccounted
<1> QED
  BY <1>5, <1>6 DEF JobInv

\* A process dies: all of its threads are idle, and what they held is told.
LEMMA ProcessorDiesInv ==
  ASSUME JobInv, NEW p \in Procs, ProcessorDies(p)
  PROVE  JobInv'
<1> DEFINE mine == {t \in Threads : t[1] = p}
<1>1. /\ op' = [t \in Threads |-> IF t \in mine THEN NoOp ELSE op[t]]
      /\ timedOut' = [s \in Sweeps |-> IF s \in mine THEN {} ELSE timedOut[s]]
      /\ Becomes(Broken(mine), "torn")
      /\ UNCHANGED <<attempts, queue, processing, expired, dlq, failures, repeats>>
  BY DEF ProcessorDies, jobSets, counts
<1>2. mine \in SUBSET Threads
  OBVIOUS
<1> HIDE DEF mine
<1>3. /\ fate' \in [Jobs -> {"none", "enqueued", "shared", "acked", "torn"}]
      /\ \A j \in Jobs : Told(j) => Told(j)'
      /\ \A j \in Jobs : fate'[j] # fate[j] => fate'[j] \in {"acked", "torn"}
      /\ \A t \in mine : InHand(op[t]) => fate'[op[t].job] \in {"acked", "torn"}
  BY <1>1, <1>2, BrokenTold
<1>4. \A t \in Threads : /\ OpOK(op'[t])
                         /\ t \notin mine => op'[t] = op[t]
                         /\ t \in mine => /\ op'[t].kind = "none" /\ op'[t].read = 0 /\ op'[t].job = NoJob
  BY <1>1, NoOpOK DEF JobInv, JobTypeOK
<1>5. JobTypeOK'
  BY <1>1, <1>3, <1>4 DEF JobInv, JobTypeOK
<1>6. AckedIsTold'
  <2> SUFFICES ASSUME NEW t \in Threads, op'[t].kind = "acknowledge"
               PROVE  fate'[op'[t].job] \in {"acked", "torn"}
    BY DEF AckedIsTold, Told
  <2>1. t \notin mine /\ op'[t] = op[t]
    BY <1>4
  <2>2. op[t].job \in Jobs /\ Told(op[t].job)
    BY <2>1 DEF JobInv, JobTypeOK, AckedIsTold, OpOK
  <2> QED
    BY <1>3, <2>1, <2>2 DEF Told
<1>7. Known'
  <2> SUFFICES ASSUME NEW j \in Jobs, fate'[j] = "none" PROVE Unknown(j)'
    BY DEF Known
  <2>1. Unknown(j)
    BY <1>3 DEF JobInv, Known
  <2>2. \A t \in Threads : op'[t].job # j
    BY <1>4, <2>1, JobConstants DEF Unknown
  <2>3. \A s \in Sweeps : j \notin timedOut'[s]
    BY <1>1, <2>1 DEF Unknown
  <2> QED
    BY <1>1, <2>1, <2>2, <2>3 DEF Unknown
<1>8. Kept'
  <2> SUFFICES ASSUME NEW j \in Jobs, fate'[j] \in {"enqueued", "shared"}
               PROVE  j \in queue' \cup processing' \cup dlq' \cup InSomeHand'
    BY DEF Kept
  <2>1. fate[j] = fate'[j]
    BY <1>3
  <2>2. CASE j \in queue \cup processing \cup dlq
    BY <1>1, <2>2
  <2>3. CASE j \in InSomeHand
    <3>1. PICK t \in Threads : op[t].job = j /\ InHand(op[t])
      BY <2>3 DEF InSomeHand
    <3>2. t \notin mine
      BY <1>3, <3>1
    <3> QED
      BY <1>4, <3>1, <3>2 DEF InSomeHand
  <2> QED
    BY <2>1, <2>2, <2>3 DEF JobInv, Kept
<1>9. DeadOnlyByFailures'
  BY <1>1, <1>3 DEF JobInv, JobTypeOK, DeadOnlyByFailures
<1>11. AllLimited'
  <2> SUFFICES ASSUME NEW j \in Jobs PROVE Limited(j)'
    BY DEF AllLimited
  <2>1. CASE Told(j) \/ failures[j] = MaxAttempts
    BY <1>1, <1>3, <2>1 DEF Limited
  <2>2. CASE IsFiniteSet(Reporting(j)) /\ repeats[j] + Cardinality(Reporting(j)) <= failures[j]
    <3>1. Reporting(j)' \subseteq Reporting(j)
      BY <1>4 DEF Reporting
    <3>2. /\ IsFiniteSet(Reporting(j)') /\ Cardinality(Reporting(j)') <= Cardinality(Reporting(j))
          /\ Cardinality(Reporting(j)) \in Nat /\ Cardinality(Reporting(j)') \in Nat
      BY <2>2, <3>1, FS_Subset, FS_CardinalityType
    <3>3. failures[j] \in Nat /\ repeats[j] \in Nat
      BY DEF JobInv, JobTypeOK
    <3> QED
      BY <1>1, <2>2, <3>2, <3>3 DEF Limited
  <2> QED
    BY <2>1, <2>2 DEF JobInv, AllLimited, Limited
<1>10. AllAccounted'
  <2> SUFFICES ASSUME NEW j \in Jobs PROVE Accounted(j)'
    BY DEF AllAccounted
  <2>1. Nacking(j)' \subseteq Nacking(j)
    BY <1>4 DEF Nacking, Nacks
  <2>2. Reckoned(j)' \subseteq Reckoned(j)
    BY <1>1, <1>4, JobConstants DEF Reckoned
  <2>3. ASSUME NEW n \in Reckoned(j)'
        PROVE  n \in Nat /\ \E m \in Reckoned(j) : m \in Nat /\ n <= m
    <3>1. n \in Nat
      BY <1>5, ReckonsType DEF Reckoned, JobTypeOK
    <3> QED
      BY <2>2, <3>1
  <2>4. Accounted(j) /\ failures'[j] = failures[j] /\ repeats'[j] = repeats[j]
    BY <1>1 DEF JobInv, AllAccounted
  <2> QED
    BY <1>3, <1>5, <2>1, <2>3, <2>4, StillAccounted DEF JobInv
<1> QED
  BY <1>5, <1>6, <1>7, <1>8, <1>9, <1>10, <1>11 DEF JobInv

\* A visibility timeout passes; a visibility check lists what has timed out.
LEMMA VisibilityInv ==
  ASSUME JobInv,
         \/ \E j \in Jobs : VisibilityExpires(j)
         \/ \E s \in Sweeps : VisibilityCheck(s)
         \/ UNCHANGED schedulerVars
  PROVE  JobInv'
<1>1. /\ UNCHANGED <<attempts, queue, processing, dlq, op, fate, failures, repeats>>
      /\ expired' \subseteq expired \cup processing
      /\ \A s \in Sweeps : timedOut'[s] \subseteq timedOut[s] \cup expired
      /\ timedOut' \in [Sweeps -> SUBSET Jobs]
  BY DEF VisibilityExpires, VisibilityCheck, schedulerVars, jobSets, processorVars, jobHistory, counts,
         JobInv, JobTypeOK
<1>2. JobTypeOK'
  BY <1>1 DEF JobInv, JobTypeOK
<1>3. Known'
  BY <1>1 DEF JobInv, Known, Unknown
<1>4. AckedIsTold' /\ Kept' /\ DeadOnlyByFailures'
  BY <1>1 DEF JobInv, AckedIsTold, Kept, InSomeHand, DeadOnlyByFailures, Told
<1>5. AllAccounted' /\ AllLimited'
  BY <1>1 DEF JobInv, AllAccounted, Accounted, Nacking, Reckoned, Told, Booked, AllLimited, Limited, Reporting
<1> QED
  BY <1>2, <1>3, <1>4, <1>5 DEF JobInv

-----------------------------------------------------------------------------
\* Nothing is enqueued yet.
LEMMA JobInitInv == JobInit => JobInv
<1> SUFFICES ASSUME JobInit PROVE JobInv
  OBVIOUS
<1>1. \A t \in Threads : OpOK(op[t]) /\ op[t].kind = "none" /\ op[t].job \notin Jobs
  BY NoOpOK, JobConstants DEF JobInit
<1>2. JobTypeOK
  BY <1>1, JobConstants DEF JobInit, JobTypeOK
<1>3. AckedIsTold /\ Known /\ Kept /\ DeadOnlyByFailures
  BY <1>1 DEF JobInit, AckedIsTold, Known, Unknown, Kept, DeadOnlyByFailures
<1>4. ASSUME NEW j \in Jobs PROVE Accounted(j)
  <2>1. Nacking(j) = {}
    BY <1>1 DEF Nacking
  <2>2. Reckoned(j) = {0}
    BY <1>1 DEF JobInit, Reckoned
  <2>3. IsFiniteSet(Nacking(j)) /\ Cardinality(Nacking(j)) = 0
    BY <2>1, FS_EmptySet
  <2>4. Booked(j) = 0
    BY DEF JobInit, Booked
  <2> QED
    BY <2>2, <2>3, <2>4 DEF Accounted
<1>5. ASSUME NEW j \in Jobs PROVE Limited(j)
  <2>1. Reporting(j) = {}
    BY <1>1 DEF Reporting
  <2>2. IsFiniteSet(Reporting(j)) /\ Cardinality(Reporting(j)) = 0
    BY <2>1, FS_EmptySet
  <2> QED
    BY <2>2 DEF Limited, JobInit
<1> QED
  BY <1>2, <1>3, <1>4, <1>5 DEF JobInv, AllAccounted, AllLimited

\* Every command, whoever's and whenever, keeps the invariant.
LEMMA JobNextInv == JobInv /\ [JobNext]_schedulerVars => JobInv'
<1> SUFFICES ASSUME JobInv, [JobNext]_schedulerVars PROVE JobInv'
  OBVIOUS
<1>1. CASE \E t \in Threads : JobCommand(t) \/ HandlerSucceeds(t) \/ HandlerFails(t)
  BY <1>1, ReadJobInv, UpdateJobInv, RemoveJobInv, AddJobInv, ReadBackInv, HandlerSucceedsInv, HandlerFailsInv DEF JobCommand
<1>2. CASE \E p \in Procs, n \in Slots : Poll(p, n)
  BY <1>2, PollInv
<1>3. CASE \E s \in Sweeps : ReleaseNext(s)
  BY <1>3, ReleaseNextInv
<1>4. CASE \E j \in Jobs : EnqueueJob(j)
  BY <1>4, EnqueueJobInv
<1>5. CASE \/ \E j \in Jobs : VisibilityExpires(j)
           \/ \E s \in Sweeps : VisibilityCheck(s)
           \/ UNCHANGED schedulerVars
  BY <1>5, VisibilityInv
<1>6. CASE \E t \in Threads : RunCommandFails(t) \/ JobCommandFails(t)
  BY <1>6, RunCommandFailsInv, JobCommandFailsInv
<1>7. CASE \E p \in Procs : ProcessorDies(p)
  BY <1>7, ProcessorDiesInv
<1> QED
  BY <1>1, <1>2, <1>3, <1>4, <1>5, <1>6, <1>7 DEF JobNext, SchedulerStep

\* The invariant holds in every reachable state.
THEOREM JobInvariant == JobSpec => []JobInv
BY JobInitInv, JobNextInv, PTL DEF JobSpec

\* Whatever the order in which the Redis commands of any number of workers,
\* sweeps and callers mix: a job that was enqueued and has neither succeeded
\* nor been torn by a failed command is in a queue, in the PROCESSING set, dead
\* or in the hands of somebody.
THEOREM NoJobLostHolds == JobSpec => []NoJobLost
<1>1. JobInv => NoJobLost
  <2>1. \A o : InHand(o) => ~ReadingBack(o)
    <3> SUFFICES ASSUME NEW o, InHand(o), ReadingBack(o) PROVE FALSE
      OBVIOUS
    <3>1. Len(o.left) = 0
      BY Lists, Zenon DEF ReadingBack
    <3> QED
      BY <3>1 DEF InHand, ReadingBack, ReadsBack, Nacks
  <2> QED
    BY <2>1 DEF JobInv, Kept, InSomeHand, NoJobLost, Worked, WorkedBy
<1> QED
  BY <1>1, JobInvariant, PTL

\* A job is dead-lettered only after maxAttempts failures of its handler,
\* however stale the attempts are that the overlapping operations write back;
\* a failure whose report was repeated may count for two of them, never more.
THEOREM DeadOnlyByFailuresHolds == JobSpec => []DeadOnlyByFailures
<1>1. JobInv => DeadOnlyByFailures
  BY DEF JobInv
<1> QED
  BY <1>1, JobInvariant, PTL
=============================================================================
