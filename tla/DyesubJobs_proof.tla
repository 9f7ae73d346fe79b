--------------------------- MODULE DyesubJobs_proof ---------------------------
(***************************************************************************)
(* For every number of slots, pages and copies, every can_combine policy   *)
(* and every pattern of failing allocations: the variables of DyesubJobs   *)
(* keep their types, no job of the list or of jobs[] refers to a freed or  *)
(* a shared buffer, the sheets come out in the order of the document, and  *)
(* no image is exposed more often than it was asked for; and, when pages   *)
(* come one at a time in one copy or two, no buffer is left allocated and  *)
(* the code implements DyesubPrinter as long as the list can be created.   *)
(***************************************************************************)
EXTENDS DyesubRefinement, SequenceTheorems, FiniteSetTheorems, WellFoundedInduction, TLAPS

(* main_loop runs on an entry of the list. *)
InLoop == pc = "loop" => next <= Len(list)

(* The types, the buffers and main_loop's entry: what Inductive proves. *)
IInv == TypeOK /\ HeapSafe /\ InLoop

-----------------------------------------------------------------------------
(* A merged job has the type of a job. *)
LEMMA CombinedType ==
  ASSUME JobsAssumption, NEW b \in Buffers, NEW j1 \in Job, NEW j2 \in Job, NEW n \in Nat
  PROVE  /\ Combined(b, j1, j2, n) \in Job
         /\ Combined(b, j1, j2, n).buf = b
<1>1. j1.images \o j2.images \in Seq(Nat)
  BY DEF Job
<1>2. Combined(b, j1, j2, n) =
        [buf |-> b, images |-> j1.images \o j2.images, copies |-> n,
         cc |-> KeepsCombine, kind |-> Double]
  BY DEF Combined
<1> QED
  BY <1>1, <1>2 DEF Job, JobsAssumption

(* A job with another number of copies keeps its type and its buffer. *)
LEMMA WithCopiesType ==
  ASSUME NEW j \in Job, NEW n \in Nat
  PROVE  WithCopies(j, n) \in Job /\ WithCopies(j, n).buf = j.buf
  BY DEF WithCopies, Job

(* __dyesub_joblist_addjob keeps the list within its slots; what it adds   *)
(* is at most the buffer of the new job.                                   *)
LEMMA AddJobFacts ==
  ASSUME JobsAssumption, NEW l \in Seq(Job), NEW j \in Job, Len(l) <= MaxEntries
  PROVE  /\ AddJob(l, j) \in Seq(Job)
         /\ Len(AddJob(l, j)) <= MaxEntries
         /\ Owned(AddJob(l, j)) \subseteq Owned(l) \union {j.buf}
         /\ OwnEach(l) /\ j.buf \notin Owned(l) => OwnEach(AddJob(l, j))
<1>1. CASE Len(l) >= MaxEntries
  BY <1>1 DEF AddJob
<1>2. CASE ~(Len(l) >= MaxEntries)
  <2>1. AddJob(l, j) = Append(l, j)
    BY <1>2 DEF AddJob
  <2>2. /\ Append(l, j) \in Seq(Job)
        /\ Len(Append(l, j)) = Len(l) + 1
        /\ \A i \in 1..Len(l) : Append(l, j)[i] = l[i]
        /\ Append(l, j)[Len(l) + 1] = j
    OBVIOUS
  <2>3. Owned(Append(l, j)) \subseteq Owned(l) \union {j.buf}
    BY <2>2 DEF Owned
  <2>4. ASSUME OwnEach(l), j.buf \notin Owned(l)
        PROVE  OwnEach(Append(l, j))
    BY <2>2, <2>4 DEF OwnEach, Owned
  <2> QED
    BY <1>2, <2>1, <2>2, <2>3, <2>4 DEF JobsAssumption
<1> QED
  BY <1>1, <1>2

(* Taking the first job off a sequence leaves jobs with buffers of their   *)
(* own, none of which is the buffer of that first job.                     *)
LEMMA TailFacts ==
  ASSUME NEW s \in Seq(Job), s # <<>>, OwnEach(s)
  PROVE  /\ Tail(s) \in Seq(Job) /\ Head(s) \in Job
         /\ Head(s).buf \in Owned(s)
         /\ OwnEach(Tail(s))
         /\ Owned(Tail(s)) \subseteq Owned(s) \ {Head(s).buf}
<1>1. /\ Tail(s) \in Seq(Job) /\ Head(s) = s[1] /\ Len(s) >= 1 /\ Head(s) \in Job
      /\ Len(Tail(s)) = Len(s) - 1
      /\ \A i \in 1..Len(Tail(s)) : Tail(s)[i] = s[i + 1]
  OBVIOUS
<1> QED
  BY <1>1 DEF OwnEach, Owned

(* The same for the last one. *)
LEMMA FrontFacts ==
  ASSUME NEW s \in Seq(Job), s # <<>>, OwnEach(s)
  PROVE  /\ Front(s) \in Seq(Job) /\ Last(s) \in Job
         /\ Len(Front(s)) < Len(s)
         /\ Last(s).buf \in Owned(s)
         /\ OwnEach(Front(s))
         /\ Owned(Front(s)) \subseteq Owned(s) \ {Last(s).buf}
<1>1. Len(s) \in Nat /\ Len(s) >= 1 /\ Last(s) = s[Len(s)] /\ Last(s) \in Job
  BY DEF Last
<1>2. \A i \in 1..(Len(s) - 1) : s[i] \in Job
  BY <1>1
<1> DEFINE n == Len(s) - 1
<1>3. n \in Int /\ n >= 0 /\ 1 \in Int
  BY <1>1
<1>4. Front(s) = SubSeq(s, 1, n) /\ n = Len(s) - 1
  BY Zenon DEF Front
<1>5. \A i \in 1..n : s[i] \in Job
  BY <1>2
<1> HIDE DEF n
<1>6. /\ SubSeq(s, 1, n) \in Seq(Job)
      /\ Len(SubSeq(s, 1, n)) = IF 1 <= n THEN n - 1 + 1 ELSE 0
      /\ \A i \in 1 .. n - 1 + 1 : SubSeq(s, 1, n)[i] = s[1 + i - 1]
  BY <1>5, <1>3, SubSeqProperties
<1>7. /\ Front(s) \in Seq(Job)
      /\ Len(Front(s)) = n
      /\ \A i \in 1..n : Front(s)[i] = s[i]
  <2>1. (n - 1 + 1 = n) /\ (1 <= n \/ n = 0) /\ \A i \in 1..n : 1 + i - 1 = i
    BY <1>3
  <2> QED BY <1>3, <1>6, <1>4, <2>1
<1> QED
  BY <1>1, <1>3, <1>7, <1>4 DEF OwnEach, Owned

(* cleanup_job on jobs that own live buffers frees nothing twice. *)
LEMMA HeapFacts ==
  ASSUME NEW new, NEW old, Heap(new, old), ~freedTwice, OwnEach(old), Owned(old) \subseteq live
  PROVE  ~freedTwice' /\ live' = (live \union new) \ Owned(old) /\ freedTwice' \in BOOLEAN
<1>1. freedTwice' \in BOOLEAN
  BY Zenon DEF Heap
<1> QED
  BY <1>1 DEF Heap

(* No job owns no buffer. *)
LEMMA EmptySeqFacts ==
  /\ <<>> \in Seq(Job) /\ Len(<<>>) = 0
  /\ Owned(<<>>) = {} /\ OwnEach(<<>>)
  BY DEF Owned, OwnEach

(* What read_parse returns, as n jobs in c copies in the buffers bs. *)
Reads(n, c, k, cc, bs) ==
  LET page == Parsed(n, c, k, cc, bs) IN
  /\ images + n <= MaxImages
  /\ OwnEach(page)
  /\ Heap(Owned(page), <<>>)
  /\ jobs' = page
  /\ images' = images + n
  /\ requested' = [i \in 1..MaxImages |->
                     IF i \in images + 1 .. images + n
                     THEN page[i - images].copies ELSE requested[i]]

(* ReadPage is one such return. *)
LEMMA ReadPageReads ==
  ASSUME ReadPage
  PROVE  \E n \in JobsPerRead, c \in Copies, k \in Kinds, cc \in BOOLEAN :
           \E bs \in [1..n -> Buffers \ live] : Reads(n, c, k, cc, bs)
<1>1. /\ pc = "read"
      /\ \E n \in JobsPerRead, c \in Copies, k \in Kinds, cc \in BOOLEAN :
           \E bs \in [1..n -> Buffers \ live] : Reads(n, c, k, cc, bs)
  BY Zenon DEF ReadPage, Reads
<1> QED
  BY <1>1

(* read_parse returns jobs, each with a buffer of its own. *)
LEMMA ReadPageKeeps ==
  ASSUME JobsAssumption, IInv, ReadPage
  PROVE  IInv'
<1>2. PICK n \in JobsPerRead, c \in Copies, k \in Kinds, cc \in BOOLEAN :
         \E bs \in [1..n -> Buffers \ live] : Reads(n, c, k, cc, bs)
  BY ReadPageReads
<1>3. PICK bs \in [1..n -> Buffers \ live] : Reads(n, c, k, cc, bs)
  BY <1>2
<1>4. /\ images + n <= MaxImages
      /\ OwnEach(jobs')
      /\ Heap(Owned(jobs'), <<>>)
      /\ jobs' = Parsed(n, c, k, cc, bs)
      /\ images' = images + n
      /\ requested' = [i \in 1..MaxImages |->
                         IF i \in images + 1 .. images + n
                         THEN jobs'[i - images].copies ELSE requested[i]]
  BY <1>3 DEF Reads
<1>5. Heap(Owned(jobs'), <<>>) /\ OwnEach(jobs') /\ images' = images + n
       /\ images + n <= MaxImages
  BY <1>4
<1>6. n \in Nat /\ images \in Nat /\ c \in Nat
  BY DEF JobsAssumption, IInv, TypeOK
<1>7. \A i \in 1..n : jobs'[i] \in Job /\ jobs'[i].buf \in Buffers \ live
                         /\ jobs'[i].copies \in Nat
  <2> SUFFICES ASSUME NEW i \in 1..n
               PROVE  jobs'[i] \in Job /\ jobs'[i].buf \in Buffers \ live
                         /\ jobs'[i].copies \in Nat
    OBVIOUS
  <2>1. <<images + i>> \in Seq(Nat) /\ bs[i] \in Buffers \ live
    BY <1>6
  <2>2. jobs'[i] = [buf |-> bs[i], images |-> <<images + i>>,
                    copies |-> IF n = 1 THEN c ELSE 1, cc |-> cc /\ n = 1, kind |-> k]
    BY <1>4 DEF Parsed
  <2>3. (cc /\ n = 1) \in BOOLEAN /\ (IF n = 1 THEN c ELSE 1) \in Nat
    BY <1>6
  <2> QED
    BY <2>1, <2>2, <2>3 DEF Job
<1>8. DOMAIN jobs' = 1..n /\ jobs' \in [1..n -> Job]
  BY <1>4, <1>7, Zenon DEF Parsed
<1>9. jobs' \in Seq(Job)
  BY <1>6, <1>8, SeqDef
<1>10. requested' \in [1..MaxImages -> Nat]
  <2>1. \A i \in 1..MaxImages : i \in images + 1 .. images + n => i - images \in 1..n
    BY <1>6 DEF JobsAssumption
  <2>2. \A i \in 1..MaxImages : requested[i] \in Nat
    BY DEF IInv, TypeOK
  <2> QED
    BY <1>4, <1>7, <2>1, <2>2
<1>11. Owned(jobs') \subseteq Buffers \ live
  BY <1>7, <1>8 DEF Owned
<1>12. ~freedTwice' /\ live' = live \union Owned(jobs') /\ freedTwice' \in BOOLEAN
  BY <1>5, EmptySeqFacts, HeapFacts DEF IInv, HeapSafe
<1>13. UNCHANGED <<list, next, left, pagesRead, terminate, ret, out>> /\ pc' = "append"
  BY DEF ReadPage
<1>14. images' \in 0..MaxImages
  BY <1>5, <1>6 DEF JobsAssumption
<1>15. TypeOK' /\ InLoop'
  BY <1>9, <1>10, <1>11, <1>12, <1>13, <1>14 DEF IInv, TypeOK, InLoop
<1>16. HeapSafe'
  <2>1. OwnEach(list) /\ Owned(list) \subseteq live /\ list' = list
    BY <1>13 DEF IInv, HeapSafe
  <2>2. Owned(list) \intersect Owned(jobs') = {}
    BY <1>11, <2>1
  <2> QED
    BY <1>12, <1>5, <2>1, <2>2 DEF HeapSafe
<1> QED
  BY <1>15, <1>16 DEF IInv

-----------------------------------------------------------------------------
(* dyesub_joblist_appendjob keeps the invariant when the new list is typed *)
(* and takes, besides buffers it had, only the buffer of the job it is     *)
(* given or a fresh one, and when what is freed is in neither sequence.    *)
LEMMA AppendingKeeps ==
  ASSUME IInv,
         NEW newList, Appending(newList),
         newList \in Seq(Job), Len(newList) <= MaxEntries,
         OwnEach(newList),
         NEW fresh \in SUBSET (Buffers \ live),
         NEW freed \in SUBSET (Owned(list) \union {Head(jobs).buf}),
         Owned(newList) \subseteq (Owned(list) \union {Head(jobs).buf} \union fresh) \ freed,
         live' = (live \union fresh) \ freed,
         ~freedTwice', freedTwice' \in BOOLEAN
  PROVE  IInv'
<1>1. /\ pc = "append" /\ jobs # <<>> /\ list' = newList /\ jobs' = Tail(jobs)
      /\ UNCHANGED <<pc, next, left, images, pagesRead, terminate, ret, requested, out>>
  BY DEF Appending
<1>2. /\ jobs \in Seq(Job) /\ OwnEach(jobs) /\ live \subseteq Buffers
      /\ Owned(list) \intersect Owned(jobs) = {}
      /\ Owned(list) \union Owned(jobs) \subseteq live
  BY DEF IInv, TypeOK, HeapSafe
<1>3. /\ jobs' \in Seq(Job) /\ OwnEach(jobs')
      /\ Owned(jobs') \subseteq Owned(jobs) \ {Head(jobs).buf}
      /\ Head(jobs).buf \in Owned(jobs)
  BY <1>1, <1>2, TailFacts
<1>4. TypeOK' /\ InLoop'
  BY <1>1, <1>2, <1>3 DEF IInv, TypeOK, InLoop
<1>5. /\ Owned(list') \intersect Owned(jobs') = {}
      /\ Owned(list') \union Owned(jobs') \subseteq live'
  BY <1>1, <1>2, <1>3
<1>6. HeapSafe'
  BY <1>1, <1>3, <1>5 DEF HeapSafe
<1> QED
  BY <1>4, <1>6 DEF IInv

(* A job appended as it is brings its own buffer into the list.            *)
LEMMA AppendPlainKeeps ==
  ASSUME JobsAssumption, IInv, AppendPlain
  PROVE  IInv'
<1> DEFINE job == Head(jobs)
<1>1. Appending(AddJob(list, job)) /\ UNCHANGED heap
  BY DEF AppendPlain
<1>2. /\ jobs \in Seq(Job) /\ jobs # <<>> /\ OwnEach(jobs)
      /\ list \in Seq(Job) /\ OwnEach(list) /\ Len(list) <= MaxEntries
      /\ ~freedTwice /\ freedTwice \in BOOLEAN
      /\ Owned(list) \intersect Owned(jobs) = {}
  BY <1>1 DEF IInv, TypeOK, HeapSafe, Appending
<1>3. job \in Job /\ job.buf \notin Owned(list)
  BY <1>2, TailFacts
<1>4. /\ AddJob(list, job) \in Seq(Job) /\ Len(AddJob(list, job)) <= MaxEntries
      /\ Owned(AddJob(list, job)) \subseteq Owned(list) \union {job.buf}
      /\ OwnEach(AddJob(list, job))
  BY <1>2, <1>3, AddJobFacts
<1>5. live' = (live \union {}) \ {} /\ ~freedTwice' /\ freedTwice' \in BOOLEAN
  BY <1>1, <1>2 DEF heap
<1> HIDE DEF job
<1> QED
  BY <1>1, <1>4, <1>5, AppendingKeeps DEF job

(* What the appended job and the entry it is merged with look like. *)
LEMMA AppendContext ==
  ASSUME IInv, jobs # <<>>
  PROVE  /\ Head(jobs) \in Job /\ Head(jobs).buf \notin Owned(list)
         /\ Head(jobs).buf \in live
         /\ list \in Seq(Job) /\ OwnEach(list) /\ Len(list) <= MaxEntries
         /\ Owned(list) \subseteq live /\ live \subseteq Buffers
         /\ ~freedTwice
  BY TailFacts DEF IInv, TypeOK, HeapSafe

(* The buffers of one job, and of two jobs that do not share theirs. *)
LEMMA FewJobs ==
  ASSUME NEW j1 \in Job, NEW j2 \in Job
  PROVE  /\ Owned(<<j1>>) = {j1.buf} /\ OwnEach(<<j1>>)
         /\ Owned(<<j1, j2>>) = {j1.buf, j2.buf}
         /\ j1.buf # j2.buf => OwnEach(<<j1, j2>>)
<1>1. /\ DOMAIN <<j1>> = {1} /\ <<j1>>[1] = j1
      /\ DOMAIN <<j1, j2>> = {1, 2} /\ <<j1, j2>>[1] = j1 /\ <<j1, j2>>[2] = j2
  OBVIOUS
<1>2. Owned(<<j1>>) = {j1.buf} /\ Owned(<<j1, j2>>) = {j1.buf, j2.buf}
  BY <1>1, Zenon DEF Owned
<1>3. OwnEach(<<j1>>) /\ (j1.buf # j2.buf => OwnEach(<<j1, j2>>))
  BY <1>1, Zenon DEF OwnEach
<1> QED
  BY <1>2, <1>3

(* A merge with the last entry: the merged job owns a fresh buffer, and    *)
(* only what no entry refers to any more is freed.                         *)
LEMMA AppendToLastKeeps ==
  ASSUME JobsAssumption, IInv, AppendToLast
  PROVE  IInv'
<1> DEFINE job  == Head(jobs)
           old  == Last(list)
           rest == job.copies - 1
           merged(b) == AddJob(Front(list), Combined(b, old, job, old.copies))
           newList(b) == IF rest = 1 THEN AddJob(merged(b), WithCopies(job, rest)) ELSE merged(b)
<1>1. /\ jobs # <<>> /\ FitsLast(job)
      /\ \E b \in Buffers \ live :
           Appending(newList(b)) /\ Heap({b}, FreedByMerge(old, job, rest))
  BY DEF AppendToLast
<1>2. PICK b \in Buffers \ live :
        Appending(newList(b)) /\ Heap({b}, FreedByMerge(old, job, rest))
  BY <1>1
<1>3. /\ job \in Job /\ job.buf \notin Owned(list) /\ job.buf \in live
      /\ list \in Seq(Job) /\ list # <<>> /\ OwnEach(list) /\ Len(list) <= MaxEntries
      /\ Owned(list) \subseteq live /\ live \subseteq Buffers /\ ~freedTwice
  BY <1>1, AppendContext DEF FitsLast, Mergeable
<1>4. /\ Front(list) \in Seq(Job) /\ old \in Job /\ Len(Front(list)) < Len(list)
      /\ old.buf \in Owned(list) /\ OwnEach(Front(list))
      /\ Owned(Front(list)) \subseteq Owned(list) \ {old.buf}
  BY <1>3, FrontFacts
<1>5. /\ Combined(b, old, job, old.copies) \in Job
      /\ Combined(b, old, job, old.copies).buf = b
  <2> DEFINE n == old.copies
  <2>1. n \in Nat /\ b \in Buffers /\ job \in Job /\ old \in Job
    BY <1>2, <1>3, <1>4 DEF Job
  <2>2. ASSUME NEW j1 \in Job, NEW j2 \in Job, NEW m \in Nat
        PROVE  Combined(b, j1, j2, m) \in Job /\ Combined(b, j1, j2, m).buf = b
    BY <2>1, CombinedType
  <2> HIDE DEF job, old, n
  <2>3. Combined(b, old, job, n) \in Job /\ Combined(b, old, job, n).buf = b
    BY <2>1, <2>2
  <2> QED
    BY <2>3 DEF n
<1>6. /\ merged(b) \in Seq(Job) /\ Len(merged(b)) <= MaxEntries /\ OwnEach(merged(b))
      /\ Owned(merged(b)) \subseteq (Owned(list) \ {old.buf}) \union {b}
  <2>1. Len(Front(list)) <= MaxEntries
    BY <1>3, <1>4 DEF JobsAssumption
  <2>2. b \notin Owned(Front(list))
    BY <1>3, <1>4
  <2> DEFINE j == Combined(b, old, job, old.copies)
             f == Front(list)
             m == merged(b)
  <2>3. m = AddJob(f, j) /\ j \in Job /\ j.buf = b
    BY <1>5
  <2>4. f \in Seq(Job) /\ Len(f) <= MaxEntries /\ j.buf \notin Owned(f) /\ OwnEach(f)
    BY <1>4, <2>1, <2>2, <2>3
  <2>5. Owned(f) \subseteq Owned(list) \ {old.buf}
    BY <1>4
  <2> HIDE DEF j, m, f, job, old
  <2>6. /\ m \in Seq(Job) /\ Len(m) <= MaxEntries /\ OwnEach(m)
        /\ Owned(m) \subseteq Owned(f) \union {b}
    BY <2>3, <2>4, AddJobFacts
  <2>7. Owned(m) \subseteq (Owned(list) \ {old.buf}) \union {b}
    BY <2>5, <2>6
  <2> QED
    BY <2>6, <2>7 DEF m
<1>7. /\ newList(b) \in Seq(Job) /\ Len(newList(b)) <= MaxEntries /\ OwnEach(newList(b))
      /\ Owned(newList(b)) \subseteq
           (Owned(list) \ {old.buf}) \union {b} \union (IF rest = 1 THEN {job.buf} ELSE {})
  <2>1. CASE rest = 1
    <3>1. WithCopies(job, rest) \in Job /\ WithCopies(job, rest).buf = job.buf
      BY <1>3, <2>1, WithCopiesType
    <3>2. job.buf \notin Owned(merged(b))
      BY <1>3, <1>4, <1>6
    <3> HIDE DEF merged, rest
    <3> QED
      BY <1>6, <2>1, <3>1, <3>2, AddJobFacts DEF newList
  <2>2. CASE rest # 1
    BY <1>6, <2>2
  <2> QED
    BY <2>1, <2>2
<1>8. FreedByMerge(old, job, rest) = IF rest = 0 THEN <<old, job>> ELSE <<old>>
  BY DEF FreedByMerge
<1>9. /\ OwnEach(FreedByMerge(old, job, rest))
      /\ Owned(FreedByMerge(old, job, rest)) \subseteq Owned(list) \union {job.buf}
      /\ Owned(FreedByMerge(old, job, rest)) =
           {old.buf} \union (IF rest = 0 THEN {job.buf} ELSE {})
  <2> HIDE DEF rest, job, old
  <2> QED BY <1>3, <1>4, <1>8, FewJobs
<1>10. /\ live' = (live \union {b}) \ Owned(FreedByMerge(old, job, rest))
       /\ ~freedTwice' /\ freedTwice' \in BOOLEAN
  <2>1. Owned(FreedByMerge(old, job, rest)) \subseteq live
    BY <1>3, <1>9
  <2> QED
    BY <1>2, <1>3, <1>9, <2>1, HeapFacts
<1>11. Owned(newList(b)) \subseteq
         (Owned(list) \union {job.buf} \union {b}) \ Owned(FreedByMerge(old, job, rest))
  <2> HIDE DEF newList, old, job
  <2> QED BY <1>3, <1>4, <1>7, <1>9
<1> DEFINE freed == Owned(FreedByMerge(old, job, rest))
           new   == newList(b)
<1>12. /\ Appending(new) /\ new \in Seq(Job) /\ Len(new) <= MaxEntries /\ OwnEach(new)
       /\ {b} \in SUBSET (Buffers \ live)
       /\ freed \in SUBSET (Owned(list) \union {Head(jobs).buf})
       /\ Owned(new) \subseteq (Owned(list) \union {Head(jobs).buf} \union {b}) \ freed
       /\ live' = (live \union {b}) \ freed
       /\ ~freedTwice' /\ freedTwice' \in BOOLEAN
  <2> HIDE DEF newList, old, rest
  <2> QED BY <1>2, <1>7, <1>9, <1>10, <1>11
<1> HIDE DEF new, freed
<1> QED
  BY <1>12, AppendingKeeps

(* A merge of two copies: the pairs own a fresh buffer, the odd copy, on   *)
(* either side of them, keeps that of the job.                             *)
LEMMA AppendCopiesKeeps ==
  ASSUME JobsAssumption, IInv, AppendCopies
  PROVE  IInv'
<1> DEFINE job == Head(jobs)
           odd == job.copies % 2
           pairs(b) == Combined(b, job, job, Pairs(job.copies))
           single == WithCopies(job, odd)
           withOdd(l) == IF odd = 1 THEN AddJob(l, single) ELSE l
           oddFirst(b) == AddJob(withOdd(list), pairs(b))
           oddLast(b)  == withOdd(AddJob(list, pairs(b)))
           freed == IF odd = 0 THEN <<job>> ELSE <<>>
<1>1. /\ jobs # <<>>
      /\ \E b \in Buffers \ live, hook \in Polarities :
           /\ Appending(IF hook /\ ~Mergeable(list) THEN oddFirst(b) ELSE oddLast(b))
           /\ Heap({b}, freed)
  BY DEF AppendCopies
<1>2. PICK b \in Buffers \ live, hook \in Polarities :
           /\ Appending(IF hook /\ ~Mergeable(list) THEN oddFirst(b) ELSE oddLast(b))
           /\ Heap({b}, freed)
  BY <1>1
<1>3. (Appending(oddFirst(b)) \/ Appending(oddLast(b))) /\ Heap({b}, freed)
  BY <1>2
<1>4. /\ job \in Job /\ job.buf \notin Owned(list) /\ job.buf \in live
      /\ list \in Seq(Job) /\ OwnEach(list) /\ Len(list) <= MaxEntries
      /\ Owned(list) \subseteq live /\ live \subseteq Buffers /\ ~freedTwice
      /\ b \in Buffers /\ b \notin live
  BY <1>1, <1>2, AppendContext
<1>5. odd \in {0, 1} /\ Pairs(job.copies) \in Nat
  <2>1. job.copies \in Nat
    BY <1>4 DEF Job
  <2> QED
    BY <2>1 DEF Pairs
<1>6. single \in Job /\ single.buf = job.buf
  <2>1. job \in Job /\ odd \in Nat
    BY <1>4, <1>5
  <2> HIDE DEF job, odd
  <2> QED BY <2>1, WithCopiesType
<1>7. pairs(b) \in Job /\ pairs(b).buf = b
  <2> DEFINE n == Pairs(job.copies)
  <2>1. n \in Nat
    BY <1>5
  <2>2. ASSUME NEW j1 \in Job, NEW j2 \in Job, NEW m \in Nat
        PROVE  Combined(b, j1, j2, m) \in Job /\ Combined(b, j1, j2, m).buf = b
    BY <1>4, CombinedType
  <2> HIDE DEF job, n
  <2>3. Combined(b, job, job, n) \in Job /\ Combined(b, job, job, n).buf = b
    BY <1>4, <2>1, <2>2
  <2> QED
    BY <2>3 DEF n
<1> DEFINE Sound(l, new) ==
             /\ l \in Seq(Job) /\ Len(l) <= MaxEntries /\ OwnEach(l)
             /\ Owned(l) \subseteq Owned(list) \union new
<1>8. ASSUME NEW l, NEW new, Sound(l, new), NEW j \in Job, j.buf \notin Owned(list) \union new
      PROVE  Sound(AddJob(l, j), new \union {j.buf})
  BY <1>8, AddJobFacts
<1>9. Sound(list, {})
  BY <1>4
<1> DEFINE oddBuf == IF odd = 1 THEN {job.buf} ELSE {}
<1>10. Sound(withOdd(list), oddBuf)
  <2>1. CASE odd = 1
    <3>1. single.buf \notin Owned(list) \union {}
      BY <1>4, <1>6
    <3>2. Sound(AddJob(list, single), {} \union {single.buf})
      <4> HIDE DEF Sound, single
      <4> QED BY <1>6, <1>8, <1>9, <3>1
    <3>3. withOdd(list) = AddJob(list, single) /\ oddBuf = {} \union {single.buf}
      BY <1>6, <2>1
    <3> HIDE DEF Sound, withOdd, oddBuf, single
    <3> QED BY <3>2, <3>3
  <2>2. CASE odd # 1
    BY <1>9, <2>2
  <2> QED
    BY <2>1, <2>2
<1>11. Sound(oddFirst(b), oddBuf \union {b})
  <2>1. pairs(b).buf \notin Owned(list) \union oddBuf
    BY <1>4, <1>7
  <2> HIDE DEF Sound, withOdd, oddBuf, pairs
  <2> QED BY <1>7, <1>8, <1>10, <2>1
<1>12. Sound(AddJob(list, pairs(b)), {b})
  <2>1. pairs(b).buf \notin Owned(list) \union {}
    BY <1>4, <1>7
  <2>2. Sound(AddJob(list, pairs(b)), {} \union {pairs(b).buf})
    <3> HIDE DEF Sound, pairs
    <3> QED BY <1>7, <1>8, <1>9, <2>1
  <2> QED BY <1>7, <2>2
<1>13. Sound(oddLast(b), oddBuf \union {b})
  <2>1. CASE odd = 1
    <3> DEFINE l == AddJob(list, pairs(b))
    <3>1. single.buf \notin Owned(list) \union {b}
      BY <1>4, <1>6
    <3>2. Sound(AddJob(l, single), {b} \union {single.buf})
      <4> HIDE DEF Sound, single, l
      <4> QED BY <1>6, <1>8, <1>12, <3>1 DEF l
    <3>3. oddLast(b) = AddJob(l, single) /\ oddBuf \union {b} = {b} \union {single.buf}
      BY <1>6, <2>1
    <3> HIDE DEF Sound, oddLast, oddBuf, single, l
    <3> QED BY <3>2, <3>3
  <2>2. CASE odd # 1
    BY <1>12, <2>2
  <2> QED
    BY <2>1, <2>2
<1>14. PICK new : (new = oddFirst(b) \/ new = oddLast(b)) /\ Appending(new)
  BY <1>3
<1>15. Sound(new, oddBuf \union {b})
  <2> HIDE DEF Sound, oddFirst, oddLast, oddBuf
  <2> QED BY <1>11, <1>13, <1>14
<1>16. /\ OwnEach(freed) /\ Owned(freed) = (IF odd = 0 THEN {job.buf} ELSE {})
  <2> HIDE DEF job, odd
  <2> QED BY <1>4, FewJobs, EmptySeqFacts
<1>17. /\ live' = (live \union {b}) \ Owned(freed)
       /\ ~freedTwice' /\ freedTwice' \in BOOLEAN
  <2> HIDE DEF freed, job, odd
  <2> QED BY <1>3, <1>4, <1>16, HeapFacts
<1>18. /\ new \in Seq(Job) /\ Len(new) <= MaxEntries /\ OwnEach(new)
       /\ {b} \in SUBSET (Buffers \ live)
       /\ Owned(freed) \in SUBSET (Owned(list) \union {Head(jobs).buf})
       /\ Owned(new) \subseteq (Owned(list) \union {Head(jobs).buf} \union {b}) \ Owned(freed)
  <2> HIDE DEF freed, odd
  <2> QED BY <1>4, <1>5, <1>15, <1>16
<1> DEFINE gone == Owned(freed)
<1> HIDE DEF gone
<1> QED
  BY <1>14, <1>17, <1>18, AppendingKeeps DEF gone

(* When no list can be made, jobs[] is given up and its buffers freed.     *)
LEMMA CreateFailsKeeps ==
  ASSUME IInv, CreateFails
  PROVE  IInv'
<1>1. /\ jobs' = <<>> /\ list' = list /\ Heap({}, jobs)
      /\ UNCHANGED <<next, left, images, pagesRead, terminate, ret, requested, out>>
      /\ pc' \in {"done", "crashed"}
  BY DEF CreateFails
<1>2. /\ ~freedTwice /\ OwnEach(jobs) /\ Owned(jobs) \subseteq live /\ OwnEach(list)
      /\ Owned(list) \subseteq live \ Owned(jobs) /\ live \subseteq Buffers
  BY DEF IInv, TypeOK, HeapSafe
<1>3. live' = live \ Owned(jobs) /\ ~freedTwice' /\ freedTwice' \in BOOLEAN
  BY <1>1, <1>2, HeapFacts
<1>4. TypeOK' /\ InLoop'
  BY <1>1, <1>2, <1>3, EmptySeqFacts DEF IInv, TypeOK, InLoop
<1>5. HeapSafe'
  BY <1>1, <1>2, <1>3, EmptySeqFacts DEF HeapSafe
<1> QED
  BY <1>4, <1>5 DEF IInv

(* dyesub_joblist_cleanup frees the buffer of every entry, once.           *)
LEMMA CleanupListKeeps ==
  ASSUME JobsAssumption, IInv, CleanupList
  PROVE  IInv'
<1>1. /\ list' = <<>> /\ jobs' = jobs /\ Heap({}, list)
      /\ UNCHANGED <<next, left, images, pagesRead, terminate, ret, requested, out>>
      /\ pc' \in {"read", "done"}
  BY DEF CleanupList
<1>2. /\ ~freedTwice /\ OwnEach(list) /\ Owned(list) \subseteq live /\ OwnEach(jobs)
      /\ Owned(jobs) \subseteq live \ Owned(list) /\ live \subseteq Buffers
  BY DEF IInv, TypeOK, HeapSafe
<1>3. live' = live \ Owned(list) /\ ~freedTwice' /\ freedTwice' \in BOOLEAN
  BY <1>1, <1>2, HeapFacts
<1>4. TypeOK' /\ InLoop'
  BY <1>1, <1>2, <1>3, EmptySeqFacts DEF IInv, TypeOK, InLoop, JobsAssumption
<1>5. HeapSafe'
  BY <1>1, <1>2, <1>3, EmptySeqFacts DEF HeapSafe
<1> QED
  BY <1>4, <1>5 DEF IInv

(* Steps that touch neither the jobs nor the heap. *)
LEMMA HeapUnchanged ==
  ASSUME HeapSafe, UNCHANGED <<jobs, list, live, freedTwice>>
  PROVE  HeapSafe'
  BY DEF HeapSafe

(* main_loop changes no job: it needs an entry to print, which InLoop says *)
(* it has.                                                                 *)
LEMMA PrintCopyKeeps ==
  ASSUME IInv, PrintCopy
  PROVE  IInv'
<1>1. next \in 1..Len(list) /\ list[next] \in Job /\ list[next].images \in Seq(Nat)
  <2>1. next \in 1..Len(list)
    BY DEF IInv, TypeOK, InLoop, PrintCopy
  <2>2. list[next] \in Job
    BY <2>1 DEF IInv, TypeOK
  <2> QED
    BY <2>1, <2>2 DEF Job
<1>2. out' \in Seq(Nat)
  BY <1>1 DEF IInv, TypeOK, PrintCopy
<1>3. left' \in Nat /\ pc' \in {"loop", "printed"}
  BY DEF IInv, TypeOK, PrintCopy
<1>4. UNCHANGED <<jobs, list, next, images, pagesRead, terminate, ret, live, freedTwice, requested>>
  BY DEF PrintCopy, heap
<1>5. TypeOK' /\ InLoop'
  BY <1>1, <1>2, <1>3, <1>4 DEF IInv, TypeOK, InLoop
<1> QED
  BY <1>4, <1>5, HeapUnchanged DEF IInv

(* The steps that only move the control keep the invariant.               *)
LEMMA OtherStepsKeep ==
  ASSUME IInv,
         ReadEnds \/ PageAppended \/ StartEntry \/ PrintFails \/ EntryPrinted
           \/ Sigterm \/ UNCHANGED vars
  PROVE  IInv'
<1>1. CASE ReadEnds
  BY <1>1, HeapUnchanged DEF ReadEnds, AfterRead, IInv, TypeOK, InLoop, heap
<1>2. CASE PageAppended
  BY <1>2, HeapUnchanged DEF PageAppended, IInv, TypeOK, InLoop, heap
<1>3. CASE StartEntry
  <2>1. list[next] \in Job
    BY <1>3 DEF StartEntry, IInv, TypeOK
  <2>2. list[next].copies \in Nat
    BY <2>1 DEF Job
  <2> QED
    BY <1>3, <2>2, HeapUnchanged DEF StartEntry, IInv, TypeOK, InLoop, heap
<1>4. CASE PrintFails
  BY <1>4, HeapUnchanged DEF PrintFails, IInv, TypeOK, InLoop, heap
<1>5. CASE EntryPrinted
  BY <1>5, HeapUnchanged DEF EntryPrinted, IInv, TypeOK, InLoop, heap
<1>6. CASE Sigterm
  BY <1>6, HeapUnchanged DEF Sigterm, IInv, TypeOK, InLoop, heap
<1>7. CASE UNCHANGED vars
  BY <1>7, HeapUnchanged DEF vars, IInv, TypeOK, InLoop, heap
<1> QED
  BY <1>1, <1>2, <1>3, <1>4, <1>5, <1>6, <1>7

-----------------------------------------------------------------------------
(* Nothing is read, allocated or printed at first. *)
LEMMA InitIInv ==
  ASSUME JobsAssumption, Init
  PROVE  IInv
<1>1. 0 \in Nat /\ 1 \in Nat \ {0} /\ 0 \in 0..MaxImages
      /\ [i \in 1..MaxImages |-> 0] \in [1..MaxImages -> Nat] /\ <<>> \in Seq(Nat)
  BY DEF JobsAssumption
<1>2. TypeOK
  <2>1. Len(list) <= MaxEntries /\ list \in Seq(Job) /\ jobs \in Seq(Job)
    BY <1>1, EmptySeqFacts DEF Init, JobsAssumption
  <2> QED
    BY <1>1, <2>1 DEF Init, TypeOK
<1>3. HeapSafe
  <2>1. Owned(list) = {} /\ Owned(jobs) = {} /\ OwnEach(list) /\ OwnEach(jobs)
    BY EmptySeqFacts DEF Init
  <2> QED
    BY <2>1 DEF Init, HeapSafe
<1>4. InLoop
  BY DEF Init, InLoop
<1> QED
  BY <1>2, <1>3, <1>4 DEF IInv

(* Every step of handle_input and of the signal handler keeps it. *)
LEMMA NextIInv ==
  ASSUME JobsAssumption, IInv, [Next]_vars
  PROVE  IInv'
<1>1. CASE Step
  <2>1. CASE ReadPage
    BY <2>1, ReadPageKeeps
  <2>2. CASE AppendPlain
    BY <2>2, AppendPlainKeeps
  <2>3. CASE AppendToLast
    BY <2>3, AppendToLastKeeps
  <2>4. CASE AppendCopies
    BY <2>4, AppendCopiesKeeps
  <2>5. CASE CreateFails
    BY <2>5, CreateFailsKeeps
  <2>6. CASE PrintCopy
    BY <2>6, PrintCopyKeeps
  <2>7. CASE CleanupList
    BY <2>7, CleanupListKeeps
  <2>8. CASE ReadEnds \/ PageAppended \/ StartEntry \/ PrintFails \/ EntryPrinted
    BY <2>8, OtherStepsKeep
  <2> QED
    BY <1>1, <2>1, <2>2, <2>3, <2>4, <2>5, <2>6, <2>7, <2>8 DEF Step
<1>2. CASE Sigterm \/ Finished \/ UNCHANGED vars
  BY <1>2, OtherStepsKeep DEF Finished
<1> QED
  BY <1>1, <1>2 DEF Next

(* IInv is inductive.  Neither of its parts is on its own: that a job of   *)
(* the list is typed depends on where main_loop is (InLoop), and that its  *)
(* buffer is live on the types of the jobs it is merged with (TypeOK).     *)
THEOREM Inductive == Spec => []IInv
<1>1. Init => IInv
  BY InitIInv, JobsAssumption
<1>2. IInv /\ [Next]_vars => IInv'
  BY NextIInv, JobsAssumption
<1> QED
  BY <1>1, <1>2, PTL DEF Spec

(* Every variable keeps its type and the list its slots. *)
THEOREM TypeCorrect == Spec => []TypeOK
<1>1. IInv => TypeOK
  BY DEF IInv
<1> QED
  BY <1>1, Inductive, PTL

(* No job ever refers to a freed or a shared buffer and none is freed      *)
(* twice, for any number of slots, copies and images and whatever fails.   *)
THEOREM HeapIsSafe == Spec => []HeapSafe
<1>1. IInv => HeapSafe
  BY DEF IInv
<1> QED
  BY <1>1, Inductive, PTL

-----------------------------------------------------------------------------
(* The order of the document. *)

(* A sequence that never falls; no element of S after one of T; one element *)
(* only.                                                                    *)
Sorted(s) == \A k, l \in DOMAIN s : k <= l => s[k] <= s[l]
AtMost(S, T) == \A a \in S, b \in T : a <= b
Alike(S) == \A a, b \in S : a = b

(* The images of a job and of all jobs of a sequence. *)
Pages(job) == ToSet(job.images)
PagesOf(js) == UNION {Pages(js[k]) : k \in DOMAIN js}

(* Sheets of several copies hold one image only: else the second copy would *)
(* expose an earlier image after a later one.                               *)
SheetOK(job) == Sorted(job.images) /\ (job.copies <= 1 \/ Alike(Pages(job)))

(* Jobs in the order of the document. *)
Ordered(js) ==
  /\ \A k \in DOMAIN js : SheetOK(js[k])
  /\ \A k, l \in DOMAIN js : k < l => AtMost(Pages(js[k]), Pages(js[l]))

(* The entries that main_loop still has to print, in whole or in part. *)
ToPrint(k) ==
  \/ pc \in {"read", "append"}
  \/ pc \in {"print", "loop"} /\ k >= next
  \/ pc = "printed" /\ k > next

(* Everything printed, held back and read is in the order of the document.  *)
OrderInv ==
  /\ Sorted(out) /\ Ordered(list) /\ Ordered(jobs)
  /\ AtMost(PagesOf(list), PagesOf(jobs)) /\ AtMost(ToSet(out), PagesOf(jobs))
  /\ AtMost(ToSet(out) \union PagesOf(list) \union PagesOf(jobs), {images})
  /\ \A k \in DOMAIN list : ToPrint(k) => AtMost(ToSet(out), Pages(list[k]))
  /\ \A k \in DOMAIN jobs : Alike(Pages(jobs[k]))
  /\ pc = "loop" => left <= list[next].copies

(* The images of a merged sheet, and when they are in order. *)
LEMMA ConcatPages ==
  ASSUME NEW s \in Seq(Nat), NEW t \in Seq(Nat)
  PROVE  /\ s \o t \in Seq(Nat) /\ ToSet(s \o t) = ToSet(s) \union ToSet(t)
         /\ Sorted(s) /\ Sorted(t) /\ AtMost(ToSet(s), ToSet(t)) => Sorted(s \o t)
<1> DEFINE u == s \o t
           m == Len(s)
           n == Len(t)
<1>1. /\ u \in Seq(Nat) /\ Len(u) = m + n
      /\ \A k \in 1 .. m + n : u[k] = IF k <= m THEN s[k] ELSE t[k - m]
  BY ConcatProperties, Zenon
<1>2. /\ m \in Nat /\ n \in Nat /\ DOMAIN s = 1 .. m /\ DOMAIN t = 1 .. n
      /\ DOMAIN u = 1 .. m + n
  BY <1>1
<1> HIDE DEF u, m, n
<1>3. /\ \A k \in DOMAIN s : k \in DOMAIN u /\ u[k] = s[k]
      /\ \A k \in DOMAIN t : m + k \in DOMAIN u /\ u[m + k] = t[k]
      /\ \A k \in DOMAIN u : k \in DOMAIN s \/ (k - m \in DOMAIN t /\ u[k] = t[k - m])
  <2>1. \A k \in DOMAIN s : k \in DOMAIN u /\ u[k] = s[k]  BY <1>1, <1>2
  <2>2. ASSUME NEW k \in DOMAIN t PROVE m + k \in DOMAIN u /\ u[m + k] = t[k]
    <3>1. m + k \in 1 .. m + n /\ ~(m + k <= m) /\ m + k - m = k
      BY <1>2
    <3> QED  BY <1>1, <1>2, <3>1
  <2>3. ASSUME NEW k \in DOMAIN u
        PROVE  k \in DOMAIN s \/ (k - m \in DOMAIN t /\ u[k] = t[k - m])
    <3>1. k \in 1 .. m \/ (~(k <= m) /\ k - m \in 1 .. n)
      BY <1>2
    <3> QED  BY <1>1, <1>2, <3>1
  <2> QED  BY <2>1, <2>2, <2>3
<1>4. ToSet(u) = ToSet(s) \union ToSet(t)
  <2>1. \A k \in DOMAIN u : u[k] \in ToSet(s) \union ToSet(t)  BY <1>3 DEF ToSet
  <2>2. \A k \in DOMAIN s : s[k] \in ToSet(u)  BY <1>3 DEF ToSet
  <2>3. \A k \in DOMAIN t : t[k] \in ToSet(u)  BY <1>3 DEF ToSet
  <2> QED  BY <2>1, <2>2, <2>3 DEF ToSet
<1>5. ASSUME Sorted(s), Sorted(t), AtMost(ToSet(s), ToSet(t)), NEW k \in DOMAIN u, NEW l \in DOMAIN u, k <= l
      PROVE  u[k] <= u[l]
  <2>1. CASE k \in DOMAIN s /\ l \in DOMAIN s  BY <2>1, <1>3, <1>5 DEF Sorted
  <2>2. CASE k \in DOMAIN s /\ l \notin DOMAIN s
    <3>1. u[k] \in ToSet(s) /\ u[l] \in ToSet(t)  BY <2>2, <1>3 DEF ToSet
    <3> QED  BY <3>1, <1>5 DEF AtMost
  <2>3. CASE k \notin DOMAIN s
    <3>1. l \notin DOMAIN s  BY <2>3, <1>2, <1>5
    <3>2. k - m <= l - m  BY <1>2, <1>5
    <3> QED  BY <2>3, <3>1, <3>2, <1>3, <1>5 DEF Sorted
  <2> QED  BY <2>1, <2>2, <2>3
<1> QED  BY <1>1, <1>4, <1>5 DEF Sorted, u

(* A job appended to an ordered list that holds no later page. *)
LEMMA AddOrdered ==
  ASSUME NEW l \in Seq(Job), NEW j \in Job, Ordered(l), SheetOK(j),
         AtMost(PagesOf(l), Pages(j))
  PROVE  Ordered(AddJob(l, j)) /\ PagesOf(AddJob(l, j)) \subseteq PagesOf(l) \union Pages(j)
<1>1. CASE Len(l) >= MaxEntries  BY <1>1 DEF AddJob
<1>2. CASE ~(Len(l) >= MaxEntries)
  <2> DEFINE a == Append(l, j)
             n == Len(l)
  <2>1. /\ DOMAIN l = 1 .. n /\ n \in Nat /\ DOMAIN a = 1 .. n + 1
        /\ \A k \in 1 .. n : a[k] = l[k]
        /\ a[n + 1] = j
    OBVIOUS
  <2> HIDE DEF a, n
  <2>2. \A k \in DOMAIN a : (k \in DOMAIN l /\ a[k] = l[k]) \/ (k = n + 1 /\ a[k] = j)
    <3>1. \A k \in 1 .. n + 1 : k \in 1 .. n \/ k = n + 1  BY <2>1
    <3> QED  BY <2>1, <3>1
  <2>3. PagesOf(a) \subseteq PagesOf(l) \union Pages(j)
    BY <2>2 DEF PagesOf
  <2>4. \A k \in DOMAIN a : SheetOK(a[k])  BY <2>2 DEF Ordered
  <2>5. ASSUME NEW k \in DOMAIN a, NEW m \in DOMAIN a, k < m
        PROVE  AtMost(Pages(a[k]), Pages(a[m]))
    <3>1. k \in DOMAIN l /\ a[k] = l[k]  BY <2>1, <2>5
    <3>2. CASE m \in DOMAIN l /\ a[m] = l[m]  BY <2>5, <3>1, <3>2 DEF Ordered
    <3>3. CASE a[m] = j
      <4>1. Pages(l[k]) \subseteq PagesOf(l)  BY <3>1 DEF PagesOf
      <4> QED  BY <3>1, <3>3, <4>1 DEF AtMost
    <3> QED  BY <2>2, <3>2, <3>3
  <2> QED  BY <1>2, <2>3, <2>4, <2>5 DEF AddJob, Ordered, a
<1> QED  BY <1>1, <1>2

(* Part of an ordered list is ordered, and what went before it is no later. *)
LEMMA FrontOrdered ==
  ASSUME NEW l \in Seq(Job), l # <<>>, Ordered(l)
  PROVE  /\ Ordered(Front(l)) /\ PagesOf(Front(l)) \subseteq PagesOf(l)
         /\ AtMost(PagesOf(Front(l)), Pages(Last(l)))
         /\ SheetOK(Last(l)) /\ Pages(Last(l)) \subseteq PagesOf(l)
<1> DEFINE f == Front(l)
           n == Len(l)
<1>1. n \in Nat /\ n >= 1 /\ Last(l) = l[n] /\ DOMAIN l = 1 .. n  BY DEF Last
<1>2. DOMAIN f = 1 .. n - 1 /\ \A k \in 1 .. n - 1 : f[k] = l[k]
  BY <1>1 DEF Front
<1> HIDE DEF f, n
<1>3. \A k \in DOMAIN f : k \in DOMAIN l /\ f[k] = l[k] /\ k < n  BY <1>1, <1>2
<1>4. Ordered(f) /\ PagesOf(f) \subseteq PagesOf(l)  BY <1>3 DEF Ordered, PagesOf
<1>5. n \in DOMAIN l  BY <1>1
<1>6. \A k \in DOMAIN f : AtMost(Pages(f[k]), Pages(l[n]))  BY <1>3, <1>5 DEF Ordered
<1>7. AtMost(PagesOf(f), Pages(l[n]))  BY <1>6 DEF PagesOf, AtMost
<1> QED  BY <1>1, <1>4, <1>5, <1>7 DEF f, Ordered, PagesOf

(* Without its first job a sequence is ordered and all later than that job. *)
LEMMA TailOrdered ==
  ASSUME NEW l \in Seq(Job), l # <<>>, Ordered(l)
  PROVE  /\ Ordered(Tail(l)) /\ PagesOf(Tail(l)) \subseteq PagesOf(l)
         /\ AtMost(Pages(Head(l)), PagesOf(Tail(l)))
         /\ SheetOK(Head(l)) /\ Pages(Head(l)) \subseteq PagesOf(l)
         /\ \A k \in DOMAIN Tail(l) : \E m \in DOMAIN l : Tail(l)[k] = l[m]
<1> DEFINE t == Tail(l)
           n == Len(l)
<1>1. /\ n \in Nat /\ n >= 1 /\ Head(l) = l[1] /\ DOMAIN l = 1 .. n
      /\ DOMAIN t = 1 .. n - 1 /\ \A k \in 1 .. n - 1 : t[k] = l[k + 1]
  OBVIOUS
<1> HIDE DEF t, n
<1>3. \A k \in DOMAIN t : k + 1 \in DOMAIN l /\ t[k] = l[k + 1] /\ 1 < k + 1  BY <1>1
<1>4. \A k, m \in DOMAIN t : k < m => k + 1 < m + 1  BY <1>1
<1>5. Ordered(t) /\ PagesOf(t) \subseteq PagesOf(l)
  BY <1>3, <1>4 DEF Ordered, PagesOf
<1>6. 1 \in DOMAIN l  BY <1>1
<1>7. \A k \in DOMAIN t : AtMost(Pages(l[1]), Pages(t[k]))  BY <1>3, <1>6 DEF Ordered
<1>8. AtMost(Pages(l[1]), PagesOf(t))  BY <1>7 DEF PagesOf, AtMost
<1> QED  BY <1>1, <1>3, <1>5, <1>6, <1>8 DEF t, Ordered, PagesOf

-----------------------------------------------------------------------------
(* The steps keep the order. *)

(* The images and the copies of a job are numbers. *)
LEMMA JobImages ==
  ASSUME NEW j \in Job
  PROVE  /\ j.images \in Seq(Nat) /\ Pages(j) \subseteq Nat /\ j.copies \in Nat
<1>1. j.images \in Seq(Nat) /\ j.copies \in Nat  BY DEF Job
<1>2. DOMAIN j.images = 1 .. Len(j.images) /\ \A k \in 1 .. Len(j.images) : j.images[k] \in Nat
  BY <1>1
<1> QED  BY <1>1, <1>2 DEF Pages, ToSet

(* So are those of all jobs of a sequence. *)
LEMMA PagesAreNat ==
  ASSUME NEW js \in Seq(Job)
  PROVE  /\ PagesOf(js) \subseteq Nat
         /\ \A k \in DOMAIN js : js[k] \in Job /\ Pages(js[k]) \subseteq PagesOf(js)
<1>1. \A k \in DOMAIN js : js[k] \in Job  OBVIOUS
<1> QED  BY <1>1, JobImages DEF PagesOf

(* Appending keeps the order when the new list is ordered and holds,        *)
(* besides images it had, those of the next job only.                       *)
LEMMA AppendingOrder ==
  ASSUME OrderInv, NEW newList, Appending(newList), jobs \in Seq(Job), newList \in Seq(Job),
         Ordered(newList), PagesOf(newList) \subseteq PagesOf(list) \union Pages(Head(jobs))
  PROVE  OrderInv'
<1>1. /\ pc = "append" /\ jobs # <<>> /\ list' = newList /\ jobs' = Tail(jobs)
      /\ UNCHANGED <<pc, images, out>>
  BY DEF Appending
<1>2. /\ Ordered(jobs') /\ PagesOf(jobs') \subseteq PagesOf(jobs)
      /\ AtMost(Pages(Head(jobs)), PagesOf(jobs'))
      /\ Pages(Head(jobs)) \subseteq PagesOf(jobs)
      /\ \A k \in DOMAIN jobs' : \E m \in DOMAIN jobs : jobs'[k] = jobs[m]
  BY <1>1, TailOrdered DEF OrderInv
<1>3. AtMost(ToSet(out), PagesOf(list))
  BY <1>1 DEF OrderInv, ToPrint, AtMost, PagesOf
<1>4. AtMost(PagesOf(list'), PagesOf(jobs'))
  BY <1>1, <1>2 DEF OrderInv, AtMost
<1>5. AtMost(ToSet(out), PagesOf(jobs')) /\ AtMost(ToSet(out), PagesOf(list'))
  BY <1>1, <1>2, <1>3 DEF OrderInv, AtMost
<1>6. AtMost(ToSet(out) \union PagesOf(list') \union PagesOf(jobs'), {images})
  BY <1>1, <1>2 DEF OrderInv, AtMost
<1>7. \A k \in DOMAIN list' : AtMost(ToSet(out), Pages(list'[k]))
  BY <1>5 DEF AtMost, PagesOf
<1>8. \A k \in DOMAIN jobs' : Alike(Pages(jobs'[k]))
  BY <1>2 DEF OrderInv
<1>9. Sorted(out) /\ Ordered(list')  BY <1>1 DEF OrderInv
<1> QED  BY <1>1, <1>2, <1>4, <1>5, <1>6, <1>7, <1>8, <1>9 DEF OrderInv

(* The next job comes after everything held back, and is one image. *)
LEMMA HeadFacts ==
  ASSUME IInv, OrderInv, jobs # <<>>
  PROVE  /\ jobs \in Seq(Job) /\ list \in Seq(Job) /\ Head(jobs) \in Job /\ Ordered(list)
         /\ AtMost(PagesOf(list), Pages(Head(jobs)))
         /\ Alike(Pages(Head(jobs))) /\ Sorted(Head(jobs).images) /\ SheetOK(Head(jobs))
<1>1. jobs \in Seq(Job) /\ list \in Seq(Job)  BY DEF IInv, TypeOK
<1>2. /\ Head(jobs) \in Job /\ Pages(Head(jobs)) \subseteq PagesOf(jobs) /\ SheetOK(Head(jobs))
      /\ Head(jobs) = jobs[1] /\ 1 \in DOMAIN jobs
  BY <1>1, TailOrdered DEF OrderInv
<1> QED  BY <1>1, <1>2 DEF OrderInv, AtMost, SheetOK

(* A job added as it is. *)
LEMMA AppendPlainOrder ==
  ASSUME IInv, OrderInv, AppendPlain
  PROVE  OrderInv'
<1> DEFINE job == Head(jobs)
           new == AddJob(list, job)
<1>1. Appending(new) /\ jobs # <<>>  BY DEF AppendPlain, Appending
<1>2. /\ jobs \in Seq(Job) /\ list \in Seq(Job) /\ job \in Job /\ Ordered(list)
      /\ AtMost(PagesOf(list), Pages(job)) /\ SheetOK(job)
  BY <1>1, HeadFacts
<1>3. Ordered(new) /\ PagesOf(new) \subseteq PagesOf(list) \union Pages(job)
  <2> HIDE DEF job
  <2> QED  BY <1>2, AddOrdered
<1>4. new \in Seq(Job)  BY <1>2 DEF AddJob
<1> HIDE DEF new
<1> QED  BY <1>1, <1>2, <1>3, <1>4, AppendingOrder

(* A first copy merged with the last entry, which shows no later image, and *)
(* a copy that follows.                                                     *)
LEMMA AppendToLastOrder ==
  ASSUME JobsAssumption, IInv, OrderInv, AppendToLast
  PROVE  OrderInv'
<1> DEFINE job  == Head(jobs)
           old  == Last(list)
           rest == job.copies - 1
           front == Front(list)
           both(b) == Combined(b, old, job, old.copies)
           merged(b) == AddJob(front, both(b))
           newList(b) == IF rest = 1 THEN AddJob(merged(b), WithCopies(job, rest)) ELSE merged(b)
<1>1. /\ jobs # <<>> /\ FitsLast(job)
      /\ \E b \in Buffers \ live : Appending(newList(b))
  BY DEF AppendToLast
<1>2. PICK b \in Buffers : Appending(newList(b))  BY <1>1
<1>3. /\ jobs \in Seq(Job) /\ list \in Seq(Job) /\ job \in Job /\ Ordered(list)
      /\ AtMost(PagesOf(list), Pages(job)) /\ Alike(Pages(job)) /\ Sorted(job.images)
      /\ SheetOK(job) /\ job.images \in Seq(Nat) /\ Pages(job) \subseteq Nat
  BY <1>1, HeadFacts, JobImages
<1>4. list # <<>> /\ old.copies <= 1  BY <1>1 DEF FitsLast, Mergeable
<1>5. /\ Ordered(front) /\ PagesOf(front) \subseteq PagesOf(list)
      /\ AtMost(PagesOf(front), Pages(old)) /\ SheetOK(old) /\ Pages(old) \subseteq PagesOf(list)
  BY <1>3, <1>4, FrontOrdered
<1>6. front \in Seq(Job) /\ old \in Job
  BY <1>3, <1>4, FrontFacts DEF IInv, HeapSafe
<1>7. old.images \in Seq(Nat) /\ old.copies \in Nat  BY <1>6, JobImages
<1>8. /\ both(b) \in Job /\ SheetOK(both(b)) /\ Pages(both(b)) = Pages(old) \union Pages(job)
  <2>1. /\ both(b) = [buf |-> b, images |-> old.images \o job.images, copies |-> old.copies,
                      cc |-> KeepsCombine, kind |-> Double]
    BY DEF Combined
  <2>2. AtMost(ToSet(old.images), ToSet(job.images))  BY <1>3, <1>5 DEF AtMost, Pages
  <2>3. Sorted(old.images)  BY <1>5 DEF SheetOK
  <2> HIDE DEF job, old, both
  <2>4. /\ old.images \o job.images \in Seq(Nat) /\ Sorted(old.images \o job.images)
        /\ ToSet(old.images \o job.images) = ToSet(old.images) \union ToSet(job.images)
    BY <1>3, <1>7, <2>2, <2>3, ConcatPages
  <2>5. both(b) \in Job  BY <1>2, <1>7, <2>1, <2>4 DEF Job, JobsAssumption
  <2> QED  BY <1>4, <2>1, <2>4, <2>5 DEF SheetOK, Pages
<1>9. /\ merged(b) \in Seq(Job) /\ Ordered(merged(b))
      /\ PagesOf(merged(b)) \subseteq PagesOf(list) \union Pages(job)
  <2> HIDE DEF job, old, both, front
  <2>1. AtMost(PagesOf(front), Pages(both(b)))  BY <1>3, <1>5, <1>8 DEF AtMost
  <2>2. Ordered(merged(b)) /\ PagesOf(merged(b)) \subseteq PagesOf(front) \union Pages(both(b))
    BY <1>5, <1>6, <1>8, <2>1, AddOrdered
  <2>3. merged(b) \in Seq(Job)  BY <1>6, <1>8 DEF AddJob
  <2> QED  BY <1>5, <1>8, <2>2, <2>3
<1>10. /\ newList(b) \in Seq(Job) /\ Ordered(newList(b))
       /\ PagesOf(newList(b)) \subseteq PagesOf(list) \union Pages(job)
  <2>1. CASE rest = 1
    <3> DEFINE single == WithCopies(job, rest)
    <3>1. single \in Job  BY <1>3, <2>1, WithCopiesType
    <3>2. single.images = job.images /\ single.copies = 1
      BY <1>3, <2>1 DEF WithCopies, Job
    <3>3. SheetOK(single) /\ Pages(single) = Pages(job)
      BY <1>3, <3>2 DEF SheetOK, Pages
    <3> HIDE DEF job, rest, merged, single
    <3>4. AtMost(PagesOf(merged(b)), Pages(single))
      BY SMTT(30), <1>3, <1>9, <3>3 DEF AtMost, Alike
    <3>5. AddJob(merged(b), single) \in Seq(Job)  BY <1>9, <3>1 DEF AddJob
    <3>6. /\ Ordered(AddJob(merged(b), single))
          /\ PagesOf(AddJob(merged(b), single)) \subseteq PagesOf(merged(b)) \union Pages(single)
      BY <1>9, <3>1, <3>3, <3>4, AddOrdered
    <3>7. newList(b) = AddJob(merged(b), single)  BY <2>1 DEF single
    <3> HIDE DEF newList
    <3> QED  BY <1>9, <3>3, <3>5, <3>6, <3>7
  <2>2. CASE rest # 1
    BY <1>9, <2>2
  <2> QED  BY <2>1, <2>2
<1> DEFINE new == newList(b)
<1>11. /\ Appending(new) /\ new \in Seq(Job) /\ Ordered(new)
       /\ PagesOf(new) \subseteq PagesOf(list) \union Pages(Head(jobs))
  BY <1>2, <1>10
<1> HIDE DEF new
<1> QED  BY <1>3, <1>11, AppendingOrder

(* Copies merged in pairs: all sheets show one image, in either order. *)
LEMMA AppendCopiesOrder ==
  ASSUME JobsAssumption, IInv, OrderInv, AppendCopies
  PROVE  OrderInv'
<1> DEFINE job == Head(jobs)
           odd == job.copies % 2
           pairs(b) == Combined(b, job, job, Pairs(job.copies))
           single == WithCopies(job, odd)
           withOdd(l) == IF odd = 1 THEN AddJob(l, single) ELSE l
           oddFirst(b) == AddJob(withOdd(list), pairs(b))
           oddLast(b)  == withOdd(AddJob(list, pairs(b)))
           Fine(l) == l \in Seq(Job) /\ Ordered(l) /\ PagesOf(l) \subseteq PagesOf(list) \union Pages(job)
<1>1. jobs # <<>> /\ \E b \in Buffers : Appending(oddFirst(b)) \/ Appending(oddLast(b))
  BY DEF AppendCopies
<1>2. PICK b \in Buffers : Appending(oddFirst(b)) \/ Appending(oddLast(b))  BY <1>1
<1>3. /\ jobs \in Seq(Job) /\ list \in Seq(Job) /\ job \in Job /\ Ordered(list)
      /\ AtMost(PagesOf(list), Pages(job)) /\ Alike(Pages(job)) /\ Sorted(job.images)
      /\ job.images \in Seq(Nat) /\ Pages(job) \subseteq Nat /\ job.copies \in Nat
  BY <1>1, HeadFacts, JobImages
<1>4. odd \in {0, 1} /\ Pairs(job.copies) \in Nat
  <2> HIDE DEF job
  <2> QED  BY <1>3 DEF Pairs
<1>5. /\ pairs(b) \in Job /\ SheetOK(pairs(b)) /\ Pages(pairs(b)) = Pages(job)
  <2> DEFINE n == Pairs(job.copies)
  <2>1. /\ pairs(b) = [buf |-> b, images |-> job.images \o job.images, copies |-> n,
                       cc |-> KeepsCombine, kind |-> Double]
    BY DEF Combined
  <2>2. n \in Nat  BY <1>4
  <2> HIDE DEF job, pairs, n
  <2>3. AtMost(ToSet(job.images), ToSet(job.images))  BY <1>3 DEF AtMost, Pages, Alike
  <2>4. /\ job.images \o job.images \in Seq(Nat) /\ Sorted(job.images \o job.images)
        /\ ToSet(job.images \o job.images) = ToSet(job.images)
    BY <1>3, <2>3, ConcatPages
  <2>5. pairs(b) \in Job  BY <1>2, <2>1, <2>2, <2>4 DEF Job, JobsAssumption
  <2> QED  BY <1>3, <2>1, <2>4, <2>5 DEF SheetOK, Pages
<1>6. odd = 1 => single \in Job /\ SheetOK(single) /\ Pages(single) = Pages(job)
  <2>1. odd = 1 => single.images = job.images /\ single.copies = 1
    BY <1>3 DEF WithCopies, Job
  <2>2. odd = 1 => single \in Job
    <3>1. job \in Job /\ odd \in Nat  BY <1>3, <1>4
    <3> HIDE DEF job, odd
    <3> QED  BY <3>1, WithCopiesType
  <2> HIDE DEF job, odd, single
  <2> QED  BY <1>3, <2>1, <2>2 DEF SheetOK, Pages
<1>7. ASSUME NEW l, Fine(l), NEW j \in Job, SheetOK(j), Pages(j) = Pages(job)
      PROVE  Fine(AddJob(l, j))
  <2> HIDE DEF job
  <2>1. AtMost(PagesOf(l), Pages(j))  BY SMTT(30), <1>3, <1>7 DEF AtMost, Alike
  <2>2. Ordered(AddJob(l, j)) /\ PagesOf(AddJob(l, j)) \subseteq PagesOf(l) \union Pages(j)
    BY <1>7, <2>1, AddOrdered
  <2>3. AddJob(l, j) \in Seq(Job)  BY <1>7 DEF AddJob
  <2> QED  BY <1>7, <2>2, <2>3
<1>8. Fine(list)  BY <1>3
<1> HIDE DEF Fine
<1>9. ASSUME NEW l, Fine(l) PROVE Fine(withOdd(l))
  <2> HIDE DEF single, odd, job
  <2> QED  BY <1>4, <1>6, <1>7, <1>9
<1> HIDE DEF withOdd, pairs
<1>10. Fine(oddFirst(b)) /\ Fine(oddLast(b))
  BY <1>5, <1>7, <1>8, <1>9
<1>11. PICK new : Appending(new) /\ Fine(new)
  <2> HIDE DEF oddFirst, oddLast
  <2> QED  BY <1>2, <1>10
<1> QED  BY <1>3, <1>11, AppendingOrder DEF Fine

(* What read_parse returns comes after everything read before. *)
LEMMA ReadPageOrder ==
  ASSUME JobsAssumption, IInv, OrderInv, ReadPage
  PROVE  OrderInv'
<1>1. PICK n \in JobsPerRead, c \in Copies, k \in Kinds, cc \in BOOLEAN :
        \E bs \in [1..n -> Buffers \ live] : Reads(n, c, k, cc, bs)
  BY ReadPageReads
<1>2. PICK bs \in [1..n -> Buffers \ live] : Reads(n, c, k, cc, bs)
  BY <1>1
<1>3. /\ n \in Nat /\ images \in Nat /\ images' = images + n /\ pc = "read" /\ pc' = "append"
      /\ UNCHANGED <<list, out>>
  <2>1. n \in Nat /\ images \in Nat  BY DEF JobsAssumption, IInv, TypeOK
  <2>2. images' = images + n  BY <1>2 DEF Reads
  <2>3. pc = "read" /\ pc' = "append" /\ UNCHANGED <<list, out>>  BY Zenon DEF ReadPage
  <2> QED  BY <2>1, <2>2, <2>3
<1>4. DOMAIN jobs' = 1 .. n /\ \A m \in 1 .. n : jobs'[m].images = <<images + m>>
  BY <1>2 DEF Parsed, Reads
<1>5. \A m \in 1 .. n : Pages(jobs'[m]) = {images + m} /\ Sorted(jobs'[m].images)
  <2>1. ASSUME NEW x \in Nat PROVE ToSet(<<x>>) = {x} /\ Sorted(<<x>>)
    <3>1. DOMAIN <<x>> = {1} /\ <<x>>[1] = x  OBVIOUS
    <3> QED  BY <2>1, <3>1 DEF ToSet, Sorted
  <2> TAKE m \in 1 .. n
  <2>2. images + m \in Nat  BY <1>3
  <2> QED  BY <1>4, <2>1, <2>2 DEF Pages
<1>6. Ordered(jobs') /\ \A m \in DOMAIN jobs' : Alike(Pages(jobs'[m]))
  BY <1>3, <1>4, <1>5 DEF Ordered, SheetOK, Alike, AtMost
<1>7. \A p \in PagesOf(jobs') : p \in Nat /\ images < p /\ p <= images + n
  BY <1>3, <1>4, <1>5 DEF PagesOf
<1>8. /\ PagesOf(list) \subseteq Nat /\ ToSet(out) \subseteq Nat
      /\ \A p \in PagesOf(list) \union ToSet(out) : p <= images
  <2>1. out \in Seq(Nat) /\ list \in Seq(Job)  BY DEF IInv, TypeOK
  <2>2. ToSet(out) \subseteq Nat  BY <2>1 DEF ToSet
  <2> QED  BY <2>1, <2>2, PagesAreNat DEF OrderInv, AtMost
<1>9. AtMost(PagesOf(list), PagesOf(jobs')) /\ AtMost(ToSet(out), PagesOf(jobs'))
  BY <1>3, <1>7, <1>8 DEF AtMost
<1>10. AtMost(ToSet(out) \union PagesOf(list) \union PagesOf(jobs'), {images'})
  BY <1>3, <1>7, <1>8 DEF AtMost
<1>11. \A m \in DOMAIN list : AtMost(ToSet(out), Pages(list[m]))
  BY <1>3 DEF OrderInv, ToPrint
<1>12. Sorted(out) /\ Ordered(list)  BY DEF OrderInv
<1> QED  BY <1>3, <1>6, <1>9, <1>10, <1>11, <1>12 DEF OrderInv

(* A copy of the next entry goes out: nothing printed is later than it, and *)
(* if another copy follows, both show one image.                            *)
LEMMA PrintCopyOrder ==
  ASSUME IInv, OrderInv, PrintCopy
  PROVE  OrderInv'
<1> DEFINE e == list[next]
<1>1. /\ pc = "loop" /\ out' = out \o e.images /\ UNCHANGED <<jobs, list, next, images>>
      /\ pc' = "printed" \/ (pc' = "loop" /\ left > 1 /\ left' = left - 1)
  BY DEF PrintCopy, IInv, TypeOK
<1>2. next \in DOMAIN list /\ e \in Job /\ list \in Seq(Job) /\ jobs \in Seq(Job) /\ out \in Seq(Nat)
      /\ left \in Nat /\ next \in Nat /\ DOMAIN list = 1 .. Len(list)
  BY <1>1 DEF IInv, TypeOK, InLoop
<1>3. e.images \in Seq(Nat) /\ Pages(e) \subseteq Nat /\ e.copies \in Nat  BY <1>2, JobImages
<1>4. ToPrint(next)  BY <1>1, <1>2 DEF ToPrint
<1>5. /\ AtMost(ToSet(out), Pages(e)) /\ SheetOK(e) /\ left <= e.copies
      /\ Pages(e) \subseteq PagesOf(list)
  BY <1>1, <1>2, <1>4 DEF OrderInv, Ordered, PagesOf
<1> HIDE DEF e
<1>6. ToSet(out') = ToSet(out) \union Pages(e) /\ Sorted(out')
  <2>1. Sorted(out) /\ Sorted(e.images)  BY <1>5 DEF OrderInv, SheetOK
  <2>2. AtMost(ToSet(out), ToSet(e.images))  BY <1>5 DEF Pages
  <2> QED  BY <1>1, <1>2, <1>3, <2>1, <2>2, ConcatPages DEF Pages
<1>7. ASSUME NEW k \in DOMAIN list, ToPrint(k)' PROVE AtMost(ToSet(out'), Pages(list[k]))
  <2>1. k >= next /\ ToPrint(k)  BY <1>1, <1>2, <1>7 DEF ToPrint
  <2>2. AtMost(ToSet(out), Pages(list[k]))  BY <2>1 DEF OrderInv
  <2>3. CASE k = next
    <3>1. left > 1  BY <1>1, <1>7, <2>3, <1>2 DEF ToPrint
    <3>2. Alike(Pages(e))  BY <1>2, <1>3, <1>5, <3>1 DEF SheetOK
    <3>3. AtMost(Pages(e), Pages(e))  BY <1>3, <3>2 DEF AtMost, Alike
    <3>4. list[k] = e  BY <2>3 DEF e
    <3> QED  BY <1>6, <2>2, <3>3, <3>4 DEF AtMost
  <2>4. CASE k > next
    <3>1. AtMost(Pages(e), Pages(list[k]))  BY <1>2, <2>4 DEF OrderInv, Ordered, e
    <3> QED  BY <1>6, <2>2, <3>1 DEF AtMost
  <2> QED  BY <1>2, <2>1, <2>3, <2>4
<1>8. AtMost(ToSet(out'), PagesOf(jobs))
  BY <1>5, <1>6 DEF OrderInv, AtMost
<1>9. AtMost(ToSet(out') \union PagesOf(list) \union PagesOf(jobs), {images})
  BY <1>5, <1>6 DEF OrderInv, AtMost
<1>10. pc' = "loop" => left' <= list[next].copies
  BY <1>1, <1>2, <1>3, <1>5 DEF e
<1>11. \A k \in DOMAIN list' : ToPrint(k)' => AtMost(ToSet(out'), Pages(list'[k]))
  BY <1>1, <1>7
<1>12. /\ Ordered(list') /\ Ordered(jobs') /\ AtMost(PagesOf(list'), PagesOf(jobs'))
       /\ \A k \in DOMAIN jobs' : Alike(Pages(jobs'[k]))
       /\ AtMost(ToSet(out'), PagesOf(jobs'))
       /\ AtMost(ToSet(out') \union PagesOf(list') \union PagesOf(jobs'), {images'})
       /\ pc' = "loop" => left' <= list'[next'].copies
  BY <1>1, <1>8, <1>9, <1>10 DEF OrderInv
<1> QED  BY <1>6, <1>11, <1>12 DEF OrderInv

(* The steps that print nothing and keep the jobs as they are: what is to   *)
(* be printed grows with ReadEnds and PageAppended only, when all of it was. *)
LEMMA OtherStepsOrder ==
  ASSUME IInv, OrderInv,
         ReadEnds \/ PageAppended \/ StartEntry \/ PrintFails \/ EntryPrinted
           \/ Sigterm \/ UNCHANGED vars
  PROVE  OrderInv'
<1>1. UNCHANGED <<jobs, list, images, out>>
  BY DEF ReadEnds, PageAppended, StartEntry, PrintFails, EntryPrinted, Sigterm, vars
<1>2. \A k \in DOMAIN list : k \in Nat
  BY DEF IInv, TypeOK
<1>3. \A k \in DOMAIN list : ToPrint(k)' => ToPrint(k)
  <2>1. CASE ReadEnds  BY <2>1 DEF ReadEnds, ToPrint
  <2>2. CASE PageAppended  BY <2>2 DEF PageAppended, ToPrint
  <2>3. CASE StartEntry  BY <2>3 DEF StartEntry, ToPrint
  <2>4. CASE PrintFails  BY <2>4 DEF PrintFails, ToPrint
  <2>5. CASE EntryPrinted  BY <1>2, <2>5 DEF EntryPrinted, ToPrint, IInv, TypeOK
  <2>6. CASE Sigterm \/ UNCHANGED vars  BY <2>6 DEF Sigterm, vars, ToPrint
  <2> QED  BY <2>1, <2>2, <2>3, <2>4, <2>5, <2>6
<1>4. (pc = "loop" => left <= list[next].copies)'
  <2>1. CASE StartEntry
    <3>1. left' = list[next].copies /\ next \in DOMAIN list /\ UNCHANGED <<list, next>>
      BY <2>1 DEF StartEntry, IInv, TypeOK
    <3>2. list[next].copies \in Nat  BY <3>1, JobImages DEF IInv, TypeOK
    <3> QED  BY <3>1, <3>2
  <2>2. CASE Sigterm \/ UNCHANGED vars  BY <2>2 DEF Sigterm, vars, OrderInv
  <2>3. CASE ReadEnds \/ PageAppended \/ PrintFails \/ EntryPrinted
    BY <2>3 DEF ReadEnds, AfterRead, PageAppended, PrintFails, EntryPrinted
  <2> QED  BY <2>1, <2>2, <2>3
<1>5. \A k \in DOMAIN list' : ToPrint(k)' => AtMost(ToSet(out'), Pages(list'[k]))
  BY <1>1, <1>3 DEF OrderInv
<1> QED  BY <1>1, <1>4, <1>5 DEF OrderInv

(* An emptied list. *)
LEMMA GivenUpOrder ==
  ASSUME OrderInv, CleanupList \/ CreateFails
  PROVE  OrderInv'
<1>1. /\ UNCHANGED <<images, out>> /\ pc' # "loop"
      /\ \/ list' = <<>> /\ jobs' = jobs
         \/ list' = list /\ list = <<>> /\ jobs' = <<>>
  BY DEF CleanupList, CreateFails
<1>2. Ordered(<<>>) /\ PagesOf(<<>>) = {}  BY DEF Ordered, PagesOf
<1>3. Ordered(list') /\ Ordered(jobs') /\ PagesOf(list') = {} /\ PagesOf(jobs') \subseteq PagesOf(jobs)
  BY <1>1, <1>2 DEF OrderInv
<1>4. DOMAIN list' = {} /\ \A k \in DOMAIN jobs' : Alike(Pages(jobs'[k]))
  BY <1>1 DEF OrderInv
<1>5. /\ AtMost(PagesOf(list'), PagesOf(jobs')) /\ AtMost(ToSet(out), PagesOf(jobs'))
      /\ AtMost(ToSet(out) \union PagesOf(list') \union PagesOf(jobs'), {images})
  BY <1>3 DEF OrderInv, AtMost
<1> QED  BY <1>1, <1>3, <1>4, <1>5 DEF OrderInv

(* At first nothing is printed, held back or read. *)
LEMMA InitOrder ==
  ASSUME Init
  PROVE  OrderInv
<1>1. Ordered(<<>>) /\ PagesOf(<<>>) = {} /\ Sorted(<<>>) /\ ToSet(<<>>) = {}
  BY DEF Ordered, PagesOf, Sorted, ToSet
<1> QED  BY <1>1 DEF Init, OrderInv, AtMost

(* Every step keeps the order. *)
LEMMA NextOrder ==
  ASSUME JobsAssumption, IInv, OrderInv, [Next]_vars
  PROVE  OrderInv'
BY ReadPageOrder, AppendPlainOrder, AppendToLastOrder, AppendCopiesOrder, PrintCopyOrder,
   OtherStepsOrder, GivenUpOrder DEF Next, Step, Finished

(* OrderInv is an invariant: what is printed, held back and read is in the  *)
(* order of the document, and only sheets of one image are printed in       *)
(* several copies.                                                          *)
THEOREM OrderHolds == Spec => []OrderInv
<1>1. Init => OrderInv  BY InitOrder
<1>2. IInv /\ OrderInv /\ [Next]_vars => OrderInv'  BY NextOrder, JobsAssumption
<1> QED  BY <1>1, <1>2, Inductive, PTL DEF Spec

(* Sheets leave the printer in the order of the document: no merge, no      *)
(* polarity and no wait lets a later page overtake.                         *)
THEOREM DocumentOrder == Spec => []InOrder
<1>1. IInv /\ OrderInv => InOrder
  <2> SUFFICES ASSUME IInv, OrderInv, NEW k \in 1 .. Len(out) - 1 PROVE out[k] <= out[k + 1]
    BY DEF InOrder
  <2>1. out \in Seq(Nat)  BY DEF IInv, TypeOK
  <2>2. k \in DOMAIN out /\ k + 1 \in DOMAIN out /\ k <= k + 1  BY <2>1
  <2> QED  BY <2>2 DEF OrderInv, Sorted
<1> QED  BY <1>1, Inductive, OrderHolds, PTL

-----------------------------------------------------------------------------
(* Buffers, when pages ask for one copy or two and read_parse returns one   *)
(* job: what more would do, the lost copies, is what the run lost_copies    *)
(* shows.                                                                   *)
Pairwise == Copies \subseteq {1, 2} /\ JobsPerRead \subseteq {1}

(* Every allocated buffer belongs to a job, and the list has a slot left    *)
(* for the job that was read.                                               *)
LeakInv ==
  /\ live = Owned(list) \union Owned(jobs)
  /\ Len(jobs) <= 1
  /\ \A k \in DOMAIN jobs : jobs[k].copies \in {1, 2}
  /\ jobs # <<>> => pc = "append"
  /\ pc = "read" \/ jobs # <<>> => Len(list) < MaxEntries
  /\ pc = "done" => list = <<>>

(* A list with a free slot takes the job and its buffer. *)
LEMMA AddExact ==
  ASSUME NEW l \in Seq(Job), NEW j \in Job, Len(l) < MaxEntries, MaxEntries \in Nat
  PROVE  /\ Owned(AddJob(l, j)) = Owned(l) \union {j.buf}
         /\ AddJob(l, j) \in Seq(Job) /\ Len(AddJob(l, j)) = Len(l) + 1
<1> DEFINE a == Append(l, j)
           n == Len(l)
<1>1. /\ DOMAIN l = 1 .. n /\ n \in Nat /\ DOMAIN a = 1 .. n + 1
      /\ \A k \in 1 .. n : a[k] = l[k]
      /\ a[n + 1] = j /\ a \in Seq(Job) /\ Len(a) = n + 1
  OBVIOUS
<1>2. AddJob(l, j) = a
  <2>1. ~(Len(l) >= MaxEntries)  BY <1>1
  <2> QED  BY <2>1 DEF AddJob
<1> HIDE DEF a, n
<1>3. \A k \in 1 .. n + 1 : k \in 1 .. n \/ k = n + 1  BY <1>1
<1>4. n + 1 \in 1 .. n + 1 /\ \A k \in 1 .. n : k \in 1 .. n + 1  BY <1>1
<1>5. Owned(a) \subseteq Owned(l) \union {j.buf}  BY <1>1, <1>3 DEF Owned
<1>6. Owned(l) \subseteq Owned(a) /\ j.buf \in Owned(a)
  <2>1. \A k \in DOMAIN l : k \in DOMAIN a /\ a[k] = l[k]  BY <1>1, <1>4
  <2>2. n + 1 \in DOMAIN a /\ a[n + 1] = j  BY <1>1, <1>4
  <2> QED  BY <2>1, <2>2 DEF Owned
<1> QED  BY <1>1, <1>2, <1>5, <1>6 DEF n

(* A sequence owns what its ends and the rest own. *)
LEMMA EndsExact ==
  ASSUME NEW s \in Seq(Job), s # <<>>
  PROVE  /\ Owned(s) = Owned(Front(s)) \union {Last(s).buf}
         /\ Owned(s) = Owned(Tail(s)) \union {Head(s).buf}
         /\ Len(Front(s)) = Len(s) - 1 /\ Len(Tail(s)) = Len(s) - 1
         /\ Len(s) \in Nat /\ Len(s) >= 1
<1> DEFINE n == Len(s)
<1>1. /\ n \in Nat /\ n >= 1 /\ DOMAIN s = 1 .. n
      /\ Len(Tail(s)) = n - 1 /\ DOMAIN Tail(s) = 1 .. n - 1 /\ Head(s) = s[1]
      /\ \A k \in 1 .. n - 1 : Tail(s)[k] = s[k + 1]
  OBVIOUS
<1>2. /\ Len(Front(s)) = n - 1 /\ DOMAIN Front(s) = 1 .. n - 1
      /\ \A k \in 1 .. n - 1 : Front(s)[k] = s[k]
      /\ Last(s) = s[n]
  BY <1>1 DEF Front, Last
<1> HIDE DEF n
<1>3. \A k \in 1 .. n : (k \in 1 .. n - 1 \/ k = n) /\ (k = 1 \/ (k - 1 \in 1 .. n - 1 /\ k - 1 + 1 = k))
  BY <1>1
<1>4. 1 \in 1 .. n /\ n \in 1 .. n /\ \A k \in 1 .. n - 1 : k \in 1 .. n /\ k + 1 \in 1 .. n
  BY <1>1
<1>5. Owned(s) = Owned(Front(s)) \union {s[n].buf}
  <2>1. \A k \in DOMAIN s : (k \in DOMAIN Front(s) /\ Front(s)[k] = s[k]) \/ k = n
    BY <1>1, <1>2, <1>3
  <2>2. \A k \in DOMAIN Front(s) : k \in DOMAIN s /\ Front(s)[k] = s[k]
    BY <1>1, <1>2, <1>4
  <2>3. n \in DOMAIN s  BY <1>1, <1>4
  <2> QED  BY <2>1, <2>2, <2>3 DEF Owned
<1>6. Owned(s) = Owned(Tail(s)) \union {s[1].buf}
  <2>1. \A k \in DOMAIN s : (k - 1 \in DOMAIN Tail(s) /\ Tail(s)[k - 1] = s[k]) \/ k = 1
    BY <1>1, <1>3
  <2>2. \A k \in DOMAIN Tail(s) : k + 1 \in DOMAIN s /\ Tail(s)[k] = s[k + 1]
    BY <1>1, <1>4
  <2>3. 1 \in DOMAIN s  BY <1>1, <1>4
  <2>4. Owned(s) \subseteq Owned(Tail(s)) \union {s[1].buf}
    <3> SUFFICES ASSUME NEW k \in DOMAIN s, k # 1 PROVE s[k].buf \in Owned(Tail(s))
      BY DEF Owned
    <3> QED  BY <2>1 DEF Owned
  <2>5. Owned(Tail(s)) \subseteq Owned(s)
    <3> SUFFICES ASSUME NEW k \in DOMAIN Tail(s) PROVE Tail(s)[k].buf \in Owned(s)
      BY DEF Owned
    <3> QED  BY <2>2 DEF Owned
  <2> QED  BY <2>3, <2>4, <2>5 DEF Owned
<1> QED  BY <1>1, <1>2, <1>5, <1>6 DEF n

(* No job owns no buffer. *)
LEMMA EmptyOwns == Owned(<<>>) = {} /\ Len(<<>>) = 0
BY DEF Owned

(* Read one at a time, the next job is the only one. *)
LEMMA LastJob ==
  ASSUME IInv, LeakInv, jobs # <<>>
  PROVE  /\ Tail(jobs) = <<>> /\ Head(jobs).copies \in {1, 2} /\ Owned(jobs) = {Head(jobs).buf}
         /\ Len(list) < MaxEntries
<1>1. jobs \in Seq(Job)  BY DEF IInv, TypeOK
<1>2. /\ Len(jobs) \in Nat /\ Len(Tail(jobs)) = 0 /\ Tail(jobs) \in Seq(Job)
      /\ Head(jobs) = jobs[1] /\ 1 \in DOMAIN jobs
  BY SMTT(30), <1>1 DEF LeakInv
<1>3. Tail(jobs) = <<>>  BY <1>2, EmptySeq, Zenon
<1> QED  BY <1>1, <1>2, <1>3, EndsExact, EmptyOwns DEF LeakInv

(* Appending keeps LeakInv when exactly the new list's buffers stay         *)
(* allocated.                                                               *)
LEMMA AppendingLeak ==
  ASSUME IInv, LeakInv, NEW newList, Appending(newList), live' = Owned(newList)
  PROVE  LeakInv'
<1>1. jobs' = <<>> /\ list' = newList /\ pc' = "append"
  BY LastJob DEF Appending
<1> QED  BY <1>1, EmptyOwns DEF LeakInv

(* A job added as it is brings its buffer. *)
LEMMA AppendPlainLeak ==
  ASSUME JobsAssumption, IInv, LeakInv, AppendPlain
  PROVE  LeakInv'
<1>1. jobs # <<>> /\ Appending(AddJob(list, Head(jobs))) /\ live' = live
  BY DEF AppendPlain, Appending, heap
<1>2. Owned(jobs) = {Head(jobs).buf} /\ Len(list) < MaxEntries  BY <1>1, LastJob
<1>3. list \in Seq(Job) /\ Head(jobs) \in Job /\ MaxEntries \in Nat
  BY <1>1, AppendContext DEF JobsAssumption
<1>4. Owned(AddJob(list, Head(jobs))) = Owned(list) \union {Head(jobs).buf}
  BY <1>2, <1>3, AddExact
<1> QED  BY <1>1, <1>2, <1>4, AppendingLeak DEF LeakInv

(* A job merged with the last entry: both are freed, or the new one stays   *)
(* for its second copy.                                                     *)
LEMMA AppendToLastLeak ==
  ASSUME JobsAssumption, IInv, LeakInv, AppendToLast
  PROVE  LeakInv'
<1> DEFINE job  == Head(jobs)
           old  == Last(list)
           rest == job.copies - 1
           both(b) == Combined(b, old, job, old.copies)
           merged(b) == AddJob(Front(list), both(b))
           newList(b) == IF rest = 1 THEN AddJob(merged(b), WithCopies(job, rest)) ELSE merged(b)
           freed == FreedByMerge(old, job, rest)
<1>1. /\ jobs # <<>> /\ FitsLast(job)
      /\ \E b \in Buffers \ live : Appending(newList(b)) /\ Heap({b}, freed)
  BY DEF AppendToLast
<1>2. PICK b \in Buffers \ live : Appending(newList(b)) /\ Heap({b}, freed)
  BY <1>1
<1>3. /\ job \in Job /\ job.buf \notin Owned(list) /\ job.buf \in live
      /\ list \in Seq(Job) /\ list # <<>> /\ OwnEach(list)
      /\ Owned(list) \subseteq live /\ live \subseteq Buffers /\ MaxEntries \in Nat
  BY <1>1, AppendContext DEF FitsLast, Mergeable, JobsAssumption
<1>4. /\ live = Owned(list) \union {job.buf} /\ Len(list) < MaxEntries /\ rest \in {0, 1}
  BY <1>1, LastJob DEF LeakInv
<1>5. /\ Front(list) \in Seq(Job) /\ old \in Job /\ Len(Front(list)) = Len(list) - 1 /\ Len(list) \in Nat
      /\ Owned(Front(list)) = Owned(list) \ {old.buf} /\ old.buf \in Owned(list)
  BY <1>3, FrontFacts, EndsExact
<1>6. both(b) \in Job /\ both(b).buf = b
  <2> DEFINE n == old.copies
  <2>1. n \in Nat  BY <1>5 DEF Job
  <2> HIDE DEF job, old, n
  <2>2. b \in Buffers /\ job \in Job /\ old \in Job  BY <1>2, <1>3, <1>5
  <2>3. ASSUME NEW j1 \in Job, NEW j2 \in Job, NEW m \in Nat
        PROVE  Combined(b, j1, j2, m) \in Job /\ Combined(b, j1, j2, m).buf = b
    BY <2>2, CombinedType
  <2>4. Combined(b, old, job, n) \in Job /\ Combined(b, old, job, n).buf = b
    BY <2>1, <2>2, <2>3
  <2> QED  BY <2>4 DEF n
<1>7. /\ merged(b) \in Seq(Job) /\ Len(merged(b)) = Len(list)
      /\ Owned(merged(b)) = (Owned(list) \ {old.buf}) \union {b}
  <2> HIDE DEF job, old, both
  <2>1. Len(Front(list)) < MaxEntries  BY <1>3, <1>4, <1>5
  <2>2. /\ merged(b) \in Seq(Job) /\ Len(merged(b)) = Len(Front(list)) + 1
        /\ Owned(merged(b)) = Owned(Front(list)) \union {both(b).buf}
    BY <1>3, <1>5, <1>6, <2>1, AddExact
  <2> HIDE DEF merged
  <2> QED  BY <1>5, <1>6, <2>2
<1> HIDE DEF both, merged, old, job
<1>8. Owned(newList(b)) = (Owned(list) \ {old.buf}) \union {b} \union (IF rest = 1 THEN {job.buf} ELSE {})
  <2>1. CASE rest = 1
    <3>1. WithCopies(job, rest) \in Job /\ WithCopies(job, rest).buf = job.buf
      BY <1>3, <2>1, WithCopiesType
    <3> HIDE DEF rest
    <3>2. Owned(AddJob(merged(b), WithCopies(job, rest))) = Owned(merged(b)) \union {job.buf}
      BY <1>3, <1>4, <1>7, <3>1, AddExact
    <3> QED  BY <1>7, <2>1, <3>2
  <2>2. CASE rest # 1  BY <1>7, <2>2
  <2> QED  BY <2>1, <2>2
<1>9. Owned(freed) = {old.buf} \union (IF rest = 0 THEN {job.buf} ELSE {})
  <2>1. freed = IF rest = 0 THEN <<old, job>> ELSE <<old>>  BY DEF FreedByMerge
  <2> HIDE DEF rest, freed
  <2> QED  BY <1>3, <1>5, <2>1, FewJobs
<1>10. live' = (live \union {b}) \ Owned(freed)  BY <1>2 DEF Heap
<1> HIDE DEF newList, freed, rest
<1>11. live' = Owned(newList(b))
  <2>1. CASE rest = 0  BY <1>2, <1>3, <1>4, <1>5, <1>8, <1>9, <1>10, <2>1
  <2>2. CASE rest = 1  BY <1>2, <1>3, <1>4, <1>5, <1>8, <1>9, <1>10, <2>2
  <2> QED  BY <1>4, <2>1, <2>2
<1> QED  BY <1>2, <1>11, AppendingLeak

(* Two copies merged: the buffer of the job is freed. *)
LEMMA AppendCopiesLeak ==
  ASSUME JobsAssumption, IInv, LeakInv, AppendCopies
  PROVE  LeakInv'
<1> DEFINE job == Head(jobs)
           pairs(b) == Combined(b, job, job, Pairs(job.copies))
<1>1. jobs # <<>> /\ FitsCopies(job)  BY DEF AppendCopies
<1>2. /\ job \in Job /\ job.buf \notin Owned(list) /\ job.buf \in live
      /\ list \in Seq(Job) /\ Owned(list) \subseteq live /\ MaxEntries \in Nat
      /\ live = Owned(list) \union {job.buf} /\ Len(list) < MaxEntries
  BY <1>1, AppendContext, LastJob DEF LeakInv, JobsAssumption
<1>3. job.copies = 2
  <2>1. job.copies \in {1, 2} /\ job.copies > 1  BY <1>1, LastJob DEF FitsCopies
  <2> QED  BY <2>1
<1>4. job.copies % 2 = 0 /\ Pairs(job.copies) \in Nat  BY <1>3 DEF Pairs
<1>5. PICK b \in Buffers \ live :
        Appending(AddJob(list, pairs(b))) /\ Heap({b}, <<job>>)
  <2> DEFINE odd == job.copies % 2
             withOdd(l) == IF odd = 1 THEN AddJob(l, WithCopies(job, odd)) ELSE l
             freed == IF odd = 0 THEN <<job>> ELSE <<>>
  <2>1. PICK b \in Buffers \ live, hook \in Polarities :
          /\ Appending(IF hook /\ ~Mergeable(list) THEN AddJob(withOdd(list), pairs(b))
                       ELSE withOdd(AddJob(list, pairs(b))))
          /\ Heap({b}, freed)
    BY DEF AppendCopies
  <2>2. freed = <<job>> /\ \A l : withOdd(l) = l  BY <1>4
  <2> HIDE DEF withOdd, freed
  <2>3. (IF hook /\ ~Mergeable(list) THEN AddJob(withOdd(list), pairs(b))
           ELSE withOdd(AddJob(list, pairs(b)))) = AddJob(list, pairs(b))
    BY <2>2
  <2> QED  BY <2>1, <2>2, <2>3
<1>6. pairs(b) \in Job /\ pairs(b).buf = b
  <2> DEFINE n == Pairs(job.copies)
  <2>1. n \in Nat  BY <1>4
  <2> HIDE DEF job, n
  <2>2. Combined(b, job, job, n) \in Job /\ Combined(b, job, job, n).buf = b
    BY <1>2, <1>5, <2>1, CombinedType
  <2> QED  BY <2>2 DEF n
<1> HIDE DEF pairs
<1>7. Owned(AddJob(list, pairs(b))) = Owned(list) \union {b}  BY <1>2, <1>6, AddExact
<1>8. Owned(<<job>>) = {job.buf}  BY <1>2, FewJobs
<1>9. live' = (live \union {b}) \ {job.buf}  BY <1>5, <1>8 DEF Heap
<1> HIDE DEF job
<1>10. live' = Owned(AddJob(list, pairs(b)))
  BY <1>2, <1>5, <1>7, <1>9
<1> QED  BY <1>5, <1>10, AppendingLeak

(* read_parse returns one job with one new buffer. *)
LEMMA ReadPageLeak ==
  ASSUME JobsAssumption, Pairwise, IInv, LeakInv, ReadPage
  PROVE  LeakInv'
<1>1. PICK n \in JobsPerRead, c \in Copies, k \in Kinds, cc \in BOOLEAN :
        \E bs \in [1..n -> Buffers \ live] : Reads(n, c, k, cc, bs)
  BY ReadPageReads
<1>2. PICK bs \in [1..n -> Buffers \ live] :
        jobs' = Parsed(n, c, k, cc, bs) /\ Heap(Owned(Parsed(n, c, k, cc, bs)), <<>>)
  BY <1>1 DEF Reads
<1>3. n = 1 /\ c \in {1, 2}  BY DEF Pairwise
<1>4. /\ pc = "read" /\ pc' = "append" /\ list' = list /\ jobs = <<>>
  BY DEF ReadPage, LeakInv
<1>5. DOMAIN jobs' = 1 .. 1 /\ \A m \in 1 .. 1 : jobs'[m].copies = c
  BY <1>2, <1>3 DEF Parsed
<1>6. jobs' \in Seq(Job)  BY ReadPageKeeps DEF IInv, TypeOK
<1>7. Len(jobs') = 1  BY <1>5, <1>6
<1>8. live' = live \union Owned(jobs')  BY <1>2, EmptyOwns DEF Heap
<1> QED  BY <1>3, <1>4, <1>5, <1>7, <1>8, EmptyOwns DEF LeakInv

(* What is given up is freed. *)
LEMMA GivenUpLeak ==
  ASSUME JobsAssumption, IInv, LeakInv, CleanupList \/ CreateFails
  PROVE  LeakInv'
<1>1. CASE CleanupList
  <2>1. /\ pc \in {"print", "cleanup"} /\ list' = <<>> /\ jobs' = jobs /\ live' = (live \union {}) \ Owned(list)
    BY <1>1 DEF CleanupList, Heap
  <2>2. jobs = <<>>  BY <2>1 DEF LeakInv
  <2>3. 0 < MaxEntries  BY DEF JobsAssumption
  <2> QED  BY <2>1, <2>2, <2>3, EmptyOwns DEF LeakInv
<1>2. CASE CreateFails
  <2>1. /\ pc' \in {"done", "crashed"} /\ list' = <<>> /\ list = <<>> /\ jobs' = <<>>
        /\ live' = (live \union {}) \ Owned(jobs)
    BY <1>2 DEF CreateFails, Heap
  <2> QED  BY <2>1, EmptyOwns DEF LeakInv
<1> QED  BY <1>1, <1>2

(* The other steps neither allocate nor free. *)
LEMMA OtherStepsLeak ==
  ASSUME IInv, LeakInv,
         ReadEnds \/ PageAppended \/ StartEntry \/ PrintCopy \/ PrintFails \/ EntryPrinted
           \/ Sigterm \/ UNCHANGED vars
  PROVE  LeakInv'
<1>1. UNCHANGED <<jobs, list, live>>
  BY DEF ReadEnds, PageAppended, StartEntry, PrintCopy, PrintFails, EntryPrinted, Sigterm, vars, heap
<1>2. CASE ReadEnds  BY <1>1, <1>2 DEF ReadEnds, AfterRead, LeakInv
<1>3. CASE PageAppended
  <2>1. Len(list) \in Nat /\ Len(list) <= MaxEntries /\ MaxEntries \in Nat
    BY JobsAssumption DEF IInv, TypeOK
  <2>2. /\ jobs = <<>> /\ pc' \in {"read", "print"}
        /\ pc' = "read" => Len(list) # MaxEntries
    BY <1>3 DEF PageAppended, CanWait
  <2> QED  BY <1>1, <2>1, <2>2 DEF LeakInv
<1>4. CASE StartEntry \/ PrintCopy \/ PrintFails \/ EntryPrinted
  <2>1. pc \notin {"append", "read"} /\ pc' \notin {"append", "read", "done"}
    BY <1>4 DEF StartEntry, PrintCopy, PrintFails, EntryPrinted
  <2> QED  BY <1>1, <2>1 DEF LeakInv
<1>5. CASE Sigterm \/ UNCHANGED vars
  <2>1. pc' = pc  BY <1>5 DEF Sigterm, vars
  <2> QED  BY <1>1, <2>1 DEF LeakInv
<1> QED  BY <1>2, <1>3, <1>4, <1>5

(* Every step keeps LeakInv. *)
LEMMA NextLeak ==
  ASSUME JobsAssumption, Pairwise, IInv, LeakInv, [Next]_vars
  PROVE  LeakInv'
BY ReadPageLeak, AppendPlainLeak, AppendToLastLeak, AppendCopiesLeak, OtherStepsLeak, GivenUpLeak
   DEF Next, Step, Finished

(* Nothing else is allocated throughout. *)
THEOREM LeakHolds == ASSUME Pairwise PROVE Spec => []LeakInv
<1>1. Init => LeakInv
  <2> SUFFICES ASSUME Init PROVE LeakInv  OBVIOUS
  <2>1. 0 < MaxEntries  BY JobsAssumption
  <2> QED  BY <2>1, EmptyOwns DEF Init, LeakInv
<1>2. IInv /\ LeakInv /\ [Next]_vars => LeakInv'  BY NextLeak, JobsAssumption
<1> QED  BY <1>1, <1>2, Inductive, PTL DEF Spec

(* No job buffer outlives handle_input when pages ask for one copy or two   *)
(* and are read one at a time, whatever allocation or print fails.          *)
THEOREM PairwiseNeverLeaks == ASSUME Pairwise PROVE Spec => []NothingLeaks
<1>1. LeakInv => NothingLeaks
  <2> SUFFICES ASSUME LeakInv, pc = "done" PROVE live = {}  BY DEF NothingLeaks
  <2>1. list = <<>> /\ jobs = <<>>  BY DEF LeakInv
  <2> QED  BY <2>1, EmptyOwns DEF LeakInv
<1> QED  BY <1>1, LeakHolds, PTL

-----------------------------------------------------------------------------
(* No image is exposed too often.  Every exposure of an image, made or      *)
(* still to come, is given a number of its own among the copies that were   *)
(* asked for: merging exchanges exposures to come one for one, printing     *)
(* makes them, and an error or a signal gives them up.                      *)

(* The exposures O and those to come, T, have different numbers up to r. *)
Numbered(O, T, r) ==
  \E f \in [O -> 1 .. r], g \in [T -> 1 .. r] :
    IsInjective(f) /\ IsInjective(g) /\ \A x \in O, y \in T : f[x] # g[y]

(* Exposures to come may be exchanged one for one. *)
LEMMA Renumbered ==
  ASSUME NEW O, NEW T1, NEW T2, NEW r, Numbered(O, T1, r),
         NEW m \in [T2 -> T1], IsInjective(m)
  PROVE  Numbered(O, T2, r)
<1>1. PICK f \in [O -> 1 .. r], g \in [T1 -> 1 .. r] :
        IsInjective(f) /\ IsInjective(g) /\ \A x \in O, y \in T1 : f[x] # g[y]
  BY DEF Numbered
<1> DEFINE h == [t \in T2 |-> g[m[t]]]
<1>2. h \in [T2 -> 1 .. r]  OBVIOUS
<1>3. IsInjective(h)  BY <1>1 DEF IsInjective
<1>4. \A x \in O, y \in T2 : f[x] # h[y]  BY <1>1
<1> HIDE DEF h
<1> QED  BY <1>1, <1>2, <1>3, <1>4 DEF Numbered

(* Exposures to come may be given up. *)
LEMMA FewerNumbered ==
  ASSUME NEW O, NEW T1, NEW T2 \in SUBSET T1, NEW r, Numbered(O, T1, r)
  PROVE  Numbered(O, T2, r)
<1> DEFINE m == [t \in T2 |-> t]
<1>1. m \in [T2 -> T1] /\ IsInjective(m)  BY DEF IsInjective
<1> HIDE DEF m
<1> QED  BY <1>1, Renumbered

(* Exposures to come are made: each new one takes the number of one that    *)
(* was to come, which is to come no more.                                   *)
LEMMA ExposedNumbered ==
  ASSUME NEW O, NEW N, NEW T1, NEW T2 \in SUBSET T1, NEW r, Numbered(O, T1, r),
         O \intersect N = {}, NEW m \in [N -> T1], IsInjective(m), \A x \in N : m[x] \notin T2
  PROVE  Numbered(O \union N, T2, r)
<1>1. PICK f \in [O -> 1 .. r], g \in [T1 -> 1 .. r] :
        IsInjective(f) /\ IsInjective(g) /\ \A x \in O, y \in T1 : f[x] # g[y]
  BY DEF Numbered
<1> DEFINE h == [x \in O \union N |-> IF x \in N THEN g[m[x]] ELSE f[x]]
           k == [t \in T2 |-> g[t]]
<1>2. h \in [O \union N -> 1 .. r] /\ k \in [T2 -> 1 .. r]  OBVIOUS
<1>3. IsInjective(k)  BY <1>1 DEF IsInjective
<1>4. ASSUME NEW x \in O \union N, NEW y \in O \union N, h[x] = h[y] PROVE x = y
  <2>1. CASE x \in N /\ y \in N  BY <1>1, <1>4, <2>1 DEF IsInjective
  <2>2. CASE x \in N /\ y \notin N  BY <1>1, <1>4, <2>2
  <2>3. CASE x \notin N /\ y \in N  BY <1>1, <1>4, <2>3
  <2>4. CASE x \notin N /\ y \notin N  BY <1>1, <1>4, <2>4 DEF IsInjective
  <2> QED  BY <2>1, <2>2, <2>3, <2>4
<1>5. ASSUME NEW x \in O \union N, NEW y \in T2 PROVE h[x] # k[y]
  <2>1. CASE x \in N  BY <1>1, <2>1 DEF IsInjective
  <2>2. CASE x \notin N  BY <1>1, <2>2
  <2> QED  BY <2>1, <2>2
<1>6. IsInjective(h)  BY <1>2, <1>4 DEF IsInjective
<1> HIDE DEF h, k
<1> QED  BY <1>2, <1>3, <1>5, <1>6 DEF Numbered

(* There are no more exposures than numbers. *)
LEMMA NumberedCount ==
  ASSUME NEW O, NEW T, NEW r \in Nat, Numbered(O, T, r)
  PROVE  Cardinality(O) <= r
<1>1. PICK f \in [O -> 1 .. r] : IsInjective(f)  BY DEF Numbered
<1>2. f \in Injection(O, 1 .. r)  BY <1>1 DEF Injection, IsInjective
<1>3. IsFiniteSet(1 .. r) /\ Cardinality(1 .. r) = IF 1 > r THEN 0 ELSE r - 1 + 1
  <2>1. 1 \in Int /\ r \in Int  OBVIOUS
  <2> QED  BY <2>1, FS_Interval, Zenon
<1>4. Cardinality(O) <= Cardinality(1 .. r)  BY <1>2, <1>3, FS_Injection, Zenon
<1>5. Cardinality(1 .. r) = r  BY <1>3
<1> QED  BY <1>4, <1>5

-----------------------------------------------------------------------------
(* The exposures of image i that the jobs of H are still to make: the copy  *)
(* and the place on the sheet, per job.                                     *)
ToExpose(H, i) ==
  {t \in Buffers \X Nat \X Nat :
     \E j \in H : /\ t[1] = j.buf /\ t[2] \in 1 .. j.copies
                 /\ t[3] \in DOMAIN j.images /\ j.images[t[3]] = i}

(* The buffers of a set of jobs. *)
Bufs(H) == {j.buf : j \in H}

(* Fewer jobs make fewer exposures. *)
LEMMA ExposuresIn ==
  ASSUME NEW H1, NEW H2, NEW i, H2 \subseteq H1
  PROVE  ToExpose(H2, i) \subseteq ToExpose(H1, i)
BY DEF ToExpose

(* The element of a concatenation at a place. *)
LEMMA ConcatAt ==
  ASSUME NEW s \in Seq(Nat), NEW t \in Seq(Nat), NEW k \in DOMAIN (s \o t)
  PROVE  /\ k \in Nat
         /\ k <= Len(s) => k \in DOMAIN s /\ (s \o t)[k] = s[k]
         /\ ~(k <= Len(s)) => k - Len(s) \in DOMAIN t /\ (s \o t)[k] = t[k - Len(s)]
<1> DEFINE u == s \o t
           m == Len(s)
           n == Len(t)
<1>1. /\ u \in Seq(Nat) /\ Len(u) = m + n
      /\ \A l \in 1 .. m + n : u[l] = IF l <= m THEN s[l] ELSE t[l - m]
  BY ConcatProperties, Zenon
<1>2. /\ m \in Nat /\ n \in Nat /\ DOMAIN s = 1 .. m /\ DOMAIN t = 1 .. n
      /\ DOMAIN u = 1 .. m + n
  BY <1>1
<1> HIDE DEF u, m, n
<1>3. k \in 1 .. m + n  BY <1>2 DEF u
<1>4. k <= m => k \in 1 .. m  BY <1>2, <1>3
<1>5. ~(k <= m) => k - m \in 1 .. n  BY <1>2, <1>3
<1>6. k \in Nat  BY <1>2, <1>3
<1> QED  BY <1>1, <1>2, <1>3, <1>4, <1>5, <1>6 DEF u, m

(* Merging with the last entry. *)
LEMMA MergedExposures ==
  ASSUME NEW R \in SUBSET Job, NEW old \in Job, NEW job \in Job, NEW b \in Buffers,
         old.buf \notin Bufs(R), job.buf \notin Bufs(R), b \notin Bufs(R),
         old.buf # job.buf, b # old.buf, b # job.buf,
         old.copies = 1, job.copies >= 1,
         NEW both \in Job, both.buf = b, both.images = old.images \o job.images, both.copies = 1,
         NEW single \in Job, single.buf = job.buf, single.images = job.images, single.copies = 1,
         NEW S, S \subseteq R \union {both} \union (IF job.copies = 2 THEN {single} ELSE {}),
         NEW i
  PROVE  \E m \in [ToExpose(S, i) -> ToExpose(R \union {old, job}, i)] : IsInjective(m)
<1> DEFINE T  == ToExpose(R \union {old, job}, i)
           p  == Len(old.images)
           to(t) == IF t[1] = b
                    THEN IF t[3] <= p THEN <<old.buf, 1, t[3]>> ELSE <<job.buf, 1, t[3] - p>>
                    ELSE IF t[1] = job.buf THEN <<job.buf, 2, t[3]>> ELSE t
           m == [t \in ToExpose(S, i) |-> to(t)]
<1>1. /\ old.images \in Seq(Nat) /\ job.images \in Seq(Nat) /\ p \in Nat /\ job.copies \in Nat
      /\ old.buf \in Buffers /\ job.buf \in Buffers
      /\ \A k \in DOMAIN old.images : k \in Nat
      /\ \A k \in DOMAIN job.images : k \in Nat
  BY JobImages DEF Job
<1>2. ASSUME NEW t \in ToExpose(S, i)
      PROVE  /\ t \in Buffers \X Nat \X Nat
             /\ \/ t[1] = b /\ t[2] = 1 /\ t[3] <= p /\ t[3] \in DOMAIN old.images /\ old.images[t[3]] = i
                \/ /\ t[1] = b /\ t[2] = 1 /\ ~(t[3] <= p) /\ t[3] - p \in DOMAIN job.images
                   /\ job.images[t[3] - p] = i
                \/ /\ t[1] = job.buf /\ t[2] = 1 /\ job.copies = 2 /\ t[3] \in DOMAIN job.images
                   /\ job.images[t[3]] = i
                \/ t[1] \notin {b, job.buf, old.buf} /\ t \in ToExpose(R, i)
  <2>1. PICK j \in S : /\ t[1] = j.buf /\ t[2] \in 1 .. j.copies
                       /\ t[3] \in DOMAIN j.images /\ j.images[t[3]] = i
    BY <1>2 DEF ToExpose
  <2>2. t \in Buffers \X Nat \X Nat  BY <1>2 DEF ToExpose
  <2>3. CASE j \in R
    <3>1. t[1] \in Bufs(R)  BY <2>1, <2>3 DEF Bufs
    <3>2. t \in ToExpose(R, i)  BY <2>1, <2>2, <2>3 DEF ToExpose
    <3> QED  BY <2>2, <3>1, <3>2
  <2>4. CASE j = both
    <3>1. t[1] = b /\ t[2] = 1  BY <2>1, <2>2, <2>4
    <3>2. t[3] \in DOMAIN (old.images \o job.images) /\ (old.images \o job.images)[t[3]] = i
      BY <2>1, <2>4
    <3>3. \/ t[3] <= p /\ t[3] \in DOMAIN old.images /\ old.images[t[3]] = i
          \/ ~(t[3] <= p) /\ t[3] - p \in DOMAIN job.images /\ job.images[t[3] - p] = i
      <4> DEFINE k == t[3]
      <4>1. k \in DOMAIN (old.images \o job.images)  BY <3>2
      <4> HIDE DEF k
      <4>2. /\ k <= Len(old.images) => k \in DOMAIN old.images /\ (old.images \o job.images)[k] = old.images[k]
            /\ ~(k <= Len(old.images)) =>
                  /\ k - Len(old.images) \in DOMAIN job.images
                  /\ (old.images \o job.images)[k] = job.images[k - Len(old.images)]
        BY <1>1, <4>1, ConcatAt, ZenonT(30)
      <4> QED  BY <3>2, <4>2 DEF k
    <3> QED  BY <2>2, <3>1, <3>3
  <2>5. CASE j = single /\ job.copies = 2
    <3>1. t[1] = job.buf /\ t[2] = 1 /\ t[3] \in DOMAIN job.images /\ job.images[t[3]] = i
      BY <2>1, <2>2, <2>5
    <3> QED  BY <2>2, <2>5, <3>1
  <2> QED  BY <2>3, <2>4, <2>5
<1>3. ASSUME NEW t \in ToExpose(S, i) PROVE to(t) \in T
  <2>1. CASE t[1] = b /\ t[2] = 1 /\ t[3] <= p /\ t[3] \in DOMAIN old.images /\ old.images[t[3]] = i
    BY <1>1, <2>1 DEF ToExpose
  <2>2. CASE /\ t[1] = b /\ t[2] = 1 /\ ~(t[3] <= p) /\ t[3] - p \in DOMAIN job.images
             /\ job.images[t[3] - p] = i
    BY SMTT(30), <1>1, <2>2 DEF ToExpose
  <2>3. CASE /\ t[1] = job.buf /\ t[2] = 1 /\ job.copies = 2 /\ t[3] \in DOMAIN job.images
             /\ job.images[t[3]] = i
    <3>1. to(t) = <<job.buf, 2, t[3]>> /\ 2 \in 1 .. job.copies  BY <2>3
    <3>2. <<job.buf, 2, t[3]>> \in T  BY <1>1, <2>3, <3>1 DEF ToExpose
    <3> QED  BY <3>1, <3>2
  <2>4. CASE t[1] \notin {b, job.buf, old.buf} /\ t \in ToExpose(R, i)
    <3>1. ToExpose(R, i) \subseteq T  BY ExposuresIn
    <3> QED  BY <2>4, <3>1
  <2> QED  BY <1>2, <2>1, <2>2, <2>3, <2>4
<1>4. ASSUME NEW x \in ToExpose(S, i), NEW y \in ToExpose(S, i), to(x) = to(y) PROVE x = y
  <2>1. /\ x \in Buffers \X Nat \X Nat /\ y \in Buffers \X Nat \X Nat
        /\ x = <<x[1], x[2], x[3]>> /\ y = <<y[1], y[2], y[3]>>
    BY <1>2
  <2>2. ASSUME NEW t \in ToExpose(S, i)
        PROVE  /\ t[3] \in Nat
               /\ \/ /\ t[1] = b /\ t[2] = 1 /\ t[3] <= p
                     /\ to(t)[1] = old.buf /\ to(t)[2] = 1 /\ to(t)[3] = t[3]
                  \/ /\ t[1] = b /\ t[2] = 1 /\ ~(t[3] <= p)
                     /\ to(t)[1] = job.buf /\ to(t)[2] = 1 /\ to(t)[3] = t[3] - p
                  \/ /\ t[1] = job.buf /\ t[2] = 1
                     /\ to(t)[1] = job.buf /\ to(t)[2] = 2 /\ to(t)[3] = t[3]
                  \/ t[1] \notin {b, job.buf, old.buf} /\ to(t) = t
    BY <1>2
  <2> HIDE DEF to
  <2>3. x[1] = y[1] /\ x[2] = y[2] /\ x[3] = y[3]
    <3>1. /\ x[3] \in Nat /\ y[3] \in Nat /\ p \in Nat /\ to(x)[1] = to(y)[1] /\ to(x)[2] = to(y)[2]
          /\ to(x)[3] = to(y)[3]
      BY <1>1, <1>4, <2>2
    <3> HIDE DEF p
    <3>2. CASE to(x) = x  BY <2>2, <3>1, <3>2
    <3>3. CASE to(x) # x /\ to(x)[1] = old.buf  BY <2>2, <3>1, <3>3
    <3>4. CASE to(x) # x /\ to(x)[1] = job.buf /\ to(x)[2] = 1
      <4>1. x[1] = b /\ x[2] = 1 /\ to(x)[3] = x[3] - p  BY <2>2, <3>4
      <4>2. to(y)[1] = job.buf /\ to(y)[2] = 1  BY <3>1, <3>4
      <4>3. y[1] = b /\ y[2] = 1 /\ to(y)[3] = y[3] - p  BY <2>2, <4>2
      <4>4. x[3] - p = y[3] - p  BY <3>1, <4>1, <4>3
      <4>5. x[3] = y[3]  BY <3>1, <4>4
      <4> QED  BY <4>1, <4>3, <4>5
    <3>5. CASE to(x) # x /\ to(x)[1] = job.buf /\ to(x)[2] = 2
      <4>1. x[1] = job.buf /\ x[2] = 1 /\ to(x)[3] = x[3]
        BY <2>2, <3>5
      <4>2. to(y)[1] = job.buf /\ to(y)[2] = 2  BY <3>1, <3>5
      <4>3. y[1] = job.buf /\ y[2] = 1 /\ to(y)[3] = y[3]  BY <2>2, <4>2
      <4> QED  BY <3>1, <4>1, <4>3
    <3> QED  BY <2>2, <3>2, <3>3, <3>4, <3>5
  <2> QED  BY <2>1, <2>3
<1>5. m \in [ToExpose(S, i) -> T] /\ IsInjective(m)
  <2> HIDE DEF to, T
  <2> QED  BY <1>3, <1>4 DEF IsInjective
<1> HIDE DEF m
<1> QED  BY <1>5

(* Merging the copies of a job in pairs. *)
LEMMA PairedExposures ==
  ASSUME NEW R \in SUBSET Job, NEW job \in Job, NEW b \in Buffers,
         job.buf \notin Bufs(R), b \notin Bufs(R), b # job.buf,
         NEW pairs \in Job, pairs.buf = b, pairs.images = job.images \o job.images,
         pairs.copies = job.copies \div 2,
         NEW single \in Job, single.buf = job.buf, single.images = job.images, single.copies = 1,
         NEW S, S \subseteq R \union {pairs} \union (IF job.copies % 2 = 1 THEN {single} ELSE {}),
         NEW i
  PROVE  \E m \in [ToExpose(S, i) -> ToExpose(R \union {job}, i)] : IsInjective(m)
<1> DEFINE T  == ToExpose(R \union {job}, i)
           p  == Len(job.images)
           n  == job.copies
           to(t) == IF t[1] = b
                    THEN IF t[3] <= p THEN <<job.buf, 2 * t[2] - 1, t[3]>>
                         ELSE <<job.buf, 2 * t[2], t[3] - p>>
                    ELSE IF t[1] = job.buf THEN <<job.buf, n, t[3]>> ELSE t
           m == [t \in ToExpose(S, i) |-> to(t)]
<1>1. /\ job.images \in Seq(Nat) /\ p \in Nat /\ n \in Nat /\ job.buf \in Buffers
      /\ \A k \in DOMAIN job.images : k \in Nat
  BY SMTT(30), JobImages DEF Job
<1>2. /\ \A c \in 1 .. n \div 2 : c \in Nat /\ 2 * c - 1 \in 1 .. n /\ 2 * c \in 1 .. n
      /\ n % 2 = 1 => \A c \in 1 .. n \div 2 : 2 * c < n
      /\ n % 2 = 1 => n \in 1 .. n
  <2> HIDE DEF n
  <2> QED  BY <1>1
<1>3. ASSUME NEW t \in ToExpose(S, i)
      PROVE  /\ t \in Buffers \X Nat \X Nat
             /\ \/ /\ t[1] = b /\ t[2] \in 1 .. n \div 2 /\ t[3] <= p /\ t[3] \in DOMAIN job.images
                   /\ job.images[t[3]] = i
                \/ /\ t[1] = b /\ t[2] \in 1 .. n \div 2 /\ ~(t[3] <= p)
                   /\ t[3] - p \in DOMAIN job.images /\ job.images[t[3] - p] = i
                \/ /\ t[1] = job.buf /\ t[2] = 1 /\ n % 2 = 1 /\ t[3] \in DOMAIN job.images
                   /\ job.images[t[3]] = i
                \/ t[1] \notin {b, job.buf} /\ t \in ToExpose(R, i)
  <2>1. PICK j \in S : /\ t[1] = j.buf /\ t[2] \in 1 .. j.copies
                       /\ t[3] \in DOMAIN j.images /\ j.images[t[3]] = i
    BY <1>3 DEF ToExpose
  <2>2. t \in Buffers \X Nat \X Nat  BY <1>3 DEF ToExpose
  <2>3. CASE j \in R
    <3>1. t[1] \in Bufs(R)  BY <2>1, <2>3 DEF Bufs
    <3>2. t \in ToExpose(R, i)  BY <2>1, <2>2, <2>3 DEF ToExpose
    <3> QED  BY <2>2, <3>1, <3>2
  <2>4. CASE j = pairs
    <3>1. t[1] = b /\ t[2] \in 1 .. n \div 2  BY <2>1, <2>4
    <3>2. t[3] \in DOMAIN (job.images \o job.images) /\ (job.images \o job.images)[t[3]] = i
      BY <2>1, <2>4
    <3>3. \/ t[3] <= p /\ t[3] \in DOMAIN job.images /\ job.images[t[3]] = i
          \/ ~(t[3] <= p) /\ t[3] - p \in DOMAIN job.images /\ job.images[t[3] - p] = i
      <4> DEFINE k == t[3]
      <4>1. k \in DOMAIN (job.images \o job.images)  BY <3>2
      <4> HIDE DEF k
      <4>2. /\ k <= Len(job.images) => k \in DOMAIN job.images /\ (job.images \o job.images)[k] = job.images[k]
            /\ ~(k <= Len(job.images)) =>
                  /\ k - Len(job.images) \in DOMAIN job.images
                  /\ (job.images \o job.images)[k] = job.images[k - Len(job.images)]
        BY <1>1, <4>1, ConcatAt, Zenon
      <4> QED  BY <3>2, <4>2 DEF k
    <3> QED  BY <2>2, <3>1, <3>3
  <2>5. CASE j = single /\ n % 2 = 1
    <3>1. t[1] = job.buf /\ t[2] = 1 /\ t[3] \in DOMAIN job.images /\ job.images[t[3]] = i
      BY <2>1, <2>2, <2>5
    <3> QED  BY <2>2, <2>5, <3>1
  <2> QED  BY <2>3, <2>4, <2>5
<1>4. ASSUME NEW t \in ToExpose(S, i) PROVE to(t) \in T
  <2>1. CASE /\ t[1] = b /\ t[2] \in 1 .. n \div 2 /\ t[3] <= p /\ t[3] \in DOMAIN job.images
             /\ job.images[t[3]] = i
    <3>1. to(t) = <<job.buf, 2 * t[2] - 1, t[3]>> /\ 2 * t[2] - 1 \in 1 .. n /\ 2 * t[2] - 1 \in Nat
      <4> DEFINE k == t[2]
      <4>1. k \in 1 .. n \div 2 /\ to(t) = <<job.buf, 2 * k - 1, t[3]>>  BY <2>1
      <4> HIDE DEF k, n, to
      <4>2. 2 * k - 1 \in 1 .. n  BY <1>2, <4>1
      <4>3. 2 * k - 1 \in Nat  BY <1>1, <4>2
      <4> QED  BY <4>1, <4>2, <4>3 DEF k
    <3> DEFINE c == 2 * t[2] - 1
    <3> HIDE DEF c
    <3>2. <<job.buf, c, t[3]>> \in T  BY <1>1, <2>1, <3>1 DEF ToExpose, c
    <3> QED  BY <3>1, <3>2 DEF c
  <2>2. CASE /\ t[1] = b /\ t[2] \in 1 .. n \div 2 /\ ~(t[3] <= p)
             /\ t[3] - p \in DOMAIN job.images /\ job.images[t[3] - p] = i
    <3>1. to(t) = <<job.buf, 2 * t[2], t[3] - p>> /\ 2 * t[2] \in 1 .. n /\ 2 * t[2] \in Nat
      <4> DEFINE k == t[2]
      <4>1. k \in 1 .. n \div 2 /\ to(t) = <<job.buf, 2 * k, t[3] - p>>  BY <2>2
      <4> HIDE DEF k, n, to
      <4>2. 2 * k \in 1 .. n  BY <1>2, <4>1
      <4>3. 2 * k \in Nat  BY <1>1, <4>2
      <4> QED  BY <4>1, <4>2, <4>3 DEF k
    <3> DEFINE c == 2 * t[2]
               q == t[3] - p
    <3> HIDE DEF c, q
    <3>2. <<job.buf, c, q>> \in T  BY <1>1, <2>2, <3>1 DEF ToExpose, c, q
    <3> QED  BY <3>1, <3>2 DEF c, q
  <2>3. CASE /\ t[1] = job.buf /\ t[2] = 1 /\ n % 2 = 1 /\ t[3] \in DOMAIN job.images
             /\ job.images[t[3]] = i
    <3>1. to(t) = <<job.buf, n, t[3]>> /\ n \in 1 .. n  BY <1>2, <2>3
    <3>2. <<job.buf, n, t[3]>> \in T  BY <1>1, <2>3, <3>1 DEF ToExpose
    <3> QED  BY <3>1, <3>2
  <2>4. CASE t[1] \notin {b, job.buf} /\ t \in ToExpose(R, i)
    <3>1. ToExpose(R, i) \subseteq T  BY ExposuresIn
    <3> QED  BY <2>4, <3>1
  <2> QED  BY <1>3, <2>1, <2>2, <2>3, <2>4
<1>5. ASSUME NEW x \in ToExpose(S, i), NEW y \in ToExpose(S, i), to(x) = to(y) PROVE x = y
  <2>1. /\ x \in Buffers \X Nat \X Nat /\ y \in Buffers \X Nat \X Nat
        /\ x = <<x[1], x[2], x[3]>> /\ y = <<y[1], y[2], y[3]>>
    BY <1>3
  <2>2. ASSUME NEW t \in ToExpose(S, i)
        PROVE  /\ t[2] \in Nat /\ t[3] \in Nat
               /\ \/ /\ t[1] = b /\ t[3] <= p /\ t[2] \in 1 .. n \div 2
                     /\ to(t)[1] = job.buf /\ to(t)[2] = 2 * t[2] - 1 /\ to(t)[3] = t[3]
                  \/ /\ t[1] = b /\ ~(t[3] <= p) /\ t[2] \in 1 .. n \div 2
                     /\ to(t)[1] = job.buf /\ to(t)[2] = 2 * t[2] /\ to(t)[3] = t[3] - p
                  \/ /\ t[1] = job.buf /\ t[2] = 1 /\ n % 2 = 1
                     /\ to(t)[1] = job.buf /\ to(t)[2] = n /\ to(t)[3] = t[3]
                  \/ t[1] \notin {b, job.buf} /\ to(t) = t
    BY <1>3
  <2> HIDE DEF to
  <2>3. x[1] = y[1] /\ x[2] = y[2] /\ x[3] = y[3]
    <3>1. /\ x[2] \in Nat /\ y[2] \in Nat /\ x[3] \in Nat /\ y[3] \in Nat /\ p \in Nat /\ n \in Nat
          /\ to(x)[1] = to(y)[1] /\ to(x)[2] = to(y)[2] /\ to(x)[3] = to(y)[3]
      BY <1>1, <1>5, <2>2
    <3>2. n % 2 = 1 => \A c \in 1 .. n \div 2 : 2 * c < n /\ 2 * c - 1 < n
      BY <1>2
    <3> HIDE DEF p, n
    <3>3. CASE to(x)[1] # job.buf  BY <2>2, <3>1, <3>3
    <3>4. CASE to(x)[1] = job.buf
      <4>1. x[1] \in {b, job.buf} /\ y[1] \in {b, job.buf}  BY <2>2, <3>1, <3>4
      <4>2. CASE x[1] = job.buf
        <5>1. x[2] = 1 /\ n % 2 = 1 /\ to(x)[2] = n /\ to(x)[3] = x[3]  BY <2>2, <4>2
        <5>2. y[1] = job.buf
          <6> SUFFICES ASSUME y[1] = b PROVE FALSE  BY <4>1
          <6>1. y[2] \in 1 .. n \div 2 /\ (to(y)[2] = 2 * y[2] \/ to(y)[2] = 2 * y[2] - 1)
            BY <2>2
          <6>2. 2 * y[2] < n /\ 2 * y[2] - 1 < n  BY <3>2, <5>1, <6>1
          <6> QED  BY <3>1, <5>1, <6>1, <6>2
        <5>3. y[2] = 1 /\ to(y)[3] = y[3]  BY <2>2, <5>2
        <5> QED  BY <3>1, <4>2, <5>1, <5>2, <5>3
      <4>3. CASE y[1] = job.buf
        <5>1. y[2] = 1 /\ n % 2 = 1 /\ to(y)[2] = n /\ to(y)[3] = y[3]  BY <2>2, <4>3
        <5>2. x[1] = job.buf  BY <2>2, <3>1, <3>2, <4>1, <5>1
        <5> QED  BY <4>2, <5>2
      <4>4. CASE x[1] = b /\ y[1] = b
        <5>1. \/ x[3] <= p /\ to(x)[2] = 2 * x[2] - 1 /\ to(x)[3] = x[3]
              \/ ~(x[3] <= p) /\ to(x)[2] = 2 * x[2] /\ to(x)[3] = x[3] - p
          BY <2>2, <4>4
        <5>2. \/ y[3] <= p /\ to(y)[2] = 2 * y[2] - 1 /\ to(y)[3] = y[3]
              \/ ~(y[3] <= p) /\ to(y)[2] = 2 * y[2] /\ to(y)[3] = y[3] - p
          BY <2>2, <4>4
        <5>3. 2 * x[2] # 2 * y[2] - 1 /\ 2 * x[2] - 1 # 2 * y[2]  BY <3>1
        <5>4. (2 * x[2] = 2 * y[2] \/ 2 * x[2] - 1 = 2 * y[2] - 1) /\ x[3] = y[3]
          BY <3>1, <5>1, <5>2, <5>3
        <5>5. x[2] = y[2]  BY <3>1, <5>4
        <5> QED  BY <4>4, <5>4, <5>5
      <4> QED  BY <4>1, <4>2, <4>3, <4>4
    <3> QED  BY <3>3, <3>4
  <2> QED  BY <2>1, <2>3
<1>6. m \in [ToExpose(S, i) -> T] /\ IsInjective(m)
  <2> HIDE DEF to, T
  <2> QED  BY <1>4, <1>5 DEF IsInjective
<1> HIDE DEF m
<1> QED  BY <1>6

-----------------------------------------------------------------------------
(* The entries that main_loop has not started on. *)
Waiting(k) ==
  \/ pc \in {"read", "append"}
  \/ pc = "print" /\ k >= next
  \/ pc \in {"loop", "printed"} /\ k > next

(* The jobs with exposures still to make, main_loop's with what is left.    *)
InPrinter == IF pc = "loop" THEN {WithCopies(list[next], left)} ELSE {}
Held == {list[k] : k \in {l \in DOMAIN list : Waiting(l)}} \union InPrinter \union ToSet(jobs)

(* Where image i was exposed. *)
OutAt(i) == {k \in DOMAIN out : out[k] = i}

(* For each image, the exposures made and those to come have each a number  *)
(* of their own among the copies requested.                                 *)
OverInv ==
  /\ \A k \in DOMAIN list : list[k].copies >= 1
  /\ \A k \in DOMAIN jobs : jobs[k].copies >= 1
  /\ pc = "loop" => left >= 1
  /\ \A i \in 1 .. MaxImages : Numbered(OutAt(i), ToExpose(Held, i), requested[i])

(* __dyesub_joblist_addjob adds the job or nothing. *)
LEMMA AddHeld ==
  ASSUME NEW l \in Seq(Job), NEW j \in Job
  PROVE  AddJob(l, j) \in Seq(Job) /\ ToSet(AddJob(l, j)) \subseteq ToSet(l) \union {j}
<1> DEFINE a == Append(l, j)
           n == Len(l)
<1>1. /\ DOMAIN l = 1 .. n /\ n \in Nat /\ DOMAIN a = 1 .. n + 1
      /\ \A k \in 1 .. n : a[k] = l[k]
      /\ a[n + 1] = j /\ a \in Seq(Job)
  OBVIOUS
<1> HIDE DEF a, n
<1>2. \A k \in 1 .. n + 1 : k \in 1 .. n \/ k = n + 1  BY <1>1
<1>3. ToSet(a) \subseteq ToSet(l) \union {j}  BY <1>1, <1>2 DEF ToSet
<1>4. AddJob(l, j) = l \/ AddJob(l, j) = a  BY DEF AddJob, a
<1> QED  BY <1>1, <1>3, <1>4

(* The jobs of a sequence, its first and its last one. *)
LEMMA EndsHeld ==
  ASSUME NEW s \in Seq(Job), s # <<>>, OwnEach(s)
  PROVE  /\ ToSet(s) \subseteq Job
         /\ ToSet(Front(s)) \subseteq ToSet(s) /\ ToSet(Tail(s)) \subseteq ToSet(s)
         /\ Head(s) \in ToSet(s) /\ Last(s) \in ToSet(s)
         /\ Last(s).buf \notin Bufs(ToSet(Front(s)))
         /\ Head(s).buf \notin Bufs(ToSet(Tail(s)))
<1> DEFINE n == Len(s)
<1>1. /\ n \in Nat /\ n >= 1 /\ DOMAIN s = 1 .. n
      /\ DOMAIN Tail(s) = 1 .. n - 1 /\ Head(s) = s[1]
      /\ \A k \in 1 .. n - 1 : Tail(s)[k] = s[k + 1]
  OBVIOUS
<1>2. /\ DOMAIN Front(s) = 1 .. n - 1
      /\ \A k \in 1 .. n - 1 : Front(s)[k] = s[k]
      /\ Last(s) = s[n]
  BY <1>1 DEF Front, Last
<1>3. \A k \in DOMAIN s : s[k] \in Job  BY <1>1
<1> HIDE DEF n
<1>4. 1 \in 1 .. n /\ n \in 1 .. n
      /\ \A k \in 1 .. n - 1 : k \in 1 .. n /\ k + 1 \in 1 .. n /\ k # n /\ k + 1 # 1
  BY <1>1
<1>5. \A k \in DOMAIN Front(s) : k \in DOMAIN s /\ Front(s)[k] = s[k] /\ s[k].buf # Last(s).buf
  BY <1>1, <1>2, <1>4 DEF OwnEach
<1>6. \A k \in DOMAIN Tail(s) : k + 1 \in DOMAIN s /\ Tail(s)[k] = s[k + 1] /\ s[k + 1].buf # Head(s).buf
  BY <1>1, <1>4 DEF OwnEach
<1>7. ToSet(s) \subseteq Job  BY <1>3 DEF ToSet
<1>8. Head(s) \in ToSet(s) /\ Last(s) \in ToSet(s)  BY <1>1, <1>2, <1>4 DEF ToSet
<1>9. ToSet(Front(s)) \subseteq ToSet(s) /\ Last(s).buf \notin Bufs(ToSet(Front(s)))
  BY <1>5 DEF ToSet, Bufs
<1>10. ToSet(Tail(s)) \subseteq ToSet(s) /\ Head(s).buf \notin Bufs(ToSet(Tail(s)))
  BY <1>6 DEF ToSet, Bufs
<1> QED  BY <1>7, <1>8, <1>9, <1>10

(* The buffers of a sequence are those of its jobs. *)
LEMMA OwnedSet == ASSUME NEW s PROVE Owned(s) = Bufs(ToSet(s))
BY DEF Owned, Bufs, ToSet

(* While jobs are appended, the whole list waits. *)
LEMMA HeldAppending ==
  ASSUME pc = "append"
  PROVE  Held = ToSet(list) \union ToSet(jobs)
<1>1. {list[k] : k \in {l \in DOMAIN list : Waiting(l)}} = ToSet(list)
  BY DEF Waiting, ToSet
<1> QED  BY <1>1 DEF Held, InPrinter

(* What an appended job leaves to expose can be numbered as before. *)
LEMMA AppendingNumbers ==
  ASSUME IInv, OverInv, NEW newList \in Seq(Job), Appending(newList),
         \A j \in ToSet(newList) : j.copies >= 1,
         NEW S, ToSet(newList) \union ToSet(Tail(jobs)) \subseteq S,
         \A i \in 1 .. MaxImages :
           \E m \in [ToExpose(S, i) -> ToExpose(Held, i)] : IsInjective(m)
  PROVE  OverInv'
<1>1. /\ pc = "append" /\ jobs # <<>> /\ list' = newList /\ jobs' = Tail(jobs) /\ pc' = "append"
      /\ UNCHANGED <<out, requested>>
  BY DEF Appending
<1>2. Held' = ToSet(list') \union ToSet(jobs')
  <2>1. {list'[k] : k \in {l \in DOMAIN list' : Waiting(l)'}} = ToSet(list')
    BY <1>1 DEF Waiting, ToSet
  <2>2. InPrinter' = {}  BY <1>1 DEF InPrinter
  <2> QED  BY <2>1, <2>2 DEF Held
<1>3. Held' \subseteq S  BY <1>1, <1>2
<1>4. ASSUME NEW i \in 1 .. MaxImages
      PROVE  Numbered(OutAt(i), ToExpose(Held', i), requested[i])
  <2>1. PICK m \in [ToExpose(S, i) -> ToExpose(Held, i)] : IsInjective(m)  OBVIOUS
  <2>2. Numbered(OutAt(i), ToExpose(Held, i), requested[i])  BY DEF OverInv
  <2>3. Numbered(OutAt(i), ToExpose(S, i), requested[i])  BY <2>1, <2>2, Renumbered, Zenon
  <2>4. ToExpose(Held', i) \in SUBSET ToExpose(S, i)  BY <1>3, ExposuresIn
  <2> QED  BY <2>3, <2>4, FewerNumbered, Zenon
<1>5. \A i : OutAt(i)' = OutAt(i) /\ ToExpose(Held, i)' = ToExpose(Held', i)
  BY <1>1 DEF OutAt, ToExpose
<1>6. \A k \in DOMAIN list' : list'[k].copies >= 1  BY <1>1 DEF ToSet
<1>7. \A k \in DOMAIN jobs' : jobs'[k].copies >= 1
  <2>1. jobs \in Seq(Job) /\ OwnEach(jobs)  BY DEF IInv, TypeOK, HeapSafe
  <2>2. ToSet(jobs') \subseteq ToSet(jobs)  BY <1>1, <2>1, EndsHeld
  <2>3. \A j \in ToSet(jobs) : j.copies >= 1  BY DEF OverInv, ToSet
  <2> QED  BY <2>2, <2>3 DEF ToSet
<1>8. (\A i \in 1 .. MaxImages : Numbered(OutAt(i), ToExpose(Held, i), requested[i]))'
  BY <1>1, <1>4, <1>5
<1> QED  BY <1>1, <1>6, <1>7, <1>8 DEF OverInv

(* The appended job and the entries, as sets. *)
LEMMA AppendSets ==
  ASSUME IInv, OverInv, pc = "append", jobs # <<>>
  PROVE  LET job  == Head(jobs)
             rest == ToSet(Tail(jobs))
         IN  /\ Held = ToSet(list) \union ToSet(jobs)
             /\ job \in Job /\ job \in ToSet(jobs) /\ rest \subseteq ToSet(jobs)
             /\ ToSet(list) \subseteq Job /\ ToSet(jobs) \subseteq Job
             /\ job.buf \notin Bufs(ToSet(list)) /\ job.buf \notin Bufs(rest)
             /\ Bufs(ToSet(list)) \intersect Bufs(rest) = {}
             /\ Bufs(ToSet(list)) \union Bufs(rest) \union {job.buf} \subseteq live
             /\ \A j \in ToSet(list) \union ToSet(jobs) : j.copies >= 1
<1> DEFINE job  == Head(jobs)
           rest == ToSet(Tail(jobs))
<1>1. /\ jobs \in Seq(Job) /\ OwnEach(jobs) /\ list \in Seq(Job)
      /\ Bufs(ToSet(list)) \intersect Bufs(ToSet(jobs)) = {}
      /\ Bufs(ToSet(list)) \union Bufs(ToSet(jobs)) \subseteq live
  BY OwnedSet DEF IInv, TypeOK, HeapSafe
<1>2. /\ job \in ToSet(jobs) /\ rest \subseteq ToSet(jobs) /\ ToSet(jobs) \subseteq Job
      /\ job.buf \notin Bufs(rest)
  BY <1>1, EndsHeld
<1>3. job.buf \in Bufs(ToSet(jobs)) /\ Bufs(rest) \subseteq Bufs(ToSet(jobs))
  BY <1>2 DEF Bufs
<1>4. ToSet(list) \subseteq Job
  <2>1. \A k \in DOMAIN list : list[k] \in Job  BY <1>1
  <2> QED  BY <2>1 DEF ToSet
<1>5. \A j \in ToSet(list) \union ToSet(jobs) : j.copies >= 1  BY DEF OverInv, ToSet
<1>6. Held = ToSet(list) \union ToSet(jobs)  BY HeldAppending
<1> HIDE DEF job, rest
<1>7. /\ job \in Job /\ job.buf \notin Bufs(ToSet(list))
      /\ Bufs(ToSet(list)) \intersect Bufs(rest) = {}
      /\ Bufs(ToSet(list)) \union Bufs(rest) \union {job.buf} \subseteq live
  BY <1>1, <1>2, <1>3
<1> QED  BY <1>2, <1>4, <1>5, <1>6, <1>7 DEF job, rest

(* A job added as it is asks for no more exposures. *)
LEMMA AppendPlainOver ==
  ASSUME IInv, OverInv, AppendPlain
  PROVE  OverInv'
<1> DEFINE job == Head(jobs)
           new == AddJob(list, job)
<1>1. Appending(new) /\ pc = "append" /\ jobs # <<>>  BY DEF AppendPlain, Appending
<1>2. /\ Held = ToSet(list) \union ToSet(jobs) /\ job \in Job /\ job \in ToSet(jobs)
      /\ ToSet(Tail(jobs)) \subseteq ToSet(jobs) /\ list \in Seq(Job)
      /\ \A j \in ToSet(list) \union ToSet(jobs) : j.copies >= 1
  BY <1>1, AppendSets DEF IInv, TypeOK
<1>3. new \in Seq(Job) /\ ToSet(new) \subseteq ToSet(list) \union {job}
  <2> HIDE DEF job
  <2> QED  BY <1>2, AddHeld
<1>4. ToSet(new) \union ToSet(Tail(jobs)) \subseteq Held  BY <1>2, <1>3
<1>5. \A j \in ToSet(new) : j.copies >= 1  BY <1>2, <1>3
<1>6. ASSUME NEW i PROVE \E m \in [ToExpose(Held, i) -> ToExpose(Held, i)] : IsInjective(m)
  <2> DEFINE m == [t \in ToExpose(Held, i) |-> t]
  <2>1. m \in [ToExpose(Held, i) -> ToExpose(Held, i)] /\ IsInjective(m)  BY DEF IsInjective
  <2> HIDE DEF m
  <2> QED  BY <2>1
<1> HIDE DEF new
<1> QED  BY <1>1, <1>3, <1>4, <1>5, <1>6, AppendingNumbers

(* A copy merged with the last entry: both images keep the exposures they   *)
(* had to come.                                                             *)
LEMMA AppendToLastOver ==
  ASSUME JobsAssumption, IInv, OverInv, AppendToLast
  PROVE  OverInv'
<1> DEFINE job  == Head(jobs)
           old  == Last(list)
           both(b) == Combined(b, old, job, old.copies)
           merged(b) == AddJob(Front(list), both(b))
           newList(b) == IF job.copies - 1 = 1
                         THEN AddJob(merged(b), WithCopies(job, job.copies - 1)) ELSE merged(b)
<1>1. /\ jobs # <<>> /\ FitsLast(job) /\ pc = "append"
      /\ \E b \in Buffers \ live : Appending(newList(b))
  BY DEF AppendToLast, Appending
<1>2. PICK b \in Buffers \ live : Appending(newList(b))  BY <1>1
<1> DEFINE single == WithCopies(job, 1)
           R == ToSet(Front(list)) \union ToSet(Tail(jobs))
           S == R \union {both(b)} \union (IF job.copies = 2 THEN {single} ELSE {})
<1>3. /\ Held = ToSet(list) \union ToSet(jobs) /\ job \in Job /\ job \in ToSet(jobs)
      /\ ToSet(Tail(jobs)) \subseteq ToSet(jobs) /\ ToSet(list) \subseteq Job /\ ToSet(jobs) \subseteq Job
      /\ job.buf \notin Bufs(ToSet(list)) /\ job.buf \notin Bufs(ToSet(Tail(jobs)))
      /\ Bufs(ToSet(list)) \intersect Bufs(ToSet(Tail(jobs))) = {}
      /\ Bufs(ToSet(list)) \union Bufs(ToSet(Tail(jobs))) \union {job.buf} \subseteq live
      /\ \A j \in ToSet(list) \union ToSet(jobs) : j.copies >= 1
  BY <1>1, AppendSets
<1>4. /\ list \in Seq(Job) /\ list # <<>> /\ OwnEach(list) /\ old.copies <= 1
  BY <1>1 DEF IInv, TypeOK, HeapSafe, FitsLast, Mergeable
<1>5. /\ ToSet(Front(list)) \subseteq ToSet(list) /\ old \in ToSet(list) /\ old \in Job
      /\ old.buf \notin Bufs(ToSet(Front(list)))
  BY <1>3, <1>4, EndsHeld
<1>6. Front(list) \in Seq(Job)  BY <1>4, FrontFacts
<1>7. old.copies = 1 /\ job.copies >= 1 /\ job.copies \in Nat
  <2>1. old.copies \in Nat /\ job.copies \in Nat  BY <1>3, <1>5 DEF Job
  <2>2. old.copies >= 1 /\ job.copies >= 1  BY <1>3, <1>5
  <2> QED  BY <1>4, <2>1, <2>2
<1> HIDE DEF job, old
<1>8. /\ both(b) \in Job /\ both(b).buf = b /\ both(b).images = old.images \o job.images
      /\ both(b).copies = 1
  <2>1. Combined(b, old, job, 1) \in Job /\ Combined(b, old, job, 1).buf = b
    BY <1>2, <1>3, <1>5, CombinedType
  <2> QED  BY <1>7, <2>1 DEF Combined
<1>9. single \in Job /\ single.buf = job.buf /\ single.images = job.images /\ single.copies = 1
  <2>1. single \in Job /\ single.buf = job.buf  BY <1>3, WithCopiesType
  <2> QED  BY <1>3, <2>1 DEF WithCopies, Job
<1>10. /\ R \in SUBSET Job /\ old.buf \notin Bufs(R) /\ job.buf \notin Bufs(R) /\ b \notin Bufs(R)
       /\ old.buf # job.buf /\ b # old.buf /\ b # job.buf
  <2>1. Bufs(R) = Bufs(ToSet(Front(list))) \union Bufs(ToSet(Tail(jobs)))  BY DEF Bufs
  <2>2. Bufs(ToSet(Front(list))) \subseteq Bufs(ToSet(list)) /\ old.buf \in Bufs(ToSet(list))
    BY <1>5 DEF Bufs
  <2> HIDE DEF R
  <2>3. /\ old.buf \notin Bufs(R) /\ job.buf \notin Bufs(R) /\ b \notin Bufs(R)
        /\ old.buf # job.buf /\ b # old.buf /\ b # job.buf
    BY <1>2, <1>3, <1>5, <2>1, <2>2
  <2> QED  BY <1>3, <1>5, <2>3 DEF R
<1> HIDE DEF both, single, R, merged
<1>11. ASSUME NEW i
       PROVE  \E m \in [ToExpose(S, i) -> ToExpose(Held, i)] : IsInjective(m)
  <2>1. \E m \in [ToExpose(S, i) -> ToExpose(R \union {old, job}, i)] : IsInjective(m)
    <3> DEFINE bt == both(b)
    <3>1. /\ R \in SUBSET Job /\ old \in Job /\ job \in Job /\ b \in Buffers /\ bt \in Job /\ single \in Job
          /\ old.buf \notin Bufs(R) /\ job.buf \notin Bufs(R) /\ b \notin Bufs(R)
          /\ old.buf # job.buf /\ b # old.buf /\ b # job.buf
          /\ old.copies = 1 /\ job.copies >= 1
          /\ bt.buf = b /\ bt.images = old.images \o job.images /\ bt.copies = 1
          /\ single.buf = job.buf /\ single.images = job.images /\ single.copies = 1
      BY <1>2, <1>3, <1>5, <1>7, <1>8, <1>9, <1>10
    <3>2. S \subseteq R \union {bt} \union (IF job.copies = 2 THEN {single} ELSE {})
      OBVIOUS
    <3> HIDE DEF bt, S
    <3> QED  BY <3>1, <3>2, MergedExposures, Zenon
  <2>2. ToExpose(R \union {old, job}, i) \subseteq ToExpose(Held, i)
    BY <1>3, <1>5, ExposuresIn DEF R
  <2> QED  BY <2>1, <2>2
<1>12. /\ newList(b) \in Seq(Job)
       /\ ToSet(newList(b)) \subseteq ToSet(Front(list)) \union {both(b)} \union (IF job.copies = 2 THEN {single} ELSE {})
  <2>1. merged(b) \in Seq(Job) /\ ToSet(merged(b)) \subseteq ToSet(Front(list)) \union {both(b)}
    BY <1>6, <1>8, AddHeld DEF merged
  <2>2. CASE job.copies = 2
    <3>1. newList(b) = AddJob(merged(b), single)  BY <2>2 DEF single
    <3>2. /\ AddJob(merged(b), single) \in Seq(Job)
          /\ ToSet(AddJob(merged(b), single)) \subseteq ToSet(merged(b)) \union {single}
      BY <1>9, <2>1, AddHeld
    <3> HIDE DEF newList
    <3> QED  BY <2>1, <2>2, <3>1, <3>2
  <2>3. CASE job.copies # 2
    <3>1. newList(b) = merged(b)  BY <1>7, <2>3
    <3> HIDE DEF newList
    <3> QED  BY <2>1, <3>1
  <2> QED  BY <2>2, <2>3
<1> DEFINE new == newList(b)
<1> HIDE DEF new, newList
<1>13. new \in Seq(Job) /\ Appending(new) /\ ToSet(new) \union ToSet(Tail(jobs)) \subseteq S
  BY <1>2, <1>12 DEF new, R
<1>14. \A j \in ToSet(new) : j.copies >= 1
  BY <1>3, <1>5, <1>8, <1>9, <1>12 DEF new
<1> HIDE DEF S
<1> QED  BY <1>11, <1>13, <1>14, AppendingNumbers

(* Copies merged in pairs: two per sheet, and the odd one by itself. *)
LEMMA AppendCopiesOver ==
  ASSUME JobsAssumption, IInv, OverInv, AppendCopies
  PROVE  OverInv'
<1> DEFINE job == Head(jobs)
           odd == job.copies % 2
           pairs(b) == Combined(b, job, job, Pairs(job.copies))
           withOdd(l) == IF odd = 1 THEN AddJob(l, WithCopies(job, odd)) ELSE l
           oddFirst(b) == AddJob(withOdd(list), pairs(b))
           oddLast(b)  == withOdd(AddJob(list, pairs(b)))
           R == ToSet(list) \union ToSet(Tail(jobs))
           single == WithCopies(job, 1)
           odds == IF odd = 1 THEN {single} ELSE {}
<1>1. /\ jobs # <<>> /\ FitsCopies(job) /\ pc = "append"
      /\ \E b \in Buffers \ live : Appending(oddFirst(b)) \/ Appending(oddLast(b))
  BY DEF AppendCopies, Appending
<1>2. PICK b \in Buffers \ live : Appending(oddFirst(b)) \/ Appending(oddLast(b))  BY <1>1
<1> DEFINE two == pairs(b)
           S == R \union {two} \union odds
<1>3. /\ Held = ToSet(list) \union ToSet(jobs) /\ job \in Job /\ job \in ToSet(jobs)
      /\ ToSet(Tail(jobs)) \subseteq ToSet(jobs) /\ ToSet(list) \subseteq Job /\ ToSet(jobs) \subseteq Job
      /\ job.buf \notin Bufs(ToSet(list)) /\ job.buf \notin Bufs(ToSet(Tail(jobs)))
      /\ Bufs(ToSet(list)) \union Bufs(ToSet(Tail(jobs))) \union {job.buf} \subseteq live
      /\ \A j \in ToSet(list) \union ToSet(jobs) : j.copies >= 1
  BY <1>1, AppendSets
<1>4. list \in Seq(Job) /\ job.copies \in Nat /\ job.copies > 1
  BY <1>1, <1>3 DEF IInv, TypeOK, FitsCopies, Job
<1>5. Pairs(job.copies) \in Nat /\ Pairs(job.copies) >= 1 /\ odd \in {0, 1}
  <2> DEFINE n == job.copies
  <2>1. n \in Nat /\ n > 1  BY <1>4
  <2> HIDE DEF n
  <2>2. n \div 2 \in Nat /\ n \div 2 >= 1 /\ n % 2 \in {0, 1}  BY <2>1
  <2> QED  BY <2>2 DEF n, Pairs
<1> HIDE DEF job
<1>6. /\ two \in Job /\ two.buf = b /\ two.images = job.images \o job.images
      /\ two.copies = job.copies \div 2
  <2> DEFINE n == Pairs(job.copies)
  <2>1. n \in Nat  BY <1>5
  <2> HIDE DEF n
  <2>2. Combined(b, job, job, n) \in Job /\ Combined(b, job, job, n).buf = b
    BY <1>2, <1>3, <2>1, CombinedType
  <2>3. Combined(b, job, job, n).images = job.images \o job.images /\ Combined(b, job, job, n).copies = n
    BY DEF Combined
  <2> QED  BY <2>2, <2>3 DEF n, Pairs
<1>7. single \in Job /\ single.buf = job.buf /\ single.images = job.images /\ single.copies = 1
  <2>1. single \in Job /\ single.buf = job.buf  BY <1>3, WithCopiesType
  <2> QED  BY <1>3, <2>1 DEF WithCopies, Job
<1>8. /\ R \in SUBSET Job /\ job.buf \notin Bufs(R) /\ b \notin Bufs(R) /\ b # job.buf
  <2>1. Bufs(R) = Bufs(ToSet(list)) \union Bufs(ToSet(Tail(jobs)))  BY DEF Bufs
  <2> HIDE DEF R
  <2>2. job.buf \notin Bufs(R) /\ b \notin Bufs(R) /\ b # job.buf  BY <1>2, <1>3, <2>1
  <2> QED  BY <1>3, <2>2 DEF R
<1>9. \A l : withOdd(l) = IF odd = 1 THEN AddJob(l, single) ELSE l  OBVIOUS
<1> HIDE DEF two, single, R, withOdd
<1>10. ASSUME NEW i
       PROVE  \E m \in [ToExpose(S, i) -> ToExpose(Held, i)] : IsInjective(m)
  <2>1. \E m \in [ToExpose(S, i) -> ToExpose(R \union {job}, i)] : IsInjective(m)
    <3>1. /\ R \in SUBSET Job /\ job \in Job /\ b \in Buffers /\ two \in Job /\ single \in Job
          /\ job.buf \notin Bufs(R) /\ b \notin Bufs(R) /\ b # job.buf
          /\ two.buf = b /\ two.images = job.images \o job.images /\ two.copies = job.copies \div 2
          /\ single.buf = job.buf /\ single.images = job.images /\ single.copies = 1
      BY <1>2, <1>3, <1>6, <1>7, <1>8
    <3>2. S \subseteq R \union {two} \union (IF job.copies % 2 = 1 THEN {single} ELSE {})
      OBVIOUS
    <3> HIDE DEF S
    <3> QED  BY <3>1, <3>2, PairedExposures, Zenon
  <2>2. ToExpose(R \union {job}, i) \subseteq ToExpose(Held, i)
    BY <1>3, ExposuresIn DEF R
  <2> QED  BY <2>1, <2>2
<1> HIDE DEF odd
<1>11. ASSUME NEW l \in Seq(Job)
       PROVE  withOdd(l) \in Seq(Job) /\ ToSet(withOdd(l)) \subseteq ToSet(l) \union odds
  <2>1. CASE odd = 1
    <3>1. AddJob(l, single) \in Seq(Job) /\ ToSet(AddJob(l, single)) \subseteq ToSet(l) \union {single}
      BY <1>7, AddHeld
    <3> QED  BY <1>9, <2>1, <3>1
  <2>2. CASE odd # 1  BY <1>9, <2>2
  <2> QED  BY <2>1, <2>2
<1>12. ASSUME NEW l \in Seq(Job)
       PROVE  AddJob(l, two) \in Seq(Job) /\ ToSet(AddJob(l, two)) \subseteq ToSet(l) \union {two}
  BY <1>6, AddHeld
<1>13. /\ oddFirst(b) \in Seq(Job) /\ ToSet(oddFirst(b)) \subseteq ToSet(list) \union {two} \union odds
       /\ oddLast(b) \in Seq(Job) /\ ToSet(oddLast(b)) \subseteq ToSet(list) \union {two} \union odds
  <2>1. oddFirst(b) = AddJob(withOdd(list), two) /\ oddLast(b) = withOdd(AddJob(list, two))
    BY DEF two
  <2> HIDE DEF oddFirst, oddLast, odds
  <2> QED  BY <1>4, <1>11, <1>12, <2>1
<1>14. PICK new \in Seq(Job) : Appending(new) /\ ToSet(new) \subseteq ToSet(list) \union {two} \union odds
  <2> HIDE DEF oddFirst, oddLast, odds
  <2> QED  BY <1>2, <1>13
<1>15. ToSet(new) \union ToSet(Tail(jobs)) \subseteq S  BY <1>14 DEF R
<1>16. \A j \in ToSet(new) : j.copies >= 1
  <2>1. two.copies >= 1  BY <1>5, <1>6 DEF Pairs
  <2> QED  BY <1>3, <1>7, <1>14, <2>1
<1> HIDE DEF S
<1> QED  BY <1>10, <1>14, <1>15, <1>16, AppendingNumbers

(* The steps that expose nothing and add no exposure to come. *)
LEMMA KeepsNumbers ==
  ASSUME OverInv, UNCHANGED <<out, requested>>, Held' \subseteq Held
  PROVE  (\A i \in 1 .. MaxImages : Numbered(OutAt(i), ToExpose(Held, i), requested[i]))'
<1>1. ASSUME NEW i \in 1 .. MaxImages
      PROVE  Numbered(OutAt(i), ToExpose(Held', i), requested[i])
  <2>1. Numbered(OutAt(i), ToExpose(Held, i), requested[i])  BY DEF OverInv
  <2>2. ToExpose(Held', i) \in SUBSET ToExpose(Held, i)  BY ExposuresIn
  <2> QED  BY <2>1, <2>2, FewerNumbered, Zenon
<1>2. \A i : OutAt(i)' = OutAt(i) /\ ToExpose(Held, i)' = ToExpose(Held', i)
  BY DEF OutAt, ToExpose
<1> QED  BY <1>1, <1>2

(* What read_parse returns asks for exposures of new images only. *)
LEMMA ReadPageOver ==
  ASSUME JobsAssumption, IInv, OrderInv, OverInv, ReadPage
  PROVE  OverInv'
<1>2. PICK n \in JobsPerRead, c \in Copies, k \in Kinds, cc \in BOOLEAN :
        \E bs \in [1..n -> Buffers \ live] : Reads(n, c, k, cc, bs)
  BY ReadPageReads
<1>3. PICK bs \in [1..n -> Buffers \ live] : Reads(n, c, k, cc, bs)
  BY <1>2
<1>4. /\ n \in Nat /\ images \in Nat /\ c \in Nat /\ c >= 1 /\ MaxImages \in Nat
      /\ pc = "read" /\ pc' = "append" /\ UNCHANGED <<list, out>>
  BY DEF JobsAssumption, IInv, TypeOK, ReadPage
<1>5. /\ DOMAIN jobs' = 1 .. n
      /\ \A m \in 1 .. n : /\ jobs'[m].images = <<images + m>> /\ jobs'[m].copies \in Nat
                           /\ jobs'[m].copies >= 1
  BY <1>3, <1>4 DEF Parsed, Reads
<1>6. \A i \in 1 .. MaxImages :
        requested'[i] = IF i \in images + 1 .. images + n THEN jobs'[i - images].copies ELSE requested[i]
  BY <1>3 DEF Reads
<1>7. Held' = ToSet(list) \union ToSet(jobs') /\ ToSet(list) \subseteq Held
  <2>1. {list'[l] : l \in {m \in DOMAIN list' : Waiting(m)'}} = ToSet(list)
    BY <1>4 DEF Waiting, ToSet
  <2>2. {list[l] : l \in {m \in DOMAIN list : Waiting(m)}} = ToSet(list)
    BY <1>4 DEF Waiting, ToSet
  <2>3. InPrinter' = {}  BY <1>4 DEF InPrinter
  <2> QED  BY <2>1, <2>2, <2>3 DEF Held
<1>8. ASSUME NEW i \in 1 .. MaxImages, NEW t \in ToExpose(ToSet(jobs'), i)
      PROVE  /\ i - images \in 1 .. n /\ t[3] = 1
             /\ t[1] = jobs'[i - images].buf /\ t[2] \in 1 .. jobs'[i - images].copies
             /\ t = <<t[1], t[2], t[3]>>
  <2>1. PICK m \in 1 .. n : /\ t[1] = jobs'[m].buf /\ t[2] \in 1 .. jobs'[m].copies
                            /\ t[3] \in DOMAIN jobs'[m].images /\ jobs'[m].images[t[3]] = i
    BY <1>5, <1>8 DEF ToExpose, ToSet
  <2>2. images + m = i /\ t[3] = 1
    <3>1. DOMAIN <<images + m>> = {1} /\ <<images + m>>[1] = images + m  OBVIOUS
    <3>2. jobs'[m].images = <<images + m>>  BY <1>5
    <3> QED  BY <2>1, <3>1, <3>2
  <2>3. i - images = m  BY <1>4, <2>2
  <2>4. t \in Buffers \X Nat \X Nat  BY <1>8 DEF ToExpose
  <2> QED  BY <2>1, <2>2, <2>3, <2>4
<1>9. ASSUME NEW i \in 1 .. MaxImages
      PROVE  Numbered(OutAt(i), ToExpose(Held', i), requested'[i])
  <2>1. ToExpose(Held', i) = ToExpose(ToSet(list), i) \union ToExpose(ToSet(jobs'), i)
    BY <1>7 DEF ToExpose
  <2>2. CASE i \notin images + 1 .. images + n
    <3>1. ~(i - images \in 1 .. n)  BY <1>4, <2>2
    <3>2. ToExpose(ToSet(jobs'), i) = {}  BY <1>8, <3>1
    <3>3. ToExpose(Held', i) \in SUBSET ToExpose(Held, i)
      BY <1>7, <2>1, <3>2, ExposuresIn
    <3>4. Numbered(OutAt(i), ToExpose(Held, i), requested[i])  BY DEF OverInv
    <3>5. Numbered(OutAt(i), ToExpose(Held', i), requested[i])  BY <3>3, <3>4, FewerNumbered, Zenon
    <3> QED  BY <1>6, <2>2, <3>5
  <2>3. CASE i \in images + 1 .. images + n
    <3> DEFINE T == ToExpose(Held', i)
               r == requested'[i]
    <3>1. i > images /\ i \in Nat /\ i - images \in 1 .. n  BY <1>4, <2>3
    <3>2. OutAt(i) = {}
      <4>1. out \in Seq(Nat)  BY DEF IInv, TypeOK
      <4>2. \A l \in DOMAIN out : out[l] \in Nat /\ out[l] <= images
        BY <4>1 DEF OrderInv, AtMost, ToSet
      <4>3. \A x \in Nat : x <= images => x # i  BY <1>4, <3>1
      <4> QED  BY <4>2, <4>3 DEF OutAt
    <3>3. ToExpose(ToSet(list), i) = {}
      <4>1. list \in Seq(Job)  BY DEF IInv, TypeOK
      <4>2. \A p \in PagesOf(list) : p \in Nat /\ p <= images
        BY <4>1, PagesAreNat DEF OrderInv, AtMost
      <4>3. \A x \in Nat : x <= images => x # i  BY <1>4, <3>1
      <4>4. ASSUME NEW j \in ToSet(list), NEW l \in DOMAIN j.images PROVE j.images[l] # i
        <5>1. j.images[l] \in PagesOf(list)  BY <4>4 DEF PagesOf, Pages, ToSet
        <5> QED  BY <4>2, <4>3, <5>1
      <4> QED  BY <4>4 DEF ToExpose
    <3>4. T = ToExpose(ToSet(jobs'), i)  BY <2>1, <3>3
    <3>5. r = jobs'[i - images].copies /\ r \in Nat  BY <1>5, <1>6, <2>3, <3>1
    <3> HIDE DEF T, r
    <3> DEFINE f == [x \in {} |-> 1]
               g == [t \in T |-> t[2]]
    <3>6. f \in [{} -> 1 .. r] /\ IsInjective(f)  BY DEF IsInjective
    <3>7. g \in [T -> 1 .. r]  BY <1>8, <3>4, <3>5
    <3>8. \A x, y \in T : g[x] = g[y] => x = y
      <4> SUFFICES ASSUME NEW x \in T, NEW y \in T, x[2] = y[2] PROVE x = y  OBVIOUS
      <4>1. x = <<x[1], x[2], x[3]>> /\ y = <<y[1], y[2], y[3]>> /\ x[1] = y[1] /\ x[3] = y[3]
        BY <1>8, <3>4
      <4> QED  BY <4>1
    <3>9. IsInjective(g)  BY <3>7, <3>8 DEF IsInjective
    <3> HIDE DEF f, g
    <3>10. Numbered({}, T, r)  BY <3>6, <3>7, <3>9 DEF Numbered
    <3> QED  BY <3>2, <3>10 DEF T, r
  <2> QED  BY <2>2, <2>3
<1>10. \A i : OutAt(i)' = OutAt(i) /\ ToExpose(Held, i)' = ToExpose(Held', i)
  BY <1>4 DEF OutAt, ToExpose
<1>11. (\A i \in 1 .. MaxImages : Numbered(OutAt(i), ToExpose(Held, i), requested[i]))'
  BY <1>9, <1>10
<1>12. /\ \A l \in DOMAIN list' : list'[l].copies >= 1
       /\ \A l \in DOMAIN jobs' : jobs'[l].copies >= 1
  BY <1>4, <1>5 DEF OverInv
<1> QED  BY <1>4, <1>11, <1>12 DEF OverInv

(* A copy exposes what was to come for it, and each image of the sheet in   *)
(* its place.                                                               *)
LEMMA PrintCopyOver ==
  ASSUME IInv, OverInv, PrintCopy
  PROVE  OverInv'
<1> DEFINE e == list[next]
           n == Len(out)
           now == WithCopies(e, left)
           later == IF pc' = "loop" THEN {WithCopies(e, left')} ELSE {}
           rest == {list[k] : k \in {l \in DOMAIN list : l > next}} \union ToSet(jobs)
<1>1. /\ pc = "loop" /\ out' = out \o e.images /\ UNCHANGED <<jobs, list, next, requested>>
      /\ pc' = "printed" \/ (pc' = "loop" /\ left > 1 /\ left' = left - 1)
  BY DEF PrintCopy, IInv, TypeOK
<1>2. /\ next \in DOMAIN list /\ list \in Seq(Job) /\ jobs \in Seq(Job) /\ out \in Seq(Nat)
      /\ left \in Nat /\ left >= 1 /\ n \in Nat /\ e \in Job /\ next \in Nat
  BY <1>1 DEF IInv, TypeOK, InLoop, OverInv
<1>3. e.images \in Seq(Nat) /\ e.buf \in Buffers  BY <1>2, JobImages DEF Job
<1>4. now.buf = e.buf /\ now.images = e.images /\ now.copies = left
  BY <1>2 DEF WithCopies, Job
<1>5. Held = rest \union {now}
  <2>1. {l \in DOMAIN list : Waiting(l)} = {l \in DOMAIN list : l > next}
    BY <1>1 DEF Waiting
  <2> QED  BY <1>1, <2>1 DEF Held, InPrinter
<1>6. Held' = rest \union later
  <2>1. {l \in DOMAIN list' : Waiting(l)'} = {l \in DOMAIN list : l > next}
    BY <1>1 DEF Waiting
  <2>2. {list'[k] : k \in {l \in DOMAIN list' : Waiting(l)'}} = {list[k] : k \in {l \in DOMAIN list : l > next}}
    BY <1>1, <2>1
  <2>3. InPrinter' = later  BY <1>1 DEF InPrinter
  <2> HIDE DEF later
  <2> QED  BY <1>1, <2>2, <2>3 DEF Held
<1>7. \A j \in rest : j.buf # e.buf
  <2>1. OwnEach(list) /\ Owned(list) \intersect Owned(jobs) = {}  BY DEF IInv, HeapSafe
  <2>2. \A k \in DOMAIN list : k > next => list[k].buf # e.buf
    <3>1. \A k \in DOMAIN list : k > next => k # next  BY <1>2
    <3> QED  BY <1>2, <2>1, <3>1 DEF OwnEach
  <2>3. \A k \in DOMAIN jobs : jobs[k].buf # e.buf  BY <1>2, <2>1 DEF Owned
  <2> QED  BY <2>2, <2>3 DEF ToSet
<1>8. \A j \in later : /\ j.buf = e.buf /\ j.images = e.images /\ j.copies = left - 1
  BY <1>1, <1>2 DEF WithCopies, Job
<1> HIDE DEF e, n, now, later, rest
<1>9. ASSUME NEW i \in 1 .. MaxImages
      PROVE  Numbered(OutAt(i)', ToExpose(Held', i), requested[i])
  <2> DEFINE N == {k \in DOMAIN out' : ~(k <= n) /\ out'[k] = i}
             T1 == ToExpose(Held, i)
             T2 == ToExpose(Held', i)
             m == [k \in N |-> <<e.buf, left, k - n>>]
  <2>1. \A k \in DOMAIN out' : k \in Nat /\ (k <= n => k \in DOMAIN out /\ out'[k] = out[k])
                               /\ (~(k <= n) => k - n \in DOMAIN e.images /\ out'[k] = e.images[k - n])
    <3> SUFFICES ASSUME NEW k \in DOMAIN (out \o e.images)
                 PROVE  /\ k \in Nat
                        /\ k <= n => k \in DOMAIN out /\ (out \o e.images)[k] = out[k]
                        /\ ~(k <= n) => k - n \in DOMAIN e.images /\ (out \o e.images)[k] = e.images[k - n]
      BY <1>1, Zenon
    <3> QED  BY <1>2, <1>3, ConcatAt, Zenon DEF n
  <2>2. \A k \in DOMAIN out : k <= n /\ k \in DOMAIN out' /\ out'[k] = out[k]
    <3>1. /\ Len(out \o e.images) = Len(out) + Len(e.images)
          /\ \A l \in 1 .. Len(out) + Len(e.images) :
               (out \o e.images)[l] = IF l <= Len(out) THEN out[l] ELSE e.images[l - Len(out)]
          /\ out \o e.images \in Seq(Nat)
      BY <1>2, <1>3, ConcatProperties, Zenon
    <3>2. Len(e.images) \in Nat /\ DOMAIN out = 1 .. n  BY <1>2, <1>3 DEF n
    <3>3. DOMAIN out' = 1 .. n + Len(e.images)  BY <1>1, <3>1 DEF n
    <3>4. \A k \in 1 .. n : k <= n /\ k \in 1 .. n + Len(e.images)  BY <1>2, <3>2
    <3> QED  BY <1>1, <3>1, <3>2, <3>3, <3>4 DEF n
  <2>3. OutAt(i)' = OutAt(i) \union N /\ OutAt(i) \intersect N = {}
    BY <2>1, <2>2 DEF OutAt
  <2>4. T2 \subseteq T1
    <3>1. ASSUME NEW t \in T2 PROVE t \in T1
      <4>1. PICK j \in Held' : /\ t[1] = j.buf /\ t[2] \in 1 .. j.copies
                               /\ t[3] \in DOMAIN j.images /\ j.images[t[3]] = i
        BY <3>1 DEF ToExpose
      <4>2. t \in Buffers \X Nat \X Nat  BY <3>1 DEF ToExpose
      <4>3. CASE j \in rest  BY <1>5, <4>1, <4>2, <4>3 DEF ToExpose
      <4>4. CASE j \in later
        <5>1. t[2] \in 1 .. now.copies  BY <1>2, <1>4, <1>8, <4>1, <4>4
        <5> QED  BY <1>4, <1>5, <1>8, <4>1, <4>2, <4>4, <5>1 DEF ToExpose
      <4> QED  BY <1>6, <4>1, <4>3, <4>4
    <3> QED  BY <3>1
  <2>5. ASSUME NEW k \in N PROVE <<e.buf, left, k - n>> \in T1
    <3>1. k - n \in DOMAIN e.images /\ e.images[k - n] = i  BY <2>1
    <3>2. k - n \in Nat  BY <1>3, <3>1
    <3>3. left \in 1 .. left  BY <1>2
    <3> QED  BY <1>2, <1>3, <1>4, <1>5, <3>1, <3>2, <3>3 DEF ToExpose
  <2>6. ASSUME NEW k \in N PROVE <<e.buf, left, k - n>> \notin T2
    <3> SUFFICES ASSUME NEW j \in Held', e.buf = j.buf, left \in 1 .. j.copies PROVE FALSE
      BY DEF ToExpose
    <3>1. j \in later  BY <1>6, <1>7
    <3> QED  BY <1>2, <1>8, <3>1
  <2>7. m \in [N -> T1] /\ \A x \in N : m[x] \notin T2  BY <2>5, <2>6
  <2>8. \A x, y \in N : m[x] = m[y] => x = y
    <3> SUFFICES ASSUME NEW x \in N, NEW y \in N, x - n = y - n PROVE x = y  OBVIOUS
    <3>1. x \in Nat /\ y \in Nat  BY <2>1
    <3> QED  BY <1>2, <3>1
  <2>9. IsInjective(m)  BY <2>7, <2>8 DEF IsInjective
  <2>10. Numbered(OutAt(i), T1, requested[i])  BY DEF OverInv
  <2> HIDE DEF m, N, T1, T2
  <2>11. Numbered(OutAt(i) \union N, T2, requested[i])
    BY <2>3, <2>4, <2>7, <2>9, <2>10, ExposedNumbered, Zenon
  <2> QED  BY <2>3, <2>11 DEF T2
<1>10. \A i : ToExpose(Held, i)' = ToExpose(Held', i)  BY DEF ToExpose
<1>11. (\A i \in 1 .. MaxImages : Numbered(OutAt(i), ToExpose(Held, i), requested[i]))'
  BY <1>1, <1>9, <1>10
<1>12. /\ pc' = "loop" => left' >= 1
       /\ \A k \in DOMAIN list' : list'[k].copies >= 1
       /\ \A k \in DOMAIN jobs' : jobs'[k].copies >= 1
  <2>1. pc' = "loop" => left' >= 1  BY <1>1, <1>2
  <2> QED  BY <1>1, <2>1 DEF OverInv
<1> QED  BY <1>1, <1>11, <1>12 DEF OverInv

(* The steps that print nothing and read nothing: less waits, or as much.   *)
LEMMA OtherStepsOver ==
  ASSUME IInv, OverInv,
         ReadEnds \/ PageAppended \/ StartEntry \/ PrintFails \/ EntryPrinted
           \/ CleanupList \/ CreateFails \/ Sigterm \/ UNCHANGED vars
  PROVE  OverInv'
<1>1. /\ UNCHANGED <<out, requested>>
      /\ jobs' = jobs \/ jobs' = <<>>
      /\ list' = list \/ list' = <<>>
  BY DEF ReadEnds, PageAppended, StartEntry, PrintFails, EntryPrinted, CleanupList, CreateFails,
         Sigterm, vars
<1>2. /\ \A k \in DOMAIN list : k \in Nat /\ k >= 1
      /\ next \in Nat /\ next >= 1 /\ next >= next /\ list \in Seq(Job)
      /\ Len(list) \in Nat /\ DOMAIN list = 1 .. Len(list)
      /\ \A k \in DOMAIN list : list[k] \in Job
  BY DEF IInv, TypeOK
<1>3. DOMAIN <<>> = {} /\ ToSet(<<>>) = {}  BY DEF ToSet
<1>4. ToSet(jobs') \subseteq ToSet(jobs) /\ DOMAIN list' \subseteq DOMAIN list
      /\ \A k \in DOMAIN list' : list'[k] = list[k]
  BY <1>1, <1>3
<1>5. (pc' = "loop" => left' >= 1) /\ Held' \subseteq Held
  <2>1. CASE ReadEnds \/ PageAppended \/ PrintFails \/ EntryPrinted \/ CleanupList \/ CreateFails
    <3>1. pc' # "loop"
      BY <2>1 DEF ReadEnds, AfterRead, PageAppended, PrintFails, EntryPrinted, CleanupList, CreateFails
    <3>2. \A k \in DOMAIN list' : Waiting(k)' => Waiting(k)
      <4>1. CASE ReadEnds  BY <4>1 DEF ReadEnds, Waiting
      <4>2. CASE PageAppended  BY <4>2 DEF PageAppended, Waiting
      <4>3. CASE PrintFails  BY <4>3 DEF PrintFails, Waiting
      <4>4. CASE EntryPrinted  BY <1>2, <4>4 DEF EntryPrinted, Waiting
      <4>5. CASE CleanupList  BY <1>3, <4>5 DEF CleanupList
      <4>6. CASE CreateFails  BY <1>3, <4>6 DEF CreateFails
      <4> QED  BY <2>1, <4>1, <4>2, <4>3, <4>4, <4>5, <4>6
    <3>3. InPrinter' = {}  BY <3>1 DEF InPrinter
    <3> QED  BY <1>4, <3>1, <3>2, <3>3 DEF Held
  <2>2. CASE StartEntry
    <3> DEFINE e == list[next]
    <3>1. /\ pc = "print" /\ pc' = "loop" /\ next \in DOMAIN list /\ left' = e.copies
          /\ UNCHANGED <<list, next, jobs>>
      BY <1>2, <2>2 DEF StartEntry
    <3>2. WithCopies(e, e.copies) = e  BY <1>2, <3>1 DEF WithCopies, Job
    <3>3. e.copies >= 1  BY <3>1 DEF OverInv
    <3>4. \A k \in DOMAIN list : Waiting(k)' => Waiting(k)  BY <1>2, <3>1 DEF Waiting
    <3>5. Waiting(next)  BY <1>2, <3>1 DEF Waiting
    <3> HIDE DEF e
    <3>6. InPrinter' = {e}  BY <3>1, <3>2 DEF InPrinter, e
    <3>7. e \in Held  BY <3>1, <3>5 DEF Held, e
    <3>8. {list'[k] : k \in {l \in DOMAIN list' : Waiting(l)'}} \subseteq Held
      BY <3>1, <3>4 DEF Held
    <3>9. ToSet(jobs') \subseteq Held  BY <3>1 DEF Held
    <3> QED  BY <3>1, <3>3, <3>6, <3>7, <3>8, <3>9 DEF Held
  <2>3. CASE Sigterm \/ UNCHANGED vars
    BY <2>3 DEF Sigterm, vars, OverInv, Held, InPrinter, Waiting
  <2> QED  BY <2>1, <2>2, <2>3
<1>6. (\A i \in 1 .. MaxImages : Numbered(OutAt(i), ToExpose(Held, i), requested[i]))'
  BY <1>1, <1>5, KeepsNumbers
<1>7. /\ \A k \in DOMAIN list' : list'[k].copies >= 1
      /\ \A k \in DOMAIN jobs' : jobs'[k].copies >= 1
  BY <1>1, <1>3 DEF OverInv
<1> QED  BY <1>5, <1>6, <1>7 DEF OverInv

(* At first no exposure is made or to come. *)
LEMMA InitOver ==
  ASSUME Init
  PROVE  OverInv
<1>1. jobs = <<>> /\ list = <<>> /\ out = <<>> /\ pc = "read"  BY DEF Init
<1>2. DOMAIN <<>> = {} /\ ToSet(<<>>) = {}  BY DEF ToSet
<1>3. Held = {}  BY <1>1, <1>2 DEF Held, InPrinter
<1>4. \A i : OutAt(i) = {} /\ ToExpose(Held, i) = {}  BY <1>1, <1>2, <1>3 DEF OutAt, ToExpose
<1>5. ASSUME NEW r PROVE Numbered({}, {}, r)
  <2> DEFINE f == [x \in {} |-> 1]
  <2>1. f \in [{} -> 1 .. r] /\ IsInjective(f)  BY DEF IsInjective
  <2> HIDE DEF f
  <2> QED  BY <2>1 DEF Numbered
<1> QED  BY <1>1, <1>2, <1>4, <1>5 DEF OverInv

(* Every step keeps the numbering. *)
LEMMA NextOver ==
  ASSUME JobsAssumption, IInv, OrderInv, OverInv, [Next]_vars
  PROVE  OverInv'
BY ReadPageOver, AppendPlainOver, AppendToLastOver, AppendCopiesOver, PrintCopyOver, OtherStepsOver
   DEF Next, Step, Finished

(* The numbering holds throughout. *)
THEOREM OverHolds == Spec => []OverInv
<1>1. Init => OverInv  BY InitOver
<1>2. IInv /\ OrderInv /\ OverInv /\ [Next]_vars => OverInv'  BY NextOver, JobsAssumption
<1> QED  BY <1>1, <1>2, Inductive, OrderHolds, PTL DEF Spec

(* However jobs are merged, split and given up, and wherever an error or a  *)
(* signal strikes, no image is exposed more often than it was asked for.    *)
THEOREM NothingOverprinted == Spec => []NeverOverprints
<1>1. IInv /\ OverInv => NeverOverprints
  <2> SUFFICES ASSUME IInv, OverInv, NEW i \in 1 .. MaxImages PROVE Times(i) <= requested[i]
    BY DEF NeverOverprints
  <2>1. requested[i] \in Nat  BY DEF IInv, TypeOK
  <2>2. Numbered(OutAt(i), ToExpose(Held, i), requested[i])  BY DEF OverInv
  <2>3. Cardinality(OutAt(i)) <= requested[i]  BY <2>1, <2>2, NumberedCount, Zenon
  <2> QED  BY <2>3 DEF Times, OutAt
<1> QED  BY <1>1, OverHolds, Inductive, PTL

-----------------------------------------------------------------------------
(* The refinement of DyesubPrinter.  Pending of DyesubRefinement is made    *)
(* of concatenations: first what FlattenSeq does, by the least              *)
(* counterexample, then what each kind of job exposes, then step by step    *)
(* what the code does to it.                                                *)
(* A set of naturals that holds one has a least one. *)
LEMMA LeastNat ==
  ASSUME NEW T \in SUBSET Nat, T # {}
  PROVE  \E x \in T : \A y \in T : x <= y
<1>1. PICK x \in T : \A y \in T : ~(<<y, x>> \in OpToRel(<, Nat))
  BY WFMin, NatLessThanWellFounded, Zenon
<1>2. \A y \in T : ~(y < x)
  BY <1>1, Zenon DEF OpToRel
<1> QED  BY <1>2

(* The recursion of FlattenSeq: f[k] is the concatenation of the first k.  *)
Flattens(f, s, n) ==
  f = [k \in 1 .. n |-> IF k = 1 THEN s[k] ELSE f[k - 1] \o s[k]]

(* Concatenations of a prefix depend on the prefix only. *)
LEMMA FlattensAgree ==
  ASSUME NEW m \in Nat, NEW n \in Nat, NEW s, NEW t, NEW f, NEW g,
         Flattens(f, s, m), Flattens(g, t, n), m <= n,
         \A k \in 1 .. m : s[k] = t[k]
  PROVE  \A k \in 1 .. m : f[k] = g[k]
<1> DEFINE T == {k \in 1 .. m : f[k] # g[k]}
<1> SUFFICES ASSUME T # {} PROVE FALSE  OBVIOUS
<1>1. PICK x \in T : \A y \in T : x <= y
  <2>1. T \in SUBSET Nat  OBVIOUS
  <2> HIDE DEF T
  <2> QED  BY <2>1, LeastNat
<1>2. /\ f[x] = IF x = 1 THEN s[x] ELSE f[x - 1] \o s[x]
      /\ g[x] = IF x = 1 THEN t[x] ELSE g[x - 1] \o t[x]
  <2>1. x \in 1 .. m /\ x \in 1 .. n  OBVIOUS
  <2> HIDE DEF T
  <2> QED  BY <2>1, Zenon DEF Flattens
<1>3. x # 1 => x - 1 \in 1 .. m /\ ~(x <= x - 1)  OBVIOUS
<1>4. x # 1 => f[x - 1] = g[x - 1]
  <2> SUFFICES ASSUME x # 1 PROVE x - 1 \notin T  BY <1>3
  <2> HIDE DEF T
  <2> QED  BY <1>1, <1>3
<1>5. s[x] = t[x] /\ f[x] # g[x]  OBVIOUS
<1> QED  BY <1>2, <1>4, <1>5, Zenon

(* Every sequence of sequences has its concatenations. *)
LEMMA FlattensExists ==
  ASSUME NEW s, NEW n \in Nat
  PROVE  \E f : Flattens(f, s, n)
<1> DEFINE T == {k \in Nat : ~ \E f : Flattens(f, s, k)}
<1> SUFFICES ASSUME T # {} PROVE FALSE  OBVIOUS
<1>1. PICK x \in T : \A y \in T : x <= y
  <2>1. T \in SUBSET Nat  OBVIOUS
  <2> HIDE DEF T
  <2> QED  BY <2>1, LeastNat
<1>2. x # 0
  <2>1. Flattens([k \in 1 .. 0 |-> s[k]], s, 0)  BY DEF Flattens
  <2> QED  BY <2>1
<1>3. PICK f : Flattens(f, s, x - 1)
  <2>1. x - 1 \in Nat /\ ~(x <= x - 1)  BY <1>2
  <2>2. x - 1 \notin T  BY <2>1, <1>1
  <2> QED  BY <2>1, <2>2
<1> DEFINE g == [k \in 1 .. x |-> IF k = x THEN IF x = 1 THEN s[x] ELSE f[x - 1] \o s[x]
                                 ELSE f[k]]
<1>4. ASSUME NEW k \in 1 .. x
      PROVE  g[k] = IF k = 1 THEN s[k] ELSE g[k - 1] \o s[k]
  <2>1. CASE k = x
    <3>1. x # 1 => g[x - 1] = f[x - 1]  OBVIOUS
    <3>2. g[k] = IF x = 1 THEN s[x] ELSE f[x - 1] \o s[x]  BY <2>1
    <3> HIDE DEF g
    <3> QED  BY <3>1, <3>2, <2>1, Zenon
  <2>2. CASE k # x
    <3>1. k \in 1 .. x - 1  BY <2>2
    <3>2. f[k] = IF k = 1 THEN s[k] ELSE f[k - 1] \o s[k]  BY <3>1, Zenon, <1>3 DEF Flattens
    <3>3. g[k] = f[k] /\ (k # 1 => g[k - 1] = f[k - 1])  BY <2>2
    <3> HIDE DEF g
    <3> QED  BY <3>2, <3>3, Zenon
  <2> QED  BY <2>1, <2>2
<1>5. Flattens(g, s, x)
  <2> DEFINE h == [k \in 1 .. x |-> IF k = 1 THEN s[k] ELSE g[k - 1] \o s[k]]
  <2>1. g = [k \in 1 .. x |-> g[k]]  OBVIOUS
  <2> HIDE DEF g
  <2>2. [k \in 1 .. x |-> g[k]] = h  BY <1>4, Zenon
  <2> QED  BY <2>1, <2>2, Zenon DEF Flattens
<1> QED  BY <1>5

(* FlattenSeq of one more sequence, of none, and its type. *)
LEMMA FlattenAppend ==
  ASSUME NEW S, NEW s \in Seq(Seq(S)), NEW x \in Seq(S)
  PROVE  FlattenSeq(Append(s, x)) = FlattenSeq(s) \o x
<1> DEFINE n == Len(s)
           t == Append(s, x)
<1>1. n \in Nat /\ Len(t) = n + 1 /\ t[n + 1] = x /\ (\A k \in 1 .. n : t[k] = s[k])
  OBVIOUS
<1> HIDE DEF n, t
<1>2. PICK g : Flattens(g, t, n + 1) /\ FlattenSeq(t) = g[n + 1]
  <2>1. \E g : Flattens(g, t, n + 1)
    <3>1. n + 1 \in Nat  BY <1>1
    <3> QED  BY <3>1, FlattensExists, Zenon
  <2>2. n + 1 # 0  BY <1>1
  <2> QED  BY <2>1, <2>2, <1>1 DEF FlattenSeq, Flattens
<1>3. g[n + 1] = IF n + 1 = 1 THEN t[n + 1] ELSE g[(n + 1) - 1] \o t[n + 1]
  <2>1. n + 1 \in 1 .. n + 1  BY <1>1
  <2> QED  BY <2>1, <1>2, Zenon DEF Flattens
<1>4. CASE n = 0
  <2>1. s = <<>>  BY <1>4 DEF n
  <2>2. FlattenSeq(s) = <<>>  BY <2>1 DEF FlattenSeq
  <2>3. <<>> \o x = x  OBVIOUS
  <2> QED  BY <2>2, <2>3, <1>1, <1>2, <1>3, <1>4 DEF t
<1>5. CASE n # 0
  <2>1. PICK f : Flattens(f, s, n) /\ FlattenSeq(s) = f[n]
    <3>1. \E f : Flattens(f, s, n)  BY <1>1, FlattensExists
    <3> QED  BY <3>1, <1>5 DEF FlattenSeq, Flattens, n
  <2>2. \A k \in 1 .. n : f[k] = g[k]
    <3>1. n <= n + 1 /\ n + 1 \in Nat  BY <1>1
    <3>2. \A k \in 1 .. n : s[k] = t[k]  BY <1>1
    <3> QED  BY <3>1, <3>2, <2>1, <1>2, <1>1, FlattensAgree
  <2>3. n \in 1 .. n /\ (n + 1) - 1 = n /\ n + 1 # 1  BY <1>1, <1>5
  <2> QED  BY <2>1, <2>2, <2>3, <1>1, <1>2, <1>3 DEF t
<1> QED  BY <1>4, <1>5

(* Nothing concatenates to nothing. *)
LEMMA FlattenEmpty == FlattenSeq(<<>>) = <<>>
BY DEF FlattenSeq

(* One sequence is its own concatenation. *)
LEMMA FlattenOne ==
  ASSUME NEW S, NEW x \in Seq(S)
  PROVE  FlattenSeq(<<x>>) = x
<1>1. Append(<<>>, x) = <<x>> /\ <<>> \o x = x /\ <<>> \in Seq(Seq(S))  OBVIOUS
<1>2. FlattenSeq(Append(<<>>, x)) = FlattenSeq(<<>>) \o x  BY <1>1, FlattenAppend
<1> QED  BY <1>1, <1>2, FlattenEmpty

(* Concatenation is associative, and an element appended to the second of  *)
(* two sequences is appended to both.                                      *)
Concatenates(S) ==
  /\ \A s, t, u \in Seq(S) : (s \o t) \o u = s \o (t \o u)
  /\ \A s, t \in Seq(S), x \in S :
        s \o t \in Seq(S) /\ s \o Append(t, x) = Append(s \o t, x)

LEMMA ConcatFacts ==
  ASSUME NEW S
  PROVE  Concatenates(S)
<1>1. ASSUME NEW s \in Seq(S), NEW t \in Seq(S), NEW u \in Seq(S)
      PROVE  (s \o t) \o u = s \o (t \o u)
  BY ConcatAssociative
<1>2. ASSUME NEW s \in Seq(S), NEW t \in Seq(S), NEW x \in S
      PROVE  s \o t \in Seq(S) /\ s \o Append(t, x) = Append(s \o t, x)
  <2>1. s \o t \in Seq(S) /\ <<x>> \in Seq(S)  OBVIOUS
  <2>2. Append(t, x) = t \o <<x>>  BY AppendIsConcat, Zenon
  <2>3. Append(s \o t, x) = (s \o t) \o <<x>>  BY <2>1, AppendIsConcat, Zenon
  <2>4. (s \o t) \o <<x>> = s \o (t \o <<x>>)  BY <1>1, <2>1, Zenon
  <2> QED  BY <2>1, <2>2, <2>3, <2>4, Zenon
<1> QED  BY <1>1, <1>2, Zenon DEF Concatenates

(* Concatenation of images is associative. *)
Associate(u, v, w) == (u \o v) \o w = u \o (v \o w)
LEMMA ImagesAssociative == \A u, v, w \in Seq(Nat) : Associate(u, v, w)
<1>1. Concatenates(Nat)  BY ConcatFacts, Zenon
<1> QED  BY <1>1, Zenon DEF Concatenates, Associate

(* FlattenConcat for one sequence more. *)
LEMMA FlattenConcatStep ==
  ASSUME NEW S, NEW s \in Seq(Seq(S)), NEW v \in Seq(Seq(S)), NEW x \in Seq(S),
         FlattenSeq(s) \in Seq(S), FlattenSeq(v) \in Seq(S),
         FlattenSeq(s \o v) = FlattenSeq(s) \o FlattenSeq(v)
  PROVE  FlattenSeq(s \o Append(v, x)) = FlattenSeq(s) \o FlattenSeq(Append(v, x))
<1>1. Concatenates(Seq(S))  BY ConcatFacts, Zenon
<1>2. s \o v \in Seq(Seq(S)) /\ s \o Append(v, x) = Append(s \o v, x)
  BY <1>1, Zenon DEF Concatenates
<1>3. FlattenSeq(Append(s \o v, x)) = FlattenSeq(s \o v) \o x
  BY <1>2, FlattenAppend, Zenon
<1>4. FlattenSeq(Append(v, x)) = FlattenSeq(v) \o x  BY FlattenAppend, Zenon
<1>5. (FlattenSeq(s) \o FlattenSeq(v)) \o x = FlattenSeq(s) \o (FlattenSeq(v) \o x)
  <2>1. Concatenates(S)  BY ConcatFacts, Zenon
  <2>2. \A a, b, c \in Seq(S) : (a \o b) \o c = a \o (b \o c)  BY <2>1, Zenon DEF Concatenates
  <2> QED  BY <2>2
<1> QED  BY <1>2, <1>3, <1>4, <1>5, Zenon

(* The concatenation of two sequences of sequences, one after the other. *)
LEMMA FlattenConcat ==
  ASSUME NEW S, NEW s \in Seq(Seq(S)), NEW t \in Seq(Seq(S))
  PROVE  /\ FlattenSeq(t) \in Seq(S)
         /\ FlattenSeq(s \o t) = FlattenSeq(s) \o FlattenSeq(t)
<1> DEFINE Good(u) == /\ FlattenSeq(u) \in Seq(S)
                      /\ FlattenSeq(s) \in Seq(S) => FlattenSeq(s \o u) = FlattenSeq(s) \o FlattenSeq(u)
           T == {k \in Nat : \E u \in Seq(Seq(S)) : Len(u) = k /\ ~Good(u)}
<1>1. T = {}
  <2> SUFFICES ASSUME T # {} PROVE FALSE  OBVIOUS
  <2>1. PICK k \in T : \A l \in T : k <= l
    <3>1. T \in SUBSET Nat  OBVIOUS
    <3> HIDE DEF T
    <3> QED  BY <3>1, LeastNat
  <2>2. PICK u \in Seq(Seq(S)) : Len(u) = k /\ ~Good(u)  OBVIOUS
  <2>3. u # <<>>
    <3> SUFFICES ASSUME u = <<>> PROVE FALSE  OBVIOUS
    <3>1. s \o <<>> = s /\ <<>> \in Seq(S)  OBVIOUS
    <3>2. FlattenSeq(s) \in Seq(S) => FlattenSeq(s) \o <<>> = FlattenSeq(s)  OBVIOUS
    <3>3. Good(u)  BY <3>1, <3>2, FlattenEmpty, Zenon
    <3> QED  BY <3>3, <2>2
  <2>4. PICK v \in Seq(Seq(S)), x \in Seq(S) : u = Append(v, x) /\ Len(v) = k - 1
    <3>1. PICK v \in Seq(Seq(S)), x \in Seq(S) : u = Append(v, x)
      BY <2>3, SequenceEmptyOrAppend
    <3>2. Len(u) = Len(v) + 1 /\ Len(v) \in Nat  BY <3>1
    <3>3. Len(v) = k - 1  BY <3>2, <2>2
    <3> QED  BY <3>1, <3>3
  <2>5. Good(v)
    <3>1. ~(k <= k - 1)  BY <2>1
    <3>2. k - 1 \notin T  BY <2>1, <3>1, Zenon
    <3>3. k - 1 \in Nat
      <4>1. Len(v) \in Nat  OBVIOUS
      <4> QED  BY <4>1, <2>4
    <3> HIDE DEF Good
    <3> QED  BY <3>2, <3>3, <2>4
  <2>6. FlattenSeq(u) = FlattenSeq(v) \o x  BY <2>4, FlattenAppend
  <2>7. FlattenSeq(u) \in Seq(S)  BY <2>5, <2>6
  <2>8. ASSUME FlattenSeq(s) \in Seq(S)
        PROVE  FlattenSeq(s \o u) = FlattenSeq(s) \o FlattenSeq(u)
    <3>1. FlattenSeq(v) \in Seq(S)  BY <2>5, Zenon
    <3>2. FlattenSeq(s \o v) = FlattenSeq(s) \o FlattenSeq(v)  BY <2>5, <2>8, Zenon
    <3>3. FlattenSeq(s \o Append(v, x)) = FlattenSeq(s) \o FlattenSeq(Append(v, x))
      BY <2>4, <2>8, <3>1, <3>2, FlattenConcatStep, Zenon
    <3> QED  BY <3>3, <2>4, Zenon
  <2> QED  BY <2>7, <2>8, <2>2
<1>2. \A u \in Seq(Seq(S)) : Good(u)
  <2> SUFFICES ASSUME NEW u \in Seq(Seq(S)), ~Good(u) PROVE FALSE  OBVIOUS
  <2>1. Len(u) \in Nat  OBVIOUS
  <2> HIDE DEF Good
  <2> QED  BY <2>1, <1>1
<1>3. FlattenSeq(s) \in Seq(S)  BY <1>2
<1> QED  BY <1>2, <1>3

-----------------------------------------------------------------------------
(* The images n copies of a job expose: none, and one copy at a time. *)
LEMMA JobExposures ==
  ASSUME NEW j \in Job, NEW n \in Nat
  PROVE  /\ Exposures(j, n) \in Seq(Nat)
         /\ Exposures(j, 0) = <<>>
         /\ Exposures(j, 1) = j.images
         /\ Exposures(j, n + 1) = j.images \o Exposures(j, n)
<1> DEFINE im == j.images
           copies(k) == [c \in 1 .. k |-> im]
<1>1. im \in Seq(Nat)  BY DEF Job
<1> HIDE DEF im
<1>2. ASSUME NEW k \in Nat PROVE copies(k) \in Seq(Seq(Nat))  BY <1>1
<1>3. <<im>> \in Seq(Seq(Nat)) /\ FlattenSeq(<<im>>) = im
  <2>1. <<im>> \in Seq(Seq(Nat))  BY <1>1
  <2> QED  BY <2>1, <1>1, FlattenOne, Zenon
<1>4. copies(n + 1) = <<im>> \o copies(n)
  <2>1. copies(n + 1) \in Seq(Seq(Nat)) /\ <<im>> \o copies(n) \in Seq(Seq(Nat))
    BY <1>2, <1>3
  <2>2. Len(copies(n + 1)) = n + 1 /\ Len(<<im>> \o copies(n)) = n + 1  OBVIOUS
  <2>3. \A k \in 1 .. n + 1 : copies(n + 1)[k] = (<<im>> \o copies(n))[k]  OBVIOUS
  <2> HIDE DEF copies
  <2> QED  BY <2>1, <2>2, <2>3, SeqEqual
<1>5. FlattenSeq(copies(n)) \in Seq(Nat)
      /\ FlattenSeq(<<im>> \o copies(n)) = im \o FlattenSeq(copies(n))
  <2>1. copies(n) \in Seq(Seq(Nat))  BY <1>2
  <2> HIDE DEF copies
  <2> QED  BY <2>1, <1>3, FlattenConcat
<1>6. copies(0) = <<>> /\ copies(1) = <<im>>
  <2>1. Len(copies(0)) = 0 /\ Len(copies(1)) = 1 /\ copies(1)[1] = im  OBVIOUS
  <2>2. copies(0) \in Seq(Seq(Nat)) /\ copies(1) \in Seq(Seq(Nat))  BY <1>2
  <2> HIDE DEF copies
  <2> QED  BY <2>1, <2>2
<1> HIDE DEF copies
<1>7. \A k : Exposures(j, k) = FlattenSeq(copies(k))  BY DEF Exposures, copies, im
<1> QED  BY <1>3, <1>4, <1>5, <1>6, <1>7, FlattenEmpty, Zenon DEF im

(* The images of a list are those of its first job and those of the rest, *)
(* or those of all but the last job and those of the last.                *)
LEMMA ListExposures ==
  ASSUME NEW js \in Seq(Job), NEW j \in Job
  PROVE  /\ ExposuresOf(js) \in Seq(Nat)
         /\ ExposuresOf(<<>>) = <<>>
         /\ ExposuresOf(Append(js, j)) = ExposuresOf(js) \o Exposures(j, j.copies)
         /\ ExposuresOf(<<j>> \o js) = Exposures(j, j.copies) \o ExposuresOf(js)
<1> DEFINE X(i) == Exposures(i, i.copies)
           all(s) == [k \in DOMAIN s |-> X(s[k])]
<1>1. \A i \in Job : X(i) \in Seq(Nat)
  <2> SUFFICES ASSUME NEW i \in Job PROVE X(i) \in Seq(Nat)  OBVIOUS
  <2>1. i.copies \in Nat  BY DEF Job
  <2> QED  BY <2>1, JobExposures
<1> HIDE DEF X
<1>2. ASSUME NEW s \in Seq(Job)
      PROVE  all(s) \in Seq(Seq(Nat)) /\ Len(all(s)) = Len(s)
  <2>1. \A k \in 1 .. Len(s) : X(s[k]) \in Seq(Nat)  BY <1>1
  <2>2. DOMAIN s = 1 .. Len(s) /\ Len(s) \in Nat  OBVIOUS
  <2> QED  BY <2>1, <2>2
<1>3. all(Append(js, j)) = Append(all(js), X(j))
  <2>1. /\ Append(js, j) \in Seq(Job) /\ Len(Append(js, j)) = Len(js) + 1
        /\ Append(js, j)[Len(js) + 1] = j
        /\ \A k \in 1 .. Len(js) : Append(js, j)[k] = js[k]
        /\ Len(js) \in Nat
    OBVIOUS
  <2> DEFINE s == Append(js, j)
  <2> HIDE DEF s
  <2>2. /\ s \in Seq(Job) /\ Len(s) = Len(js) + 1 /\ s[Len(js) + 1] = j
        /\ \A k \in 1 .. Len(js) : s[k] = js[k]
    BY <2>1 DEF s
  <2>3. /\ DOMAIN s = 1 .. Len(js) + 1 /\ DOMAIN js = 1 .. Len(js)  BY <2>2, <2>1
  <2>4. all(s)[Len(js) + 1] = X(j) /\ \A k \in 1 .. Len(js) : all(s)[k] = all(js)[k]
    BY <2>2, <2>3, <2>1
  <2>5. /\ all(s) \in Seq(Seq(Nat)) /\ all(js) \in Seq(Seq(Nat)) /\ X(j) \in Seq(Nat)
        /\ Len(all(s)) = Len(js) + 1 /\ Len(all(js)) = Len(js)
    BY <1>1, <1>2, <2>2
  <2> DEFINE a == all(s)
             b == all(js)
             x == X(j)
  <2>6. /\ a \in Seq(Seq(Nat)) /\ b \in Seq(Seq(Nat)) /\ x \in Seq(Nat)
        /\ Len(a) = Len(b) + 1 /\ a[Len(b) + 1] = x /\ \A k \in 1 .. Len(b) : a[k] = b[k]
    BY <2>4, <2>5
  <2> HIDE DEF a, b, x
  <2>7. /\ Append(b, x) \in Seq(Seq(Nat)) /\ Len(Append(b, x)) = Len(a)
        /\ \A k \in 1 .. Len(a) : a[k] = Append(b, x)[k]
    BY <2>6
  <2>8. a = Append(b, x)  BY <2>6, <2>7, SeqEqual
  <2> QED  BY <2>8 DEF a, b, s, x
<1>4. all(<<j>> \o js) = <<X(j)>> \o all(js)
  <2> DEFINE s == <<j>> \o js
  <2>1. /\ s \in Seq(Job) /\ Len(s) = Len(js) + 1 /\ s[1] = j
        /\ \A k \in 2 .. Len(js) + 1 : s[k] = js[k - 1]
        /\ Len(js) \in Nat
    OBVIOUS
  <2> HIDE DEF s
  <2>3. /\ DOMAIN s = 1 .. Len(js) + 1 /\ DOMAIN js = 1 .. Len(js)  BY <2>1
  <2>4. all(s)[1] = X(j) /\ \A k \in 2 .. Len(js) + 1 : all(s)[k] = all(js)[k - 1]
    BY <2>1, <2>3
  <2>5. /\ all(s) \in Seq(Seq(Nat)) /\ all(js) \in Seq(Seq(Nat)) /\ X(j) \in Seq(Nat)
        /\ Len(all(s)) = Len(js) + 1 /\ Len(all(js)) = Len(js)
    BY <1>1, <1>2, <2>1
  <2> DEFINE a == all(s)
             b == all(js)
             x == X(j)
  <2>6. /\ a \in Seq(Seq(Nat)) /\ b \in Seq(Seq(Nat)) /\ x \in Seq(Nat)
        /\ Len(a) = Len(b) + 1 /\ a[1] = x /\ \A k \in 2 .. Len(b) + 1 : a[k] = b[k - 1]
    BY <2>4, <2>5
  <2> HIDE DEF a, b, x
  <2>7. /\ <<x>> \o b \in Seq(Seq(Nat)) /\ Len(<<x>> \o b) = Len(a)
        /\ \A k \in 1 .. Len(a) : a[k] = (<<x>> \o b)[k]
    BY <2>6
  <2>8. a = <<x>> \o b  BY <2>6, <2>7, SeqEqual
  <2> QED  BY <2>8 DEF a, b, s, x
<1>5. all(<<>>) = <<>>  OBVIOUS
<1>6. \A s : ExposuresOf(s) = FlattenSeq(all(s))  BY DEF ExposuresOf, X
<1> HIDE DEF all
<1>7. all(js) \in Seq(Seq(Nat)) /\ X(j) \in Seq(Nat)  BY <1>1, <1>2
<1>8. /\ FlattenSeq(all(js)) \in Seq(Nat)
      /\ FlattenSeq(Append(all(js), X(j))) = FlattenSeq(all(js)) \o X(j)
  BY <1>7, FlattenAppend, FlattenConcat
<1>9. FlattenSeq(<<X(j)>> \o all(js)) = X(j) \o FlattenSeq(all(js))
  <2>1. FlattenSeq(<<X(j)>>) = X(j)  BY <1>7, FlattenOne, Zenon
  <2>2. <<X(j)>> \in Seq(Seq(Nat))  BY <1>7
  <2>3. FlattenSeq(<<X(j)>> \o all(js)) = FlattenSeq(<<X(j)>>) \o FlattenSeq(all(js))
    BY <2>2, <1>7, FlattenConcat
  <2> QED  BY <2>1, <2>3
<1> QED  BY <1>3, <1>4, <1>5, <1>6, <1>8, <1>9, FlattenEmpty DEF X

(* What the mapping needs to know besides: every job has an image and a     *)
(* copy left, an error ends the document, and nothing is printed before a   *)
(* page was read.                                                           *)
StatusInv ==
  /\ \A k \in DOMAIN list : list[k].images # <<>>
  /\ \A k \in DOMAIN jobs : jobs[k].images # <<>>
  /\ ret = Failed => pc \in {"cleanup", "done"}
  /\ pc = "cleanup" => ret = Failed
  /\ pc \in {"print", "loop", "printed", "cleanup"} => pagesRead
  /\ pc = "read" /\ ~pagesRead => list = <<>>

(* What the invariants say of the job that is appended to the list.         *)
LEMMA JobAtHand ==
  ASSUME JobsAssumption, IInv, OverInv, LeakInv, StatusInv, jobs # <<>>
  PROVE  /\ pc = "append" /\ Head(jobs) \in Job /\ jobs = <<Head(jobs)>> /\ Tail(jobs) = <<>>
         /\ Head(jobs).copies \in {1, 2} /\ Head(jobs).images # <<>>
         /\ Len(list) < MaxEntries /\ MaxEntries \in Nat /\ list \in Seq(Job)
         /\ ret = OK
<1>1. /\ jobs \in Seq(Job) /\ list \in Seq(Job) /\ ret \in {OK, Failed}
      /\ MaxEntries \in Nat
  BY DEF IInv, TypeOK, JobsAssumption
<1>2. Len(jobs) = 1
  <2>1. Len(jobs) \in Nat /\ Len(jobs) # 0  BY <1>1
  <2>2. Len(jobs) <= 1  BY Zenon DEF LeakInv
  <2> DEFINE n == Len(jobs)
  <2>3. n \in Nat /\ n # 0 /\ n <= 1  BY <2>1, <2>2, Zenon
  <2> HIDE DEF n
  <2>4. n = 1  BY <2>3
  <2> QED  BY <2>4 DEF n
<1>3. jobs = <<Head(jobs)>> /\ Head(jobs) \in Job /\ 1 \in DOMAIN jobs /\ Head(jobs) = jobs[1]
  BY <1>1, <1>2
<1>4. pc = "append"  BY DEF LeakInv
<1>5. ret = OK  BY <1>1, <1>4 DEF StatusInv
<1> QED  BY <1>1, <1>3, <1>4, <1>5, LastJob DEF StatusInv

(* With a slot left, the new job follows the list. *)
LEMMA AddJobAppends ==
  ASSUME NEW l \in Seq(Job), NEW j, Len(l) < MaxEntries, MaxEntries \in Nat
  PROVE  AddJob(l, j) = Append(l, j)
<1>1. ~(Len(l) >= MaxEntries)
  <2>1. Len(l) \in Nat  OBVIOUS
  <2> QED  BY <2>1
<1> QED  BY <1>1 DEF AddJob

(* All jobs of a sequence have an image. *)
AllImages(js) == \A k \in DOMAIN js : js[k].images # <<>>

(* A job with an image keeps a list of such jobs one. *)
LEMMA AppendImages ==
  ASSUME NEW l \in Seq(Job), NEW j \in Job, AllImages(l), j.images # <<>>
  PROVE  AllImages(Append(l, j)) /\ Append(l, j) \in Seq(Job) /\ Len(Append(l, j)) = Len(l) + 1
<1>1. /\ Append(l, j) \in Seq(Job) /\ DOMAIN Append(l, j) = 1 .. Len(l) + 1
      /\ Append(l, j)[Len(l) + 1] = j /\ \A k \in 1 .. Len(l) : Append(l, j)[k] = l[k]
      /\ DOMAIN l = 1 .. Len(l) /\ Len(l) \in Nat /\ Len(Append(l, j)) = Len(l) + 1
  OBVIOUS
<1>2. \A k \in 1 .. Len(l) + 1 : k \in 1 .. Len(l) \/ k = Len(l) + 1  BY <1>1
<1> QED  BY <1>1, <1>2 DEF AllImages

(* What an append adds: the images of the job, merged or not, in their      *)
(* order.  All jobs keep their images.                                      *)
Adds(newList) ==
  /\ newList \in Seq(Job) /\ AllImages(newList)
  /\ ExposuresOf(newList) = ExposuresOf(list) \o Exposures(Head(jobs), Head(jobs).copies)

(* A job added as it is adds its images. *)
LEMMA PlainAdds ==
  ASSUME JobsAssumption, IInv, OverInv, LeakInv, StatusInv, jobs # <<>>
  PROVE  Adds(AddJob(list, Head(jobs)))
<1>1. AllImages(list)  BY DEF StatusInv, AllImages
<1>2. AddJob(list, Head(jobs)) = Append(list, Head(jobs))  BY JobAtHand, AddJobAppends
<1>3. /\ list \in Seq(Job) /\ Head(jobs) \in Job /\ Head(jobs).images # <<>>  BY JobAtHand
<1>4. /\ AllImages(Append(list, Head(jobs))) /\ Append(list, Head(jobs)) \in Seq(Job)
  BY <1>1, <1>3, AppendImages
<1>5. ExposuresOf(Append(list, Head(jobs)))
        = ExposuresOf(list) \o Exposures(Head(jobs), Head(jobs).copies)
  BY <1>3, ListExposures
<1> QED  BY <1>2, <1>4, <1>5 DEF Adds

(* A job merged with the last entry adds its images to that entry's, and    *)
(* its second copy follows as an entry of its own.                          *)
LEMMA MergeAdds ==
  ASSUME JobsAssumption, IInv, OverInv, LeakInv, StatusInv, AppendToLast
  PROVE  \E newList : Adds(newList) /\ Appending(newList)
<1> DEFINE job  == Head(jobs)
           old  == Last(list)
           rest == job.copies - 1
           both(b) == Combined(b, old, job, old.copies)
<1>1. /\ jobs # <<>> /\ FitsLast(job)
      /\ \E b \in Buffers \ live :
           LET merged == AddJob(Front(list), both(b)) IN
           Appending(IF rest = 1 THEN AddJob(merged, WithCopies(job, rest)) ELSE merged)
  BY DEF AppendToLast
<1>2. PICK b \in Buffers \ live :
           LET merged == AddJob(Front(list), both(b)) IN
           Appending(IF rest = 1 THEN AddJob(merged, WithCopies(job, rest)) ELSE merged)
  BY <1>1
<1>3. /\ job \in Job /\ job.copies \in {1, 2} /\ job.images # <<>>
      /\ list \in Seq(Job) /\ list # <<>> /\ Len(list) < MaxEntries /\ MaxEntries \in Nat
  BY <1>1, JobAtHand DEF FitsLast, Mergeable
<1>4. /\ Front(list) \in Seq(Job) /\ old \in Job /\ list = Append(Front(list), old)
      /\ Len(Front(list)) = Len(list) - 1 /\ Len(list) \in Nat
      /\ AllImages(Front(list)) /\ old.images # <<>> /\ old.copies = 1
  <2>1. PICK l \in Seq(Job), e \in Job : list = Append(l, e)  BY <1>3, SequenceEmptyOrAppend
  <2>2. /\ Len(list) = Len(l) + 1 /\ Len(l) \in Nat /\ list[Len(l) + 1] = e
        /\ DOMAIN l = 1 .. Len(l) /\ DOMAIN list = 1 .. Len(l) + 1
        /\ \A k \in 1 .. Len(l) : list[k] = l[k]
    BY <2>1
  <2>3. old = e  BY <2>2 DEF Last
  <2>4. Front(list) = l
    <3>1. Front(list) = SubSeq(list, 1, Len(l))
      <4>1. Len(list) - 1 = Len(l)  BY <2>2
      <4> QED  BY <4>1, Zenon DEF Front
    <3>2. /\ SubSeq(list, 1, Len(l)) \in Seq(Job) /\ Len(SubSeq(list, 1, Len(l))) = Len(l)
          /\ \A k \in 1 .. Len(l) : SubSeq(list, 1, Len(l))[k] = l[k]
      BY <1>3, <2>2
    <3> QED  BY <3>1, <3>2, <2>1, SeqEqual
  <2>5. \A k \in 1 .. Len(l) + 1 : list[k].images # <<>> /\ list[k].copies >= 1
    BY <2>2 DEF StatusInv, OverInv
  <2>6. AllImages(l) /\ e.images # <<>> /\ e.copies >= 1
    <3>1. Len(l) + 1 \in 1 .. Len(l) + 1 /\ \A k \in 1 .. Len(l) : k \in 1 .. Len(l) + 1  BY <2>2
    <3> QED  BY <3>1, <2>2, <2>5 DEF AllImages
  <2>7. old.copies <= 1  BY <1>1 DEF FitsLast, Mergeable
  <2>8. e.copies = 1
    <3>1. e.copies \in Nat  BY <2>1 DEF Job
    <3> QED  BY <3>1, <2>3, <2>6, <2>7
  <2> QED  BY <2>1, <2>2, <2>3, <2>4, <2>6, <2>8
<1>5. /\ both(b) \in Job /\ both(b).copies = 1 /\ both(b).images = old.images \o job.images
      /\ both(b).images # <<>>
  <2>1. both(b) = [buf |-> b, images |-> old.images \o job.images, copies |-> 1,
                   cc |-> KeepsCombine, kind |-> Double]
    BY <1>4 DEF Combined
  <2>2. old.images \in Seq(Nat) /\ job.images \in Seq(Nat)  BY <1>3, <1>4 DEF Job
  <2>3. old.images \o job.images \in Seq(Nat) /\ old.images \o job.images # <<>>
    <3> HIDE DEF old, job
    <3> QED  BY <2>2, <1>3, ConcatProperties, ConcatEqualIffEmpty
  <2>4. both(b) \in Job
    <3>1. old.copies \in Nat /\ b \in Buffers  BY <1>2, <1>4 DEF Job
    <3> QED  BY <3>1, <1>3, <1>4, CombinedType
  <2> DEFINE sheet == both(b)
             im == old.images \o job.images
  <2>5. sheet = [buf |-> b, images |-> im, copies |-> 1, cc |-> KeepsCombine, kind |-> Double]
    BY <2>1
  <2> HIDE DEF sheet, im
  <2>6. sheet.copies = 1 /\ sheet.images = im  BY <2>5
  <2> QED  BY <2>3, <2>4, <2>6 DEF sheet, im
<1> HIDE DEF job, old, both
<1> DEFINE merged == AddJob(Front(list), both(b))
<1>6. /\ merged \in Seq(Job) /\ Len(merged) = Len(list) /\ AllImages(merged)
      /\ ExposuresOf(merged) = ExposuresOf(list) \o job.images
      /\ ExposuresOf(list) \in Seq(Nat)
  <2>1. merged = Append(Front(list), both(b))
    <3>1. Len(Front(list)) < MaxEntries  BY <1>3, <1>4
    <3> QED  BY <3>1, <1>3, <1>4, AddJobAppends
  <2>2. /\ Append(Front(list), both(b)) \in Seq(Job) /\ AllImages(Append(Front(list), both(b)))
        /\ Len(Append(Front(list), both(b))) = Len(Front(list)) + 1
    BY <1>4, <1>5, AppendImages
  <2>3. ExposuresOf(Append(Front(list), both(b)))
          = ExposuresOf(Front(list)) \o (old.images \o job.images)
    <3>1. Exposures(both(b), both(b).copies) = both(b).images
      <4>1. 1 \in Nat  OBVIOUS
      <4> QED  BY <4>1, <1>5, JobExposures
    <3> QED  BY <3>1, <1>4, <1>5, ListExposures
  <2>4. ExposuresOf(list) = ExposuresOf(Front(list)) \o old.images
    <3>1. Exposures(old, old.copies) = old.images
      <4>1. 1 \in Nat  OBVIOUS
      <4> QED  BY <4>1, <1>4, JobExposures
    <3> QED  BY <3>1, <1>4, ListExposures
  <2>5. ExposuresOf(Front(list)) \in Seq(Nat) /\ ExposuresOf(list) \in Seq(Nat)
        /\ old.images \in Seq(Nat) /\ job.images \in Seq(Nat)
    <3>1. old.images \in Seq(Nat) /\ job.images \in Seq(Nat)  BY <1>3, <1>4 DEF Job
    <3> QED  BY <3>1, <1>3, <1>4, ListExposures
  <2>6. ExposuresOf(Front(list)) \o (old.images \o job.images)
          = (ExposuresOf(Front(list)) \o old.images) \o job.images
    <3> DEFINE u == ExposuresOf(Front(list))
               v == old.images
               w == job.images
    <3>1. u \in Seq(Nat) /\ v \in Seq(Nat) /\ w \in Seq(Nat)  BY <2>5
    <3> HIDE DEF u, v, w
    <3>2. Associate(u, v, w)  BY <3>1, ImagesAssociative, Zenon
    <3> QED  BY <3>2 DEF u, v, w, Associate
  <2> HIDE DEF merged
  <2> QED  BY <2>1, <2>2, <2>3, <2>4, <2>5, <2>6, <1>4
<1>7. CASE rest = 1
  <2>1. job.copies = 2  BY <1>3, <1>7
  <2>2. WithCopies(job, rest) \in Job /\ WithCopies(job, rest).images = job.images
        /\ WithCopies(job, rest).copies = 1
    <3>1. rest = 1 /\ 1 \in Nat  BY <1>7
    <3>2. WithCopies(job, 1) \in Job  BY <3>1, <1>3, WithCopiesType
    <3>3. WithCopies(job, 1).images = job.images /\ WithCopies(job, 1).copies = 1
      BY <1>3 DEF WithCopies, Job
    <3> QED  BY <3>1, <3>2, <3>3
  <2> DEFINE one == WithCopies(job, rest)
             newList == Append(merged, one)
  <2> HIDE DEF merged, one, rest
  <2>3. AddJob(merged, one) = newList  BY <1>3, <1>6, AddJobAppends
  <2>4. Appending(newList)  BY <1>2, <1>7, <2>3 DEF merged, one
  <2>5. one \in Job /\ one.images = job.images /\ one.copies = 1 /\ one.images # <<>>
    BY <2>2, <1>3 DEF one
  <2>6. newList \in Seq(Job) /\ AllImages(newList)  BY <1>6, <2>5, AppendImages
  <2>7. ExposuresOf(newList) = ExposuresOf(merged) \o job.images
    <3>1. Exposures(one, one.copies) = one.images
      <4>1. 1 \in Nat  OBVIOUS
      <4> QED  BY <4>1, <2>5, JobExposures
    <3> QED  BY <3>1, <1>6, <2>5, ListExposures
  <2>8. Exposures(job, job.copies) = job.images \o job.images
    <3>1. 1 \in Nat /\ 1 + 1 = 2  OBVIOUS
    <3>2. Exposures(job, 1 + 1) = job.images \o Exposures(job, 1) /\ Exposures(job, 1) = job.images
      BY <3>1, <1>3, JobExposures
    <3> QED  BY <3>1, <3>2, <2>1
  <2>9. ExposuresOf(newList) = ExposuresOf(list) \o (job.images \o job.images)
    <3>1. job.images \in Seq(Nat)  BY <1>3 DEF Job
    <3>2. (ExposuresOf(list) \o job.images) \o job.images
             = ExposuresOf(list) \o (job.images \o job.images)
      <4> DEFINE u == ExposuresOf(list)
                 v == job.images
                 w == job.images
      <4>1. u \in Seq(Nat) /\ v \in Seq(Nat) /\ w \in Seq(Nat)  BY <3>1, <1>6
      <4> HIDE DEF u, v, w
      <4>2. Associate(u, v, w)  BY <4>1, ImagesAssociative, Zenon
      <4> QED  BY <4>2 DEF u, v, w, Associate
    <3> QED  BY <3>2, <2>7, <1>6
  <2>10. Adds(newList)  BY <2>6, <2>8, <2>9 DEF Adds, job
  <2> QED  BY <2>4, <2>10
<1>8. CASE rest # 1
  <2>1. job.copies = 1  BY <1>3, <1>8
  <2>2. Exposures(job, job.copies) = job.images
    <3>1. 1 \in Nat  OBVIOUS
    <3> QED  BY <3>1, <2>1, <1>3, JobExposures
  <2>3. Appending(merged)  BY <1>2, <1>8
  <2> HIDE DEF merged
  <2>4. Adds(merged)  BY <2>2, <1>6 DEF Adds, job
  <2> QED  BY <2>3, <2>4
<1> QED  BY <1>7, <1>8

(* Two copies of a job on one sheet add its images twice. *)
LEMMA PairAdds ==
  ASSUME JobsAssumption, IInv, OverInv, LeakInv, StatusInv, AppendCopies
  PROVE  \E newList : Adds(newList) /\ Appending(newList)
<1> DEFINE job == Head(jobs)
           pairs(b) == Combined(b, job, job, Pairs(job.copies))
<1>1. jobs # <<>> /\ FitsCopies(job)  BY DEF AppendCopies
<1>2. /\ job \in Job /\ job.copies \in {1, 2} /\ job.images # <<>>
      /\ list \in Seq(Job) /\ Len(list) < MaxEntries /\ MaxEntries \in Nat
      /\ job.images \in Seq(Nat)
  BY <1>1, JobAtHand DEF Job
<1>3. job.copies = 2  BY <1>1, <1>2 DEF FitsCopies
<1>4. job.copies % 2 = 0 /\ Pairs(job.copies) = 1  BY <1>3 DEF Pairs
<1>5. PICK b \in Buffers \ live : Appending(AddJob(list, pairs(b)))
  <2> DEFINE odd == job.copies % 2
             withOdd(l) == IF odd = 1 THEN AddJob(l, WithCopies(job, odd)) ELSE l
  <2>1. PICK b \in Buffers \ live, hook \in Polarities :
          Appending(IF hook /\ ~Mergeable(list) THEN AddJob(withOdd(list), pairs(b))
                    ELSE withOdd(AddJob(list, pairs(b))))
    BY DEF AppendCopies
  <2>2. \A l : withOdd(l) = l  BY <1>4
  <2> HIDE DEF withOdd
  <2>3. (IF hook /\ ~Mergeable(list) THEN AddJob(withOdd(list), pairs(b))
           ELSE withOdd(AddJob(list, pairs(b)))) = AddJob(list, pairs(b))
    BY <2>2
  <2> QED  BY <2>1, <2>3
<1>6. /\ pairs(b) \in Job /\ pairs(b).copies = 1 /\ pairs(b).images = job.images \o job.images
      /\ pairs(b).images # <<>>
  <2>1. pairs(b) = [buf |-> b, images |-> job.images \o job.images, copies |-> 1,
                    cc |-> KeepsCombine, kind |-> Double]
    BY <1>4 DEF Combined
  <2>2. job.images \o job.images \in Seq(Nat) /\ job.images \o job.images # <<>>
    <3> HIDE DEF job
    <3> QED  BY <1>2, ConcatProperties, ConcatEqualIffEmpty
  <2> HIDE DEF pairs, job
  <2> QED  BY <2>1, <2>2, <1>5 DEF Job, JobsAssumption
<1> HIDE DEF job, pairs
<1>7. AddJob(list, pairs(b)) = Append(list, pairs(b))  BY <1>2, AddJobAppends
<1>8. Append(list, pairs(b)) \in Seq(Job) /\ AllImages(Append(list, pairs(b)))
  <2>1. AllImages(list)  BY DEF StatusInv, AllImages
  <2> QED  BY <2>1, <1>2, <1>6, AppendImages
<1>9. Exposures(job, job.copies) = job.images \o job.images
  <2>1. 1 \in Nat /\ 1 + 1 = 2  OBVIOUS
  <2>2. Exposures(job, 1 + 1) = job.images \o Exposures(job, 1) /\ Exposures(job, 1) = job.images
    BY <2>1, <1>2, JobExposures
  <2> QED  BY <2>1, <2>2, <1>3
<1>10. ExposuresOf(Append(list, pairs(b))) = ExposuresOf(list) \o Exposures(job, job.copies)
  <2>1. Exposures(pairs(b), pairs(b).copies) = pairs(b).images
    <3>1. 1 \in Nat  OBVIOUS
    <3> QED  BY <3>1, <1>6, JobExposures
  <2> QED  BY <2>1, <1>2, <1>6, <1>9, ListExposures
<1>11. Adds(Append(list, pairs(b)))  BY <1>8, <1>10 DEF Adds, job
<1> QED  BY <1>5, <1>7, <1>11

(* The copies of one page expose it that often. *)
LEMMA PageExposures ==
  ASSUME NEW j \in Job, NEW i \in Nat, j.images = <<i>>, NEW n \in Nat
  PROVE  Exposures(j, n) = [k \in 1 .. n |-> i]
<1> DEFINE page(k) == [c \in 1 .. k |-> i]
           T == {k \in Nat : Exposures(j, k) # page(k)}
<1>1. T = {}
  <2> SUFFICES ASSUME T # {} PROVE FALSE  OBVIOUS
  <2>1. PICK k \in T : \A l \in T : k <= l
    <3>1. T \in SUBSET Nat  OBVIOUS
    <3> HIDE DEF T
    <3> QED  BY <3>1, LeastNat
  <2>2. k \in Nat /\ Exposures(j, k) # page(k)  BY <2>1
  <2>3. k # 0
    <3>1. page(0) = <<>>
      <4>1. page(0) \in Seq(Nat) /\ Len(page(0)) = 0  OBVIOUS
      <4> HIDE DEF page
      <4> QED  BY <4>1
    <3>2. 0 \in Nat  OBVIOUS
    <3> HIDE DEF page
    <3>3. Exposures(j, 0) = page(0)  BY <3>1, <3>2, JobExposures
    <3> QED  BY <3>3, <2>2
  <2>4. k - 1 \in Nat /\ (k - 1) + 1 = k /\ ~(k <= k - 1)  BY <2>2, <2>3
  <2>5. Exposures(j, k - 1) = page(k - 1)  BY <2>1, <2>4
  <2>6. Exposures(j, k) = <<i>> \o page(k - 1)
    <3> HIDE DEF page
    <3>1. Exposures(j, (k - 1) + 1) = j.images \o Exposures(j, k - 1)  BY <2>4, JobExposures
    <3> QED  BY <3>1, <2>4, <2>5
  <2>7. page(k) = <<i>> \o page(k - 1)
    <3> DEFINE a == page(k)
               b == <<i>> \o page(k - 1)
    <3>1. page(k - 1) \in Seq(Nat) /\ Len(page(k - 1)) = k - 1  BY <2>4
    <3>2. a \in Seq(Nat) /\ b \in Seq(Nat) /\ Len(a) = k /\ Len(b) = k  BY <2>2, <2>4, <3>1
    <3>3. \A c \in 1 .. k : a[c] = b[c]  BY <2>2, <2>4, <3>1
    <3> HIDE DEF a, b
    <3>4. a = b  BY <3>2, <3>3, SeqEqual
    <3> QED  BY <3>4 DEF a, b
  <2> QED  BY <2>2, <2>6, <2>7
<1>2. n \in Nat /\ n \notin T  BY <1>1
<1> QED  BY <1>2

(* What is left of a sequence without its front. *)
LEMMA WithoutFront ==
  ASSUME NEW u \in Seq(Nat), NEW v \in Seq(Nat), NEW w \in Seq(Nat)
  PROVE  LET p == u \o (v \o w) IN
         /\ p \in Seq(Nat) /\ Len(p) = Len(u) + Len(v) + Len(w)
         /\ SubSeq(p, 1, Len(u)) = u
         /\ SubSeq(p, Len(u) + Len(v) + 1, Len(p)) = w
<1> DEFINE p == u \o (v \o w)
           a == Len(u)
           b == Len(v)
           c == Len(w)
           h == SubSeq(p, 1, a)
           t == SubSeq(p, a + b + 1, Len(p))
<1>1. a \in Nat /\ b \in Nat /\ c \in Nat  OBVIOUS
<1>2. /\ p \in Seq(Nat) /\ Len(p) = a + b + c
      /\ \A k \in 1 .. a : p[k] = u[k]
      /\ \A k \in 1 .. c : p[a + b + k] = w[k]
  <2> DEFINE q == v \o w
  <2>1. q \in Seq(Nat) /\ Len(q) = b + c /\ \A k \in 1 .. c : q[b + k] = w[k]  OBVIOUS
  <2> HIDE DEF q
  <2>2. /\ u \o q \in Seq(Nat) /\ Len(u \o q) = a + Len(q)
        /\ \A k \in 1 .. a : (u \o q)[k] = u[k]
        /\ \A k \in 1 .. Len(q) : (u \o q)[a + k] = q[k]
    <3>1. q \in Seq(Nat) /\ u \in Seq(Nat)  BY <2>1
    <3> QED  BY <3>1
  <2>3. \A k \in 1 .. c : b + k \in 1 .. b + c /\ a + (b + k) = a + b + k  BY <1>1
  <2>4. p = u \o q  BY DEF q
  <2> HIDE DEF p, a, b, c
  <2>5. Len(p) = a + b + c  BY <2>1, <2>2, <2>4, <1>1
  <2>6. \A k \in 1 .. c : p[a + b + k] = w[k]
    <3> SUFFICES ASSUME NEW k \in 1 .. c PROVE p[a + b + k] = w[k]  OBVIOUS
    <3>1. b + k \in 1 .. Len(q) /\ a + (b + k) = a + b + k  BY <2>1, <2>3
    <3>2. p[a + (b + k)] = q[b + k]  BY <3>1, <2>2, <2>4
    <3> QED  BY <3>1, <3>2, <2>1
  <2> QED  BY <2>2, <2>4, <2>5, <2>6
<1> HIDE DEF p
<1>3. h = u
  <2>1. h \in Seq(Nat) /\ Len(h) = a /\ \A k \in 1 .. a : h[k] = p[k]  BY <1>1, <1>2
  <2> HIDE DEF h
  <2> QED  BY <2>1, <1>2, SeqEqual
<1>4. t = w
  <2>1. /\ t \in Seq(Nat) /\ Len(t) = c
        /\ \A k \in 1 .. c : t[k] = p[a + b + k]
    <3> HIDE DEF a, b, c
    <3> DEFINE m == a + b + 1
               n == Len(p)
    <3>1. m \in Nat /\ m >= 1 /\ n \in Nat /\ n + 1 - m = c /\ m <= n + 1
      BY <1>1, <1>2
    <3>2. \A k \in 1 .. c : m + k - 1 = a + b + k /\ k \in 1 .. n + 1 - m  BY <1>1, <3>1
    <3> HIDE DEF m
    <3>4. m \in Int /\ n \in Int /\ (\A k \in m .. n : p[k] \in Nat) /\ n - m + 1 = c
          /\ (IF m <= n THEN c ELSE 0) = c
      <4>1. \A k \in 1 .. n : p[k] \in Nat  BY <1>2
      <4>2. \A k \in m .. n : k \in 1 .. n  BY <3>1
      <4>3. n - m + 1 = c /\ (~(m <= n) => c = 0)  BY <3>1, <1>1
      <4> QED  BY <3>1, <4>1, <4>2, <4>3
    <3> HIDE DEF n, p
    <3>3. SubSeq(p, m, n) \in Seq(Nat) /\ Len(SubSeq(p, m, n)) = (IF m <= n THEN n - m + 1 ELSE 0)
          /\ \A k \in 1 .. n - m + 1 : SubSeq(p, m, n)[k] = p[m + k - 1]
      <4>1. m \in Int /\ n \in Int /\ (\A k \in m .. n : p[k] \in Nat)  BY <3>4
      <4> QED  BY <4>1, SubSeqProperties
    <3> QED  BY <3>1, <3>2, <3>3, <3>4 DEF m, n
  <2> HIDE DEF t
  <2> QED  BY <2>1, <1>2, SeqEqual
<1> QED  BY <1>1, <1>2, <1>3, <1>4 DEF p

-----------------------------------------------------------------------------
(* An empty list exposes nothing. *)
LEMMA EmptyExposures == ExposuresOf(<<>>) = <<>>
<1>1. [k \in DOMAIN <<>> |-> Exposures(<<>>[k], <<>>[k].copies)] = <<>>  OBVIOUS
<1> QED  BY <1>1, FlattenEmpty DEF ExposuresOf

(* DyesubRefinement's Pending, of the values of the variables it is made of. *)
PendingAt(p, js, l, nx, lf) ==
  (IF p = "loop" THEN Exposures(l[nx], lf) ELSE <<>>)
    \o ExposuresOf((CASE p \in {"read", "append"}  -> l
                      [] p = "print"               -> SubSeq(l, nx, Len(l))
                      [] p \in {"loop", "printed"} -> SubSeq(l, nx + 1, Len(l))
                      [] OTHER                     -> <<>>) \o js)

(* Pending of DyesubRefinement is that of the variables, before and after   *)
(* a step.                                                                  *)
LEMMA PendingNow ==
  /\ Pending = PendingAt(pc, jobs, list, next, left)
  /\ Pending' = PendingAt(pc', jobs', list', next', left')
BY DEF Pending, PendingAt, Entries

(* Pending at each place of handle_input, in a plain form. *)
LEMMA PendingIs ==
  ASSUME NEW l \in Seq(Job), NEW nx \in Nat \ {0}, NEW lf \in Nat
  PROVE  /\ PendingAt("read", <<>>, l, nx, lf) = ExposuresOf(l)
         /\ PendingAt("append", <<>>, l, nx, lf) = ExposuresOf(l)
         /\ \A j \in Job : PendingAt("append", <<j>>, l, nx, lf)
                             = ExposuresOf(l) \o Exposures(j, j.copies)
         /\ PendingAt("print", <<>>, l, nx, lf) = ExposuresOf(SubSeq(l, nx, Len(l)))
         /\ PendingAt("loop", <<>>, l, nx, lf)
              = Exposures(l[nx], lf) \o ExposuresOf(SubSeq(l, nx + 1, Len(l)))
         /\ PendingAt("printed", <<>>, l, nx, lf) = ExposuresOf(SubSeq(l, nx + 1, Len(l)))
         /\ \A p \in {"cleanup", "done", "crashed"} : PendingAt(p, <<>>, l, nx, lf) = <<>>
<1> DEFINE s1 == SubSeq(l, nx, Len(l))
           s2 == SubSeq(l, nx + 1, Len(l))
<1>1. s1 \in Seq(Job) /\ s2 \in Seq(Job)  OBVIOUS
<1>2. \A s \in Seq(Job) : s \o <<>> = s /\ <<>> \o s = s  OBVIOUS
<1>3. \A s \in Seq(Job) : ExposuresOf(s) \in Seq(Nat) /\ <<>> \o ExposuresOf(s) = ExposuresOf(s)
  <2> SUFFICES ASSUME NEW s \in Seq(Job)
               PROVE  ExposuresOf(s) \in Seq(Nat) /\ <<>> \o ExposuresOf(s) = ExposuresOf(s)
    OBVIOUS
  <2>1. ExposuresOf(s) \in Seq(Nat)
    <3>1. CASE s = <<>>
      <4>1. <<>> \in Seq(Nat)  OBVIOUS
      <4> QED  BY <3>1, <4>1, EmptyExposures, Zenon
    <3>2. CASE s # <<>>
      <4>1. PICK j \in Job : TRUE  BY <3>2, SequenceEmptyOrAppend
      <4> QED  BY <4>1, ListExposures
    <3> QED  BY <3>1, <3>2
  <2> DEFINE x == ExposuresOf(s)
  <2>2. x \in Seq(Nat)  BY <2>1
  <2> HIDE DEF x
  <2>3. <<>> \o x = x  BY <2>2
  <2> QED  BY <2>2, <2>3 DEF x
<1>4. ExposuresOf(<<>>) = <<>>  BY EmptyExposures
<1>5. \A j \in Job : l \o <<j>> = Append(l, j)
      /\ ExposuresOf(Append(l, j)) = ExposuresOf(l) \o Exposures(j, j.copies)
      /\ <<>> \o (ExposuresOf(l) \o Exposures(j, j.copies))
           = ExposuresOf(l) \o Exposures(j, j.copies)
  <2> SUFFICES ASSUME NEW j \in Job
               PROVE  /\ l \o <<j>> = Append(l, j)
                      /\ ExposuresOf(Append(l, j)) = ExposuresOf(l) \o Exposures(j, j.copies)
                      /\ <<>> \o (ExposuresOf(l) \o Exposures(j, j.copies))
                           = ExposuresOf(l) \o Exposures(j, j.copies)
    OBVIOUS
  <2>1. Append(l, j) \in Seq(Job)  OBVIOUS
  <2>2. ExposuresOf(Append(l, j)) = ExposuresOf(l) \o Exposures(j, j.copies)  BY ListExposures
  <2>3. l \o <<j>> = Append(l, j)  OBVIOUS
  <2> QED  BY <2>1, <2>2, <2>3, <1>3
<1> HIDE DEF s1, s2
<1>6. PendingAt("read", <<>>, l, nx, lf) = ExposuresOf(l)
  BY <1>2, <1>3 DEF PendingAt
<1>7. PendingAt("append", <<>>, l, nx, lf) = ExposuresOf(l)
  BY <1>2, <1>3 DEF PendingAt
<1>8. \A j \in Job : PendingAt("append", <<j>>, l, nx, lf)
                       = ExposuresOf(l) \o Exposures(j, j.copies)
  <2> SUFFICES ASSUME NEW j \in Job
               PROVE  PendingAt("append", <<j>>, l, nx, lf)
                        = ExposuresOf(l) \o Exposures(j, j.copies)
    OBVIOUS
  <2>1. PendingAt("append", <<j>>, l, nx, lf) = <<>> \o ExposuresOf(l \o <<j>>)
    BY DEF PendingAt
  <2> QED  BY <2>1, <1>5
<1>9. PendingAt("print", <<>>, l, nx, lf) = ExposuresOf(s1)
  <2>1. PendingAt("print", <<>>, l, nx, lf) = <<>> \o ExposuresOf(s1 \o <<>>)
    BY DEF PendingAt, s1
  <2> QED  BY <2>1, <1>1, <1>2, <1>3
<1>10. PendingAt("loop", <<>>, l, nx, lf) = Exposures(l[nx], lf) \o ExposuresOf(s2)
  <2>1. PendingAt("loop", <<>>, l, nx, lf) = Exposures(l[nx], lf) \o ExposuresOf(s2 \o <<>>)
    BY DEF PendingAt, s2
  <2> QED  BY <2>1, <1>1, <1>2
<1>11. PendingAt("printed", <<>>, l, nx, lf) = ExposuresOf(s2)
  <2>1. PendingAt("printed", <<>>, l, nx, lf) = <<>> \o ExposuresOf(s2 \o <<>>)
    BY DEF PendingAt, s2
  <2> QED  BY <2>1, <1>1, <1>2, <1>3
<1>12. \A p \in {"cleanup", "done", "crashed"} : PendingAt(p, <<>>, l, nx, lf) = <<>>
  <2> SUFFICES ASSUME NEW p \in {"cleanup", "done", "crashed"}
               PROVE  PendingAt(p, <<>>, l, nx, lf) = <<>>
    OBVIOUS
  <2>1. PendingAt(p, <<>>, l, nx, lf) = <<>> \o ExposuresOf(<<>> \o <<>>)
    BY DEF PendingAt
  <2>2. <<>> \o <<>> = <<>>  OBVIOUS
  <2> QED  BY <2>1, <2>2, <1>4
<1> QED  BY <1>6, <1>7, <1>8, <1>9, <1>10, <1>11, <1>12 DEF s1, s2

(* Pending while handle_input has a job to append. *)
LEMMA PendingWithJob ==
  ASSUME NEW l \in Seq(Job), NEW nx \in Nat \ {0}, NEW lf \in Nat, NEW j \in Job
  PROVE  PendingAt("append", <<j>>, l, nx, lf) = ExposuresOf(l) \o Exposures(j, j.copies)
BY PendingIs

(* The invariants of the refinement, and what they say in a plain form. *)
RInv == IInv /\ OverInv /\ LeakInv /\ StatusInv

(* The invariants in a plain form. *)
LEMMA Plain ==
  ASSUME JobsAssumption, RInv
  PROVE  /\ list \in Seq(Job) /\ jobs \in Seq(Job) /\ next \in Nat \ {0} /\ left \in Nat
         /\ images \in Nat /\ MaxImages \in Nat /\ ret \in {OK, Failed}
         /\ pc \in {"read", "append", "print", "loop", "printed", "cleanup", "done", "crashed"}
         /\ pc # "append" => jobs = <<>>
         /\ pc \notin {"cleanup", "done"} => ret = OK
         /\ Status = (IF ret = Failed THEN "CUPS_BACKEND_FAILED"
                      ELSE IF pc = "done" THEN "CUPS_BACKEND_OK" ELSE "printing")
<1>1. ret \in {OK, Failed}  BY DEF RInv, IInv, TypeOK
<1>2. pc \notin {"cleanup", "done"} => ret = OK  BY <1>1 DEF RInv, StatusInv
<1>3. Status = (IF ret = Failed THEN "CUPS_BACKEND_FAILED"
                ELSE IF pc = "done" THEN "CUPS_BACKEND_OK" ELSE "printing")
  BY <1>1 DEF Status, OK, Failed
<1>4. pc # "append" => jobs = <<>>  BY DEF RInv, LeakInv
<1> QED  BY <1>1, <1>2, <1>3, <1>4 DEF RInv, IInv, TypeOK, JobsAssumption

(* Status of the values of the variables it is made of. *)
StatusAt(r, p) ==
  CASE r = Failed            -> "CUPS_BACKEND_FAILED"
    [] r = OK /\ p = "done"  -> "CUPS_BACKEND_OK"
    [] OTHER                 -> "printing"

(* Status of DyesubRefinement is that of the variables, before and after    *)
(* a step.                                                                  *)
LEMMA StatusNow == Status = StatusAt(ret, pc) /\ Status' = StatusAt(ret', pc')
BY DEF Status, StatusAt

(* Status at each place of handle_input, in a plain form. *)
LEMMA StatusIs ==
  /\ \A p : StatusAt(Failed, p) = "CUPS_BACKEND_FAILED"
  /\ StatusAt(OK, "done") = "CUPS_BACKEND_OK"
  /\ \A p : p # "done" => StatusAt(OK, p) = "printing"
BY DEF StatusAt, OK, Failed

(* A step of the code that is none of the document. *)
Stutters == UNCHANGED <<images, out, terminate>> /\ Pending' = Pending /\ Status' = Status

(* Such a step leaves the printer as it is. *)
LEMMA StuttersPrinter == ASSUME Stutters PROVE UNCHANGED Printer!printer
BY DEF Stutters, Printer!printer

(* Nothing but the place in the code and in the list changes. *)
LEMMA StuttersPlain ==
  ASSUME UNCHANGED <<images, out, terminate, ret>>, pc \notin {"done"}, pc' \notin {"done"},
         ret = OK, Pending' = Pending
  PROVE  UNCHANGED Printer!printer
BY StatusNow, StatusIs, StuttersPrinter DEF Stutters

-----------------------------------------------------------------------------
(* A sequence of one element. *)
LEMMA OneElement ==
  ASSUME NEW S, NEW s \in Seq(S), DOMAIN s = 1 .. 1
  PROVE  s = <<s[1]>> /\ s[1] \in S
<1>1. Len(s) \in Nat /\ 1 .. Len(s) = 1 .. 1 /\ s \in [1 .. Len(s) -> S]
  BY LenProperties, Zenon
<1>2. PICK n \in Nat : n = Len(s)  BY <1>1, Zenon
<1>3. n = 1
  <2>1. 1 .. n = 1 .. 1  BY <1>1, <1>2, Zenon
  <2> QED  BY <2>1
<1>4. s[1] \in S /\ s = [i \in 1 .. 1 |-> s[i]]
  <2>1. s \in [1 .. 1 -> S]  BY <1>1, Zenon
  <2> QED  BY <2>1
<1>5. s = [i \in 1 .. 1 |-> s[1]]  BY <1>4
<1>6. <<s[1]>> = [i \in 1 .. 1 |-> s[1]]  OBVIOUS
<1> QED  BY <1>4, <1>5, <1>6, Zenon

(* Reading a page is accepting an image in the copies it asks for. *)
LEMMA ReadPageAccepts ==
  ASSUME JobsAssumption, Pairwise, RInv, ReadPage
  PROVE  Printer!Accept
<1>1. PICK n \in JobsPerRead, c \in Copies, k \in Kinds, cc \in BOOLEAN :
        \E bs \in [1..n -> Buffers \ live] : Reads(n, c, k, cc, bs)
  BY ReadPageReads
<1>2. PICK bs \in [1..n -> Buffers \ live] : Reads(n, c, k, cc, bs)  BY <1>1
<1>3. n = 1 /\ c \in Nat  BY JobsAssumption DEF Pairwise
<1>4. /\ images' = images + 1 /\ images + 1 <= MaxImages /\ jobs' = Parsed(1, c, k, cc, bs)
  BY <1>2, <1>3 DEF Reads
<1>5. /\ pc = "read" /\ pc' = "append" /\ UNCHANGED <<list, next, left, terminate, ret, out>>
  BY DEF ReadPage
<1>6. IInv'  BY ReadPageKeeps DEF RInv
<1>7. PICK j \in Job : jobs' = <<j>> /\ j.images = <<images + 1>> /\ j.copies = c
  <2>1. jobs' \in Seq(Job)  BY <1>6 DEF IInv, TypeOK
  <2>2. DOMAIN jobs' = 1 .. 1 /\ jobs'[1].images = <<images + 1>> /\ jobs'[1].copies = c
    BY <1>4 DEF Parsed
  <2>3. jobs' = <<jobs'[1]>> /\ jobs'[1] \in Job  BY <2>1, <2>2, OneElement, Zenon
  <2> QED  BY <2>2, <2>3, Zenon
<1>8. /\ images \in Nat /\ MaxImages \in Nat /\ list \in Seq(Job) /\ next \in Nat \ {0}
      /\ left \in Nat /\ jobs = <<>> /\ ret = OK
  BY <1>5, Plain
<1>9. Exposures(j, c) = [i \in 1 .. c |-> images + 1]
  <2>1. images + 1 \in Nat  BY <1>8
  <2> QED  BY <2>1, <1>3, <1>7, PageExposures
<1>10. Pending = ExposuresOf(list)
  BY <1>5, <1>8, PendingNow, PendingIs
<1>11. Pending' = ExposuresOf(list) \o Exposures(j, c)
  <2>1. PendingAt("append", <<j>>, list, next, left) = ExposuresOf(list) \o Exposures(j, j.copies)
    BY <1>7, <1>8, PendingWithJob, Zenon
  <2> QED  BY <2>1, <1>5, <1>7, PendingNow
<1>12. Pending' = Pending \o [i \in 1 .. c |-> images + 1]  BY <1>9, <1>10, <1>11
<1>13. Status = "printing" /\ Status' = "printing"  BY <1>5, <1>8, StatusNow, StatusIs
<1>14. images < MaxImages  BY <1>4, <1>8
<1> QED  BY <1>4, <1>5, <1>12, <1>13, <1>14 DEF Printer!Accept

(* The end of the stream prints what is held back, or is the end of the     *)
(* document: a success after a page, a failure before the first.            *)
LEMMA ReadEndsDoes ==
  ASSUME JobsAssumption, RInv, ReadEnds
  PROVE  Printer!Fail \/ Printer!Succeed \/ UNCHANGED Printer!printer
<1>1. /\ pc = "read" /\ pc' = AfterRead /\ ret' = (IF pagesRead THEN OK ELSE Failed)
      /\ next' = 1 /\ UNCHANGED <<jobs, list, left, images, terminate, out>>
  BY DEF ReadEnds
<1>2. /\ list \in Seq(Job) /\ next \in Nat \ {0} /\ next' \in Nat \ {0} /\ left \in Nat
      /\ jobs = <<>> /\ ret = OK
  <2>1. 1 \in Nat \ {0}  OBVIOUS
  <2> QED  BY <1>1, <2>1, Plain
<1>3. Pending = ExposuresOf(list)  BY <1>1, <1>2, PendingNow, PendingIs
<1>4. Status = "printing"  BY <1>1, <1>2, StatusNow, StatusIs
<1>5. CASE list = <<>>
  <2>1. pc' = "done"  BY <1>1, <1>5 DEF AfterRead
  <2>2. Pending = <<>>  BY <1>3, <1>5, EmptyExposures
  <2>3. Pending' = <<>>  BY <1>1, <1>2, <2>1, PendingNow, PendingIs
  <2>4. CASE pagesRead
    <3>1. Status' = "CUPS_BACKEND_OK"  BY <1>1, <2>1, <2>4, StatusNow, StatusIs
    <3> QED  BY <1>1, <1>4, <2>2, <2>3, <3>1 DEF Printer!Succeed
  <2>5. CASE ~pagesRead
    <3>1. Status' = "CUPS_BACKEND_FAILED"  BY <1>1, <2>5, StatusNow, StatusIs
    <3> QED  BY <1>1, <1>4, <2>3, <3>1 DEF Printer!Fail
  <2> QED  BY <2>4, <2>5
<1>6. CASE list # <<>>
  <2>1. pc' = "print" /\ pagesRead  BY <1>1, <1>6 DEF AfterRead, RInv, StatusInv
  <2>2. SubSeq(list, 1, Len(list)) = list  BY <1>2, SubSeqFull
  <2>3. Pending' = ExposuresOf(SubSeq(list, 1, Len(list)))
    BY <1>1, <1>2, <2>1, PendingNow, PendingIs
  <2>4. Pending' = Pending  BY <1>3, <2>2, <2>3
  <2> QED  BY <1>1, <1>2, <2>1, <2>4, StuttersPlain
<1> QED  BY <1>5, <1>6

(* Appending a job, merged or not, leaves what is pending as it is. *)
LEMMA AppendStutters ==
  ASSUME JobsAssumption, RInv, AppendPlain \/ AppendToLast \/ AppendCopies
  PROVE  UNCHANGED Printer!printer
<1>1. jobs # <<>>
  BY DEF AppendPlain, AppendToLast, AppendCopies, Appending
<1>2. PICK newList : Adds(newList) /\ Appending(newList)
  <2>1. CASE AppendPlain  BY <2>1, <1>1, PlainAdds DEF RInv, AppendPlain
  <2>2. CASE AppendToLast  BY <2>2, MergeAdds DEF RInv
  <2>3. CASE AppendCopies  BY <2>3, PairAdds DEF RInv
  <2> QED  BY <2>1, <2>2, <2>3
<1> DEFINE j == Head(jobs)
<1>3. /\ pc = "append" /\ j \in Job /\ jobs = <<j>> /\ Tail(jobs) = <<>> /\ ret = OK
      /\ list \in Seq(Job)
  BY <1>1, JobAtHand DEF RInv
<1>4. /\ list' = newList /\ jobs' = <<>>
      /\ UNCHANGED <<pc, next, left, images, terminate, ret, out>>
  BY <1>2, <1>3 DEF Appending
<1>5. next \in Nat \ {0} /\ left \in Nat  BY Plain
<1>6. newList \in Seq(Job) /\ ExposuresOf(newList) = ExposuresOf(list) \o Exposures(j, j.copies)
  BY <1>2 DEF Adds
<1> HIDE DEF j
<1>7. Pending = ExposuresOf(list) \o Exposures(j, j.copies)
  <2>1. PendingAt("append", <<j>>, list, next, left) = ExposuresOf(list) \o Exposures(j, j.copies)
    BY <1>3, <1>5, PendingWithJob
  <2> QED  BY <2>1, <1>3, PendingNow
<1>8. Pending' = ExposuresOf(newList)
  <2>1. PendingAt("append", <<>>, newList, next, left) = ExposuresOf(newList)
    BY <1>5, <1>6, PendingIs
  <2> QED  BY <2>1, <1>3, <1>4, PendingNow, Zenon
<1> QED  BY <1>3, <1>4, <1>6, <1>7, <1>8, StuttersPlain

(* So do the decision to print or to wait, and going from entry to entry. *)
LEMMA MovesStutter ==
  ASSUME JobsAssumption, RInv, PageAppended \/ StartEntry \/ EntryPrinted
  PROVE  UNCHANGED Printer!printer
<1>1. /\ UNCHANGED <<jobs, list, images, terminate, ret, out>>
      /\ pc \in {"append", "print", "printed"}
      /\ pc' \in {"read", "print", "loop"}
  BY DEF PageAppended, StartEntry, EntryPrinted
<1>2. /\ list \in Seq(Job) /\ next \in Nat \ {0} /\ left \in Nat /\ ret = OK
      /\ Len(list) \in Nat
  BY <1>1, Plain
<1>3. CASE PageAppended
  <2>1. /\ pc = "append" /\ jobs = <<>> /\ pc' \in {"read", "print"} /\ next' = 1 /\ left' = left
    BY <1>3 DEF PageAppended
  <2>2. Pending = ExposuresOf(list)  BY <1>2, <2>1, PendingNow, PendingIs
  <2>3. SubSeq(list, 1, Len(list)) = list /\ 1 \in Nat \ {0}  BY <1>2, SubSeqFull
  <2>4. Pending' = ExposuresOf(list)
    <3>1. CASE pc' = "read"  BY <3>1, <1>1, <1>2, <2>1, <2>3, PendingNow, PendingIs
    <3>2. CASE pc' = "print"
      <4>1. PendingAt("print", <<>>, list, 1, left) = ExposuresOf(SubSeq(list, 1, Len(list)))
        BY <1>2, <2>3, PendingIs
      <4> QED  BY <3>2, <4>1, <1>1, <2>1, <2>3, PendingNow
    <3> QED  BY <3>1, <3>2, <2>1
  <2> QED  BY <1>1, <1>2, <2>2, <2>4, StuttersPlain
<1>4. CASE StartEntry
  <2>1. /\ pc = "print" /\ next <= Len(list) /\ left' = list[next].copies /\ pc' = "loop"
        /\ next' = next
    BY <1>4 DEF StartEntry
  <2>2. jobs = <<>>  BY <2>1, Plain
  <2>3. Pending = ExposuresOf(SubSeq(list, next, Len(list)))
    BY <1>2, <2>1, <2>2, PendingNow, PendingIs
  <2> DEFINE j == list[next]
             s == SubSeq(list, next + 1, Len(list))
  <2>4. j \in Job /\ s \in Seq(Job) /\ next \in 1 .. Len(list) /\ Len(list) \in next .. Len(list)
    BY <1>2, <2>1
  <2>5. SubSeq(list, next, Len(list)) = <<j>> \o s  BY <1>2, <2>4, SubSeqRecursiveFirst, Zenon
  <2>6. j.copies \in Nat  BY <2>4 DEF Job
  <2>7. PendingAt("loop", <<>>, list, next, j.copies) = Exposures(list[next], j.copies) \o ExposuresOf(s)
    BY <1>2, <2>6, PendingIs
  <2>8. Pending' = Exposures(j, j.copies) \o ExposuresOf(s)
    BY <1>1, <2>1, <2>2, <2>7, PendingNow
  <2> HIDE DEF j, s
  <2>9. Pending' = Pending  BY <2>3, <2>4, <2>5, <2>8, ListExposures
  <2> QED  BY <1>1, <1>2, <2>9, StuttersPlain
<1>5. CASE EntryPrinted
  <2>1. /\ pc = "printed" /\ next' = next + 1 /\ pc' = "print" /\ left' = left
    BY <1>5 DEF EntryPrinted
  <2>2. jobs = <<>> /\ next + 1 \in Nat \ {0}  BY <2>1, <1>2, Plain
  <2>3. PendingAt("print", <<>>, list, next + 1, left) = ExposuresOf(SubSeq(list, next + 1, Len(list)))
    BY <1>2, <2>2, PendingIs
  <2>4. PendingAt("printed", <<>>, list, next, left) = ExposuresOf(SubSeq(list, next + 1, Len(list)))
    BY <1>2, <2>2, PendingIs
  <2>5. Pending' = Pending  BY <1>1, <2>1, <2>2, <2>3, <2>4, PendingNow
  <2> QED  BY <1>1, <1>2, <2>5, StuttersPlain
<1> QED  BY <1>3, <1>4, <1>5

(* The list is given up when all its entries were printed, or after an      *)
(* error.                                                                   *)
LEMMA CleanupStutters ==
  ASSUME JobsAssumption, RInv, CleanupList
  PROVE  UNCHANGED Printer!printer
<1>1. /\ UNCHANGED <<jobs, next, left, images, terminate, ret, out>> /\ list' = <<>>
  BY DEF CleanupList
<1>2. /\ list \in Seq(Job) /\ next \in Nat \ {0} /\ left \in Nat /\ Len(list) \in Nat
      /\ <<>> \in Seq(Job)
  BY Plain
<1>3. CASE pc = "print" /\ next > Len(list) /\ pc' = "read"
  <2>1. jobs = <<>> /\ ret = OK  BY <1>3, Plain
  <2>2. SubSeq(list, next, Len(list)) = <<>>
    <3>1. next \in Int /\ Len(list) \in Int /\ Len(list) < next  BY <1>2, <1>3
    <3> QED  BY <3>1, SubSeqEmpty
  <2>3. Pending = <<>>
    <3>1. PendingAt("print", <<>>, list, next, left) = ExposuresOf(SubSeq(list, next, Len(list)))
      BY <1>2, PendingIs
    <3> QED  BY <3>1, <1>3, <2>1, <2>2, EmptyExposures, PendingNow
  <2>4. Pending' = <<>>
    <3>1. PICK none \in Seq(Job) : none = <<>>  BY <1>2
    <3>2. PendingAt("read", <<>>, none, next, left) = ExposuresOf(none)  BY <1>2, PendingIs
    <3> QED  BY <3>1, <3>2, <1>1, <1>3, <2>1, EmptyExposures, PendingNow
  <2> QED  BY <1>1, <1>3, <2>1, <2>3, <2>4, StuttersPlain
<1>4. CASE pc = "cleanup" /\ pc' = "done"
  <2>1. jobs = <<>> /\ ret = Failed  BY <1>4, Plain DEF RInv, StatusInv
  <2>2. Pending = <<>>  BY <1>2, <1>4, <2>1, PendingNow, PendingIs
  <2>3. Pending' = <<>>
    <3>1. PICK none \in Seq(Job) : none = <<>>  BY <1>2
    <3>2. PendingAt("done", <<>>, none, next, left) = <<>>  BY <1>2, PendingIs
    <3> QED  BY <3>1, <3>2, <1>1, <1>4, <2>1, PendingNow, Zenon
  <2>4. Status' = Status  BY <1>1, <2>1, StatusNow, StatusIs
  <2> QED  BY <1>1, <2>2, <2>3, <2>4, StuttersPrinter DEF Stutters
<1> QED  BY <1>3, <1>4 DEF CleanupList

(* An error of the printer gives up everything that is pending. *)
LEMMA PrintFailsFails ==
  ASSUME JobsAssumption, RInv, PrintFails
  PROVE  Printer!Fail
<1>1. /\ pc \in {"loop", "printed"} /\ ret' = Failed /\ left' = 0 /\ pc' = "cleanup"
      /\ UNCHANGED <<jobs, list, next, images, terminate, out>>
  BY DEF PrintFails
<1>2. jobs = <<>> /\ ret = OK /\ list \in Seq(Job) /\ next \in Nat \ {0}  BY <1>1, Plain
<1>3. Pending' = <<>>
  <2>1. 0 \in Nat  OBVIOUS
  <2>2. PendingAt("cleanup", <<>>, list, next, 0) = <<>>  BY <2>1, <1>2, PendingIs
  <2> QED  BY <2>2, <1>1, <1>2, PendingNow
<1>4. Status = "printing" /\ Status' = "CUPS_BACKEND_FAILED"
  BY <1>1, <1>2, StatusNow, StatusIs
<1> QED  BY <1>1, <1>3, <1>4 DEF Printer!Fail

(* The signal handler cancels and does nothing else. *)
LEMMA SigtermCancels ==
  ASSUME JobsAssumption, RInv, Sigterm
  PROVE  Printer!Cancel
<1>1. /\ pc # "done" /\ terminate' = TRUE
      /\ UNCHANGED <<pc, jobs, list, next, left, images, ret, out>>
  BY DEF Sigterm
<1>2. Pending' = Pending /\ Status' = Status  BY <1>1, PendingNow, StatusNow
<1>3. Status # "CUPS_BACKEND_OK"  BY <1>1, Plain
<1> QED  BY <1>1, <1>2, <1>3 DEF Printer!Cancel

(* A copy of an entry exposes the first pending images, all of the sheet;   *)
(* when the job was cancelled, its other copies are given up.               *)
LEMMA PrintCopyExposes ==
  ASSUME JobsAssumption, RInv, PrintCopy
  PROVE  Printer!Expose
<1>1. /\ pc = "loop" /\ out' = out \o list[next].images
      /\ left' = (IF terminate \/ left <= 1 THEN 0 ELSE left - 1)
      /\ pc' = (IF terminate \/ left <= 1 THEN "printed" ELSE "loop")
      /\ UNCHANGED <<jobs, list, next, images, terminate, ret>>
  BY DEF PrintCopy
<1>2. /\ jobs = <<>> /\ ret = OK /\ list \in Seq(Job) /\ next \in Nat \ {0}
      /\ left \in Nat /\ left >= 1 /\ next <= Len(list) /\ Len(list) \in Nat
  <2>1. left >= 1 /\ next <= Len(list)  BY <1>1 DEF RInv, OverInv, IInv, InLoop
  <2> QED  BY <2>1, <1>1, Plain
<1> DEFINE j  == list[next]
           im == j.images
           n  == left - 1
           E  == Exposures(j, n)
           R  == ExposuresOf(SubSeq(list, next + 1, Len(list)))
<1>3. j \in Job /\ im \in Seq(Nat) /\ im # <<>> /\ n \in Nat /\ left = n + 1
  <2>1. next \in DOMAIN list  BY <1>2
  <2>2. j \in Job /\ im # <<>>  BY <2>1, <1>2 DEF RInv, StatusInv
  <2> QED  BY <2>2, <1>2 DEF Job
<1>4. E \in Seq(Nat) /\ Exposures(j, 0) = <<>> /\ Exposures(j, n + 1) = im \o E
  BY <1>3, JobExposures
<1>5. R \in Seq(Nat)
  <2>1. SubSeq(list, next + 1, Len(list)) \in Seq(Job)  BY <1>2
  <2> QED  BY <2>1, <1>3, ListExposures
<1>6. Pending = (im \o E) \o R
  <2>1. PendingAt("loop", <<>>, list, next, left) = Exposures(j, left) \o R
    BY <1>2, PendingIs
  <2>2. Pending = Exposures(j, left) \o R  BY <2>1, <1>1, <1>2, PendingNow
  <2> HIDE DEF R, E, j, im, n
  <2> QED  BY <2>2, <1>3, <1>4
<1>7. pc' = "loop" => Pending' = E \o R
  <2> SUFFICES ASSUME pc' = "loop" PROVE Pending' = E \o R  OBVIOUS
  <2>1. left' = n  BY <1>1
  <2>2. PendingAt("loop", <<>>, list, next, n) = Exposures(j, n) \o R  BY <1>2, <1>3, PendingIs
  <2> QED  BY <2>1, <2>2, <1>1, <1>2, PendingNow
<1>8. pc' = "printed" => Pending' = R
  <2> SUFFICES ASSUME pc' = "printed" PROVE Pending' = R  OBVIOUS
  <2>1. left' = 0  BY <1>1
  <2>2. PendingAt("printed", <<>>, list, next, 0) = R
    <3>1. 0 \in Nat  OBVIOUS
    <3> QED  BY <3>1, <1>2, PendingIs
  <2> QED  BY <2>1, <2>2, <1>1, <1>2, PendingNow
<1>9. Status = "printing" /\ Status' = "printing"  BY <1>1, <1>2, StatusNow, StatusIs
<1> HIDE DEF j, im, n, E, R
<1>10. (im \o E) \o R = im \o (E \o R)
  <2>1. im \in Seq(Nat) /\ E \in Seq(Nat) /\ R \in Seq(Nat)  BY <1>3, <1>4, <1>5
  <2>2. Associate(im, E, R)  BY <2>1, ImagesAssociative, Zenon
  <2> QED  BY <2>2, Zenon DEF Associate
<1>11. Len(im) \in Nat /\ Len(im) >= 1 /\ Len(E) \in Nat /\ Len(R) \in Nat
  BY <1>3, <1>4, <1>5
<1> DEFINE p == im \o (E \o R)
           k == Len(im)
<1>12. Pending = p  BY <1>6, <1>10
<1>13. /\ Len(p) = k + Len(E) + Len(R) /\ SubSeq(p, 1, k) = im
       /\ SubSeq(p, k + Len(E) + 1, Len(p)) = R
  BY <1>3, <1>4, <1>5, WithoutFront
<1>14. /\ Len(p) = k + Len(E \o R) /\ SubSeq(p, k + 1, Len(p)) = E \o R
  <2> DEFINE w == E \o R
  <2>1. w \in Seq(Nat) /\ Len(w) \in Nat /\ <<>> \in Seq(Nat) /\ <<>> \o w = w /\ Len(<<>>) = 0
    <3>1. w \in Seq(Nat)  BY <1>4, <1>5, ConcatProperties
    <3> HIDE DEF w
    <3> QED  BY <3>1
  <2> HIDE DEF w
  <2>2. LET q == im \o (<<>> \o w) IN
        Len(q) = Len(im) + Len(<<>>) + Len(w) /\ SubSeq(q, Len(im) + Len(<<>>) + 1, Len(q)) = w
    BY <2>1, <1>3, WithoutFront
  <2>3. k + 0 = k  BY <1>11
  <2> QED  BY <2>1, <2>2, <2>3 DEF w
<1>15. k \in 1 .. Len(p)
  <2> HIDE DEF p
  <2> QED  BY <1>11, <1>13
<1> HIDE DEF p, k
<1>16. out' = out \o SubSeq(Pending, 1, k)  BY <1>1, <1>12, <1>13 DEF im, j
<1>17. \E lost \in 0 .. (IF terminate THEN Len(Pending) - k ELSE 0) :
         Pending' = SubSeq(Pending, k + lost + 1, Len(Pending))
  <2>0. k \in Nat /\ Len(p) - k \in Nat /\ Len(p) \in Nat /\ k + 0 + 1 = k + 1
    BY <1>11, <1>13 DEF k
  <2>1. CASE pc' = "loop"
    <3>1. Pending' = SubSeq(p, k + 0 + 1, Len(p))  BY <2>0, <2>1, <1>7, <1>14
    <3>2. 0 \in 0 .. (IF terminate THEN Len(p) - k ELSE 0)  BY <2>0
    <3> QED  BY <3>1, <3>2, <1>12
  <2>2. CASE pc' = "printed" /\ terminate
    <3>1. Pending' = SubSeq(p, k + Len(E) + 1, Len(p))  BY <2>2, <1>8, <1>13
    <3>2. Len(E) \in 0 .. Len(p) - k  BY <1>11, <1>13, <2>0
    <3> QED  BY <3>1, <3>2, <2>2, <1>12
  <2>3. CASE pc' = "printed" /\ ~terminate
    <3>1. n = 0  BY <2>3, <1>1, <1>2, <1>3
    <3>2. E = <<>> /\ Len(E) = 0  BY <3>1, <1>4 DEF E
    <3>3. Pending' = SubSeq(p, k + 0 + 1, Len(p))  BY <3>2, <2>3, <1>8, <1>13
    <3>4. 0 \in 0 .. (IF terminate THEN Len(p) - k ELSE 0)  BY <2>0
    <3> QED  BY <3>3, <3>4, <1>12
  <2> QED  BY <2>1, <2>2, <2>3, <1>1
<1>18. UNCHANGED <<images, terminate>> /\ Status' = Status  BY <1>1, <1>9
<1> QED  BY <1>9, <1>12, <1>15, <1>16, <1>17, <1>18 DEF Printer!Expose

(* What was read has an image. *)
LEMMA ReadPageStatus ==
  ASSUME JobsAssumption, Pairwise, RInv, ReadPage
  PROVE  StatusInv'
<1>1. PICK n \in JobsPerRead, c \in Copies, k \in Kinds, cc \in BOOLEAN :
        \E bs \in [1..n -> Buffers \ live] : Reads(n, c, k, cc, bs)
  BY ReadPageReads
<1>2. PICK bs \in [1..n -> Buffers \ live] : Reads(n, c, k, cc, bs)  BY <1>1
<1>3. jobs' = Parsed(n, c, k, cc, bs)  BY <1>2 DEF Reads
<1>4. \A i \in DOMAIN jobs' : jobs'[i].images # <<>>
  <2>1. DOMAIN jobs' = 1 .. n /\ \A i \in 1 .. n : jobs'[i].images = <<images + i>>
    BY <1>3 DEF Parsed
  <2>2. \A x : <<x>> # <<>>  OBVIOUS
  <2> QED  BY <2>1, <2>2
<1>5. /\ pc = "read" /\ pc' = "append" /\ UNCHANGED <<list, ret, pagesRead>>
  BY DEF ReadPage
<1> QED  BY <1>4, <1>5 DEF RInv, StatusInv

(* What is appended keeps its images. *)
LEMMA AppendStatus ==
  ASSUME JobsAssumption, RInv, AppendPlain \/ AppendToLast \/ AppendCopies
  PROVE  StatusInv'
<1>1. jobs # <<>>
  BY DEF AppendPlain, AppendToLast, AppendCopies, Appending
<1>2. PICK newList : Adds(newList) /\ Appending(newList)
  <2>1. CASE AppendPlain  BY <2>1, <1>1, PlainAdds DEF RInv, AppendPlain
  <2>2. CASE AppendToLast  BY <2>2, MergeAdds DEF RInv
  <2>3. CASE AppendCopies  BY <2>3, PairAdds DEF RInv
  <2> QED  BY <2>1, <2>2, <2>3
<1>3. pc = "append" /\ Tail(jobs) = <<>>  BY <1>1, JobAtHand DEF RInv
<1>4. /\ list' = newList /\ jobs' = <<>> /\ UNCHANGED <<pc, pagesRead, ret>>
  BY <1>2, <1>3 DEF Appending
<1>5. \A k \in DOMAIN list' : list'[k].images # <<>>  BY <1>2, <1>4 DEF Adds, AllImages
<1>6. DOMAIN jobs' = {}  BY <1>4
<1> QED  BY <1>3, <1>4, <1>5, <1>6 DEF RInv, StatusInv

(* The other steps only take jobs away. *)
LEMMA OtherStepsStatus ==
  ASSUME JobsAssumption, RInv,
         ReadEnds \/ PageAppended \/ CreateFails \/ StartEntry \/ PrintCopy \/ PrintFails
           \/ EntryPrinted \/ CleanupList \/ Sigterm \/ UNCHANGED vars
  PROVE  StatusInv'
<1>1. /\ list' = list \/ list' = <<>>
      /\ jobs' = jobs \/ jobs' = <<>>
  BY DEF ReadEnds, PageAppended, CreateFails, StartEntry, PrintCopy, PrintFails, EntryPrinted,
         CleanupList, Sigterm, vars
<1>2. /\ \A k \in DOMAIN list' : list'[k].images # <<>>
      /\ \A k \in DOMAIN jobs' : jobs'[k].images # <<>>
  <2>1. DOMAIN <<>> = {}  OBVIOUS
  <2>2. /\ \A k \in DOMAIN list : list[k].images # <<>>
        /\ \A k \in DOMAIN jobs : jobs[k].images # <<>>
    BY DEF RInv, StatusInv
  <2>3. \A k \in DOMAIN list' : list'[k].images # <<>>
    <3>1. CASE list' = list  BY <3>1, <2>2
    <3>2. CASE list' = <<>>  BY <3>2, <2>1
    <3> QED  BY <3>1, <3>2, <1>1
  <2>4. \A k \in DOMAIN jobs' : jobs'[k].images # <<>>
    <3>1. CASE jobs' = jobs  BY <3>1, <2>2
    <3>2. CASE jobs' = <<>>  BY <3>2, <2>1
    <3> QED  BY <3>1, <3>2, <1>1
  <2> QED  BY <2>3, <2>4
<1>3. /\ ret = Failed => pc \in {"cleanup", "done"}
      /\ pc = "cleanup" => ret = Failed
      /\ pc \in {"print", "loop", "printed", "cleanup"} => pagesRead
      /\ pc = "read" /\ ~pagesRead => list = <<>>
      /\ OK # Failed
  BY DEF RInv, StatusInv, OK, Failed
<1>4. /\ ret' = Failed => pc' \in {"cleanup", "done"}
      /\ pc' = "cleanup" => ret' = Failed
      /\ pc' \in {"print", "loop", "printed", "cleanup"} => pagesRead'
      /\ pc' = "read" /\ ~pagesRead' => list' = <<>>
  <2>1. CASE ReadEnds
    <3>1. /\ pc = "read" /\ pc' = AfterRead /\ ret' = (IF pagesRead THEN OK ELSE Failed)
          /\ pagesRead' = pagesRead
      BY <2>1 DEF ReadEnds
    <3> QED  BY <3>1, <1>3 DEF AfterRead
  <2>2. CASE PageAppended  BY <2>2, <1>3 DEF PageAppended
  <2>3. CASE CreateFails  BY <2>3, <1>3 DEF CreateFails
  <2>4. CASE StartEntry  BY <2>4, <1>3 DEF StartEntry
  <2>5. CASE PrintCopy  BY <2>5, <1>3 DEF PrintCopy
  <2>6. CASE PrintFails  BY <2>6, <1>3 DEF PrintFails
  <2>7. CASE EntryPrinted  BY <2>7, <1>3 DEF EntryPrinted
  <2>8. CASE CleanupList  BY <2>8, <1>3 DEF CleanupList
  <2>9. CASE Sigterm \/ UNCHANGED vars  BY <2>9, <1>3 DEF Sigterm, vars
  <2> QED  BY <2>1, <2>2, <2>3, <2>4, <2>5, <2>6, <2>7, <2>8, <2>9
<1> QED  BY <1>2, <1>4 DEF StatusInv

(* Every step keeps StatusInv. *)
LEMMA NextStatus ==
  ASSUME JobsAssumption, Pairwise, RInv, [Next]_vars
  PROVE  StatusInv'
BY ReadPageStatus, AppendStatus, OtherStepsStatus DEF Next, Step, Finished

(* Every job has an image and every error ends the document. *)
THEOREM StatusHolds == ASSUME Pairwise PROVE Spec => []StatusInv
<1>1. Init => StatusInv
  <2> SUFFICES ASSUME Init PROVE StatusInv  OBVIOUS
  <2>1. DOMAIN <<>> = {}  OBVIOUS
  <2>2. DOMAIN list = {} /\ DOMAIN jobs = {} /\ ret # Failed /\ pc = "read" /\ list = <<>>
    BY <2>1 DEF Init, OK, Failed
  <2> QED  BY <2>2 DEF StatusInv
<1>2. IInv /\ OverInv /\ LeakInv /\ StatusInv /\ [Next]_vars => StatusInv'
  BY NextStatus, JobsAssumption DEF RInv
<1> QED  BY <1>1, <1>2, Inductive, OverHolds, LeakHolds, PTL DEF Spec

-----------------------------------------------------------------------------
(* Every step of the code but a failure to create the list is a step of     *)
(* the document or none.                                                    *)
LEMMA StepImplements ==
  ASSUME JobsAssumption, Pairwise, RInv, [Next]_vars, [~CreateFails]_vars
  PROVE  [Printer!PNext]_(Printer!printer)
<1>1. CASE ReadPage  BY <1>1, ReadPageAccepts DEF Printer!PNext
<1>2. CASE ReadEnds  BY <1>2, ReadEndsDoes DEF Printer!PNext
<1>3. CASE AppendPlain \/ AppendToLast \/ AppendCopies  BY <1>3, AppendStutters
<1>4. CASE PageAppended \/ StartEntry \/ EntryPrinted  BY <1>4, MovesStutter
<1>5. CASE PrintCopy  BY <1>5, PrintCopyExposes DEF Printer!PNext
<1>6. CASE PrintFails  BY <1>6, PrintFailsFails DEF Printer!PNext
<1>7. CASE CleanupList  BY <1>7, CleanupStutters
<1>8. CASE Sigterm  BY <1>8, SigtermCancels DEF Printer!PNext
<1>9. CASE Finished \/ UNCHANGED vars
  <2>1. UNCHANGED <<pc, jobs, list, next, left, images, terminate, ret, out>>
    BY <1>9 DEF Finished, vars
  <2>2. Pending' = Pending /\ Status' = Status  BY <2>1, PendingNow, StatusNow
  <2> QED  BY <2>1, <2>2, StuttersPrinter DEF Stutters
<1> QED
  BY <1>1, <1>2, <1>3, <1>4, <1>5, <1>6, <1>7, <1>8, <1>9 DEF Next, Step

(* The code starts with the document not yet read. *)
LEMMA InitImplements == ASSUME JobsAssumption, Init PROVE Printer!PInit
<1>1. /\ pc = "read" /\ jobs = <<>> /\ list = <<>> /\ next = 1 /\ left = 0 /\ images = 0
      /\ terminate = FALSE /\ ret = OK /\ out = <<>>
  BY DEF Init
<1>2. Pending = <<>>
  <2>1. PICK none \in Seq(Job) : none = <<>>
    <3>1. <<>> \in Seq(Job)  OBVIOUS
    <3> QED  BY <3>1
  <2>2. 1 \in Nat \ {0} /\ 0 \in Nat  OBVIOUS
  <2>3. PendingAt("read", <<>>, none, 1, 0) = ExposuresOf(none)  BY <2>2, PendingIs
  <2> QED  BY <1>1, <2>1, <2>3, EmptyExposures, PendingNow
<1>3. Status = "printing"  BY <1>1, StatusNow, StatusIs
<1> QED  BY <1>1, <1>2, <1>3 DEF Printer!PInit

(* While the list can be created, and pages come one at a time in one       *)
(* copy or two, the code prints what DyesubPrinter promises: the images     *)
(* in the order in which they were read, each as often as it was asked      *)
(* for, however jobs are merged, held back and split, wherever the          *)
(* printer fails and a SIGTERM strikes, and CUPS_BACKEND_OK only when       *)
(* nothing is left to expose. Merges may fail for want of memory.           *)
THEOREM PrintsSafely ==
  ASSUME Pairwise
  PROVE  Spec /\ [][~CreateFails]_vars => Printer!PSafety
<1>1. Init => Printer!PInit  BY InitImplements, JobsAssumption
<1>2. IInv /\ OverInv /\ LeakInv /\ StatusInv /\ [Next]_vars /\ [~CreateFails]_vars
        => [Printer!PNext]_(Printer!printer)
  BY StepImplements, JobsAssumption DEF RInv
<1> QED
  BY <1>1, <1>2, Inductive, OverHolds, LeakHolds, StatusHolds, PTL DEF Spec, Printer!PSafety

(* The same where malloc does not fail. *)
THEOREM PrintsWithMemory ==
  ASSUME Pairwise, ~MallocMayFail
  PROVE  Spec => Printer!PSafety
<1>1. [Next]_vars => [~CreateFails]_vars  BY DEF CreateFails
<1> QED  BY <1>1, PrintsSafely, PTL DEF Spec
=============================================================================
