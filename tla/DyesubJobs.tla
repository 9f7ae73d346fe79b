----------------------------- MODULE DyesubJobs -----------------------------
(***************************************************************************)
(* The job pipeline shared by all dye-sublimation CUPS backends            *)
(* (src/src/cups/backend_common.c): handle_input reads pages with the      *)
(* printer's read_parse, __dyesub_append_job merges two small prints on    *)
(* one sheet of larger media when it can, dyesub_joblist_canwait decides   *)
(* whether to hold the list back for another page, dyesub_joblist_print    *)
(* sends every entry to the printer's main_loop, and a SIGTERM can set     *)
(* `terminate' between any two steps.                                      *)
(*                                                                         *)
(* A job owns one data buffer (`databuf').  The images of a job are the    *)
(* numbers of the pages (or panorama panels) exposed on one sheet, in the  *)
(* order in which they are exposed.                                        *)
(***************************************************************************)
EXTENDS Naturals, Sequences, FiniteSets, SequencesExt

CONSTANTS
  MaxEntries,    (* DYESUB_MAX_JOB_ENTRIES                                 *)
  MaxParsed,     (* MAX_JOBS_FROM_READ_PARSE                               *)
  MaxImages,     (* bound: images in the input stream                      *)
  Copies,        (* copy counts a page of the stream may ask for           *)
  JobsPerRead,   (* numbers of jobs one read_parse may return              *)
  Kinds,         (* print sizes that fit twice on the loaded media         *)
  Double,        (* the size of a merged job, which merges no further      *)
  KeepsCombine,  (* does combine_jobs leave can_combine set in its result? *)
  MallocMayFail, (* may malloc return NULL?                                *)
  Polarities,    (* values the backend's job_polarity hook may return      *)
  Buffers        (* heap addresses                                         *)

ASSUME JobsAssumption ==
  /\ MaxEntries \in Nat \ {0}
  /\ MaxParsed \in Nat \ {0}
  /\ MaxImages \in Nat
  /\ Copies \subseteq Nat \ {0}
  /\ JobsPerRead \subseteq 1..MaxParsed
  /\ Double \notin Kinds
  /\ KeepsCombine \in BOOLEAN
  /\ MallocMayFail \in BOOLEAN
  /\ Polarities \subseteq BOOLEAN

VARIABLES
  pc,         (* where handle_input is                                    *)
  jobs,       (* jobs[]: returned by read_parse, not yet appended         *)
  list,       (* jlist->entries, <<>> when there is no list               *)
  next,       (* index of the entry being printed                         *)
  left,       (* `copies' of the running main_loop, 0 outside it          *)
  images,     (* images read so far                                       *)
  pagesRead,  (* read_page > 0                                            *)
  terminate,  (* set by sigterm_handler                                   *)
  ret,        (* exit status of handle_input                              *)
  live,       (* buffers allocated and not freed                          *)
  freedTwice, (* a free hit a buffer that is not allocated (history)      *)
  requested,  (* copies asked for, per image (history)                    *)
  out         (* images exposed, in order (history)                       *)

heap == <<live, freedTwice>>
vars == <<pc, jobs, list, next, left, images, pagesRead, terminate, ret,
          heap, requested, out>>

OK     == "CUPS_BACKEND_OK"
Failed == "CUPS_BACKEND_FAILED"

(* struct dyesub_job_common, the buffer the job owns and its print size. *)
Job == [buf: Buffers, images: Seq(Nat), copies: Nat, cc: BOOLEAN,
        kind: Kinds \union {Double}]

-----------------------------------------------------------------------------
(* The buffers of a sequence of jobs, and whether each has its own. *)
Owned(js)   == {js[i].buf : i \in DOMAIN js}
OwnEach(js) == \A i, k \in DOMAIN js : js[i].buf = js[k].buf => i = k

(* The buffers `new' are allocated, then cleanup_job frees those of `old'. *)
Heap(new, old) ==
  /\ live' = (live \union new) \ Owned(old)
  /\ freedTwice' = (freedTwice \/ ~OwnEach(old) \/ ~(Owned(old) \subseteq live))

(* Mutant: a full list takes the job all the same. *)
AddJobUnchecked(l, j) == Append(l, j)

(* __dyesub_joblist_addjob: a full list ignores the job. *)
AddJob(l, j) == IF Len(l) >= MaxEntries THEN l ELSE Append(l, j)

(* dyesub_joblist_popjob and what __dyesub_append_job pops it for: the last *)
(* entry, if it may take another image.                                    *)
Mergeable(l) == l # <<>> /\ Last(l).copies <= 1 /\ Last(l).cc

(* combine_jobs: may it return a job (same size, one that fits twice)?     *)
(* The job it builds, in the new buffer b.                                 *)
CanCombine(j1, j2) == j1.kind = j2.kind /\ j1.kind \in Kinds

(* Mutant: the second job is exposed first. *)
CombinedSwapped(b, j1, j2, copies) ==
  [buf |-> b, images |-> j2.images \o j1.images, copies |-> copies,
   cc |-> KeepsCombine, kind |-> Double]

Combined(b, j1, j2, copies) ==
  [buf |-> b, images |-> j1.images \o j2.images, copies |-> copies,
   cc |-> KeepsCombine, kind |-> Double]

WithCopies(j, n) == [j EXCEPT !.copies = n]

-----------------------------------------------------------------------------
Init ==
  /\ pc = "read"
  /\ jobs = <<>> /\ list = <<>>
  /\ next = 1 /\ left = 0 /\ images = 0
  /\ pagesRead = FALSE /\ terminate = FALSE
  /\ ret = OK
  /\ live = {} /\ freedTwice = FALSE
  /\ requested = [i \in 1..MaxImages |-> 0]
  /\ out = <<>>

(* What read_parse leaves in jobs[]: one page in the copies asked for, or   *)
(* the n panels of a panorama, which are printed once and never merged.    *)
Parsed(n, c, k, cc, bs) ==
  [i \in 1..n |-> [buf |-> bs[i], images |-> <<images + i>>,
                   copies |-> IF n = 1 THEN c ELSE 1,
                   cc |-> cc /\ n = 1, kind |-> k]]

ReadPage ==
  /\ pc = "read"
  /\ \E n \in JobsPerRead, c \in Copies, k \in Kinds, cc \in BOOLEAN :
       \E bs \in [1..n -> Buffers \ live] :
         LET page == Parsed(n, c, k, cc, bs) IN
         /\ images + n <= MaxImages
         /\ OwnEach(page)
         /\ Heap(Owned(page), <<>>)
         /\ jobs' = page
         /\ images' = images + n
         /\ requested' = [i \in 1..MaxImages |->
                            IF i \in images + 1 .. images + n
                            THEN page[i - images].copies ELSE requested[i]]
  /\ pc' = "append"
  /\ UNCHANGED <<list, next, left, pagesRead, terminate, ret, out>>

(* Mutant: the end of the stream, like a page that may wait, goes to newpage. *)
AfterReadWaits == IF list # <<>> THEN "read" ELSE "done"

(* done_multiple: what is held back is printed.                            *)
AfterRead == IF list # <<>> THEN "print" ELSE "done"

(* read_parse fails or meets the end of the stream.  After a first page    *)
(* both lead to done_multiple: the status is dropped.                      *)
ReadEnds ==
  /\ pc = "read"
  /\ pc' = AfterRead
  /\ ret' = IF pagesRead THEN OK ELSE Failed
  /\ next' = 1
  /\ UNCHANGED <<jobs, list, left, images, pagesRead, terminate, heap, requested, out>>

-----------------------------------------------------------------------------
(* dyesub_joblist_appendjob, for the first of the jobs read. *)
Appending(newList) ==
  /\ pc = "append"
  /\ jobs # <<>>
  /\ list' = newList
  /\ jobs' = Tail(jobs)
  /\ UNCHANGED <<pc, next, left, images, pagesRead, terminate, ret, requested, out>>

(* Would combine_jobs take the job and the last entry, or two copies of    *)
(* the job, for one sheet?                                                 *)
FitsLast(job)   == job.cc /\ Mergeable(list) /\ CanCombine(Last(list), job)
FitsCopies(job) == job.cc /\ job.copies > 1 /\ CanCombine(job, job)

(* The new job is added as it is: nothing to merge it with, or no memory   *)
(* to merge it in.                                                         *)
AppendPlain ==
  /\ Appending(AddJob(list, Head(jobs)))
  /\ FitsLast(Head(jobs)) \/ FitsCopies(Head(jobs)) => MallocMayFail
  /\ UNCHANGED heap

(* Mutants: the old job is forgotten, the new one is always freed.         *)
FreedKeepsOld(old, job, rest) == IF rest = 0 THEN <<job>> ELSE <<>>
FreedAlwaysBoth(old, job, rest) == <<old, job>>

(* The jobs that the merge with the last entry gives to cleanup_job.       *)
FreedByMerge(old, job, rest) == IF rest = 0 THEN <<old, job>> ELSE <<old>>

(* Its first copy is merged with the last entry; a single copy that is     *)
(* left over follows as an entry of its own, more than one does not.       *)
AppendToLast ==
  LET job  == Head(jobs)
      old  == Last(list)
      rest == job.copies - 1
  IN
  /\ jobs # <<>>
  /\ FitsLast(job)
  /\ \E b \in Buffers \ live :
       LET merged == AddJob(Front(list), Combined(b, old, job, old.copies)) IN
       /\ Appending(IF rest = 1 THEN AddJob(merged, WithCopies(job, rest)) ELSE merged)
       /\ Heap({b}, FreedByMerge(old, job, rest))

(* Mutant: the odd copy is rounded up to a pair. *)
PairsRounded(copies) == (copies + 1) \div 2

(* The copies of the sheet that holds the job twice. *)
Pairs(copies) == copies \div 2

(* Its copies are merged in pairs; `polarity' decides whether the odd one  *)
(* comes out last (FALSE) or first (TRUE).                                 *)
AppendCopies ==
  LET job == Head(jobs)
      odd == job.copies % 2
  IN
  /\ jobs # <<>>
  /\ FitsCopies(job)
  /\ FitsLast(job) => MallocMayFail
  /\ \E b \in Buffers \ live, hook \in Polarities :
       LET pairs      == Combined(b, job, job, Pairs(job.copies))
           polarity   == hook /\ ~Mergeable(list)
           withOdd(l) == IF odd = 1 THEN AddJob(l, WithCopies(job, odd)) ELSE l
       IN
       /\ Appending(IF polarity THEN AddJob(withOdd(list), pairs)
                    ELSE withOdd(AddJob(list, pairs)))
       /\ Heap({b}, IF odd = 0 THEN <<job>> ELSE <<>>)

(* dyesub_joblist_canwait: hold the list back for one more page? *)
CanWait(l) == Len(l) # MaxEntries /\ (l = <<>> \/ Last(l).cc)

PageAppended ==
  /\ pc = "append"
  /\ jobs = <<>>
  /\ pagesRead' = TRUE
  /\ pc' = IF CanWait(list) THEN "read" ELSE "print"
  /\ next' = 1
  /\ UNCHANGED <<jobs, list, left, images, terminate, ret, heap, requested, out>>

(* dyesub_joblist_create fails: every slot of jobs[] goes to cleanup_job,  *)
(* which follows a NULL pointer for the slots read_parse left empty.       *)
CreateFails ==
  /\ pc = "append"
  /\ MallocMayFail
  /\ list = <<>> /\ jobs # <<>>
  /\ jobs' = <<>>
  /\ Heap({}, jobs)
  /\ pc' = IF Len(jobs) = MaxParsed THEN "done" ELSE "crashed"
  /\ UNCHANGED <<list, next, left, images, pagesRead, terminate, ret, requested, out>>

-----------------------------------------------------------------------------
(* dyesub_joblist_print hands the next entry to main_loop.  It goes        *)
(* through the list once: list->copies is 1, as nothing sets `collate'     *)
(* (backend_common.c:57, 1810).                                            *)
StartEntry ==
  /\ pc = "print"
  /\ next <= Len(list)
  /\ left' = list[next].copies
  /\ pc' = "loop"
  /\ UNCHANGED <<jobs, list, next, images, pagesRead, terminate, ret, heap, requested, out>>

(* main_loop prints one copy; a cancelled job gives up its other copies. *)
PrintCopy ==
  /\ pc = "loop"
  /\ out' = out \o list[next].images
  /\ left' = IF terminate \/ left <= 1 THEN 0 ELSE left - 1
  /\ pc' = IF terminate \/ left <= 1 THEN "printed" ELSE "loop"
  /\ UNCHANGED <<jobs, list, next, images, pagesRead, terminate, ret, heap, requested>>

(* main_loop, or query_markers after it, returns an error. *)
PrintFails ==
  /\ pc \in {"loop", "printed"}
  /\ ret' = Failed
  /\ left' = 0
  /\ pc' = "cleanup"
  /\ UNCHANGED <<jobs, list, next, images, pagesRead, terminate, heap, requested, out>>

EntryPrinted ==
  /\ pc = "printed"
  /\ next' = next + 1
  /\ pc' = "print"
  /\ UNCHANGED <<jobs, list, left, images, pagesRead, terminate, ret, heap, requested, out>>

(* dyesub_joblist_cleanup, after the last entry or after an error. *)
CleanupList ==
  /\ \/ pc = "print" /\ next > Len(list) /\ pc' = "read"
     \/ pc = "cleanup" /\ pc' = "done"
  /\ Heap({}, list)
  /\ list' = <<>>
  /\ UNCHANGED <<jobs, next, left, images, pagesRead, terminate, ret, requested, out>>

(* sigterm_handler, between any two steps. *)
Sigterm ==
  /\ pc \notin {"done", "crashed"}
  /\ terminate' = TRUE
  /\ UNCHANGED <<pc, jobs, list, next, left, images, pagesRead, ret, heap, requested, out>>

Finished == pc \in {"done", "crashed"} /\ UNCHANGED vars

(* The steps handle_input takes by itself. *)
Step ==
  \/ ReadPage \/ ReadEnds
  \/ AppendPlain \/ AppendToLast \/ AppendCopies \/ PageAppended \/ CreateFails
  \/ StartEntry \/ PrintCopy \/ PrintFails \/ EntryPrinted \/ CleanupList

Next == Step \/ Sigterm \/ Finished

Spec == Init /\ [][Next]_vars

(* handle_input is one thread that waits only for the printer and for the  *)
(* stream, and both answer, if only with an error or a timeout.            *)
FairSpec == Spec /\ WF_vars(Step)

-----------------------------------------------------------------------------
(* Every variable keeps its type, and the list its three slots. *)
TypeOK ==
  /\ pc \in {"read", "append", "print", "loop", "printed", "cleanup", "done", "crashed"}
  /\ jobs \in Seq(Job)
  /\ list \in Seq(Job)
  /\ Len(list) <= MaxEntries
  /\ next \in Nat \ {0}
  /\ left \in Nat
  /\ images \in 0..MaxImages
  /\ pagesRead \in BOOLEAN
  /\ terminate \in BOOLEAN
  /\ ret \in {OK, Failed}
  /\ live \subseteq Buffers
  /\ freedTwice \in BOOLEAN
  /\ requested \in [1..MaxImages -> Nat]
  /\ out \in Seq(Nat)

(* Every buffer is freed at most once and no job of the list or of jobs[]  *)
(* refers to a freed buffer or shares its buffer with another job,         *)
(* although __dyesub_append_job copies job structures that share one.      *)
HeapSafe ==
  /\ ~freedTwice
  /\ OwnEach(list) /\ OwnEach(jobs)
  /\ Owned(list) \intersect Owned(jobs) = {}
  /\ Owned(list) \union Owned(jobs) \subseteq live

Times(i) == Cardinality({k \in DOMAIN out : out[k] = i})

(* No image is exposed more often than it was asked for, however the jobs  *)
(* were merged and wherever an error or a signal struck.                   *)
NeverOverprints == \A i \in 1..MaxImages : Times(i) <= requested[i]

(* Sheets leave the printer in the order of the document: merging, the     *)
(* polarity and the waiting list never let a later page overtake.          *)
InOrder == \A k \in 1 .. Len(out) - 1 : out[k] <= out[k + 1]

(* CUPS_BACKEND_OK means "Success" (backend_common.h:365): unless the user *)
(* cancelled, every image read was exposed as often as asked for.          *)
SuccessMeansPrinted ==
  pc = "done" /\ ret = OK /\ ~terminate =>
    \A i \in 1..images : Times(i) = requested[i]

(* When handle_input returns, no job buffer is left allocated. *)
NothingLeaks == pc = "done" => live = {}

(* A page held back for merging does not wait for ever: the list is        *)
(* printed or given up.                                                    *)
HeldPagesMove == list # <<>> ~> list = <<>>
=============================================================================
