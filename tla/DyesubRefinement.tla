-------------------------- MODULE DyesubRefinement --------------------------
(***************************************************************************)
(* The job list of DyesubJobs implements DyesubPrinter: what is pending is *)
(* what is left of the entry in main_loop, the entries after it and the    *)
(* jobs that read_parse returned and handle_input has not appended yet.    *)
(* Merging is then a stuttering step.                                      *)
(***************************************************************************)
EXTENDS DyesubJobs

(* The images n copies of the job expose, and those of a sequence of jobs. *)
Exposures(job, n) == FlattenSeq([c \in 1..n |-> job.images])
ExposuresOf(js)   == FlattenSeq([i \in DOMAIN js |-> Exposures(js[i], js[i].copies)])

Entries ==
  CASE pc \in {"read", "append"}   -> list
    [] pc = "print"                -> SubSeq(list, next, Len(list))
    [] pc \in {"loop", "printed"}  -> SubSeq(list, next + 1, Len(list))
    [] OTHER                       -> <<>>

Pending ==
  (IF pc = "loop" THEN Exposures(list[next], left) ELSE <<>>)
    \o ExposuresOf(Entries \o jobs)

Status ==
  CASE ret = Failed           -> "CUPS_BACKEND_FAILED"
    [] ret = OK /\ pc = "done" -> "CUPS_BACKEND_OK"
    [] OTHER                  -> "printing"

Printer == INSTANCE DyesubPrinter WITH
  accepted <- images, pending <- Pending, cancelled <- terminate, status <- Status

(* However jobs are merged, held back and printed, and whenever an error   *)
(* or a SIGTERM strikes, a document is exposed as DyesubPrinter promises.  *)
PrintsTheDocument == Printer!PSpec
=============================================================================
