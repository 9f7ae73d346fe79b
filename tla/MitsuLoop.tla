----------------------------- MODULE MitsuLoop ------------------------------
(***************************************************************************)
(* mitsu70x_main_loop (src/cups/backend_mitsu70x.c): one job is sent to a  *)
(* printer with one or two decks, as often as it has copies.  The backend  *)
(* reads the status of the printer, picks a deck, asks for memory, sends   *)
(* the copy and polls the status of its job id; between any two of these   *)
(* steps the printer moves on.  On two decks a copy is left to its deck    *)
(* when more copies follow, and tried again when its deck reports an error.*)
(* A collated document calls main_loop again with the same job.            *)
(*                                                                         *)
(* The printer (external) is modelled as the code takes it to be: its      *)
(* global status names the job that was sent last, a job that an error     *)
(* ended is reported as ended abnormally, and an error stops one deck.     *)
(***************************************************************************)
EXTENDS Naturals, FiniteSets, Sequences

CONSTANTS
  Printjobs,  (* the jobs main_loop may be called with, see PrintjobType *)
  Leftovers,  (* what earlier calls may have left in the printer         *)
  FirstIds,   (* values of ctx->jobid at the call                        *)
  Ids,        (* bound: job ids wrap to 0 here (2^16 in the code)        *)
  Banks,      (* jobs that fit into the printer's memory                 *)
  MaxFaults   (* bound: errors the decks may report                      *)

Decks == 1 .. 2

(* What main_loop reads of ctx and job; `fits' is the printer's opinion of *)
(* the size, `wait' is wait_for_return of the last of `rounds' calls.      *)
PrintjobType ==
  [num_decks : Decks, d70x : BOOLEAN, reqdeck : 0 .. 2, ok : SUBSET Decks,
   exact : SUBSET Decks, raw : BOOLEAN, wait : BOOLEAN, fits : BOOLEAN,
   copies : Nat \ {0}, rounds : Nat \ {0}]

(* A job in the printer.  `left' is kept for the properties: how main_loop *)
(* stopped watching the job.                                               *)
SentJob ==
  [id : 0 .. Ids - 1, deck : Decks, own : BOOLEAN,
   state : {"queued", "loading", "printing", "done", "lost"},
   left : {"watched", "ended", "abnormal", "early", "to its deck", "error"}]

ASSUME PrintjobAssumption ==
  \A j \in Printjobs :
    /\ j \in PrintjobType
    /\ j.exact \subseteq j.ok /\ j.ok \subseteq 1 .. j.num_decks
    /\ j.num_decks = 2 => j.d70x

ASSUME PrinterAssumption ==
  /\ Ids \in Nat /\ Ids > 2 /\ Banks \in Nat \ {0} /\ MaxFaults \in Nat
  /\ FirstIds \subseteq 0 .. Ids - 1
  /\ \A q \in Leftovers :
       q \in Seq(SentJob) /\ \A i \in DOMAIN q : ~q[i].own /\ q[i].left # "watched"

VARIABLES
  job, round, pc, copies, jobid, reqdeck, deck, reported, hdr, result, terminate,
  sent, error, cooling, power, faults  \* the printer

call == <<job, round, reqdeck>>
backend == <<call, pc, copies, jobid, deck, reported, hdr, result>>
printer == <<sent, error, cooling, power, faults>>
vars == <<backend, printer, terminate>>

OK == "CUPS_BACKEND_OK"
Failed == "CUPS_BACKEND_FAILED"
Stop == "CUPS_BACKEND_STOP"
Hold == "CUPS_BACKEND_HOLD"
Cancel == "CUPS_BACKEND_CANCEL"

Last == Len(sent)
Unfinished == {i \in DOMAIN sent : sent[i].state \in {"queued", "loading", "printing"}}
Active(d) == {i \in Unfinished : sent[i].deck = d /\ sent[i].state # "queued"}
NewestId == IF sent = <<>> THEN 0 ELSE sent[Last].id

Init ==
  /\ job \in Printjobs
  /\ round = 1
  /\ reqdeck = job.reqdeck
  /\ pc = (IF job.raw THEN "wakeup" ELSE "convert")
  /\ copies = job.copies
  /\ jobid \in FirstIds
  /\ deck = 0
  /\ reported = 0
  /\ hdr = [jobid |-> 0, deck |-> job.reqdeck]
  /\ result = "none"
  /\ terminate = FALSE
  /\ sent \in {q \in Leftovers : \A i \in DOMAIN q : q[i].deck <= job.num_decks}
  /\ error \in {e \in [Decks -> BOOLEAN] : job.num_decks = 1 => ~e[2]}
  /\ cooling = [d \in Decks |-> FALSE]
  /\ power \in {"asleep", "awake"} /\ (Unfinished # {} => power = "awake")
  /\ faults = 0

-----------------------------------------------------------------------------
(* The backend.                                                            *)

Return(r) == pc' = "returned" /\ result' = r

(* The image is converted by the external library. *)
Convert ==
  /\ pc = "convert"
  /\ \/ pc' = "wakeup" /\ UNCHANGED result
     \/ Return(Cancel)
  /\ UNCHANGED <<call, copies, jobid, deck, reported, hdr, printer, terminate>>

mitsu70x_wakeup ==
  /\ pc = "wakeup"
  /\ \/ power = "awake" /\ pc' = "top" /\ UNCHANGED power
     \/ power # "awake" /\ power' = "waking" /\ UNCHANGED pc
  /\ UNCHANGED <<call, copies, jobid, deck, reported, hdr, result, terminate,
                 sent, error, cooling, faults>>

(* Mutant: the deck is read from the header that was sent last. *)
RequestedFromHdr == IF job.d70x THEN hdr.deck ELSE 1

Requested == IF job.d70x THEN reqdeck ELSE 1

(* The decks this job may go to. *)
LegalDecks ==
  IF Requested \in job.ok THEN {Requested}
  ELSE IF job.exact # {} THEN job.exact ELSE job.ok

(* Mutants: an error is not looked at; an error leaves the deck legal. *)
UsableInError(d) == ~cooling[d] /\ Active(d) = {}
OnlineAlways(d) == TRUE

(* Those that can take it now, and those that will. *)
Usable(d) == ~cooling[d] /\ ~error[d] /\ Active(d) = {}
Online(d) == cooling[d] \/ ~error[d]

AllOffline == \A d \in 1 .. job.num_decks : error[d]

(* The global status is read, and a deck chosen. *)
SelectDeck ==
  /\ pc = "top"
  /\ reported' = NewestId
  /\ \/ LegalDecks = {} /\ Return(Cancel) /\ UNCHANGED deck
     \/ \E d \in LegalDecks :
          Usable(d) /\ deck' = d /\ pc' = "memory" /\ UNCHANGED result
     \/ /\ LegalDecks # {} /\ \A d \in LegalDecks : ~Usable(d)
        /\ deck' = 0
        /\ \/ AllOffline /\ Return(Stop)
           \/ ~AllOffline /\ (\A d \in LegalDecks : ~Online(d)) /\ Return(Hold)
           \/ ~AllOffline /\ (\E d \in LegalDecks : Online(d)) /\ UNCHANGED <<pc, result>>
  /\ UNCHANGED <<call, copies, jobid, hdr, printer, terminate>>

(* Mutant: the reported id is not looked at. *)
NextIdUnchecked(id, last) == id

(* The first id from `id' on that is neither 0 nor the one reported: of     *)
(* three ids in a row one is free.                                         *)
NextId(id, last) ==
  LET Succ(n) == IF n + 1 = Ids THEN 0 ELSE n + 1
      Free(n) == n \notin {0, last}
  IN  IF Free(id) THEN id
      ELSE IF Free(Succ(id)) THEN Succ(id) ELSE Succ(Succ(id))

CheckMemory ==
  /\ pc = "memory"
  /\ \/ ~job.fits /\ Return(Cancel) /\ UNCHANGED <<jobid, hdr>>
     \/ job.fits /\ Cardinality(Unfinished) >= Banks /\ pc' = "top"
        /\ UNCHANGED <<jobid, hdr, result>>
     \/ /\ job.fits /\ Cardinality(Unfinished) < Banks
        /\ jobid' = NextId(jobid, reported)
        /\ hdr' = [jobid |-> jobid', deck |-> deck]
        /\ pc' = "send"
        /\ UNCHANGED result
  /\ UNCHANGED <<call, copies, deck, reported, printer, terminate>>

(* Whether the rows of a raw job arrive is not looked at; the printer ends *)
(* a job that is cut off.                                                  *)
SendJob ==
  /\ pc = "send"
  /\ pc' = "wait"
  /\ \E state \in IF job.raw THEN {"queued", "lost"} ELSE {"queued"} :
       sent' = Append(sent, [id |-> hdr.jobid, deck |-> hdr.deck, own |-> TRUE,
                             state |-> state, left |-> "watched"])
  /\ UNCHANGED <<call, copies, jobid, deck, reported, hdr, result, terminate,
                 error, cooling, power, faults>>

Leave(how) == sent' = [sent EXCEPT ![Last].left = how]

(* Mutant: copies is decremented after it was tested. *)
CopyDoneOneMore(how) ==
  /\ Leave(how)
  /\ copies' = copies - 1
  /\ IF copies > 0 THEN pc' = "top" /\ UNCHANGED result ELSE Return(OK)

(* This copy is taken as printed; after a SIGTERM the others are dropped. *)
CopyDone(how) ==
  LET remaining == IF terminate THEN 1 ELSE copies
  IN  /\ Leave(how)
      /\ copies' = remaining - 1
      /\ IF copies' > 0 THEN pc' = "top" /\ UNCHANGED result ELSE Return(OK)

MayReturnEarly(state) == ~(job.wait /\ round = job.rounds) /\ copies <= 1 /\ state = "printing"
(* Mutant: the last copy is left to its deck, too. *)
LeavesLastCopy == job.num_decks > 1

MoreForOtherDeck == job.num_decks > 1 /\ copies > 1

(* One poll: the errors of the deck and the state of a job with our id. *)
PollError ==
  /\ error[deck]
  /\ Leave("error")
  /\ IF job.num_decks = 2 THEN pc' = "top" /\ UNCHANGED result ELSE Return(Stop)
  /\ UNCHANGED copies

PollJob(state) ==
  /\ ~error[deck]
  /\ \/ state = "lost" /\ Leave("abnormal") /\ Return(Stop) /\ UNCHANGED copies
     \/ state = "done" /\ CopyDone("ended")
     \/ state \notin {"lost", "done"} /\ MayReturnEarly(state) /\ CopyDone("early")
     \/ state \notin {"lost", "done"} /\ ~MayReturnEarly(state)
        /\ MoreForOtherDeck /\ CopyDone("to its deck")

Poll ==
  /\ pc = "wait"
  /\ \/ PollError
     \/ \E i \in DOMAIN sent : sent[i].id = hdr.jobid /\ PollJob(sent[i].state)
  /\ UNCHANGED <<call, jobid, deck, reported, hdr, terminate, error, cooling, power, faults>>

(* A query, or a job that is not raw, cannot be transferred; a raw one, its *)
(* header.                                                                 *)
TransferFails ==
  /\ pc \in {"wakeup", "top", "memory", "send", "wait"}
  /\ Return(Failed)
  /\ UNCHANGED <<call, copies, jobid, deck, reported, hdr, printer, terminate>>

(* dyesub_joblist_print goes on to the next collated copy, if `collate' is *)
(* ever set, which no option does: hdr is still that of the last sheet,    *)
(* and the image is converted already.                                     *)
CallAgain ==
  /\ pc = "returned" /\ result = OK /\ round < job.rounds
  /\ round' = round + 1
  /\ pc' = "wakeup" /\ result' = "none"
  /\ copies' = job.copies
  /\ reqdeck' = hdr.deck
  /\ UNCHANGED <<job, jobid, deck, reported, hdr, printer, terminate>>

Finished == pc = "returned" /\ (result = OK => round = job.rounds)

sigterm_handler ==
  /\ ~terminate
  /\ ~Finished
  /\ terminate' = TRUE
  /\ UNCHANGED <<backend, printer>>

-----------------------------------------------------------------------------
(* The printer, until the last call is over.                               *)


Becomes(i, state) == sent' = [sent EXCEPT ![i].state = state]

Load(d) ==
  /\ ~Finished
  /\ ~error[d] /\ ~cooling[d] /\ Active(d) = {}
  /\ \E i \in Unfinished :
       /\ sent[i].deck = d
       /\ \A k \in Unfinished : sent[k].deck = d => i <= k
       /\ Becomes(i, "loading")
  /\ UNCHANGED <<backend, terminate, error, cooling, power, faults>>

Expose(d) ==
  /\ ~Finished
  /\ ~error[d]
  /\ \E i \in Active(d) :
       \/ sent[i].state = "loading" /\ Becomes(i, "printing") /\ UNCHANGED cooling
       \/ /\ sent[i].state = "printing" /\ Becomes(i, "done")
          /\ \E hot \in BOOLEAN : cooling' = [cooling EXCEPT ![d] = hot]
  /\ UNCHANGED <<backend, terminate, error, power, faults>>

(* An error may end the sheet on the deck, or stop it until it is cleared. *)
Jam(d) ==
  /\ ~Finished /\ d <= job.num_decks /\ ~error[d] /\ faults < MaxFaults
  /\ error' = [error EXCEPT ![d] = TRUE]
  /\ faults' = faults + 1
  /\ \/ UNCHANGED sent
     \/ \E i \in Active(d) : Becomes(i, "lost")
  /\ UNCHANGED <<backend, terminate, cooling, power>>

Clear(d) ==
  /\ ~Finished
  /\ error[d]
  /\ error' = [error EXCEPT ![d] = FALSE]
  /\ UNCHANGED <<backend, terminate, sent, cooling, power, faults>>

Cooled(d) ==
  /\ ~Finished
  /\ cooling[d]
  /\ cooling' = [cooling EXCEPT ![d] = FALSE]
  /\ UNCHANGED <<backend, terminate, sent, error, power, faults>>

Awaken ==
  /\ ~Finished
  /\ power = "waking"
  /\ power' = "awake"
  /\ UNCHANGED <<backend, terminate, sent, error, cooling, faults>>

-----------------------------------------------------------------------------
Backend == Convert \/ mitsu70x_wakeup \/ SelectDeck \/ CheckMemory \/ SendJob \/ Poll
           \/ CallAgain
Works(d) == Load(d) \/ Expose(d) \/ Cooled(d)
Returned == Finished /\ UNCHANGED vars

Next ==
  \/ Backend \/ TransferFails \/ sigterm_handler
  \/ Awaken \/ \E d \in Decks : Works(d) \/ Jam(d) \/ Clear(d)
  \/ Returned

(* The loops of the backend go on, and so does a deck without an error.    *)
(* Nobody has to clear an error, and no transfer has to fail.              *)
Fairness ==
  /\ WF_vars(Backend) /\ WF_vars(Awaken)
  /\ \A d \in Decks : WF_vars(Load(d) \/ Expose(d)) /\ WF_vars(Cooled(d))

Spec == Init /\ [][Next]_vars /\ Fairness

-----------------------------------------------------------------------------
Own == {i \in DOMAIN sent : sent[i].own}

(* The types of the variables; main_loop watches at most its latest sheet. *)
TypeOK ==
  /\ job \in Printjobs /\ round \in 1 .. job.rounds /\ copies \in 0 .. job.copies
  /\ pc \in {"convert", "wakeup", "top", "memory", "send", "wait", "returned"}
  /\ {jobid, reported, hdr.jobid} \subseteq 0 .. Ids - 1
  /\ {deck, reqdeck, hdr.deck} \subseteq 0 .. 2
  /\ result \in {"none", OK, Failed, Stop, Hold, Cancel}
  /\ terminate \in BOOLEAN
  /\ sent \in Seq(SentJob)
  /\ error \in [Decks -> BOOLEAN] /\ cooling \in [Decks -> BOOLEAN]
  /\ power \in {"asleep", "waking", "awake"} /\ faults \in 0 .. MaxFaults
  /\ \A i \in Own : sent[i].left = "watched" => i = Last /\ (pc = "wait" \/ result = Failed)

(* A sheet that main_loop saw to its end was printed.  An id is only kept  *)
(* apart from that of the job sent just before, so it may have been the    *)
(* end of another job that an earlier backend left in the printer.         *)
EndedMeansPrinted ==
  \A i \in Own :
    sent[i].left = "ended" =>
      \/ sent[i].state = "done"
      \/ \E k \in DOMAIN sent \ Own : sent[k].id = sent[i].id /\ k + 1 # i

(* OK without a SIGTERM: all copies of all rounds are printed or were left *)
(* to their decks on purpose, and a caller that waits has the last one.    *)
OkMeansPrinted ==
  result = OK /\ ~terminate =>
    LET Mistaken == {i \in Own : \E k \in DOMAIN sent \ Own : sent[k].id = sent[i].id}
        Printed  == {i \in Own : sent[i].state = "done"}
        Left     == {i \in Own : sent[i].left \in {"early", "to its deck"}}
    IN  /\ Cardinality(Printed \cup Left \cup Mistaken) >= job.copies * round
        /\ job.wait /\ round = job.rounds => Last \in Printed \cup Mistaken
        /\ job.num_decks = 1 /\ job.wait /\ job.rounds = 1 => Left = {}

(* A sheet too many needs an error: an error seen after the sheet was      *)
(* finished, or cleared later, has the same copy sent again.               *)
OneExtraPerError == Cardinality(Own) <= job.copies * round + faults

(* A job is held only when no deck that may print it works although        *)
(* another one does, and the queue is stopped only for an error.  After    *)
(* the first collated copy the deck of the last sheet counts as requested. *)
HoldForCause ==
  /\ \E d \in 1 .. job.num_decks : ~error[d]
  /\ round = 1 /\ job.reqdeck \notin job.ok =>
       \A d \in (IF job.exact = {} THEN job.ok ELSE job.exact) : error[d]
StopForCause ==
  AllOffline \/ \E i \in DOMAIN sent : sent[i].state = "lost" /\ sent[i].id = hdr.jobid
ReturnForCause ==
  pc # "returned" /\ pc' = "returned" =>
    (result' = Hold => HoldForCause) /\ (result' = Stop => StopForCause)
HoldOnlyWithoutDeck == [][ReturnForCause]_vars

(* main_loop returns, although nobody clears an error, unless the jobs     *)
(* waiting on decks with errors fill the printer's memory.                 *)
MemoryHeld == Cardinality({i \in Unfinished : error[sent[i].deck]}) >= Banks
ReturnsOrBlocked == <>Finished \/ <>[]MemoryHeld
=============================================================================
