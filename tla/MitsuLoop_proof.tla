--------------------------- MODULE MitsuLoop_proof ---------------------------
(* Proofs about MitsuLoop, for every printer, every job and any number of   *)
(* copies, rounds and errors: a job is held or stopped for a reason, the    *)
(* types, one sheet too many for an error at most, and (when the sheets of  *)
(* a call are fewer than the ids) that what ended was printed and that OK   *)
(* stands for all copies.                                                   *)
EXTENDS MitsuLoop, Integers, TLAPS, FiniteSetTheorems

(* What main_loop knows when it returns: the deck it chose is one of the    *)
(* printer's, and the first call still has the deck that was asked for.     *)
DeckChosen ==
  /\ job \in Printjobs
  /\ round \in Nat \ {0}
  /\ round = 1 => reqdeck = job.reqdeck
  /\ pc \in {"memory", "send", "wait"} => deck \in 1 .. job.num_decks

(* The decks a job may go to are decks of the printer. *)
LEMMA LegalDecksExist ==
  ASSUME job \in Printjobs
  PROVE  LegalDecks \subseteq 1 .. job.num_decks
<1>1. job \in PrintjobType /\ job.exact \subseteq job.ok /\ job.ok \subseteq 1 .. job.num_decks
  BY PrintjobAssumption
<1> QED  BY <1>1 DEF LegalDecks

(* At the call the deck is the one that was asked for.                      *)
LEMMA DeckChosenInit == Init => DeckChosen
<1>1. \A j \in Printjobs : j \in PrintjobType  BY PrintjobAssumption
<1> QED  BY <1>1 DEF Init, DeckChosen, PrintjobType

(* Every step keeps it; only SelectDeck chooses, and only CallAgain forgets *)
(* the request.                                                             *)
LEMMA DeckChosenNext == DeckChosen /\ [Next]_vars => DeckChosen'
<1> SUFFICES ASSUME DeckChosen, [Next]_vars PROVE DeckChosen'
  OBVIOUS
<1> USE DEF DeckChosen
<1>1. CASE Convert  BY <1>1 DEF Convert, call, Return
<1>2. CASE mitsu70x_wakeup  BY <1>2 DEF mitsu70x_wakeup, call
<1>3. CASE SelectDeck
  BY <1>3, LegalDecksExist DEF SelectDeck, call, Return
<1>4. CASE CheckMemory  BY <1>4 DEF CheckMemory, call, Return
<1>5. CASE SendJob  BY <1>5 DEF SendJob, call
<1>6. CASE Poll
  <2>1. CASE PollError  BY <1>6, <2>1 DEF Poll, PollError, call, Return
  <2>2. ASSUME NEW s, PollJob(s) PROVE DeckChosen'
    BY <1>6, <2>2 DEF Poll, PollJob, CopyDone, call, Return
  <2> QED  BY <1>6, <2>1, <2>2 DEF Poll
<1>7. CASE CallAgain  BY <1>7 DEF CallAgain
<1>8. CASE TransferFails \/ sigterm_handler \/ Returned \/ UNCHANGED vars
  BY <1>8 DEF TransferFails, sigterm_handler, Returned, vars, backend, call, Return
<1>9. CASE Awaken  BY <1>9 DEF Awaken, backend, call
<1>10. ASSUME NEW d \in Decks, Works(d) \/ Jam(d) \/ Clear(d) PROVE DeckChosen'
  BY <1>10 DEF Works, Load, Expose, Cooled, Jam, Clear, backend, call
<1> QED
  BY <1>1, <1>2, <1>3, <1>4, <1>5, <1>6, <1>7, <1>8, <1>9, <1>10 DEF Next, Backend

(* A call that selects no deck returns for a reason. *)
LEMMA SelectDeckForCause == DeckChosen /\ SelectDeck => ReturnForCause
<1> SUFFICES ASSUME DeckChosen, SelectDeck, pc' = "returned"
             PROVE  /\ result' = Hold => HoldForCause
                    /\ result' = Stop => StopForCause
  BY DEF ReturnForCause
<1>1. /\ job \in PrintjobType /\ job.exact \subseteq job.ok /\ job.ok \subseteq 1 .. job.num_decks
      /\ job.num_decks = 2 => job.d70x
  BY PrintjobAssumption DEF DeckChosen
<1>2. /\ result' = Hold => ~AllOffline /\ \A d \in LegalDecks : ~Online(d)
      /\ result' = Stop => AllOffline
  BY DEF SelectDeck, Return, Hold, Stop, Cancel
<1>3. ASSUME result' = Hold PROVE HoldForCause
  <2>1. \E d \in 1 .. job.num_decks : ~error[d]
    BY <1>2, <1>3 DEF AllOffline
  <2>2. \A d \in LegalDecks : error[d]
    BY <1>2, <1>3 DEF Online
  <2>3. ASSUME round = 1, job.reqdeck \notin job.ok
        PROVE  \A d \in (IF job.exact = {} THEN job.ok ELSE job.exact) : error[d]
    <3>1. CASE job.d70x
      <4>1. Requested \notin job.ok  BY <2>3, <3>1 DEF Requested, DeckChosen
      <4> QED  BY <4>1, <2>2 DEF LegalDecks
    <3>2. CASE ~job.d70x
      <4>1. job.ok \subseteq {1} /\ Requested = 1
        BY <1>1, <3>2 DEF PrintjobType, Decks, Requested
      <4> QED  BY <4>1, <1>1, <2>2 DEF LegalDecks
    <3> QED  BY <3>1, <3>2
  <2> QED  BY <2>1, <2>3 DEF HoldForCause
<1> QED  BY <1>2, <1>3 DEF StopForCause

(* So does the loop over the status of the copy that was sent. *)
LEMMA PollForCause == DeckChosen /\ Poll => ReturnForCause
<1> SUFFICES ASSUME DeckChosen, Poll, pc' = "returned"
             PROVE  /\ result' = Hold => HoldForCause
                    /\ result' = Stop => StopForCause
  BY DEF ReturnForCause
<1>1. CASE PollError
  <2>1. result' = Stop /\ job.num_decks # 2 /\ error[deck]
    BY <1>1 DEF PollError, Return
  <2>2. job.num_decks = 1
    BY <2>1, PrintjobAssumption DEF DeckChosen, PrintjobType, Decks
  <2>3. deck = 1  BY <2>2 DEF DeckChosen, Poll
  <2> QED  BY <2>1, <2>2, <2>3 DEF AllOffline, StopForCause, Stop, Hold
<1>2. ASSUME NEW i \in DOMAIN sent, sent[i].id = hdr.jobid, PollJob(sent[i].state)
      PROVE  /\ result' = Hold => HoldForCause
             /\ result' = Stop => StopForCause
  <2>1. CASE sent[i].state = "lost" /\ result' = Stop
    BY <1>2, <2>1 DEF StopForCause, Stop, Hold
  <2>2. CASE result' = OK
    BY <2>2 DEF OK, Stop, Hold
  <2> QED  BY <1>2, <2>1, <2>2 DEF PollJob, CopyDone, Return
<1> QED  BY <1>1, <1>2 DEF Poll

(* For every printer and job: a job is held only when every deck that may   *)
(* print it reports an error while another deck works, and the queue is     *)
(* stopped only for an error.                                               *)
THEOREM HoldsForCause == Spec => HoldOnlyWithoutDeck
<1>1. DeckChosen /\ [Next]_vars => [ReturnForCause]_vars
  <2> SUFFICES ASSUME DeckChosen, Next, pc # "returned", pc' = "returned",
                      result' \in {Hold, Stop}
               PROVE  ReturnForCause
    BY DEF ReturnForCause
  <2>1. CASE SelectDeck  BY <2>1, SelectDeckForCause
  <2>2. CASE Poll  BY <2>2, PollForCause
  <2>3. ~(Convert \/ mitsu70x_wakeup \/ CheckMemory \/ SendJob \/ CallAgain \/ TransferFails)
    BY DEF Convert, mitsu70x_wakeup, CheckMemory, SendJob, CallAgain, TransferFails, Return,
           Hold, Stop, Cancel, Failed
  <2>4. ~(sigterm_handler \/ Returned \/ Awaken)
    BY DEF sigterm_handler, Returned, Awaken, vars, backend
  <2>5. \A d \in Decks : ~(Works(d) \/ Jam(d) \/ Clear(d))
    BY DEF Works, Load, Expose, Cooled, Jam, Clear, backend
  <2> QED  BY <2>1, <2>2, <2>3, <2>4, <2>5 DEF Next, Backend
<1> QED  BY <1>1, DeckChosenInit, DeckChosenNext, PTL DEF Spec, HoldOnlyWithoutDeck

-----------------------------------------------------------------------------
(* The types.                                                               *)

(* Changing one field of one job keeps the list of jobs typed, and the      *)
(* others as they are.                                                      *)
LEMMA UpdateLeft ==
  ASSUME NEW q \in Seq(SentJob), NEW i \in DOMAIN q, NEW how, NEW p,
         [q[i] EXCEPT !.left = how] \in SentJob, p = [q EXCEPT ![i].left = how]
  PROVE  /\ p \in Seq(SentJob) /\ Len(p) = Len(q)
         /\ p[i] = [q[i] EXCEPT !.left = how]
         /\ \A k \in DOMAIN q : k # i => p[k] = q[k]
  OBVIOUS

(* The same for the state of one sheet.                                     *)
LEMMA UpdateState ==
  ASSUME NEW q \in Seq(SentJob), NEW i \in DOMAIN q, NEW state, NEW p,
         [q[i] EXCEPT !.state = state] \in SentJob, p = [q EXCEPT ![i].state = state]
  PROVE  /\ p \in Seq(SentJob) /\ Len(p) = Len(q)
         /\ p[i] = [q[i] EXCEPT !.state = state]
         /\ \A k \in DOMAIN q : k # i => p[k] = q[k]
  OBVIOUS

States == {"queued", "loading", "printing", "done", "lost"}
Lefts == {"watched", "ended", "abnormal", "early", "to its deck", "error"}

(* A sheet stays a sheet when main_loop stops watching it,                  *)
LEMMA RecordLeft ==
  ASSUME NEW r \in SentJob, NEW how \in Lefts, NEW t, t = [r EXCEPT !.left = how]
  PROVE  t \in SentJob /\ t.left = how /\ t.own = r.own /\ t.state = r.state /\ t.id = r.id
  BY DEF SentJob, Lefts

(* and when the printer moves it on.                                        *)
LEMMA RecordState ==
  ASSUME NEW r \in SentJob, NEW s \in States, NEW t, t = [r EXCEPT !.state = s]
  PROVE  t \in SentJob /\ t.left = r.left /\ t.own = r.own /\ t.state = s /\ t.id = r.id
  BY DEF SentJob, States

(* The two put together: main_loop leaves sheet i, and nothing else of any  *)
(* sheet changes.                                                           *)
LEMMA LeaveFacts ==
  ASSUME NEW q \in Seq(SentJob), NEW i \in DOMAIN q, NEW how \in Lefts,
         NEW p, p = [q EXCEPT ![i].left = how]
  PROVE  /\ p \in Seq(SentJob) /\ Len(p) = Len(q)
         /\ p[i].left = how /\ p[i].own = q[i].own /\ p[i].state = q[i].state /\ p[i].id = q[i].id
         /\ \A k \in DOMAIN q : k # i => p[k] = q[k]
<1>1. PICK t : t = [q[i] EXCEPT !.left = how]  OBVIOUS
<1>2. PICK r \in SentJob : r = q[i]  OBVIOUS
<1>3. t \in SentJob /\ t.left = how /\ t.own = r.own /\ t.state = r.state /\ t.id = r.id
  BY <1>1, <1>2, RecordLeft
<1>4. t = [q[i] EXCEPT !.left = how] /\ [q[i] EXCEPT !.left = how] \in SentJob
  BY <1>1, <1>3
<1>5. /\ p \in Seq(SentJob) /\ Len(p) = Len(q) /\ p[i] = t
      /\ \A k \in DOMAIN q : k # i => p[k] = q[k]
  BY <1>4, UpdateLeft
<1> QED  BY <1>2, <1>3, <1>5

(* The printer moves sheet i on, and nothing else of any sheet changes.     *)
LEMMA BecomesFacts ==
  ASSUME NEW q \in Seq(SentJob), NEW i \in DOMAIN q, NEW s \in States,
         NEW p, p = [q EXCEPT ![i].state = s]
  PROVE  /\ p \in Seq(SentJob) /\ Len(p) = Len(q)
         /\ p[i].left = q[i].left /\ p[i].own = q[i].own /\ p[i].state = s /\ p[i].id = q[i].id
         /\ \A k \in DOMAIN q : k # i => p[k] = q[k]
<1>1. PICK t : t = [q[i] EXCEPT !.state = s]  OBVIOUS
<1>2. PICK r \in SentJob : r = q[i]  OBVIOUS
<1>3. t \in SentJob /\ t.left = r.left /\ t.own = r.own /\ t.state = s /\ t.id = r.id
  BY <1>1, <1>2, RecordState
<1>4. t = [q[i] EXCEPT !.state = s] /\ [q[i] EXCEPT !.state = s] \in SentJob
  BY <1>1, <1>3
<1>5. /\ p \in Seq(SentJob) /\ Len(p) = Len(q) /\ p[i] = t
      /\ \A k \in DOMAIN q : k # i => p[k] = q[k]
  BY <1>4, UpdateState
<1> QED  BY <1>2, <1>3, <1>5

(* The invariant behind the type invariant: a call that goes on has a copy  *)
(* to print, the sheet it watches is the last one, and goes to the deck     *)
(* that was chosen.                                                         *)
JobOK ==
  /\ job \in Printjobs /\ round \in 1 .. job.rounds /\ copies \in 0 .. job.copies
  /\ job \in PrintjobType
BackendOK ==
  /\ pc \in {"convert", "wakeup", "top", "memory", "send", "wait", "returned"}
  /\ jobid \in 0 .. Ids - 1 /\ reported \in 0 .. Ids - 1 /\ hdr.jobid \in 0 .. Ids - 1
  /\ deck \in 0 .. 2 /\ reqdeck \in 0 .. 2 /\ hdr.deck \in 0 .. 2
  /\ result \in {"none", OK, Failed, Stop, Hold, Cancel}
  /\ terminate \in BOOLEAN
PrinterOK ==
  /\ error \in [Decks -> BOOLEAN] /\ cooling \in [Decks -> BOOLEAN]
  /\ power \in {"asleep", "waking", "awake"} /\ faults \in 0 .. MaxFaults
SentOK ==
  /\ sent \in Seq(SentJob)
  /\ \A i \in DOMAIN sent : sent[i].own /\ sent[i].left = "watched" =>
       i = Len(sent) /\ (pc = "wait" \/ result = Failed)
LoopOK ==
  /\ DeckChosen
  /\ pc = "returned" <=> result # "none"
  /\ result # OK => copies >= 1
  /\ pc \in {"send", "wait"} => hdr.deck = deck
  /\ pc = "wait" => sent # <<>>
IInv == JobOK /\ BackendOK /\ PrinterOK /\ SentOK /\ LoopOK

(* The invariant has every conjunct of the type invariant.                  *)
LEMMA IInvImpliesTypeOK == IInv => TypeOK
  BY DEF IInv, JobOK, BackendOK, PrinterOK, SentOK, LoopOK, TypeOK, Own, Last

(* The id that is found is an id, whatever was reported. *)
LEMMA NextIdIsId ==
  ASSUME NEW id \in 0 .. Ids - 1, NEW last
  PROVE  NextId(id, last) \in 0 .. Ids - 1
  BY PrinterAssumption DEF NextId

(* What the global status reports as the newest id is an id.                *)
LEMMA NewestIdIsId == SentOK => NewestId \in 0 .. Ids - 1
<1> SUFFICES ASSUME SentOK, sent # <<>> PROVE sent[Len(sent)].id \in 0 .. Ids - 1
  BY PrinterAssumption DEF NewestId, Last
<1>1. sent[Len(sent)] \in SentJob  BY DEF SentOK
<1>2. \A r \in SentJob : r.id \in 0 .. Ids - 1  BY DEF SentJob
<1> QED  BY <1>1, <1>2

(* The call starts with all of its copies to print and no sheet of its own. *)
LEMMA IInvInit == Init => IInv
<1> SUFFICES ASSUME Init PROVE IInv
  OBVIOUS
<1>1. job \in PrintjobType  BY PrintjobAssumption DEF Init
<1>2. \A j \in PrintjobType : j.copies \in Nat \ {0} /\ j.rounds \in Nat \ {0} /\ j.reqdeck \in 0 .. 2
  BY DEF PrintjobType
<1>3. JobOK  BY <1>1, <1>2 DEF Init, JobOK
<1>4. 0 \in 0 .. Ids - 1 /\ jobid \in 0 .. Ids - 1 /\ MaxFaults \in Nat
  BY PrinterAssumption DEF Init
<1>5. BackendOK
  <2>1. pc \in {"convert", "wakeup"}  BY Zenon DEF Init
  <2>2. job.reqdeck \in 0 .. 2 /\ reqdeck = job.reqdeck /\ deck = 0 /\ reported = 0
    BY <1>1, <1>2 DEF Init
  <2>3. hdr.jobid = 0 /\ hdr.deck = job.reqdeck  BY DEF Init
  <2>4. result = "none" /\ terminate \in BOOLEAN  BY DEF Init
  <2> QED  BY <1>4, <2>1, <2>2, <2>3, <2>4 DEF BackendOK
<1>6. PrinterOK
  <2>1. error \in [Decks -> BOOLEAN] /\ power \in {"asleep", "waking", "awake"}  BY DEF Init
  <2>2. cooling \in [Decks -> BOOLEAN]  BY DEF Init
  <2>3. faults \in 0 .. MaxFaults  BY <1>4 DEF Init
  <2> QED  BY <2>1, <2>2, <2>3 DEF PrinterOK
<1>7. SentOK  BY PrinterAssumption DEF Init, SentOK
<1>8. LoopOK  BY <1>1, <1>2, DeckChosenInit DEF Init, LoopOK, OK
<1> QED  BY <1>3, <1>5, <1>6, <1>7, <1>8 DEF IInv

(* The steps of the backend that touch neither the job nor the printer.     *)
LEMMA SelectionKeeps ==
  ASSUME IInv, Convert \/ mitsu70x_wakeup \/ SelectDeck \/ CheckMemory, DeckChosen'
  PROVE  IInv'
<1> USE DEF IInv, JobOK, BackendOK, PrinterOK, SentOK, LoopOK, Return, call, printer
<1>1. CASE Convert
  BY <1>1 DEF Convert, Cancel, OK, Failed
<1>2. CASE mitsu70x_wakeup
  BY <1>2 DEF mitsu70x_wakeup
<1>3. CASE SelectDeck
  <2>1. NewestId \in 0 .. Ids - 1  BY NewestIdIsId
  <2>2. LegalDecks \subseteq 0 .. 2
    <3>1. job.num_decks \in Decks  BY DEF PrintjobType
    <3> QED  BY <3>1, LegalDecksExist DEF Decks
  <2> QED  BY <1>3, <2>1, <2>2 DEF SelectDeck, Cancel, OK, Failed, Stop, Hold
<1>4. CASE CheckMemory
  <2>1. NextId(jobid, reported) \in 0 .. Ids - 1  BY NextIdIsId
  <2> QED  BY <1>4, <2>1 DEF CheckMemory, Cancel, OK, Failed, Stop, Hold
<1> QED  BY <1>1, <1>2, <1>3, <1>4

(* The sheet that is sent goes to the chosen deck, and no other was         *)
(* watched.                                                                 *)
LEMMA SendKeeps == ASSUME IInv, SendJob, DeckChosen' PROVE IInv'
<1> USE DEF IInv, JobOK, BackendOK, PrinterOK, SentOK, LoopOK
<1>0. PICK state \in States :
        sent' = Append(sent, [id |-> hdr.jobid, deck |-> hdr.deck, own |-> TRUE,
                              state |-> state, left |-> "watched"])
  BY DEF SendJob, States
<1> DEFINE new == [id |-> hdr.jobid, deck |-> hdr.deck, own |-> TRUE,
                   state |-> state, left |-> "watched"]
<1>1. hdr.deck \in Decks
  <2>1. job.num_decks \in Decks  BY DEF PrintjobType
  <2> QED  BY <2>1 DEF SendJob, DeckChosen, Decks
<1>2. new \in SentJob  BY <1>1 DEF SentJob, States
<1>3. /\ sent' \in Seq(SentJob) /\ Len(sent') = Len(sent) + 1 /\ sent' # <<>>
      /\ \A i \in DOMAIN sent : sent'[i] = sent[i]
  BY <1>0, <1>2
<1>4. \A i \in DOMAIN sent : ~(sent[i].own /\ sent[i].left = "watched")
  BY DEF SendJob, Failed
<1>5. SentOK'  BY <1>3, <1>4 DEF SendJob
<1> QED  BY <1>3, <1>5 DEF SendJob, call

(* What is left is the last sheet.                                          *)
LEMMA LastSheet ==
  ASSUME IInv, pc = "wait", NEW how \in Lefts, Leave(how)
  PROVE  /\ sent' \in Seq(SentJob) /\ Len(sent') = Len(sent) /\ sent' # <<>>
         /\ sent'[Len(sent)].left = how
         /\ \A k \in DOMAIN sent : k # Len(sent) => sent'[k] = sent[k]
<1>1. sent \in Seq(SentJob) /\ Len(sent) \in DOMAIN sent
  BY DEF IInv, SentOK, LoopOK
<1>2. sent' = [sent EXCEPT ![Len(sent)].left = how]
  BY DEF Leave, Last
<1> QED  BY <1>1, <1>2, LeaveFacts

(* After its sheet was polled no sheet is watched, or the poll goes on.     *)
LEMMA LeaveKeepsSent ==
  ASSUME IInv, pc = "wait", NEW how \in Lefts \ {"watched"}, Leave(how)
  PROVE  SentOK' /\ \A i \in DOMAIN sent' : sent'[i].own => sent'[i].left # "watched"
<1>1. /\ sent' \in Seq(SentJob) /\ Len(sent') = Len(sent)
      /\ sent'[Len(sent)].left = how
      /\ \A k \in DOMAIN sent : k # Len(sent) => sent'[k] = sent[k]
  BY LastSheet
<1>2. \A i \in DOMAIN sent' : sent'[i].own => sent'[i].left # "watched"
  <2> SUFFICES ASSUME NEW i \in DOMAIN sent', sent'[i].own PROVE sent'[i].left # "watched"
    OBVIOUS
  <2>1. CASE i = Len(sent)  BY <1>1, <2>1
  <2>2. CASE i # Len(sent)  BY <1>1, <2>2 DEF IInv, SentOK
  <2> QED  BY <2>1, <2>2
<1> QED  BY <1>1, <1>2 DEF SentOK

(* A copy that is counted leaves one copy less, or none and OK.             *)
LEMMA CopyDoneKeeps ==
  ASSUME IInv, pc = "wait", Poll, NEW how \in Lefts \ {"watched"}, CopyDone(how), DeckChosen'
  PROVE  IInv'
<1> USE DEF IInv, JobOK, BackendOK, PrinterOK, LoopOK, Poll, call
<1>1. Leave(how) /\ SentOK' /\ sent' # <<>>  BY LeaveKeepsSent, LastSheet DEF CopyDone
<1>2. copies \in Nat \ {0} /\ job.copies \in Nat
  BY DEF PrintjobType, OK
<1>3. copies' \in 0 .. copies /\ copies' \in 0 .. job.copies
  BY <1>2 DEF CopyDone
<1>4. \/ copies' > 0 /\ pc' = "top" /\ result' = result
      \/ pc' = "returned" /\ result' = OK
  BY DEF CopyDone, Return
<1>5. JobOK'  BY <1>3
<1>6. BackendOK' /\ PrinterOK'  BY <1>4
<1>7. LoopOK'  BY <1>3, <1>4 DEF OK
<1> QED  BY <1>1, <1>5, <1>6, <1>7

(* A poll takes the sheet for done, for lost, or for stopped by an error.    *)
LEMMA PollKeeps == ASSUME IInv, Poll, DeckChosen' PROVE IInv'
<1>0. pc = "wait"  BY DEF Poll
<1>1. CASE PollError
  <2>1. SentOK' /\ sent' # <<>>
    BY <1>0, <1>1, LeaveKeepsSent, LastSheet DEF PollError, Lefts
  <2> QED
    BY <1>1, <2>1 DEF IInv, JobOK, BackendOK, PrinterOK, LoopOK, Poll, PollError, Return, call,
         OK, Stop
<1>2. ASSUME NEW state, PollJob(state) PROVE IInv'
  <2>1. CASE Leave("abnormal") /\ Return(Stop) /\ UNCHANGED copies
    <3>1. SentOK' /\ sent' # <<>>
      BY <1>0, <2>1, LeaveKeepsSent, LastSheet DEF Lefts
    <3> QED
      BY <2>1, <3>1 DEF IInv, JobOK, BackendOK, PrinterOK, LoopOK, Poll, Return, call, OK, Stop
  <2>2. CASE \E how \in {"ended", "early", "to its deck"} : CopyDone(how)
    BY <1>0, <2>2, CopyDoneKeeps DEF Lefts
  <2> QED  BY <1>2, <2>1, <2>2 DEF PollJob
<1> QED  BY <1>1, <1>2 DEF Poll

(* The steps that end or begin a call, and the signal. *)
LEMMA CallKeeps ==
  ASSUME IInv, CallAgain \/ TransferFails \/ sigterm_handler \/ Returned \/ UNCHANGED vars,
         DeckChosen'
  PROVE  IInv'
<1> USE DEF IInv, JobOK, BackendOK, PrinterOK, SentOK, LoopOK
<1>1. CASE CallAgain
  BY <1>1 DEF CallAgain, printer, OK, Failed, PrintjobType
<1>2. CASE TransferFails
  BY <1>2 DEF TransferFails, Return, call, printer, OK, Failed
<1>3. CASE sigterm_handler  BY <1>3 DEF sigterm_handler, backend, call, printer
<1>4. CASE Returned \/ UNCHANGED vars  BY <1>4 DEF Returned, vars, backend, call, printer
<1> QED  BY <1>1, <1>2, <1>3, <1>4

(* The printer changes only the states of the jobs. *)
LEMMA BecomesKeeps ==
  ASSUME IInv, NEW i \in DOMAIN sent, NEW s \in States, Becomes(i, s), pc' = pc, result' = result
  PROVE  SentOK' /\ sent' # <<>>
<1>1. sent \in Seq(SentJob)  BY DEF IInv, SentOK
<1>2. /\ sent' \in Seq(SentJob) /\ Len(sent') = Len(sent)
      /\ sent'[i].left = sent[i].left /\ sent'[i].own = sent[i].own
      /\ \A k \in DOMAIN sent : k # i => sent'[k] = sent[k]
  BY <1>1, BecomesFacts DEF Becomes
<1>3. \A k \in DOMAIN sent : sent'[k].left = sent[k].left /\ sent'[k].own = sent[k].own
  BY <1>2
<1> QED  BY <1>1, <1>2, <1>3 DEF IInv, SentOK

(* The printer's steps change nothing of main_loop's, and of the sheets     *)
(* only their states.                                                       *)
LEMMA PrinterKeeps ==
  ASSUME IInv, NEW d \in Decks, Awaken \/ Works(d) \/ Jam(d) \/ Clear(d), DeckChosen'
  PROVE  IInv'
<1>1. pc' = pc /\ result' = result /\ UNCHANGED <<backend, terminate>>
  BY DEF Awaken, Works, Load, Expose, Cooled, Jam, Clear, backend
<1>2. UNCHANGED sent \/ \E i \in DOMAIN sent, s \in States : Becomes(i, s)
  BY DEF Awaken, Works, Load, Expose, Cooled, Jam, Clear, Unfinished, Active, States
<1>3. SentOK' /\ (pc = "wait" => sent' # <<>>)
  BY <1>1, <1>2, BecomesKeeps DEF IInv, SentOK, LoopOK
<1>4. PrinterOK'
  <2>1. faults' \in 0 .. MaxFaults
    BY PrinterAssumption DEF IInv, PrinterOK, Awaken, Works, Load, Expose, Cooled, Jam, Clear
  <2>2. error' \in [Decks -> BOOLEAN]
    BY DEF IInv, PrinterOK, Awaken, Works, Load, Expose, Cooled, Jam, Clear
  <2>3. cooling' \in [Decks -> BOOLEAN]
    BY DEF IInv, PrinterOK, Awaken, Works, Load, Expose, Cooled, Jam, Clear
  <2>4. power' \in {"asleep", "waking", "awake"}
    BY DEF IInv, PrinterOK, Awaken, Works, Load, Expose, Cooled, Jam, Clear
  <2> QED  BY <2>1, <2>2, <2>3, <2>4 DEF PrinterOK
<1> QED  BY <1>1, <1>3, <1>4 DEF IInv, JobOK, BackendOK, LoopOK, backend, call

(* Every step keeps the invariant.                                          *)
LEMMA IInvNext == IInv /\ [Next]_vars => IInv'
<1> SUFFICES ASSUME IInv, [Next]_vars PROVE IInv'
  OBVIOUS
<1>1. DeckChosen'  BY DeckChosenNext DEF IInv, LoopOK
<1>2. CASE Convert \/ mitsu70x_wakeup \/ SelectDeck \/ CheckMemory
  BY <1>1, <1>2, SelectionKeeps
<1>3. CASE SendJob  BY <1>1, <1>3, SendKeeps
<1>4. CASE Poll  BY <1>1, <1>4, PollKeeps
<1>5. CASE CallAgain \/ TransferFails \/ sigterm_handler \/ Returned \/ UNCHANGED vars
  BY <1>1, <1>5, CallKeeps
<1>6. ASSUME NEW d \in Decks, Awaken \/ Works(d) \/ Jam(d) \/ Clear(d) PROVE IInv'
  BY <1>1, <1>6, PrinterKeeps
<1>7. CASE Awaken
  BY <1>6, <1>7 DEF Decks
<1> QED  BY <1>2, <1>3, <1>4, <1>5, <1>6, <1>7 DEF Next, Backend

(* For every printer and job, and any number of copies, rounds and errors:   *)
(* every variable keeps its type, and main_loop watches only the last sheet *)
(* it sent, and only while it waits or when a transfer failed.              *)
THEOREM TypeCorrect == Spec => []TypeOK
<1> QED  BY IInvInit, IInvNext, IInvImpliesTypeOK, PTL DEF Spec

-----------------------------------------------------------------------------
(* The number of sheets.  Every copy and every error may cost one: the copy *)
(* in hand is counted by copies until it is done, and an error by Alarm     *)
(* until main_loop has seen it.                                             *)
Alarm == IF pc \in {"memory", "send", "wait"} /\ error[deck] THEN 1 ELSE 0
InHand == IF pc = "wait" \/ result \notin {"none", OK} THEN 1 ELSE 0
Total == job.copies * round
Budget == Cardinality(Own) + copies + Alarm <= Total + faults + InHand

(* The terms of the budget are numbers.                                     *)
LEMMA CountTypes ==
  ASSUME IInv
  PROVE  /\ IsFiniteSet(Own) /\ Cardinality(Own) \in Nat
         /\ Alarm \in {0, 1} /\ InHand \in {0, 1}
         /\ copies \in Nat /\ faults \in Nat /\ job.copies \in Nat /\ round \in Nat /\ Total \in Nat
<1>1. IsFiniteSet(1 .. Len(sent)) /\ Own \subseteq 1 .. Len(sent)
  BY FS_Interval DEF IInv, SentOK, Own
<1>2. IsFiniteSet(Own) /\ Cardinality(Own) \in Nat
  BY <1>1, FS_Subset, FS_CardinalityType
<1>3. copies \in Nat /\ faults \in Nat /\ job.copies \in Nat /\ round \in Nat
  BY PrinterAssumption DEF IInv, JobOK, PrinterOK, PrintjobType
<1> QED  BY <1>2, <1>3 DEF Alarm, InHand, Total

(* The budget gives the bound: the copy in hand is one still to print.      *)
LEMMA BudgetBoundsSheets == IInv /\ Budget => OneExtraPerError
<1> SUFFICES ASSUME IInv, Budget PROVE Cardinality(Own) <= Total + faults
  BY DEF OneExtraPerError, Total
<1>1. CASE InHand = 0  BY <1>1, CountTypes DEF Budget
<1>2. CASE InHand = 1
  <2>1. copies >= 1  BY <1>2 DEF InHand, IInv, LoopOK, OK
  <2> QED  BY <1>2, <2>1, CountTypes DEF Budget
<1> QED  BY <1>1, <1>2, CountTypes

(* At the call no sheet is sent and no error seen.                          *)
LEMMA BudgetInit == Init => Budget
<1> SUFFICES ASSUME Init PROVE Budget
  OBVIOUS
<1>1. Own = {}
  BY PrinterAssumption DEF Init, Own
<1>2. Cardinality(Own) = 0  BY <1>1, FS_EmptySet
<1>3. job.copies \in Nat /\ copies = job.copies /\ Total = job.copies /\ faults = 0
  <2>1. job.copies \in Nat  BY PrintjobAssumption DEF Init, PrintjobType
  <2> QED  BY <2>1 DEF Init, Total
<1>4. Alarm = 0 /\ InHand = 0
  <2>1. pc \in {"convert", "wakeup"} /\ result = "none"  BY Zenon DEF Init
  <2> QED  BY <2>1 DEF Alarm, InHand
<1> QED  BY <1>2, <1>3, <1>4 DEF Budget

(* Only the states of the jobs and new jobs count. *)
LEMMA LeaveCounts ==
  ASSUME IInv, pc = "wait", NEW how \in Lefts, Leave(how)
  PROVE  Own' = Own
<1>1. /\ sent \in Seq(SentJob) /\ Len(sent) \in DOMAIN sent
      /\ sent' = [sent EXCEPT ![Len(sent)].left = how]
  BY DEF IInv, SentOK, LoopOK, Leave, Last
<1>2. /\ sent' \in Seq(SentJob) /\ Len(sent') = Len(sent)
      /\ \A k \in DOMAIN sent : sent'[k].own = sent[k].own /\ sent'[k].state = sent[k].state
  BY <1>1, LeaveFacts
<1> QED  BY <1>1, <1>2 DEF Own

(* SendJob adds one sheet,                                                  *)
LEMMA SendCounts ==
  ASSUME IInv, SendJob, IInv'
  PROVE  Cardinality(Own') = Cardinality(Own) + 1
<1> DEFINE n == Len(sent) + 1
<1>1. /\ sent \in Seq(SentJob) /\ sent' \in Seq(SentJob) /\ Len(sent') = n
      /\ sent'[n].own
      /\ \A i \in DOMAIN sent : sent'[i] = sent[i]
  BY DEF IInv, SentOK, SendJob
<1>2. DOMAIN sent' = DOMAIN sent \cup {n} /\ n \notin DOMAIN sent
  BY <1>1
<1>3. Own' = Own \cup {n} /\ n \notin Own
  BY <1>1, <1>2 DEF Own
<1> QED  BY <1>3, CountTypes, FS_AddElement

(* and the printer none.                                                    *)
LEMMA BecomesCounts ==
  ASSUME IInv, NEW i \in Unfinished, NEW s \in States, Becomes(i, s)
  PROVE  Own' = Own
<1>1. sent \in Seq(SentJob) /\ i \in DOMAIN sent
  BY DEF IInv, SentOK, Unfinished
<1>2. /\ sent' \in Seq(SentJob) /\ Len(sent') = Len(sent)
      /\ \A k \in DOMAIN sent : sent'[k].own = sent[k].own
  BY <1>1, BecomesFacts DEF Becomes
<1> QED  BY <1>1, <1>2 DEF Own

(* Every step keeps the budget: a sheet is sent for the copy in hand, and   *)
(* goes to waste only when an error on its deck is seen.                    *)
LEMMA BudgetNext == IInv /\ Budget /\ [Next]_vars /\ IInv' => Budget'
<1> SUFFICES ASSUME IInv, Budget, [Next]_vars, IInv' PROVE Budget'
  OBVIOUS
<1> DEFINE N == Cardinality(Own)
<1>0. /\ N \in Nat /\ N' \in Nat /\ Alarm \in {0, 1} /\ Alarm' \in {0, 1}
      /\ InHand \in {0, 1} /\ InHand' \in {0, 1}
      /\ copies \in Nat /\ copies' \in Nat /\ faults \in Nat /\ faults' \in Nat
      /\ Total \in Nat /\ Total' \in Nat
  <2>1. IsFiniteSet(Own') /\ Cardinality(Own') \in Nat
    <3>1. sent' \in Seq(SentJob)  BY DEF IInv, SentOK
    <3>2. Own' \subseteq 1 .. Len(sent')  BY <3>1 DEF Own
    <3>3. IsFiniteSet(1 .. Len(sent'))  BY <3>1, FS_Interval
    <3> QED  BY <3>2, <3>3, FS_Subset, FS_CardinalityType
  <2>2. copies' \in Nat /\ faults' \in Nat /\ job'.copies \in Nat /\ round' \in Nat
    BY PrinterAssumption DEF IInv, JobOK, PrinterOK, PrintjobType
  <2> QED  BY <2>1, <2>2, CountTypes DEF Alarm, InHand, Total
<1> HIDE DEF N
<1>1. CASE UNCHANGED vars \/ Returned \/ sigterm_handler
  <2>1. UNCHANGED <<job, round, pc, copies, deck, result, sent, error, faults>>
    BY <1>1 DEF Returned, sigterm_handler, vars, backend, call, printer
  <2> QED  BY <2>1 DEF Budget, Own, Alarm, InHand, Total
<1>2. ASSUME UNCHANGED <<job, round, copies, sent, faults>>,
             Alarm' <= Alarm, InHand' >= InHand
      PROVE  Budget'
  <2>1. N' = N  BY <1>2 DEF N, Own
  <2> QED  BY <1>0, <1>2, <2>1 DEF Budget, N, Total
<1>3. CASE Convert \/ mitsu70x_wakeup
  BY <1>2, <1>3 DEF Convert, mitsu70x_wakeup, Return, call, printer, Alarm, InHand, Cancel, OK
<1>4. CASE SelectDeck
  <2>1. Alarm' = 0
    BY <1>4 DEF SelectDeck, Usable, Return, printer, Alarm
  <2>2. InHand = 0
    BY <1>4 DEF SelectDeck, IInv, LoopOK, InHand
  <2> QED  BY <1>0, <1>2, <1>4, <2>1, <2>2 DEF SelectDeck, call, printer
<1>5. CASE CheckMemory \/ TransferFails
  <2>1. InHand' >= InHand
    BY <1>5 DEF CheckMemory, TransferFails, Return, Failed, Cancel, OK, InHand, IInv, LoopOK
  <2>2. Alarm' <= Alarm
    BY <1>5 DEF CheckMemory, TransferFails, Return, Alarm, printer
  <2> QED  BY <1>2, <1>5, <2>1, <2>2 DEF CheckMemory, TransferFails, call, printer
<1>6. CASE SendJob
  <2>1. N' = N + 1  BY <1>6, SendCounts DEF N
  <2>2. InHand = 0 /\ InHand' = 1 /\ Alarm' = Alarm
    BY <1>6 DEF SendJob, InHand, Alarm, IInv, LoopOK
  <2> QED  BY <1>0, <1>6, <2>1, <2>2 DEF Budget, N, SendJob, call, Total
<1>7. CASE Poll
  <2>1. InHand = 1 /\ UNCHANGED <<job, round, faults>>
    BY <1>7 DEF Poll, InHand, call
  <2>2. ASSUME NEW how \in Lefts, Leave(how) PROVE N' = N
    BY <1>7, <2>2, LeaveCounts DEF N, Poll
  <2>3. ASSUME NEW how \in Lefts, CopyDone(how) PROVE Budget'
    <3>1. N' = N  BY <2>2, <2>3 DEF CopyDone
    <3>2. copies' <= copies - 1 /\ InHand' = 0 /\ Alarm' = 0
      <4>1. copies >= 1  BY <1>7 DEF Poll, IInv, LoopOK, OK
      <4>2. copies' <= copies - 1  BY <1>0, <2>3, <4>1 DEF CopyDone
      <4>3. pc' \in {"top", "returned"} /\ result' \in {"none", OK}
        BY <1>7, <2>3 DEF CopyDone, Poll, Return, IInv, LoopOK
      <4> QED  BY <4>2, <4>3 DEF InHand, Alarm
    <3> QED  BY <1>0, <2>1, <3>1, <3>2 DEF Budget, N, Total
  <2>4. CASE PollError
    <3>1. N' = N  BY <2>2, <2>4 DEF PollError, Lefts
    <3>2. Alarm = 1 /\ Alarm' = 0  BY <1>7, <2>4 DEF Poll, PollError, Return, Alarm
    <3> QED  BY <1>0, <2>1, <2>4, <3>1, <3>2 DEF Budget, N, Total, PollError
  <2>5. CASE Leave("abnormal") /\ Return(Stop) /\ UNCHANGED copies
    <3>1. N' = N  BY <2>2, <2>5 DEF Lefts
    <3>2. InHand' = 1 /\ Alarm' = 0  BY <2>5 DEF Return, InHand, Alarm, Stop, OK
    <3> QED  BY <1>0, <2>1, <2>5, <3>1, <3>2 DEF Budget, N, Total
  <2> QED  BY <1>7, <2>3, <2>4, <2>5 DEF Poll, PollJob, Lefts
<1>8. CASE CallAgain
  <2>1. N' = N  BY <1>8 DEF CallAgain, printer, N, Own
  <2>2. InHand = 0 /\ InHand' = 0 /\ Alarm' = 0
    BY <1>8 DEF CallAgain, InHand, Alarm, IInv, LoopOK
  <2>3. Total' = Total + job.copies /\ copies' = job.copies
    BY <1>8, CountTypes DEF CallAgain, Total
  <2> QED  BY <1>0, <1>8, <2>1, <2>2, <2>3 DEF Budget, N, CallAgain, printer
<1>9. ASSUME NEW d \in Decks, Awaken \/ Works(d) \/ Jam(d) \/ Clear(d) PROVE Budget'
  <2>1. UNCHANGED <<job, round, copies, pc, deck, result>> /\ InHand' = InHand
    BY <1>9 DEF Awaken, Works, Load, Expose, Cooled, Jam, Clear, backend, call, InHand
  <2>2. UNCHANGED sent \/ \E i \in Unfinished, s \in States : Becomes(i, s)
    BY <1>9 DEF Awaken, Works, Load, Expose, Cooled, Jam, Clear, Active, States
  <2>3. N' = N
    <3>1. CASE UNCHANGED sent  BY <3>1 DEF N, Own
    <3>2. CASE \E i \in Unfinished, s \in States : Becomes(i, s)
      BY <3>2, BecomesCounts DEF N
    <3> QED  BY <2>2, <3>1, <3>2
  <2>4. \/ faults' = faults /\ Alarm' <= Alarm
        \/ faults' = faults + 1
    <3>1. CASE Jam(d)  BY <3>1 DEF Jam
    <3>2. CASE Clear(d)
      BY <2>1, <3>2 DEF Clear, Alarm, IInv, PrinterOK
    <3>3. CASE Awaken \/ Works(d)
      BY <2>1, <3>3 DEF Awaken, Works, Load, Expose, Cooled, Alarm
    <3> QED  BY <1>9, <3>1, <3>2, <3>3
  <2> QED  BY <1>0, <2>1, <2>3, <2>4 DEF Budget, N, Total
<1> QED
  BY <1>1, <1>3, <1>4, <1>5, <1>6, <1>7, <1>8, <1>9 DEF Next, Backend, Decks

(* For every printer and job, and any number of copies and errors: no sheet  *)
(* too many is sent but for an error.                                       *)
THEOREM OneSheetPerError == Spec => []OneExtraPerError
<1> QED
  BY IInvInit, IInvNext, BudgetInit, BudgetNext, BudgetBoundsSheets, PTL DEF Spec

-----------------------------------------------------------------------------
(* The ids.  They are taken one after the other, so as long as a call sends *)
(* fewer sheets than there are ids, no two of its own sheets share one.     *)
EnoughIds == \A j \in Printjobs : j.copies * j.rounds + MaxFaults < Ids

IdAfter(id) == IF id + 1 = Ids THEN 1 ELSE id + 1

(* Own sheets come last, and count on from one another, around Ids at most  *)
(* once within Ids sheets; none has the id of the sheet just before it.     *)
OwnIds ==
  /\ \A i \in Own : sent[i].id \in 1 .. Ids - 1 /\ i .. Last \subseteq Own
  /\ \A i \in Own : i > 1 => sent[i - 1].id # sent[i].id
  /\ \A i, k \in Own : i < k /\ k - i < Ids - 1 =>
       sent[k].id - sent[i].id \in {k - i, k - i - (Ids - 1)}

(* The id to come is the next one, and the one waited for that of the last  *)
(* sheet.                                                                   *)
LoopIds ==
  /\ pc = "memory" => reported = NewestId
  /\ pc = "send" =>
       /\ hdr.jobid \in 1 .. Ids - 1 /\ jobid = hdr.jobid
       /\ sent # <<>> => hdr.jobid # sent[Last].id
       /\ Last \in Own => hdr.jobid = IdAfter(sent[Last].id)
  /\ pc # "send" /\ result # Failed /\ Last \in Own => jobid = sent[Last].id
  /\ pc = "wait" => Last \in Own /\ sent[Last].left = "watched" /\ hdr.jobid = sent[Last].id

SheetInv == OwnIds /\ LoopIds /\ EndedMeansPrinted

(* Of three ids in a row one is neither 0 nor the one reported. *)
LEMMA NextIdFacts ==
  ASSUME NEW id \in 0 .. Ids - 1, NEW last \in 0 .. Ids - 1
  PROVE  /\ NextId(id, last) \in 1 .. Ids - 1 /\ NextId(id, last) # last
         /\ id = last /\ id # 0 => NextId(id, last) = IdAfter(id)
  BY PrinterAssumption DEF NextId, IdAfter

(* A call sends fewer sheets than there are ids. *)
LEMMA FewSheets ==
  ASSUME EnoughIds, IInv, Budget
  PROVE  Cardinality(Own) < Ids
<1>1. Cardinality(Own) <= job.copies * round + faults
  BY BudgetBoundsSheets DEF OneExtraPerError
<1>2. /\ job.copies \in Nat /\ job.rounds \in Nat /\ round \in Nat /\ round <= job.rounds
      /\ faults \in Nat /\ MaxFaults \in Nat /\ faults <= MaxFaults /\ Ids \in Nat
      /\ job.copies * job.rounds + MaxFaults < Ids
  BY PrinterAssumption DEF IInv, JobOK, PrinterOK, PrintjobType, EnoughIds
<1>3. \A c, r, t \in Nat : r <= t => c * r <= c * t
  OBVIOUS
<1>4. job.copies * round <= job.copies * job.rounds
  BY <1>2, <1>3
<1>5. Cardinality(Own) \in Nat  BY CountTypes
<1>6. job.copies * round \in Nat /\ job.copies * job.rounds \in Nat  BY <1>2
<1> QED  BY <1>1, <1>2, <1>4, <1>5, <1>6

(* No two own sheets have the same id. *)
LEMMA OwnIdsDiffer ==
  ASSUME EnoughIds, IInv, Budget, OwnIds, NEW i \in Own, NEW k \in Own, i < k
  PROVE  sent[i].id # sent[k].id
<1>1. /\ Len(sent) \in Nat /\ DOMAIN sent = 1 .. Len(sent) /\ Last = Len(sent)
      /\ i \in 1 .. Last /\ k \in 1 .. Last /\ i \in Int /\ k \in Int /\ Ids \in Nat
  BY PrinterAssumption DEF IInv, SentOK, Own, Last
<1>2. i .. Last \subseteq Own  BY DEF OwnIds
<1>3. IsFiniteSet(Own) /\ Cardinality(Own) \in Nat  BY CountTypes
<1>4. Cardinality(i .. Last) <= Cardinality(Own)
  BY <1>2, <1>3, FS_Subset
<1>5. Cardinality(i .. Last) = Last - i + 1
  BY <1>1, FS_Interval
<1>6. Last - i + 1 < Ids
  BY <1>1, <1>3, <1>4, <1>5, FewSheets
<1>7. k - i < Ids - 1 /\ k - i > 0
  BY <1>1, <1>6
<1>8. sent[k].id - sent[i].id \in {k - i, k - i - (Ids - 1)}
  BY <1>7 DEF OwnIds
<1>9. sent[i].id \in Int /\ sent[k].id \in Int  BY DEF OwnIds
<1> QED  BY <1>1, <1>7, <1>8, <1>9

(* What depends on the sheets' ids and owners alone. *)
LEMMA SameSheets ==
  ASSUME IInv, OwnIds, sent' \in Seq(SentJob), Len(sent') = Len(sent),
         \A k \in DOMAIN sent : sent'[k].id = sent[k].id /\ sent'[k].own = sent[k].own
  PROVE  /\ DOMAIN sent' = DOMAIN sent /\ Own' = Own /\ Last' = Last
         /\ OwnIds' /\ NewestId' = NewestId
<1>1. /\ Len(sent) \in Nat /\ DOMAIN sent = 1 .. Len(sent) /\ Last = Len(sent)
      /\ DOMAIN sent' = 1 .. Len(sent') /\ Last' = Len(sent') /\ sent \in Seq(SentJob)
  BY DEF IInv, SentOK, Last
<1>2. DOMAIN sent' = DOMAIN sent /\ Own' = Own /\ Last' = Last
  BY <1>1 DEF Own
<1>3. \A i \in Own : i \in DOMAIN sent /\ (i > 1 => i - 1 \in DOMAIN sent)
  BY <1>1 DEF Own
<1>4. OwnIds'
  BY <1>1, <1>2, <1>3 DEF OwnIds
<1>5. sent = <<>> <=> Len(sent) = 0  BY <1>1
<1>6. sent' = <<>> <=> Len(sent) = 0  BY <1>1
<1>7. sent # <<>> => Len(sent) \in DOMAIN sent  BY <1>1, <1>5
<1>8. NewestId' = NewestId
  BY <1>1, <1>2, <1>5, <1>6, <1>7 DEF NewestId
<1> QED  BY <1>2, <1>4, <1>8

(* A sheet that becomes something was not printed yet.                      *)
LEMMA BecomesKeepsSheets ==
  ASSUME IInv, SheetInv, NEW i \in Unfinished, NEW s \in States, Becomes(i, s),
         UNCHANGED <<pc, reported, hdr, jobid, result>>
  PROVE  SheetInv'
<1>1. sent \in Seq(SentJob) /\ i \in DOMAIN sent /\ sent[i].state # "done"
  BY DEF IInv, SentOK, Unfinished
<1>2. /\ sent' \in Seq(SentJob) /\ Len(sent') = Len(sent)
      /\ \A k \in DOMAIN sent : /\ sent'[k].own = sent[k].own /\ sent'[k].id = sent[k].id
                                /\ sent'[k].left = sent[k].left
                                /\ sent[k].state = "done" => sent'[k].state = "done"
  BY <1>1, BecomesFacts DEF Becomes
<1>3. /\ DOMAIN sent' = DOMAIN sent /\ Own' = Own /\ Last' = Last
      /\ OwnIds' /\ NewestId' = NewestId
  BY <1>2, SameSheets DEF SheetInv
<1>4. EndedMeansPrinted'
  BY <1>2, <1>3 DEF SheetInv, EndedMeansPrinted, Own
<1>5. Last \in Own \/ sent # <<>> => Last \in DOMAIN sent
  BY <1>1 DEF Own, Last
<1>6. sent' # <<>> <=> sent # <<>>
  BY <1>1, <1>2
<1>7. LoopIds'
  BY <1>2, <1>3, <1>5, <1>6 DEF SheetInv, LoopIds
<1> QED  BY <1>3, <1>4, <1>7 DEF SheetInv

(* main_loop's view of the last sheet, once it has polled it: what it takes *)
(* for the end of the sheet is one, or that of a job from before.           *)
LEMMA LeaveKeepsSheets ==
  ASSUME EnoughIds, IInv, Budget, SheetInv, pc = "wait", NEW how \in Lefts, Leave(how),
         how = "ended" => \E i \in DOMAIN sent : sent[i].id = hdr.jobid /\ sent[i].state = "done",
         UNCHANGED jobid, pc' \in {"top", "returned"}
  PROVE  SheetInv'
<1>1. /\ sent \in Seq(SentJob) /\ Len(sent) \in DOMAIN sent /\ Last = Len(sent)
      /\ sent' = [sent EXCEPT ![Len(sent)].left = how] /\ DOMAIN sent = 1 .. Len(sent)
      /\ Len(sent) \in Nat
  BY DEF IInv, SentOK, LoopOK, Leave, Last
<1>2. /\ sent' \in Seq(SentJob) /\ Len(sent') = Len(sent) /\ sent'[Last].left = how
      /\ \A k \in DOMAIN sent : /\ sent'[k].own = sent[k].own /\ sent'[k].state = sent[k].state
                                /\ sent'[k].id = sent[k].id
                                /\ k # Last => sent'[k].left = sent[k].left
  <2>1. /\ sent' \in Seq(SentJob) /\ Len(sent') = Len(sent)
        /\ sent'[Len(sent)].left = how /\ sent'[Len(sent)].own = sent[Len(sent)].own
        /\ sent'[Len(sent)].state = sent[Len(sent)].state /\ sent'[Len(sent)].id = sent[Len(sent)].id
        /\ \A k \in DOMAIN sent : k # Len(sent) => sent'[k] = sent[k]
    <3>1. /\ sent \in Seq(SentJob) /\ Len(sent) \in DOMAIN sent
          /\ sent' = [sent EXCEPT ![Len(sent)].left = how]
      BY <1>1
    <3> QED  BY <3>1, LeaveFacts
  <2> QED  BY <1>1, <2>1
<1>3. /\ DOMAIN sent' = DOMAIN sent /\ Own' = Own /\ Last' = Last
      /\ OwnIds' /\ NewestId' = NewestId
  BY <1>2, SameSheets DEF SheetInv
<1>4. Last \in Own /\ hdr.jobid = sent[Last].id /\ jobid = sent[Last].id
  BY DEF SheetInv, LoopIds, IInv, LoopOK, Failed
<1>5. ASSUME how = "ended"
      PROVE  \/ sent[Last].state = "done"
             \/ \E k \in DOMAIN sent \ Own : sent[k].id = sent[Last].id /\ k + 1 # Last
  <2>1. PICK i \in DOMAIN sent : sent[i].id = sent[Last].id /\ sent[i].state = "done"
    BY <1>4, <1>5
  <2>2. CASE i = Last  BY <2>1, <2>2
  <2>3. CASE i # Last
    <3>1. i < Last /\ i \in Int /\ Last \in Int  BY <1>1, <2>3
    <3>2. i \notin Own  BY <1>4, <2>1, <3>1, OwnIdsDiffer DEF SheetInv
    <3>3. i + 1 # Last
      <4>1. Last > 1 => sent[Last - 1].id # sent[Last].id  BY <1>4 DEF SheetInv, OwnIds
      <4> QED  BY <1>1, <2>1, <3>1, <4>1
    <3> QED  BY <2>1, <3>2, <3>3
  <2> QED  BY <2>2, <2>3
<1>6. EndedMeansPrinted'
  <2> SUFFICES ASSUME NEW i \in Own, sent'[i].left = "ended"
               PROVE  \/ sent'[i].state = "done"
                      \/ \E k \in DOMAIN sent \ Own : sent'[k].id = sent'[i].id /\ k + 1 # i
    BY <1>3 DEF EndedMeansPrinted
  <2>1. i \in DOMAIN sent  BY DEF Own
  <2>2. \/ sent[i].state = "done"
        \/ \E k \in DOMAIN sent \ Own : sent[k].id = sent[i].id /\ k + 1 # i
    <3>1. CASE i = Last  BY <1>2, <1>5, <3>1
    <3>2. CASE i # Last
      BY <1>2, <2>1, <3>2 DEF SheetInv, EndedMeansPrinted
    <3> QED  BY <3>1, <3>2
  <2> QED  BY <1>2, <2>1, <2>2
<1>7. LoopIds'
  BY <1>1, <1>2, <1>3, <1>4 DEF LoopIds
<1> QED  BY <1>3, <1>6, <1>7 DEF SheetInv

(* A new sheet takes the id after that of the last one. *)
LEMMA SendKeepsSheets ==
  ASSUME IInv, SheetInv, SendJob
  PROVE  SheetInv'
<1> DEFINE n == Len(sent) + 1
<1>1. /\ sent \in Seq(SentJob) /\ Len(sent) \in Nat /\ DOMAIN sent = 1 .. Len(sent)
      /\ Last = Len(sent) /\ Ids \in Nat /\ Ids > 2
  BY PrinterAssumption DEF IInv, SentOK, Last
<1>2. /\ Len(sent') = n /\ DOMAIN sent' = 1 .. n /\ Last' = n
      /\ sent'[n].id = hdr.jobid /\ sent'[n].own /\ sent'[n].left = "watched"
      /\ \A i \in DOMAIN sent : sent'[i] = sent[i]
  BY <1>1 DEF SendJob, Last
<1>3. /\ pc = "send" /\ pc' = "wait" /\ hdr' = hdr /\ jobid' = jobid /\ result' = result
      /\ hdr.jobid \in 1 .. Ids - 1 /\ jobid = hdr.jobid
      /\ sent # <<>> => hdr.jobid # sent[Last].id
      /\ Last \in Own => hdr.jobid = IdAfter(sent[Last].id)
  BY DEF SendJob, SheetInv, LoopIds
<1>4. n \notin DOMAIN sent /\ DOMAIN sent' = DOMAIN sent \cup {n} /\ n \in Nat /\ n - 1 = Len(sent)
  BY <1>1, <1>2
<1>5. Own' = Own \cup {n} /\ Own \subseteq DOMAIN sent
  BY <1>2, <1>4 DEF Own
<1>6. ASSUME NEW i \in Own'
      PROVE  /\ sent'[i].id \in 1 .. Ids - 1 /\ i .. n \subseteq Own'
             /\ i > 1 => sent'[i - 1].id # sent'[i].id
  <2>1. CASE i = n
    <3>1. i .. n = {n}  BY <1>4, <2>1
    <3>2. i > 1 => i - 1 \in DOMAIN sent /\ i - 1 = Last /\ sent # <<>>
      BY <1>1, <1>4, <2>1
    <3> QED  BY <1>2, <1>3, <1>5, <2>1, <3>1, <3>2
  <2>2. CASE i \in Own
    <3>1. i \in DOMAIN sent /\ sent[i].id \in 1 .. Ids - 1 /\ i .. Last \subseteq Own
          /\ (i > 1 => sent[i - 1].id # sent[i].id)
      BY <1>5, <2>2 DEF SheetInv, OwnIds
    <3>2. i .. n = (i .. Last) \cup {n} /\ (i > 1 => i - 1 \in DOMAIN sent)
      BY <1>1, <3>1
    <3> QED  BY <1>2, <1>5, <3>1, <3>2
  <2> QED  BY <1>5, <1>6, <2>1, <2>2
<1>7. ASSUME NEW i \in Own', NEW k \in Own', i < k, k - i < Ids - 1
      PROVE  sent'[k].id - sent'[i].id \in {k - i, k - i - (Ids - 1)}
  <2>1. i \in Own /\ i \in 1 .. Len(sent)
    BY <1>1, <1>2, <1>4, <1>5, <1>7
  <2>2. CASE k \in Own
    <3>1. sent[k].id - sent[i].id \in {k - i, k - i - (Ids - 1)}
      BY <1>7, <2>1, <2>2 DEF SheetInv, OwnIds
    <3> QED  BY <1>2, <1>5, <2>1, <2>2, <3>1
  <2>3. CASE k = n
    <3>1. Last \in Own
      <4>1. i .. Last \subseteq Own  BY <2>1 DEF SheetInv, OwnIds
      <4> QED  BY <1>1, <2>1, <4>1
    <3>2. hdr.jobid = IdAfter(sent[Last].id)  BY <1>3, <3>1
    <3>3. sent[i].id \in 1 .. Ids - 1 /\ sent[Last].id \in 1 .. Ids - 1
      BY <2>1, <3>1 DEF SheetInv, OwnIds
    <3>4. i # Last => sent[Last].id - sent[i].id \in {Last - i, Last - i - (Ids - 1)}
      <4>1. i # Last => i < Last /\ Last - i < Ids - 1
        <5>1. i \in Int /\ Last \in Int /\ i <= Last /\ k = Last + 1
          BY <1>1, <2>1, <2>3
        <5>2. k - i < Ids - 1 /\ Ids \in Int  BY <1>1, <1>7
        <5>3. PICK l \in Int : l = Last  BY <5>1
        <5>4. i # l => i < l /\ l - i < Ids - 1  BY <5>1, <5>2, <5>3
        <5> QED  BY <5>3, <5>4
      <4> QED  BY <2>1, <3>1, <4>1 DEF SheetInv, OwnIds
    <3>5. hdr.jobid - sent[i].id \in {n - i, n - i - (Ids - 1)}
      <4>1. /\ i \in Int /\ Last \in Int /\ n = Last + 1 /\ Ids \in Int
            /\ sent[i].id \in Int /\ sent[Last].id \in Int /\ n - i < Ids - 1
            /\ sent[i].id <= Ids - 1 /\ sent[Last].id <= Ids - 1
        BY <1>1, <1>7, <2>1, <2>3, <3>3
      <4>2. PICK a \in Int, b \in Int : a = sent[i].id /\ b = sent[Last].id
        BY <4>1
      <4>3. (hdr.jobid = b + 1 /\ b + 1 # Ids) \/ (hdr.jobid = 1 /\ b + 1 = Ids)
        BY <3>2, <4>2 DEF IdAfter
      <4>4. (i = Last /\ a = b) \/ b - a = Last - i \/ b - a = Last - i - (Ids - 1)
        BY <3>4, <4>2
      <4> HIDE DEF n
      <4>5. PICK l \in Int, c \in Int : l = Last /\ c = hdr.jobid
        BY <4>1, <4>2, <4>3
      <4>6. c - a \in {n - i, n - i - (Ids - 1)}
        <5>1. i \in Int /\ n = l + 1 /\ Ids \in Int /\ n - i < Ids - 1 /\ a <= Ids - 1 /\ b <= Ids - 1
          BY <4>1, <4>2, <4>5
        <5>2. (c = b + 1 /\ b + 1 # Ids) \/ (c = 1 /\ b + 1 = Ids)
          BY <4>3, <4>5
        <5>3. (i = l /\ a = b) \/ b - a = l - i \/ b - a = l - i - (Ids - 1)
          BY <4>4, <4>5
        <5> QED  BY <5>1, <5>2, <5>3
      <4> QED  BY <4>2, <4>5, <4>6
    <3> QED  BY <1>2, <2>1, <2>3, <3>5
  <2> QED  BY <1>5, <2>2, <2>3
<1>8. OwnIds'  BY <1>2, <1>6, <1>7 DEF OwnIds
<1>9. LoopIds'
  BY <1>2, <1>3, <1>5 DEF LoopIds
<1>10. EndedMeansPrinted'
  <2> SUFFICES ASSUME NEW i \in Own', sent'[i].left = "ended"
               PROVE  \/ sent'[i].state = "done"
                      \/ \E k \in DOMAIN sent' \ Own' : sent'[k].id = sent'[i].id /\ k + 1 # i
    BY DEF EndedMeansPrinted
  <2>1. i \in Own /\ i \in DOMAIN sent  BY <1>2, <1>5
  <2>2. \/ sent[i].state = "done"
        \/ \E k \in DOMAIN sent \ Own : sent[k].id = sent[i].id /\ k + 1 # i
    BY <1>2, <2>1 DEF SheetInv, EndedMeansPrinted
  <2>3. DOMAIN sent \ Own \subseteq DOMAIN sent' \ Own'
    BY <1>4, <1>5
  <2> QED  BY <1>2, <2>1, <2>2, <2>3
<1> QED  BY <1>8, <1>9, <1>10 DEF SheetInv

(* Before the first sheet there are none of this call's own. *)
LEMMA SheetInit == Init => SheetInv
<1> SUFFICES ASSUME Init PROVE SheetInv
  OBVIOUS
<1>1. Own = {}  BY PrinterAssumption DEF Init, Own
<1>2. pc \in {"convert", "wakeup"}  BY Zenon DEF Init
<1> QED  BY <1>1, <1>2 DEF SheetInv, OwnIds, LoopIds, EndedMeansPrinted

(* What a poll makes of the sheet: it ended if a status with its id says    *)
(* so, and is left alone only where that is allowed.                        *)
Polled(how) ==
  /\ how = "ended" => \E i \in DOMAIN sent : sent[i].id = hdr.jobid /\ sent[i].state = "done"
  /\ how = "early" => ~(job.wait /\ round = job.rounds)
  /\ how = "to its deck" => job.num_decks > 1 /\ copies > 1

(* A poll that ends the wait meets an error, or counts the copy.            *)
LEMMA PollCases ==
  ASSUME Poll
  PROVE  \/ \E how \in {"error", "abnormal"} :
              /\ Leave(how) /\ copies' = copies
              /\ (pc' = "top" /\ result' = result) \/ (pc' = "returned" /\ result' = Stop)
         \/ \E how \in {"ended", "early", "to its deck"} : CopyDone(how) /\ Polled(how)
<1> DEFINE Goal ==
       \/ \E how \in {"error", "abnormal"} :
            /\ Leave(how) /\ copies' = copies
            /\ (pc' = "top" /\ result' = result) \/ (pc' = "returned" /\ result' = Stop)
       \/ \E how \in {"ended", "early", "to its deck"} : CopyDone(how) /\ Polled(how)
<1>1. CASE PollError
  BY <1>1 DEF PollError, Return
<1>2. ASSUME NEW i \in DOMAIN sent, sent[i].id = hdr.jobid, PollJob(sent[i].state)
      PROVE  Goal
  <2>1. CASE Leave("abnormal") /\ Return(Stop) /\ UNCHANGED copies
    BY <2>1 DEF Return
  <2>2. CASE sent[i].state = "done" /\ CopyDone("ended")
    BY <1>2, <2>2 DEF Polled
  <2>3. CASE MayReturnEarly(sent[i].state) /\ CopyDone("early")
    BY <2>3 DEF Polled, MayReturnEarly
  <2>4. CASE MoreForOtherDeck /\ CopyDone("to its deck")
    BY <2>4 DEF Polled, MoreForOtherDeck
  <2> QED  BY <1>2, <2>1, <2>2, <2>3, <2>4 DEF PollJob
<1> QED  BY <1>1, <1>2 DEF Poll

(* Every step keeps the ids apart and the ends true. *)
LEMMA SheetNext ==
  ASSUME EnoughIds, IInv, Budget, SheetInv, [Next]_vars
  PROVE  SheetInv'
<1>0. /\ IInv /\ OwnIds /\ LoopIds /\ EndedMeansPrinted /\ jobid \in 0 .. Ids - 1
      /\ NewestId \in 0 .. Ids - 1
      /\ pc # "returned" => result = "none"
  BY NewestIdIsId DEF SheetInv, IInv, BackendOK, LoopOK
<1>1. ASSUME UNCHANGED sent, LoopIds' PROVE SheetInv'
  BY <1>0, <1>1 DEF SheetInv, OwnIds, EndedMeansPrinted, Own, Last
<1>2. ASSUME UNCHANGED sent PROVE UNCHANGED <<Own, Last, NewestId>>
  BY <1>2 DEF Own, Last, NewestId
<1>3. CASE Convert \/ mitsu70x_wakeup
  BY <1>0, <1>1, <1>2, <1>3
  DEF Convert, mitsu70x_wakeup, Return, call, printer, LoopIds, Cancel, Failed
<1>4. CASE SelectDeck
  <2>1. UNCHANGED sent /\ reported' = NewestId /\ UNCHANGED <<jobid, hdr>> /\ pc = "top"
        /\ pc' \in {"memory", "top", "returned"}
    BY <1>4 DEF SelectDeck, Return, printer
  <2>2. LoopIds'
    BY <1>0, <1>2, <2>1 DEF LoopIds, Failed
  <2> QED  BY <1>1, <2>1, <2>2
<1>5. CASE CheckMemory
  <2>1. UNCHANGED sent /\ pc = "memory" /\ reported = NewestId /\ result = "none"
    BY <1>0, <1>5 DEF CheckMemory, printer, LoopIds
  <2>2. CASE UNCHANGED <<jobid, hdr>> /\ pc' \in {"top", "returned"}
    <3>1. LoopIds'  BY <1>0, <1>2, <2>1, <2>2 DEF LoopIds, Failed
    <3> QED  BY <1>1, <2>1, <3>1
  <2>3. CASE jobid' = NextId(jobid, NewestId) /\ hdr'.jobid = jobid' /\ pc' = "send"
    <3>1. /\ jobid' \in 1 .. Ids - 1 /\ jobid' # NewestId
          /\ jobid = NewestId /\ jobid # 0 => jobid' = IdAfter(jobid)
      BY <1>0, <2>3, NextIdFacts
    <3>2. sent # <<>> => NewestId = sent[Last].id
      BY DEF NewestId
    <3>3. Last \in Own => jobid = NewestId /\ jobid # 0 /\ NewestId = sent[Last].id
      <4>1. Last \in Own => sent # <<>>
        BY DEF Own, IInv, SentOK
      <4>2. Last \in Own => sent[Last].id \in 1 .. Ids - 1  BY <1>0 DEF OwnIds
      <4>3. Last \in Own => jobid = sent[Last].id  BY <1>0, <2>1 DEF LoopIds, Failed
      <4> QED  BY <3>2, <4>1, <4>2, <4>3
    <3>4. LoopIds'
      BY <1>2, <2>1, <2>3, <3>1, <3>2, <3>3 DEF LoopIds
    <3> QED  BY <1>1, <2>1, <3>4
  <2> QED  BY <1>5, <2>1, <2>2, <2>3 DEF CheckMemory, Return
<1>6. CASE SendJob  BY <1>6, SendKeepsSheets
<1>7. CASE Poll
  <2>1. pc = "wait" /\ UNCHANGED jobid  BY <1>7 DEF Poll
  <2>2. ASSUME NEW how \in Lefts, Leave(how), Polled(how), pc' \in {"top", "returned"}
        PROVE  SheetInv'
    BY <2>1, <2>2, LeaveKeepsSheets DEF Polled
  <2>3. CASE \E how \in {"error", "abnormal"} :
               /\ Leave(how) /\ copies' = copies
               /\ (pc' = "top" /\ result' = result) \/ (pc' = "returned" /\ result' = Stop)
    BY <2>2, <2>3 DEF Lefts, Polled
  <2>4. CASE \E how \in {"ended", "early", "to its deck"} : CopyDone(how) /\ Polled(how)
    <3>1. PICK how \in {"ended", "early", "to its deck"} : CopyDone(how) /\ Polled(how)
      BY <2>4
    <3>2. Leave(how) /\ pc' \in {"top", "returned"} /\ how \in Lefts
      BY <3>1 DEF CopyDone, Return, Lefts
    <3> QED  BY <2>2, <3>1, <3>2
  <2> QED  BY <1>7, <2>3, <2>4, PollCases
<1>8. CASE CallAgain
  <2>1. UNCHANGED <<sent, jobid, hdr, reported>> /\ pc = "returned" /\ result = OK /\ pc' = "wakeup"
    BY <1>8 DEF CallAgain, printer
  <2>2. LoopIds'  BY <1>0, <1>2, <2>1 DEF LoopIds, OK, Failed
  <2> QED  BY <1>1, <2>1, <2>2
<1>9. CASE TransferFails
  <2>1. UNCHANGED sent /\ pc' = "returned" /\ result' = Failed
    BY <1>9 DEF TransferFails, Return, printer
  <2>2. LoopIds'  BY <2>1 DEF LoopIds
  <2> QED  BY <1>1, <2>1, <2>2
<1>10. ASSUME UNCHANGED <<sent, pc, reported, hdr, jobid, result>>
       PROVE  SheetInv'
  <2>1. LoopIds'  BY <1>0, <1>2, <1>10 DEF LoopIds
  <2> QED  BY <1>1, <1>10, <2>1
<1>11. CASE sigterm_handler \/ Returned \/ UNCHANGED vars
  BY <1>10, <1>11 DEF sigterm_handler, Returned, vars, backend, call, printer
<1>12. ASSUME NEW d \in Decks, Awaken \/ Works(d) \/ Jam(d) \/ Clear(d)
       PROVE  SheetInv'
  <2>1. UNCHANGED <<pc, reported, hdr, jobid, result>>
    BY <1>12 DEF Awaken, Works, Load, Expose, Cooled, Jam, Clear, backend
  <2>2. UNCHANGED sent \/ \E i \in Unfinished, s \in States : Becomes(i, s)
    BY <1>12 DEF Awaken, Works, Load, Expose, Cooled, Jam, Clear, Active, States
  <2> QED  BY <1>10, <2>1, <2>2, BecomesKeepsSheets
<1> QED
  BY <1>3, <1>4, <1>5, <1>6, <1>7, <1>8, <1>9, <1>11, <1>12 DEF Next, Backend, Decks

(* A sheet that main_loop saw to its end was printed, or an earlier backend *)
(* left a job with its id, as long as the sheets of a call and the errors   *)
(* are fewer than the ids: then a status with the id of an earlier sheet of *)
(* the same call is never taken for that of the last one.                   *)
THEOREM EndsAreTrue == ASSUME EnoughIds PROVE Spec => []EndedMeansPrinted
<1>1. SheetInv => EndedMeansPrinted  BY DEF SheetInv
<1>2. IInv /\ Budget /\ SheetInv /\ [Next]_vars => SheetInv'  BY SheetNext
<1> QED
  BY <1>1, <1>2, SheetInit, IInvInit, IInvNext, BudgetInit, BudgetNext, PTL DEF Spec

-----------------------------------------------------------------------------
(* The copies.  Each one that main_loop counts as done has a sheet that     *)
(* ended or was left alone on purpose, and without a SIGTERM none is        *)
(* dropped.                                                                 *)
Accounted == {i \in Own : sent[i].left \in {"ended", "early", "to its deck"}}

CopiesInv ==
  ~terminate =>
    /\ Cardinality(Accounted) + copies = Total
    /\ result = OK => copies = 0
    /\ result = OK /\ job.wait /\ round = job.rounds => Last \in Own /\ sent[Last].left = "ended"

(* On one deck a caller that waits has no sheet left alone. *)
LeftInv ==
  job.num_decks = 1 /\ job.wait /\ job.rounds = 1 =>
    \A i \in Own : sent[i].left \notin {"early", "to its deck"}

(* Neither a new sheet nor a state the printer gives to one counts. *)
LEMMA AccountedStays ==
  ASSUME IInv, UNCHANGED sent \/ SendJob \/ \E i \in Unfinished, s \in States : Becomes(i, s)
  PROVE  Accounted' = Accounted /\ \A i \in Own' : sent'[i].left \in {"early", "to its deck"} =>
                                       i \in Own /\ sent[i].left = sent'[i].left
<1>1. sent \in Seq(SentJob)  BY DEF IInv, SentOK
<1>2. CASE UNCHANGED sent  BY <1>2 DEF Accounted, Own
<1>3. CASE SendJob
  <2> DEFINE n == Len(sent) + 1
  <2>1. /\ DOMAIN sent' = DOMAIN sent \cup {n} /\ n \notin DOMAIN sent
        /\ sent'[n].left = "watched" /\ \A i \in DOMAIN sent : sent'[i] = sent[i]
    BY <1>1, <1>3 DEF SendJob
  <2> QED  BY <2>1 DEF Accounted, Own
<1>4. ASSUME NEW i \in Unfinished, NEW s \in States, Becomes(i, s)
      PROVE  /\ DOMAIN sent' = DOMAIN sent
             /\ \A k \in DOMAIN sent : sent'[k].own = sent[k].own /\ sent'[k].left = sent[k].left
  <2>1. i \in DOMAIN sent  BY DEF Unfinished
  <2>2. /\ sent' \in Seq(SentJob) /\ Len(sent') = Len(sent)
        /\ \A k \in DOMAIN sent : sent'[k].own = sent[k].own /\ sent'[k].left = sent[k].left
    BY <1>1, <1>4, <2>1, BecomesFacts DEF Becomes
  <2> QED  BY <1>1, <2>2
<1>5. CASE \E i \in Unfinished, s \in States : Becomes(i, s)
  BY <1>4, <1>5 DEF Accounted, Own
<1> QED  BY <1>2, <1>3, <1>5

(* Leaving a sheet counts it once, or not. *)
LEMMA LeaveAccounts ==
  ASSUME IInv, LoopIds, pc = "wait", NEW how \in Lefts, Leave(how)
  PROVE  /\ Own' = Own /\ Last' = Last /\ Last \in Own /\ Last \notin Accounted
         /\ sent'[Last].left = how
         /\ \A i \in Own : i # Last => sent'[i].left = sent[i].left
         /\ Accounted' = Accounted \cup
                           (IF how \in {"ended", "early", "to its deck"} THEN {Last} ELSE {})
<1>1. /\ sent \in Seq(SentJob) /\ Len(sent) \in DOMAIN sent /\ Last = Len(sent)
      /\ sent' = [sent EXCEPT ![Len(sent)].left = how]
  BY DEF IInv, SentOK, LoopOK, Leave, Last
<1>2. /\ sent' \in Seq(SentJob) /\ Len(sent') = Len(sent) /\ sent'[Len(sent)].left = how
      /\ sent'[Len(sent)].own = sent[Len(sent)].own
      /\ \A k \in DOMAIN sent : k # Len(sent) => sent'[k] = sent[k]
  <2>1. /\ sent \in Seq(SentJob) /\ Len(sent) \in DOMAIN sent
        /\ sent' = [sent EXCEPT ![Len(sent)].left = how]
    BY <1>1
  <2> QED  BY <2>1, LeaveFacts
<1>3. DOMAIN sent' = DOMAIN sent /\ Last' = Last
  BY <1>1, <1>2 DEF Last
<1>4. Last \in Own /\ sent[Last].left = "watched"  BY DEF LoopIds
<1>5. Own' = Own  BY <1>1, <1>2, <1>3 DEF Own
<1>6. \A i \in Own : i \in DOMAIN sent  BY DEF Own
<1>7. Last \notin Accounted  BY <1>4 DEF Accounted
<1>8. Accounted' = Accounted \cup
                     (IF how \in {"ended", "early", "to its deck"} THEN {Last} ELSE {})
  BY <1>1, <1>2, <1>4, <1>5, <1>6 DEF Accounted
<1> QED  BY <1>1, <1>2, <1>3, <1>4, <1>5, <1>6, <1>7, <1>8

(* Every step keeps the count. *)
LEMMA CopiesNext ==
  ASSUME IInv, LoopIds, CopiesInv, [Next]_vars
  PROVE  CopiesInv'
<1> SUFFICES ASSUME ~terminate'
             PROVE  /\ Cardinality(Accounted') + copies' = Total'
                    /\ result' = OK => copies' = 0
                    /\ result' = OK /\ job'.wait /\ round' = job'.rounds =>
                         Last' \in Own' /\ sent'[Last'].left = "ended"
  BY DEF CopiesInv
<1>1. ~terminate
  BY DEF Next, Backend, Convert, mitsu70x_wakeup, SelectDeck, CheckMemory, SendJob, Poll,
         CallAgain, TransferFails, sigterm_handler, Awaken, Works, Load, Expose, Cooled, Jam,
         Clear, Returned, vars
<1>2. /\ Cardinality(Accounted) + copies = Total
      /\ result = OK => copies = 0
      /\ result = OK /\ job.wait /\ round = job.rounds => Last \in Own /\ sent[Last].left = "ended"
      /\ IsFiniteSet(Accounted) /\ Cardinality(Accounted) \in Nat
      /\ copies \in Nat /\ job.copies \in Nat /\ round \in Nat /\ Total \in Nat
      /\ pc # "returned" => result = "none" /\ result # OK
  <2>1. Accounted \subseteq Own  BY DEF Accounted
  <2>2. IsFiniteSet(Accounted) /\ Cardinality(Accounted) \in Nat
    BY <2>1, CountTypes, FS_Subset, FS_CardinalityType
  <2> QED  BY <1>1, <2>2, CountTypes DEF CopiesInv, IInv, LoopOK, OK
<1>3. ASSUME UNCHANGED <<job, round, copies>>, Accounted' = Accounted, result' # OK
      PROVE  Cardinality(Accounted') + copies' = Total'
  BY <1>2, <1>3 DEF Total
<1>4. CASE Convert \/ mitsu70x_wakeup \/ SelectDeck \/ CheckMemory \/ SendJob \/ TransferFails
  <2>1. UNCHANGED <<job, round, copies>> /\ (UNCHANGED sent \/ SendJob)
    BY <1>4
    DEF Convert, mitsu70x_wakeup, SelectDeck, CheckMemory, TransferFails, SendJob, call, printer
  <2>2. result' # OK
    BY <1>2, <1>4
    DEF Convert, mitsu70x_wakeup, SelectDeck, CheckMemory, TransferFails, SendJob, Return,
        Cancel, Stop, Hold, Failed, OK
  <2>3. Accounted' = Accounted  BY <2>1, AccountedStays
  <2> QED  BY <1>3, <2>1, <2>2, <2>3
<1>5. CASE Poll
  <2>1. pc = "wait" /\ UNCHANGED <<job, round>> /\ result = "none" /\ copies >= 1
    BY <1>2, <1>5 DEF Poll, call, IInv, LoopOK, OK
  <2>2. CASE \E how \in {"error", "abnormal"} :
               /\ Leave(how) /\ copies' = copies
               /\ (pc' = "top" /\ result' = result) \/ (pc' = "returned" /\ result' = Stop)
    <3>1. PICK how \in {"error", "abnormal"} : Leave(how)  BY <2>2
    <3>2. Accounted' = Accounted  BY <2>1, <3>1, LeaveAccounts DEF Lefts
    <3>3. result' # OK  BY <2>1, <2>2 DEF Stop, OK
    <3> QED  BY <1>3, <2>1, <2>2, <3>2, <3>3
  <2>3. CASE \E how \in {"ended", "early", "to its deck"} : CopyDone(how) /\ Polled(how)
    <3>1. copies' = copies - 1 /\ (copies' > 0 => result' = result)
      BY <1>1, <2>3 DEF CopyDone
    <3>2. result' = OK => copies' = 0 /\ ~(copies > 1)
      <4>1. "none" # OK  BY DEF OK
      <4>2. copies' \in Nat  BY <1>2, <2>1, <3>1
      <4>3. copies' > 0 => result' # OK  BY <2>1, <3>1, <4>1
      <4>4. result' = OK => copies' = 0  BY <4>2, <4>3
      <4> QED  BY <1>2, <3>1, <4>4
    <3>3. (Cardinality(Accounted) + 1) + copies' = Total
      <4>1. PICK c \in Nat : c = Cardinality(Accounted)  BY <1>2
      <4>2. PICK n \in Nat : n = copies  BY <1>2
      <4>3. c + n = Total /\ copies' = n - 1  BY <1>2, <3>1, <4>1, <4>2
      <4>4. (c + 1) + (n - 1) = c + n  BY <4>1, <4>2
      <4> QED  BY <4>1, <4>3, <4>4
    <3>4. PICK how \in {"ended", "early", "to its deck"} : CopyDone(how) /\ Polled(how)
      BY <2>3
    <3>5. /\ Own' = Own /\ Last' = Last /\ Last \in Own /\ Last \notin Accounted
          /\ sent'[Last].left = how /\ Accounted' = Accounted \cup {Last}
      BY <2>1, <3>4, LeaveAccounts DEF Lefts, CopyDone
    <3>6. Cardinality(Accounted') = Cardinality(Accounted) + 1
      BY <1>2, <3>5, FS_AddElement
    <3>7. Total' = Total  BY <2>1 DEF Total
    <3>8. result' = OK /\ job.wait /\ round = job.rounds => how = "ended"
      BY <3>2, <3>4 DEF Polled
    <3> QED  BY <2>1, <3>2, <3>3, <3>5, <3>6, <3>7, <3>8
  <2> QED  BY <1>5, <2>2, <2>3, PollCases
<1>6. CASE CallAgain
  <2>1. /\ UNCHANGED <<job, sent>> /\ round' = round + 1 /\ copies' = job.copies /\ copies = 0
        /\ result' # OK
    BY <1>2, <1>6 DEF CallAgain, printer, OK
  <2>2. Accounted' = Accounted  BY <2>1, AccountedStays
  <2>3. Total' = Total + job.copies  BY <1>2, <2>1 DEF Total
  <2> QED  BY <1>2, <2>1, <2>2, <2>3
<1>7. CASE Returned \/ sigterm_handler \/ UNCHANGED vars
  <2>1. UNCHANGED <<job, round, copies, result, sent>>
    BY <1>7 DEF Returned, sigterm_handler, vars, backend, call, printer
  <2> QED  BY <1>2, <2>1 DEF Accounted, Own, Last, Total
<1>8. ASSUME NEW d \in Decks, Awaken \/ Works(d) \/ Jam(d) \/ Clear(d)
      PROVE  /\ Cardinality(Accounted') + copies' = Total'
             /\ result' = OK => copies' = 0
             /\ result' = OK /\ job'.wait /\ round' = job'.rounds =>
                  Last' \in Own' /\ sent'[Last'].left = "ended"
  <2>1. UNCHANGED <<job, round, copies, result, pc>> /\ ~Finished
    BY <1>8 DEF Awaken, Works, Load, Expose, Cooled, Jam, Clear, backend, call
  <2>2. UNCHANGED sent \/ \E i \in Unfinished, s \in States : Becomes(i, s)
    BY <1>8 DEF Awaken, Works, Load, Expose, Cooled, Jam, Clear, Active, States
  <2>3. Accounted' = Accounted  BY <2>2, AccountedStays
  <2>4. ~(result = OK /\ round = job.rounds)
    BY <2>1 DEF Finished, IInv, LoopOK, OK
  <2> QED  BY <1>2, <2>1, <2>3, <2>4 DEF Total
<1> QED
  BY <1>4, <1>5, <1>6, <1>7, <1>8 DEF Next, Backend, Decks

(* ... and leaves no sheet of one deck alone that is waited for. *)
LEMMA LeftNext ==
  ASSUME IInv, LoopIds, LeftInv, [Next]_vars
  PROVE  LeftInv'
<1>1. job' = job
  BY DEF Next, Backend, Convert, mitsu70x_wakeup, SelectDeck, CheckMemory, SendJob, Poll,
         CallAgain, TransferFails, sigterm_handler, Awaken, Works, Load, Expose, Cooled, Jam,
         Clear, Returned, vars, backend, call
<1>2. CASE UNCHANGED sent \/ SendJob \/ \E i \in Unfinished, s \in States : Becomes(i, s)
  BY <1>1, <1>2, AccountedStays DEF LeftInv
<1>3. CASE Poll
  <2>1. pc = "wait" /\ round \in 1 .. job.rounds /\ UNCHANGED <<job, round>>
    BY <1>3 DEF Poll, IInv, JobOK, call
  <2>2. PICK how \in Lefts : Leave(how) /\ Polled(how)
    BY <1>3, PollCases DEF CopyDone, Polled, Lefts
  <2>3. job.num_decks = 1 /\ job.wait /\ job.rounds = 1 => how \notin {"early", "to its deck"}
    <3>1. job.rounds = 1 => round = job.rounds  BY <2>1
    <3>2. job.num_decks = 1 => ~(job.num_decks > 1)  OBVIOUS
    <3>3. /\ how = "early" => ~(job.wait /\ round = job.rounds)
          /\ how = "to its deck" => job.num_decks > 1
      BY <2>2 DEF Polled
    <3> QED  BY <3>1, <3>2, <3>3
  <2> QED  BY <1>1, <2>1, <2>2, <2>3, LeaveAccounts DEF LeftInv
<1>4. UNCHANGED sent \/ SendJob \/ Poll \/ \E i \in Unfinished, s \in States : Becomes(i, s)
  BY DEF Next, Backend, Convert, mitsu70x_wakeup, SelectDeck, CheckMemory, CallAgain,
         TransferFails, sigterm_handler, Awaken, Works, Load, Expose, Cooled, Jam, Clear,
         Returned, vars, backend, printer, Active, States
<1> QED  BY <1>2, <1>3, <1>4

(* What was counted was printed, or left alone, or mistaken for an earlier  *)
(* backend's.                                                               *)
LEMMA CountedIsPrinted ==
  ASSUME IInv, CopiesInv, LeftInv, EndedMeansPrinted
  PROVE  OkMeansPrinted
<1> DEFINE Mistaken == {i \in Own : \E k \in DOMAIN sent \ Own : sent[k].id = sent[i].id}
           Printed  == {i \in Own : sent[i].state = "done"}
           LeftBe   == {i \in Own : sent[i].left \in {"early", "to its deck"}}
<1> SUFFICES ASSUME result = OK, ~terminate
             PROVE  /\ Cardinality(Printed \cup LeftBe \cup Mistaken) >= job.copies * round
                    /\ job.wait /\ round = job.rounds => Last \in Printed \cup Mistaken
                    /\ job.num_decks = 1 /\ job.wait /\ job.rounds = 1 => LeftBe = {}
  BY DEF OkMeansPrinted
<1>1. \A i \in Own : sent[i].left = "ended" => i \in Printed \cup Mistaken
  BY DEF EndedMeansPrinted
<1>2. Accounted \subseteq Printed \cup LeftBe \cup Mistaken
  BY <1>1 DEF Accounted
<1>3. IsFiniteSet(Printed \cup LeftBe \cup Mistaken)
  <2>1. Printed \cup LeftBe \cup Mistaken \subseteq Own  OBVIOUS
  <2> HIDE DEF Printed, LeftBe, Mistaken
  <2> QED  BY <2>1, CountTypes, FS_Subset
<1>4. Cardinality(Accounted) = job.copies * round
  <2>1. Accounted \subseteq Own  BY DEF Accounted
  <2>2. Cardinality(Accounted) \in Nat
    BY <2>1, CountTypes, FS_Subset, FS_CardinalityType
  <2>3. Cardinality(Accounted) + 0 = Total  BY DEF CopiesInv
  <2> QED  BY <2>2, <2>3 DEF Total
<1>5. Cardinality(Printed \cup LeftBe \cup Mistaken) >= job.copies * round
  <2> HIDE DEF Printed, LeftBe, Mistaken
  <2>1. Cardinality(Accounted) <= Cardinality(Printed \cup LeftBe \cup Mistaken)
    BY <1>2, <1>3, FS_Subset
  <2>2. Cardinality(Printed \cup LeftBe \cup Mistaken) \in Nat
    BY <1>3, FS_CardinalityType
  <2>3. job.copies * round \in Nat  BY CountTypes DEF Total
  <2> QED  BY <1>4, <2>1, <2>2, <2>3
<1>6. job.wait /\ round = job.rounds => Last \in Printed \cup Mistaken
  BY <1>1 DEF CopiesInv
<1>7. job.num_decks = 1 /\ job.wait /\ job.rounds = 1 => LeftBe = {}
  BY DEF LeftInv
<1> QED  BY <1>5, <1>6, <1>7

(* The count before the first sheet. *)
LEMMA CopiesInit == Init => CopiesInv /\ LeftInv
<1> SUFFICES ASSUME Init PROVE CopiesInv /\ LeftInv
  OBVIOUS
<1>1. Own = {}  BY PrinterAssumption DEF Init, Own
<1>2. Cardinality(Accounted) = 0
  <2>1. Accounted = {}  BY <1>1 DEF Accounted
  <2> QED  BY <2>1, FS_EmptySet
<1>3. job.copies \in Nat /\ copies = job.copies /\ Total = job.copies /\ result = "none"
  <2>1. job.copies \in Nat  BY PrintjobAssumption DEF Init, PrintjobType
  <2> QED  BY <2>1 DEF Init, Total
<1> QED  BY <1>1, <1>2, <1>3 DEF CopiesInv, LeftInv, OK

(* CUPS_BACKEND_OK without a SIGTERM: as many sheets as copies asked for    *)
(* are printed or were left alone on purpose, and a caller that waits has   *)
(* the last one; under the same condition on the number of ids.             *)
THEOREM OkIsTrue == ASSUME EnoughIds PROVE Spec => []OkMeansPrinted
<1>1. Init => CopiesInv /\ LeftInv  BY CopiesInit
<1>2. IInv /\ SheetInv /\ CopiesInv /\ LeftInv /\ [Next]_vars => CopiesInv' /\ LeftInv'
  BY CopiesNext, LeftNext DEF SheetInv
<1>3. IInv /\ SheetInv /\ CopiesInv /\ LeftInv => OkMeansPrinted
  BY CountedIsPrinted DEF SheetInv
<1>4. IInv /\ Budget /\ SheetInv /\ [Next]_vars => SheetInv'  BY SheetNext
<1> QED
  BY <1>1, <1>2, <1>3, <1>4, SheetInit, IInvInit, IInvNext, BudgetInit, BudgetNext, PTL DEF Spec
=============================================================================
