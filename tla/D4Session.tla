------------------------------ MODULE D4Session ------------------------------
(***************************************************************************)
(* escputil's side of the link: the commands of src/src/escputil/d4lib.c   *)
(* and the session of src/src/escputil/escputil.c that uses them.          *)
(* initialize_printer finds the printer, init_packet brings it into packet *)
(* mode and opens a channel,                                               *)
(* writeAndReadData asks one question per request, getting credit first    *)
(* and reinitialising the link on an error, and the channel is closed.     *)
(*                                                                         *)
(* Every command is sent and answered by sendReceiveCmd: `then' is where   *)
(* its caller goes on.  The program can be killed and run again at any     *)
(* time; the printer and what it sent stay as they are.                    *)
(***************************************************************************)
EXTENDS D4Link

CONSTANTS
  Requests,     (* the kinds of question a session asks: "di", "st", "ii"   *)
  ProbeTries,   (* initialize_printer: 3                                    *)
  InitTries,    (* init_packet: 5                                           *)
  OpenTries,    (* OpenChannel: 5                                           *)
  CreditTries,  (* askForCredit: 10                                         *)
  MaxRequests,  (* MAX_CREDIT_REQUEST                                       *)
  DataTries,    (* writeAndReadData: 5                                      *)
  MaxSessions   (* bound: runs of escputil                                  *)

ASSUME SessionAssumption ==
  /\ Len(Requests) \in Nat \ {0}
  /\ {ProbeTries, InitTries, OpenTries, CreditTries, MaxRequests, DataTries, MaxSessions}
       \subseteq Nat

VARIABLES
  pc,
  cmd, then,       (* the command sent, and where its caller goes on        *)
  rv, buf, d4Errno,(* what sendReceiveCmd returns, and the packet it read   *)
  socket_id,                         (* escputil                            *)
  probes, calledBy, tries,           (* initialize_printer, init_packet     *)
  channel, opens, caller,            (* OpenChannel                         *)
  socketID, count, retries, credit,  (* askForCredit                        *)
  request, retry,                    (* writeAndReadData                    *)
  got,             (* the answers the session accepted; None: not asked or  *)
                   (* not answered                                          *)
  sessions

io      == <<cmd, then, rv, buf, d4Errno>>
initing == <<probes, calledBy, tries>>
opening == <<channel, opens, caller>>
asking  == <<socketID, count, retries, credit>>
asked   == <<request, retry, got>>
host    == <<io, socket_id, initing, opening, asking, asked, sessions>>
vars    == <<pc, host, link>>

None == [type |-> "none"]

(* escputil's socket_id before there is one: -1, as an unsigned char.      *)
Unset == 255

Init ==
  /\ LinkInit
  /\ pc = "start"
  /\ cmd = "none" /\ then = "start" /\ rv = 0 /\ buf = None /\ d4Errno = 0
  /\ socket_id = Unset /\ probes = 0 /\ calledBy = "known" /\ tries = 0
  /\ channel = 0 /\ opens = 0 /\ caller = "opened"
  /\ socketID = 0 /\ count = 0 /\ retries = 0 /\ credit = 0
  /\ request = 1 /\ retry = 0
  /\ got = <<>>
  /\ sessions = 1

(* The variables of functions that have returned.                          *)
IoGone      == cmd' = "none" /\ then' = "start" /\ rv' = 0 /\ buf' = None /\ d4Errno' = 0
InitingGone == probes' = 0 /\ calledBy' = "known" /\ tries' = 0
OpeningGone == channel' = 0 /\ opens' = 0 /\ caller' = "opened"
AskingGone  == socketID' = 0 /\ count' = 0 /\ retries' = 0 /\ credit' = 0
ProgramGone ==
  /\ IoGone /\ InitingGone /\ OpeningGone /\ AskingGone
  /\ socket_id' = Unset
  /\ request' = 1 /\ retry' = 0 /\ got' = <<>>

-----------------------------------------------------------------------------
(* Bytes of the reply to a command; each caller asks for those of its own. *)
Size == [EnterIEEE |-> 8, Init |-> 9, GetSocketID |-> 19, OpenChannel |-> 16,
         CloseChannel |-> 10, CreditRequest |-> 12, Credit |-> 10]

(* readAnswer waits long enough for all but the Late answers.              *)
TimesOut == Len(wire) <= Late

(* The host waits no longer. *)
GoesOn ==
  /\ TimesOut
  /\ overtaken' = (overtaken \/ wire # <<>>)
  /\ UNCHANGED <<wire, printer>>

(* sendReceiveCmd sends a command: the write may fail, or be reported to   *)
(* have failed by the timer although it was finished late.  A device that  *)
(* takes nothing is written to for ever: nothing counts the writes of 0    *)
(* bytes, and the timer only interrupts them.                              *)
Send(type, socket, next) ==
  /\ cmd' = type /\ then' = next
  /\ buf' = None /\ d4Errno' = 0
  /\ \/ Handles(type, socket) /\ pc' = "answer" /\ rv' = 0 /\ UNCHANGED overtaken
     \/ UNCHANGED link /\ pc' = next /\ rv' = -1
     \/ /\ Len(wire) < Late /\ Handles(type, socket) /\ pc' = next /\ rv' = -1
        /\ overtaken' = (overtaken \/ wire' # <<>>)
     \/ UNCHANGED link /\ pc' = "hung" /\ rv' = 0

(* What it makes of the packet it reads, whatever that answers: more than  *)
(* the bytes expected are flushed, fewer are taken for the whole.          *)
Outcome(p) ==
  IF cmd = "EnterIEEE" THEN Size[cmd]
  ELSE IF p.type = "Error" \/ p.result \in Fatal THEN -1
  ELSE IF p.type = "Data" \/ p.result # 0 THEN 0
  ELSE IF Size[p.type] < Size[cmd] THEN Size[p.type] ELSE Size[cmd]

ReadAnswer ==
  /\ pc = "answer" /\ wire # <<>>
  /\ buf' = Head(wire) /\ wire' = Tail(wire)
  /\ rv' = Outcome(buf')
  /\ d4Errno' = buf'.result
  /\ pc' = then
  /\ UNCHANGED <<overtaken, printer, cmd, then, socket_id, initing, opening, asking, asked, sessions>>

Timeout ==
  /\ pc = "answer" /\ GoesOn
  /\ rv' = -1
  /\ pc' = then
  /\ UNCHANGED <<cmd, then, buf, d4Errno, socket_id, initing, opening, asking, asked, sessions>>

(* _flushData reads all there is to read: all but what comes Late. *)
Unflushed == {SubSeq(wire, k + 1, Len(wire)) :
                k \in {j \in 0 .. Len(wire) : Len(wire) - j <= Late}}

ThrowsAway == wire' \in Unflushed /\ overtaken' = (wire' # <<>>)

(* Mutant: nothing is thrown away. *)
NothingFlushed == UNCHANGED link

Flushed == ThrowsAway /\ UNCHANGED printer

(* OpenChannel is called, and goes on at `next' when it is done. *)
Call(socket, next) ==
  /\ channel' = socket /\ opens' = 0 /\ caller' = next
  /\ pc' = "open"

-----------------------------------------------------------------------------
(* initialize_printer sends @EJL ID and looks at what comes back.          *)
Start ==
  /\ pc = "start"
  /\ Flushed
  /\ \/ (* a printer without D4, or none                                   *)
        pc' = "done" /\ UNCHANGED <<initing, asked>>
     \/ (* the model is known, from the reply or the command line; "di" is  *)
        (* not asked                                                       *)
        /\ pc' = "enter" /\ calledBy' = "known" /\ tries' = 0
        /\ request' = 2 /\ got' = <<None>>
        /\ UNCHANGED <<probes, retry>>
     \/ (* nothing comes back, or what makes no sense                      *)
        /\ probes < ProbeTries
        /\ probes' = probes + 1
        /\ UNCHANGED <<pc, calledBy, tries, asked>>
     \/ (* nothing, again                                                  *)
        /\ probes > 0
        /\ pc' = "enter" /\ calledBy' = "probe" /\ tries' = 0
        /\ UNCHANGED <<probes, asked>>
     \/ (* a packet                                                        *)
        /\ probes = ProbeTries
        /\ pc' = "force" /\ UNCHANGED <<initing, asked>>
  /\ UNCHANGED <<io, socket_id, opening, asking, sessions>>

(* Packet mode is left, and entered again. *)
ForceD4 ==
  /\ pc = "force"
  /\ ForcedOut
  /\ ThrowsAway
  /\ pc' = "enter" /\ calledBy' = "forced" /\ tries' = 0
  /\ UNCHANGED <<io, socket_id, probes, opening, asking, asked, sessions>>

(* init_packet returns to initialize_printer, which ignores a failure once *)
(* it has forced the printer.  socket_id stays what init_packet made it.   *)
(* After the last probe the buffer tells whether to force the printer; it  *)
(* may never have been written.                                            *)
InitPacketEnds(ok) ==
  \/ /\ calledBy = "probe" /\ ~ok /\ probes < ProbeTries
     /\ pc' = "start" /\ probes' = probes + 1
  \/ /\ calledBy = "probe" /\ ~ok /\ probes = ProbeTries
     /\ pc' \in {"force", "done"} /\ UNCHANGED probes
  \/ /\ calledBy = "probe" /\ ok
     /\ pc' = "force" /\ UNCHANGED probes
  \/ /\ calledBy = "known" /\ ~ok
     /\ pc' = "done" /\ UNCHANGED probes
  \/ /\ calledBy = "forced" \/ (calledBy = "known" /\ ok)
     /\ pc' = "query" /\ UNCHANGED probes

EnterIEEE ==
  /\ pc = "enter"
  /\ Send("EnterIEEE", 0, "entered")
  /\ UNCHANGED <<socket_id, initing, opening, asking, asked, sessions>>

(* init_packet tries again, or gives up. *)
RetryInit ==
  /\ IF tries < InitTries
     THEN tries' = tries + 1 /\ pc' = "enter" /\ Flushed /\ UNCHANGED probes
     ELSE InitPacketEnds(FALSE) /\ UNCHANGED <<tries, link>>
  /\ UNCHANGED calledBy

(* An answer of zeros only makes EnterIEEE ask again. *)
Entered ==
  /\ pc = "entered"
  /\ IF rv = -1 THEN RetryInit
     ELSE /\ pc' = IF buf.type = "EnterIEEE" /\ buf.value = 0 THEN "enter" ELSE "init"
          /\ UNCHANGED <<initing, link>>
  /\ UNCHANGED <<io, socket_id, opening, asking, asked, sessions>>

InitCommand ==
  /\ pc = "init"
  /\ Send("Init", 0, "inited")
  /\ UNCHANGED <<socket_id, initing, opening, asking, asked, sessions>>

Inited ==
  /\ pc = "inited"
  /\ IF rv # Size["Init"] THEN RetryInit
     ELSE pc' = "socket" /\ UNCHANGED <<initing, link>>
  /\ UNCHANGED <<io, socket_id, opening, asking, asked, sessions>>

GetSocketID ==
  /\ pc = "socket"
  /\ Send("GetSocketID", 0, "gotSocket")
  /\ UNCHANGED <<socket_id, initing, opening, asking, asked, sessions>>

(* Byte 8 of whatever answered, 0 on an error; the reply to EnterIEEE is   *)
(* shorter, and the byte was never written.                                *)
SocketGot ==
  IF rv <= 0 THEN {0}
  ELSE IF buf.type = "EnterIEEE" THEN Sockets \union {0} ELSE {buf.socket}

GotSocket ==
  /\ pc = "gotSocket"
  /\ socket_id' \in SocketGot
  /\ IF socket_id' = 0 THEN InitPacketEnds(FALSE) /\ UNCHANGED opening
     ELSE Call(socket_id', "opened") /\ UNCHANGED probes
  /\ UNCHANGED <<io, calledBy, tries, asking, asked, sessions, link>>

-----------------------------------------------------------------------------
(* Mutant: the attempts are not counted. *)
OpensAgain == UNCHANGED opens

(* An attempt to open the channel is used up. *)
Attempted == opens' = opens + 1

OpenChannel ==
  /\ pc = "open"
  /\ IF opens < OpenTries THEN Send("OpenChannel", channel, "gotOpen")
     ELSE pc' = caller /\ rv' = 1 /\ UNCHANGED <<cmd, then, buf, d4Errno, link>>
  /\ UNCHANGED <<socket_id, initing, opening, asking, asked, sessions>>

(* A channel that is open already is closed first.                         *)
GotOpen ==
  /\ pc = "gotOpen"
  /\ IF rv # Size["OpenChannel"] /\ d4Errno = AlreadyOpen
     THEN Send("CloseChannel", channel, "open") /\ Attempted
     ELSE /\ rv' = IF rv = Size["OpenChannel"] THEN 1 ELSE -1
          /\ pc' = caller
          /\ UNCHANGED <<cmd, then, buf, d4Errno, opens, link>>
  /\ UNCHANGED <<socket_id, initing, channel, caller, asking, asked, sessions>>

(* init_packet gives the printer a credit and flushes what that brings.    *)
ChannelOpened ==
  /\ pc = "opened"
  /\ IF rv = 1 THEN Send("Credit", socket_id, "flush") /\ UNCHANGED probes
     ELSE InitPacketEnds(FALSE) /\ UNCHANGED <<io, link>>
  /\ UNCHANGED <<socket_id, calledBy, tries, opening, asking, asked, sessions>>

Flush ==
  /\ pc = "flush"
  /\ IF rv = Size["Credit"] THEN Flushed ELSE UNCHANGED link
  /\ InitPacketEnds(TRUE)
  /\ UNCHANGED <<io, socket_id, calledBy, tries, opening, asking, asked, sessions>>

-----------------------------------------------------------------------------
(* writeAndReadData, for the next question; all asked, the channel closes. *)
Query ==
  /\ pc = "query"
  /\ IF request <= Len(Requests)
     THEN /\ socketID' = socket_id /\ count' = 0 /\ retries' = CreditTries /\ credit' = 0
          /\ pc' = "credit"
     ELSE pc' = "close" /\ UNCHANGED asking
  /\ IoGone /\ InitingGone /\ OpeningGone
  /\ UNCHANGED <<socket_id, asked, sessions, link>>

(* Mutant: credit is asked for until it is got. *)
MayAskForever == credit = 0

MayAsk == credit = 0 /\ retries >= 0

AskForCredit ==
  /\ pc = "credit"
  /\ IF MayAsk THEN Send("CreditRequest", socketID, "gotCredit") /\ retries' = retries - 1
     ELSE pc' = "haveCredit" /\ UNCHANGED <<io, link, retries>>
  /\ UNCHANGED <<socket_id, initing, opening, socketID, count, credit, asked, sessions>>

(* CreditRequest: any reply long enough has a credit in it, 0 only its own. *)
CreditGot ==
  IF rv = Size["CreditRequest"]
  THEN IF buf.type = "CreditRequest" THEN buf.value ELSE 1
  ELSE IF rv > 0 THEN 0 ELSE rv

AsksAtOnce == CreditGot = 0 /\ count < MaxRequests /\ retries >= 0

(* No credit: at first ask again at once, later in the outer loop.  An     *)
(* error: give up (ENODEV, or after MaxRequests), or close the channel to  *)
(* initialise the link.  (The test for a dead parent never succeeds: ppid  *)
(* is 0 in escputil.)                                                      *)
GotCredit ==
  /\ pc = "gotCredit"
  /\ \/ /\ AsksAtOnce
        /\ Send("CreditRequest", socketID, "gotCredit")
        /\ retries' = retries - 1
        /\ UNCHANGED <<count, credit>>
     \/ /\ CreditGot >= 0 /\ ~AsksAtOnce
        /\ credit' = CreditGot /\ count' = count + 1
        /\ pc' = "credit"
        /\ IoGone
        /\ UNCHANGED <<link, retries>>
     \/ /\ CreditGot = -1
        /\ credit' = -1
        /\ pc' = "haveCredit"
        /\ IoGone
        /\ UNCHANGED <<link, retries, count>>
     \/ /\ CreditGot = -1 /\ count # MaxRequests
        /\ credit' = 0
        /\ Send("CloseChannel", socketID, "closed")
        /\ UNCHANGED <<retries, count>>
  /\ UNCHANGED <<socket_id, initing, opening, socketID, asked, sessions>>

(* The link is initialised, the channel opened on the socket asked for     *)
(* anew; the caller of askForCredit keeps the socket it has.               *)
Closed ==
  /\ pc = "closed"
  /\ Send("GetSocketID", 0, "gotSocketAgain")
  /\ UNCHANGED <<socket_id, initing, opening, asking, asked, sessions>>

GotSocketAgain ==
  /\ pc = "gotSocketAgain"
  /\ socketID' \in SocketGot
  /\ Send("Init", 0, "initedAgain")
  /\ UNCHANGED <<socket_id, initing, opening, count, retries, credit, asked, sessions>>

InitedAgain ==
  /\ pc = "initedAgain"
  /\ IF rv = Size["Init"] THEN Call(socketID, "openedAgain")
     ELSE pc' = "openedAgain" /\ UNCHANGED opening
  /\ UNCHANGED <<io, socket_id, initing, asking, asked, sessions, link>>

OpenedAgain ==
  /\ pc = "openedAgain"
  /\ count' = count + 1
  /\ pc' = "credit"
  /\ IoGone /\ OpeningGone
  /\ UNCHANGED <<socket_id, initing, socketID, retries, credit, asked, sessions, link>>

(* Credit for the printer, asked for even when askForCredit returned 0.    *)
HaveCredit ==
  /\ pc = "haveCredit"
  /\ IF credit >= 0 THEN Send("Credit", socket_id, "given")
     ELSE pc' = "failed" /\ UNCHANGED <<io, link>>
  /\ AskingGone /\ OpeningGone
  /\ UNCHANGED <<socket_id, initing, asked, sessions>>

(* Mutant: the result of Credit is ignored. *)
CreditAssumed == TRUE

CreditGiven == rv = Size["Credit"]

Given ==
  /\ pc = "given"
  /\ \/ /\ CreditGiven
        /\ pc' = "write"
     \/ /\ ~CreditGiven
        /\ pc' = "failed"
  /\ IoGone
  /\ UNCHANGED <<socket_id, initing, opening, asking, asked, sessions, link>>

(* writeData; a failing write is an error, and one that takes nothing is   *)
(* repeated for ever.                                                      *)
WriteData ==
  /\ pc = "write"
  /\ \/ /\ HandlesData(socket_id, request) /\ UNCHANGED overtaken
        /\ pc' = "read" /\ retry' = DataTries
     \/ UNCHANGED link /\ pc' \in {"failed", "hung"} /\ UNCHANGED retry
  /\ UNCHANGED <<io, socket_id, initing, opening, asking, request, got, sessions>>

(* The caller's test for its kind of answer: test_for_di, _st, _ii.        *)
Test(p) == p.type = "Data" /\ Requests[p.value] = Requests[request]

(* Mutant: one attempt fewer. *)
AcceptsSooner(p) == Test(p) \/ retry <= 0

(* The last packet that may be read is accepted without the test. *)
Accepts(p) == Test(p) \/ retry < 0

(* _readData reads the next packet, whatever it is.                        *)
ReadData ==
  /\ pc = "read" /\ wire # <<>>
  /\ wire' = Tail(wire)
  /\ IF Accepts(Head(wire))
     THEN /\ got' = Append(got, Head(wire)) /\ request' = request + 1
          /\ pc' = "query" /\ retry' = 0
     ELSE retry' = retry - 1 /\ UNCHANGED <<pc, got, request>>
  /\ UNCHANGED <<overtaken, printer, io, socket_id, initing, opening, asking, sessions>>

ReadDataTimesOut ==
  /\ pc = "read" /\ GoesOn
  /\ pc' = "failed"
  /\ UNCHANGED host

(* Some of escputil's functions close the channel before they exit.  When  *)
(* initialize_printer fails with its "di", the next question is asked all  *)
(* the same.                                                               *)
Failed ==
  /\ pc = "failed"
  /\ \/ pc' \in {"close", "done"} /\ UNCHANGED <<request, got>>
     \/ /\ request = 1
        /\ request' = 2 /\ got' = <<None>>
        /\ pc' = "query"
  /\ UNCHANGED <<io, socket_id, initing, opening, asking, retry, sessions, link>>

CloseChannel ==
  /\ pc = "close"
  /\ Send("CloseChannel", socket_id, "done")
  /\ UNCHANGED <<socket_id, initing, opening, asking, asked, sessions>>

-----------------------------------------------------------------------------
Host ==
  \/ Start \/ ForceD4 \/ EnterIEEE \/ Entered \/ InitCommand \/ Inited \/ GetSocketID \/ GotSocket
  \/ OpenChannel \/ GotOpen \/ ChannelOpened \/ Flush
  \/ Query \/ AskForCredit \/ GotCredit
  \/ Closed \/ GotSocketAgain \/ InitedAgain \/ OpenedAgain
  \/ HaveCredit \/ Given \/ WriteData \/ ReadData \/ ReadDataTimesOut
  \/ Failed \/ CloseChannel
  \/ ReadAnswer \/ Timeout

(* escputil is killed. *)
Killed ==
  /\ pc # "done"
  /\ pc' = "done"
  /\ ProgramGone
  /\ UNCHANGED <<sessions, link>>

(* ... or has ended, and is started again. *)
Restart ==
  /\ pc = "done"
  /\ sessions < MaxSessions
  /\ sessions' = sessions + 1
  /\ pc' = "start"
  /\ ProgramGone
  /\ UNCHANGED link

Finished == pc = "done" /\ sessions = MaxSessions /\ UNCHANGED vars

Next == Host \/ Killed \/ Restart \/ Finished

Spec == Init /\ [][Next]_vars

(* Every read and every single write of d4lib.c is bounded by a timer, so  *)
(* the program never waits for ever in one step; a loop of writes that     *)
(* take nothing is the state "hung", which it does not leave by itself.    *)
FairSpec == Spec /\ WF_vars(Host)

-----------------------------------------------------------------------------
(* Every variable keeps its type, and the counters of attempts their range. *)
TypeOK ==
  /\ opened \subseteq Sockets
  /\ granted \in [Sockets -> 0 .. MaxCredit] /\ given \in [Sockets -> 0 .. MaxCredit]
  /\ rv \in -1 .. Size["GetSocketID"]
  /\ socket_id \in Sockets \union {0, Unset, Revision}
  /\ probes \in 0 .. ProbeTries /\ tries \in 0 .. InitTries
  /\ opens \in 0 .. OpenTries
  /\ retries \in -1 .. CreditTries
  /\ credit \in -1 .. MaxCredit
  /\ request \in 1 .. Len(Requests) + 1
  /\ retry \in -1 .. DataTries
  /\ Len(got) = request - 1

(* sendReceiveCmd compares neither the command nor the socket of what it   *)
(* reads, and yet it returns the answer to the command it has sent, unless *)
(* the host went on before an answer came; a flush that leaves nothing     *)
(* behind brings the two together again.                                   *)
OwnAnswer == [][buf' # buf /\ ~overtaken => buf' = None \/ buf'.current]_vars

(* "Data received for a non opened channel." (d4lib.c:166): whatever       *)
(* failed before, data goes to a channel that the printer has open, again  *)
(* unless an answer was overtaken.                                         *)
DataOnOpenChannel == pc = "write" /\ ~overtaken => socket_id \in opened

(* "fptr  test      function to verify buffer contents" (d4lib.c:1317):    *)
(* packets that come late are ahead of the data, and the last one that     *)
(* writeAndReadData may read is accepted without the test.  It never is as *)
(* long as no more are late than it has attempts: what is accepted answers *)
(* the question that was asked.                                            *)
AnswersTested ==
  Late <= DataTries =>
    \A k \in DOMAIN got :
      got[k] # None => got[k].type = "Data" /\ Requests[got[k].value] = Requests[k]

(* The printer leaves the program neither with a write that takes nothing, *)
(* nor with zeros for an answer to EnterIEEE: for these two the code has   *)
(* loops without a count (d4lib.c:421, 836 and 1232).                      *)
Responds ==
  /\ pc # "hung"
  /\ ~(pc = "entered" /\ rv # -1 /\ buf.type = "EnterIEEE" /\ buf.value = 0)

(* Whatever else the printer answers, refuses or loses, a session ends:    *)
(* the nested loops of init_packet, OpenChannel, askForCredit and          *)
(* writeAndReadData do not keep one another going.                         *)
EverySessionEnds == <>[]Responds => (pc = "start" ~> pc = "done")
=============================================================================
