--------------------------- MODULE D4Session_proof ---------------------------
(***************************************************************************)
(* Proofs about D4Session, for every number of attempts, sockets, late     *)
(* answers, questions and sessions, whatever is lost or refused, and       *)
(* wherever a session was killed.  As long as the host has gone on without *)
(* no answer that may still come, every command gets its own and data goes *)
(* to open channels only; what is accepted as the answer to a question was *)
(* tested to be one if no more packets are late than may be read in vain;  *)
(* and the types and the ranges of the counters of attempts always hold.   *)
(***************************************************************************)
EXTENDS D4Session, TLAPS

(* Where the callers of sendReceiveCmd and of OpenChannel go on. *)
Returns == {"start", "entered", "inited", "gotSocket", "gotOpen", "open", "flush",
            "gotCredit", "closed", "gotSocketAgain", "initedAgain", "given", "done"}

Control == then \in Returns /\ caller \in {"opened", "openedAgain"}

(* Nothing was overtaken: one packet at most is on its way, and only where *)
(* it will be read or flushed before the next command is sent.             *)
AtMostOne == wire = <<>> \/ wire = <<wire[1]>>
WireInv   == AtMostOne /\ (wire # <<>> => pc \in {"answer", "read", "done", "start"})

(* While an answer is waited for, what is on its way is that answer, and a *)
(* good one to Credit comes from an open channel.                          *)
AnswerInv ==
  pc = "answer" =>
    /\ then = "given" => cmd = "Credit"
    /\ wire # <<>> =>
         /\ wire[1].current
         /\ wire[1].type = cmd
         /\ then = "given" /\ wire[1].result = 0 => socket_id \in opened

(* Credit succeeds on an open channel only. *)
GivenInv == pc = "given" => (CreditGiven => socket_id \in opened)

(* Data is written to an open channel. *)
WriteInv == pc = "write" => socket_id \in opened

D4Inv == Control /\ WireInv /\ AnswerInv /\ GivenInv /\ WriteInv

-----------------------------------------------------------------------------
(* What a packet sent on an empty wire leaves on it. *)
LEMMA SendsFacts ==
  ASSUME wire = <<>>, NEW type, NEW result, NEW socket, NEW value,
         Sends(type, result, socket, value)
  PROVE  \/ wire' = <<>>
         \/ wire' = <<Packet(type, result, socket, value)>>
<1>1. Stale = <<>>
  BY DEF Stale
<1>2. Append(<<>>, Packet(type, result, socket, value)) = <<Packet(type, result, socket, value)>>
  OBVIOUS
<1> QED
  BY <1>1, <1>2 DEF Sends

(* The packet answers the command of type `type' on socket s. *)
Answers(p, type, s) ==
  /\ p.current
  /\ p.type = type
  /\ type = "Credit" /\ p.result = 0 => s \in opened

(* The printer answers a command with its answer, or with none. *)
LEMMA HandlesFacts ==
  ASSUME wire = <<>>, NEW type, NEW s, Handles(type, s)
  PROVE  \/ wire' = <<>>
         \/ wire' = <<wire[1]>>' /\ Answers(wire[1], type, s)'
<1> DEFINE Goal == \/ wire' = <<>>
                   \/ wire' = <<wire[1]>>' /\ Answers(wire[1], type, s)'
<1>0. ASSUME NEW result, NEW socket, NEW value, Sends(type, result, socket, value),
             type = "Credit" /\ result = 0 => s \in opened'
      PROVE  Goal
  <2>1. /\ Packet(type, result, socket, value).current
        /\ Packet(type, result, socket, value).type = type
        /\ Packet(type, result, socket, value).result = result
    BY DEF Packet
  <2> QED
    BY <1>0, <2>1, SendsFacts DEF Answers
<1>1. CASE type = "EnterIEEE" /\ Enters
  BY <1>0, <1>1 DEF Enters
<1>2. CASE type = "Init" /\ Inits
  BY <1>0, <1>2 DEF Inits
<1>3. CASE type = "GetSocketID" /\ GetsSocketID
  BY <1>0, <1>3 DEF GetsSocketID
<1>4. CASE type = "OpenChannel" /\ Opens(s)
  BY <1>0, <1>4 DEF Opens
<1>5. CASE type = "CloseChannel" /\ Closes(s)
  BY <1>0, <1>5 DEF Closes
<1>6. CASE type = "CreditRequest" /\ Grants(s)
  BY <1>0, <1>6 DEF Grants
<1>7. CASE type = "Credit" /\ TakesCredit(s)
  BY <1>0, <1>7 DEF TakesCredit, NotOpen, Overflow
<1> QED
  BY <1>1, <1>2, <1>3, <1>4, <1>5, <1>6, <1>7 DEF Handles

(* A command sent: its answer is waited for, or the write has failed.      *)
LEMMA SendFacts ==
  ASSUME ~overtaken', wire = <<>>, NEW type, NEW socket, NEW go, Send(type, socket, go)
  PROVE  /\ cmd' = type /\ then' = go /\ buf' = None
         /\ \/ /\ pc' = "answer"
               /\ \/ wire' = <<>>
                  \/ wire' = <<wire[1]>>' /\ Answers(wire[1], type, socket)'
            \/ pc' \in {go, "hung"} /\ rv' \in {-1, 0} /\ wire' = <<>>
<1>1. CASE Handles(type, socket) /\ pc' = "answer"
  BY <1>1, HandlesFacts DEF Send
<1>2. CASE UNCHANGED link /\ pc' = go /\ rv' = -1
  BY <1>2 DEF Send, link
<1>3. CASE pc' = go /\ rv' = -1 /\ overtaken' = (overtaken \/ wire' # <<>>)
  BY <1>3 DEF Send
<1>4. CASE UNCHANGED link /\ pc' = "hung" /\ rv' = 0
  BY <1>4 DEF Send, link
<1> QED
  BY <1>1, <1>2, <1>3, <1>4 DEF Send

(* Sending a command keeps the invariant, wherever its caller goes on.     *)
LEMMA SendKeeps ==
  ASSUME ~overtaken', D4Inv, wire = <<>>, NEW type, NEW socket, NEW go \in Returns,
         Send(type, socket, go),
         go = "given" => type = "Credit" /\ socket = socket_id,
         UNCHANGED socket_id, caller' \in {"opened", "openedAgain"}
  PROVE  D4Inv'
<1>1. Control'
  BY SendFacts DEF Control
<1>2. CASE /\ pc' = "answer"
           /\ \/ wire' = <<>>
              \/ wire' = <<wire[1]>>' /\ Answers(wire[1], type, socket)'
  <2>1. WireInv'
    BY <1>2 DEF WireInv, AtMostOne
  <2>2. AnswerInv'
    BY <1>2, SendFacts DEF AnswerInv, Answers
  <2> QED
    BY <1>1, <1>2, <2>1, <2>2 DEF D4Inv, GivenInv, WriteInv
<1>3. CASE pc' \in {go, "hung"} /\ rv' \in {-1, 0} /\ wire' = <<>>
  <2>1. pc' # "answer" /\ pc' # "write"
    BY <1>3 DEF Returns
  <2>2. ~CreditGiven'
    BY <1>3 DEF CreditGiven, Size
  <2> QED
    BY <1>1, <1>3, <2>1, <2>2
    DEF D4Inv, WireInv, AtMostOne, AnswerInv, GivenInv, WriteInv
<1> QED
  BY <1>2, <1>3, SendFacts

(* So does a step that neither waits for an answer nor is about to write.  *)
LEMMA QuietStepKeeps ==
  ASSUME wire' = <<>>, pc' \notin {"answer", "given", "write"}, Control'
  PROVE  D4Inv'
BY DEF D4Inv, WireInv, AtMostOne, AnswerInv, GivenInv, WriteInv

(* Where the program may be when a packet is on its way.                   *)
LEMMA WireEmpty ==
  ASSUME D4Inv, pc \notin {"answer", "read", "done", "start"}
  PROVE  wire = <<>>
BY DEF D4Inv, WireInv

-----------------------------------------------------------------------------
(* No packet is on its way, and nothing was asked for. *)
LEMMA InitD4Inv == Init => D4Inv
BY DEF Init, LinkInit, D4Inv, Control, Returns, WireInv, AtMostOne, AnswerInv,
       GivenInv, WriteInv

(* initialize_printer and init_packet. *)
LEMMA InitPacketKeeps ==
  ASSUME ~overtaken', D4Inv,
         \/ Start \/ ForceD4 \/ EnterIEEE \/ Entered \/ InitCommand \/ Inited \/ GetSocketID
         \/ GotSocket \/ ChannelOpened \/ Flush
  PROVE  D4Inv'
<1>0. Control /\ AtMostOne
  BY DEF D4Inv, WireInv
<1> DEFINE Quiet == {"start", "force", "done", "enter", "init", "socket", "open", "query"}
<1>1. ASSUME wire = <<>>, RetryInit
      PROVE  wire' = <<>> /\ pc' \in Quiet
  <2>1. Flushed => wire' = <<>>
    BY DEF Flushed, ThrowsAway
  <2> QED
    BY <1>1, <2>1 DEF RetryInit, InitPacketEnds, link
<1>2. CASE Start
  <2>1. wire' = <<>>
    BY <1>0, <1>2 DEF Start, Flushed, ThrowsAway
  <2>2. pc' \in Quiet
    BY <1>2 DEF Start
  <2>3. Control'
    BY <1>0, <1>2 DEF Start, io, opening, Control
  <2> QED
    BY <2>1, <2>2, <2>3, QuietStepKeeps
<1>11. CASE ForceD4
  <2>1. wire' = <<>> /\ pc' = "enter"
    BY <1>0, <1>11 DEF ForceD4, ThrowsAway
  <2>2. Control'
    BY <1>0, <1>11 DEF ForceD4, io, opening, Control
  <2> QED
    BY <2>1, <2>2, QuietStepKeeps
<1>3. CASE EnterIEEE
  <2>1. "entered" \in Returns /\ UNCHANGED <<socket_id, caller>>
    BY <1>3 DEF EnterIEEE, Returns, opening
  <2>2. wire = <<>>
    BY <1>3, WireEmpty DEF EnterIEEE
  <2> QED
    BY <1>0, <1>3, <2>1, <2>2, SendKeeps DEF EnterIEEE, Control
<1>4. CASE Entered
  <2>1. wire = <<>>
    BY <1>4, WireEmpty DEF Entered
  <2>2. wire' = <<>> /\ pc' \in Quiet
    BY <1>1, <1>4, <2>1 DEF Entered, link
  <2>3. Control'
    BY <1>0, <1>4 DEF Entered, io, opening, Control
  <2> QED
    BY <2>2, <2>3, QuietStepKeeps
<1>5. CASE InitCommand
  <2>1. "inited" \in Returns /\ UNCHANGED <<socket_id, caller>>
    BY <1>5 DEF InitCommand, Returns, opening
  <2>2. wire = <<>>
    BY <1>5, WireEmpty DEF InitCommand
  <2> QED
    BY <1>0, <1>5, <2>1, <2>2, SendKeeps DEF InitCommand, Control
<1>6. CASE Inited
  <2>1. wire = <<>>
    BY <1>6, WireEmpty DEF Inited
  <2>2. wire' = <<>> /\ pc' \in Quiet
    BY <1>1, <1>6, <2>1 DEF Inited, link
  <2>3. Control'
    BY <1>0, <1>6 DEF Inited, io, opening, Control
  <2> QED
    BY <2>2, <2>3, QuietStepKeeps
<1>7. CASE GetSocketID
  <2>1. "gotSocket" \in Returns /\ UNCHANGED <<socket_id, caller>>
    BY <1>7 DEF GetSocketID, Returns, opening
  <2>2. wire = <<>>
    BY <1>7, WireEmpty DEF GetSocketID
  <2> QED
    BY <1>0, <1>7, <2>1, <2>2, SendKeeps DEF GetSocketID, Control
<1>8. CASE GotSocket
  <2>1. wire' = <<>> /\ pc' \in Quiet
    BY <1>8, WireEmpty DEF GotSocket, InitPacketEnds, Call, link
  <2>2. Control'
    BY <1>0, <1>8 DEF GotSocket, Call, io, opening, Control
  <2> QED
    BY <2>1, <2>2, QuietStepKeeps
<1>9. CASE ChannelOpened
  <2>1. wire = <<>>
    BY <1>9, WireEmpty DEF ChannelOpened
  <2>2. UNCHANGED <<socket_id, caller>>
    BY <1>9 DEF ChannelOpened, opening
  <2>3. CASE Send("Credit", socket_id, "flush")
    <3>1. "flush" \in Returns
      BY DEF Returns
    <3> QED
      BY <1>0, <2>1, <2>2, <2>3, <3>1, SendKeeps DEF Control
  <2>4. CASE InitPacketEnds(FALSE) /\ UNCHANGED <<io, link>>
    <3>1. wire' = <<>> /\ Control'
      BY <1>0, <2>1, <2>2, <2>4 DEF io, link, Control
    <3>2. pc' \in Quiet
      BY <2>4 DEF InitPacketEnds
    <3> QED
      BY <3>1, <3>2, QuietStepKeeps
  <2> QED
    BY <1>9, <2>3, <2>4 DEF ChannelOpened
<1>10. CASE Flush
  <2>1. wire' = <<>> /\ pc' \in Quiet
    <3>1. wire = <<>>
      BY <1>10, WireEmpty DEF Flush
    <3> QED
      BY <1>0, <1>10, <3>1 DEF Flush, Flushed, ThrowsAway, InitPacketEnds, link
  <2>2. Control'
    BY <1>0, <1>10 DEF Flush, io, opening, Control
  <2> QED
    BY <2>1, <2>2, QuietStepKeeps
<1> QED
  BY <1>2, <1>3, <1>4, <1>5, <1>6, <1>7, <1>8, <1>9, <1>10, <1>11

(* OpenChannel. *)
LEMMA OpenChannelKeeps ==
  ASSUME ~overtaken', D4Inv, OpenChannel \/ GotOpen
  PROVE  D4Inv'
<1>0. Control /\ wire = <<>> /\ {"gotOpen", "open"} \subseteq Returns
  BY WireEmpty DEF D4Inv, OpenChannel, GotOpen, Returns
<1>1. CASE OpenChannel
  <2>0. UNCHANGED <<socket_id, caller>>
    BY <1>1 DEF OpenChannel, opening
  <2>1. CASE Send("OpenChannel", channel, "gotOpen")
    BY <1>0, <2>0, <2>1, SendKeeps DEF Control
  <2>2. CASE pc' = caller /\ UNCHANGED <<cmd, then, buf, d4Errno, link>>
    <3>1. wire' = <<>> /\ pc' \notin {"answer", "given", "write"} /\ Control'
      BY <1>0, <2>0, <2>2 DEF link, Control
    <3> QED
      BY <3>1, QuietStepKeeps
  <2> QED
    BY <1>1, <2>1, <2>2 DEF OpenChannel
<1>2. CASE GotOpen
  <2>0. UNCHANGED <<socket_id, caller>>
    BY <1>2 DEF GotOpen
  <2>1. CASE Send("CloseChannel", channel, "open")
    BY <1>0, <2>0, <2>1, SendKeeps DEF Control
  <2>2. CASE pc' = caller /\ UNCHANGED <<cmd, then, buf, d4Errno, opens, link>>
    <3>1. wire' = <<>> /\ pc' \notin {"answer", "given", "write"} /\ Control'
      BY <1>0, <2>0, <2>2 DEF link, Control
    <3> QED
      BY <3>1, QuietStepKeeps
  <2> QED
    BY <1>2, <2>1, <2>2 DEF GotOpen
<1> QED
  BY <1>1, <1>2

(* askForCredit, and the call that follows it. *)
LEMMA AskForCreditKeeps ==
  ASSUME ~overtaken', D4Inv,
         \/ Query \/ AskForCredit \/ GotCredit \/ Closed \/ GotSocketAgain \/ InitedAgain
         \/ OpenedAgain \/ HaveCredit
  PROVE  D4Inv'
<1>0. /\ Control /\ wire = <<>>
      /\ {"gotCredit", "closed", "gotSocketAgain", "initedAgain", "given"} \subseteq Returns
  BY WireEmpty
  DEF D4Inv, Returns, Query, AskForCredit, GotCredit, Closed, GotSocketAgain, InitedAgain,
      OpenedAgain, HaveCredit
<1>1. ASSUME UNCHANGED <<socket_id, caller>>, NEW type, NEW socket,
             NEW go \in Returns \ {"given"}, Send(type, socket, go)
      PROVE  D4Inv'
  BY <1>0, <1>1, SendKeeps DEF Control
<1>2. ASSUME caller' \in {caller, "opened"}, then' \in {then, "start"}, UNCHANGED link,
             pc' \notin {"answer", "given", "write"}
      PROVE  D4Inv'
  <2>1. wire' = <<>> /\ Control'
    BY <1>0, <1>2 DEF link, Control, Returns
  <2> QED
    BY <1>2, <2>1, QuietStepKeeps
<1>3. CASE Query
  <2>1. Control'
    BY <1>0, <1>3 DEF Query, IoGone, OpeningGone, Control, Returns
  <2>2. wire' = <<>> /\ pc' \in {"credit", "close"}
    BY <1>0, <1>3 DEF Query, link
  <2> QED
    BY <2>1, <2>2, QuietStepKeeps
<1>4. CASE AskForCredit
  <2>1. UNCHANGED <<socket_id, caller>>
    BY <1>4 DEF AskForCredit, opening
  <2>2. \/ Send("CreditRequest", socketID, "gotCredit")
        \/ pc' = "haveCredit" /\ UNCHANGED <<then, link>>
    BY <1>4 DEF AskForCredit, io
  <2> QED
    BY <1>0, <1>1, <1>2, <2>1, <2>2
<1>5. CASE GotCredit
  <2>1. UNCHANGED <<socket_id, caller>>
    BY <1>5 DEF GotCredit, opening
  <2>2. \/ Send("CreditRequest", socketID, "gotCredit")
        \/ pc' \in {"credit", "haveCredit"} /\ then' = "start" /\ UNCHANGED link
        \/ Send("CloseChannel", socketID, "closed")
    BY <1>5 DEF GotCredit, IoGone
  <2> QED
    BY <1>0, <1>1, <1>2, <2>1, <2>2
<1>6. CASE Closed
  <2>1. UNCHANGED <<socket_id, caller>> /\ Send("GetSocketID", 0, "gotSocketAgain")
    BY <1>6 DEF Closed, opening
  <2> QED
    BY <1>0, <1>1, <2>1
<1>7. CASE GotSocketAgain
  <2>1. UNCHANGED <<socket_id, caller>> /\ Send("Init", 0, "initedAgain")
    BY <1>7 DEF GotSocketAgain, opening
  <2> QED
    BY <1>0, <1>1, <2>1
<1>8. CASE InitedAgain
  <2>1. wire' = <<>> /\ pc' \in {"open", "openedAgain"} /\ Control'
    BY <1>0, <1>8 DEF InitedAgain, Call, io, opening, link, Control
  <2> QED
    BY <2>1, QuietStepKeeps
<1>9. CASE OpenedAgain
  BY <1>2, <1>9 DEF OpenedAgain, IoGone, OpeningGone
<1>10. CASE HaveCredit
  <2>1. UNCHANGED socket_id /\ caller' = "opened"
    BY <1>10 DEF HaveCredit, OpeningGone
  <2>2. CASE Send("Credit", socket_id, "given")
    BY <1>0, <2>1, <2>2, SendKeeps
  <2>3. CASE pc' = "failed" /\ UNCHANGED <<io, link>>
    <3>1. wire' = <<>> /\ Control'
      BY <1>0, <2>1, <2>3 DEF io, link, Control
    <3> QED
      BY <2>3, <3>1, QuietStepKeeps
  <2> QED
    BY <1>10, <2>2, <2>3 DEF HaveCredit
<1> QED
  BY <1>3, <1>4, <1>5, <1>6, <1>7, <1>8, <1>9, <1>10

(* sendReceiveCmd's reading of the answer. *)
LEMMA ReadAnswerKeeps ==
  ASSUME ~overtaken', D4Inv, ReadAnswer
  PROVE  D4Inv'
<1>1. wire' = <<>> /\ buf' = wire[1] /\ wire[1].current
  <2>1. wire = <<wire[1]>> /\ wire # <<>> /\ wire[1].current
    BY DEF ReadAnswer, D4Inv, WireInv, AtMostOne, AnswerInv
  <2>2. ASSUME NEW p, wire = <<p>>
        PROVE  Head(wire) = p /\ Tail(wire) = <<>> /\ wire[1] = p
    BY <2>2
  <2> QED
    BY <2>1, <2>2 DEF ReadAnswer
<1>2. Control'
  BY <1>1 DEF ReadAnswer, opening, D4Inv, Control
<1>3. pc' = then /\ then \in Returns
  BY DEF ReadAnswer, D4Inv, Control
<1>4. CASE then = "given"
  <2>1. /\ cmd = "Credit" /\ wire[1].type = "Credit"
        /\ wire[1].result = 0 => socket_id \in opened
    BY <1>4 DEF ReadAnswer, D4Inv, AnswerInv
  <2>2. rv' = Outcome(wire[1])
    BY <1>1 DEF ReadAnswer
  <2>3. ASSUME wire[1].result # 0
        PROVE  Outcome(wire[1]) \in {-1, 0}
    BY <2>1, <2>3 DEF Outcome
  <2>4. UNCHANGED <<socket_id, opened>>
    BY DEF ReadAnswer, printer
  <2>5. GivenInv'
    BY <2>1, <2>2, <2>3, <2>4 DEF GivenInv, CreditGiven, Size
  <2>6. pc' = "given"
    BY <1>3, <1>4
  <2> QED
    BY <1>1, <1>2, <2>5, <2>6 DEF D4Inv, WireInv, AtMostOne, AnswerInv, WriteInv
<1>5. CASE then # "given"
  <2>1. pc' \notin {"answer", "given", "write"}
    BY <1>3, <1>5 DEF Returns
  <2> QED
    BY <1>1, <1>2, <2>1, QuietStepKeeps
<1> QED
  BY <1>4, <1>5

(* ... or giving it up: nothing is on its way then, and nothing will be.   *)
LEMMA TimeoutKeeps ==
  ASSUME ~overtaken', D4Inv, Timeout
  PROVE  D4Inv'
<1>1. wire' = <<>> /\ Control' /\ pc' = then /\ then \in Returns
  <2>1. wire = <<>>
    BY DEF Timeout, GoesOn
  <2> QED
    BY <2>1 DEF Timeout, GoesOn, opening, D4Inv, Control
<1>2. pc' \notin {"answer", "write"}
  BY <1>1 DEF Returns
<1>3. ~CreditGiven'
  BY DEF Timeout, CreditGiven, Size
<1> QED
  BY <1>1, <1>2, <1>3
  DEF D4Inv, WireInv, AtMostOne, AnswerInv, GivenInv, WriteInv

(* writeAndReadData, once credit is there. *)
LEMMA WriteAndReadDataKeeps ==
  ASSUME ~overtaken', D4Inv, Given \/ WriteData \/ ReadData \/ ReadDataTimesOut
  PROVE  D4Inv'
<1>0. Control /\ AtMostOne
  BY DEF D4Inv, WireInv
<1>1. CASE Given
  <2>1. /\ pc = "given" /\ pc' \in {"write", "failed"}
        /\ pc' = "write" => CreditGiven
        /\ then' = "start" /\ UNCHANGED <<caller, socket_id, wire, opened>>
    BY <1>1 DEF Given, IoGone, opening, link, printer
  <2>2. wire' = <<>>
    BY <2>1, WireEmpty
  <2>3. WriteInv'
    BY <2>1 DEF D4Inv, GivenInv, WriteInv
  <2>4. Control'
    BY <1>0, <2>1 DEF Control, Returns
  <2> QED
    BY <2>1, <2>2, <2>3, <2>4 DEF D4Inv, WireInv, AtMostOne, AnswerInv, GivenInv
<1>2. CASE WriteData
  <2>1. Control'
    BY <1>0, <1>2 DEF WriteData, io, opening, Control
  <2>2. wire = <<>>
    BY <1>2, WireEmpty DEF WriteData
  <2>3. CASE HandlesData(socket_id, request) /\ pc' = "read"
    <3>1. wire' = <<>> \/ \E p : wire' = <<p>>
      <4>1. Stale = <<>>
        BY <2>2 DEF Stale
      <4> QED
        BY <2>2, <2>3, <4>1, SendsFacts DEF HandlesData
    <3>2. AtMostOne'
      BY <3>1 DEF AtMostOne
    <3> QED
      BY <2>1, <2>3, <3>2 DEF D4Inv, WireInv, AnswerInv, GivenInv, WriteInv
  <2>4. CASE UNCHANGED link /\ pc' \in {"failed", "hung"}
    BY <2>1, <2>2, <2>4, QuietStepKeeps DEF link
  <2> QED
    BY <1>2, <2>3, <2>4 DEF WriteData
<1>3. CASE ReadData
  <2>1. wire' = <<>>
    <3>1. ASSUME NEW p, wire = <<p>>
          PROVE  Tail(wire) = <<>>
      BY <3>1
    <3> QED
      BY <1>0, <1>3, <3>1 DEF ReadData, AtMostOne
  <2>2. pc' \in {"read", "query"}
    BY <1>3 DEF ReadData
  <2>3. Control'
    BY <1>0, <1>3 DEF ReadData, io, opening, Control
  <2> QED
    BY <2>1, <2>2, <2>3, QuietStepKeeps
<1>4. CASE ReadDataTimesOut
  <2>1. wire' = <<>> /\ pc' = "failed"
    BY <1>4 DEF ReadDataTimesOut, GoesOn
  <2>2. Control'
    BY <1>0, <1>4 DEF ReadDataTimesOut, host, io, opening, Control
  <2> QED
    BY <2>1, <2>2, QuietStepKeeps
<1> QED
  BY <1>1, <1>2, <1>3, <1>4

(* The end of a session, and the start of the next one: what the printer   *)
(* sent may stay on its way.                                               *)
LEMMA EndKeeps ==
  ASSUME ~overtaken', D4Inv, Failed \/ CloseChannel \/ Killed \/ Restart
  PROVE  D4Inv'
<1>0. Control /\ AtMostOne
  BY DEF D4Inv, WireInv
<1>1. CASE Failed
  <2>1. wire' = <<>> /\ pc' \in {"close", "query", "done"}
    BY <1>1, WireEmpty DEF Failed, link
  <2>2. Control'
    BY <1>0, <1>1 DEF Failed, io, opening, Control
  <2> QED
    BY <2>1, <2>2, QuietStepKeeps
<1>2. CASE CloseChannel
  <2>1. "done" \in Returns /\ UNCHANGED <<socket_id, caller>>
    BY <1>2 DEF CloseChannel, Returns, opening
  <2>2. wire = <<>>
    BY <1>2, WireEmpty DEF CloseChannel
  <2> QED
    BY <1>0, <1>2, <2>1, <2>2, SendKeeps DEF CloseChannel, Control
<1>3. CASE Killed \/ Restart
  <2>1. pc' \in {"done", "start"} /\ wire' = wire
    BY <1>3 DEF Killed, Restart, link
  <2>2. Control'
    BY <1>3
    DEF Killed, Restart, ProgramGone, IoGone, OpeningGone, Control, Returns
  <2> QED
    BY <1>0, <2>1, <2>2
    DEF D4Inv, WireInv, AtMostOne, AnswerInv, GivenInv, WriteInv
<1> QED
  BY <1>1, <1>2, <1>3

(* Every step of escputil, its end by a signal included. *)
LEMMA NextD4Inv ==
  ASSUME ~overtaken', D4Inv, [Next]_vars
  PROVE  D4Inv'
<1>1. CASE Host
  BY <1>1, InitPacketKeeps, OpenChannelKeeps, AskForCreditKeeps, ReadAnswerKeeps, TimeoutKeeps,
     WriteAndReadDataKeeps, EndKeeps
  DEF Host
<1>2. CASE Killed \/ Restart
  BY <1>2, EndKeeps
<1>3. CASE Finished \/ UNCHANGED vars
  <2>1. pc' = pc /\ UNCHANGED host /\ UNCHANGED link
    BY <1>3 DEF Finished, vars
  <2>2. UNCHANGED <<cmd, then, rv, caller, socket_id>>
    BY <2>1 DEF host, io, opening
  <2>3. UNCHANGED <<wire, opened>>
    BY <2>1 DEF link, printer
  <2> QED
    BY <2>1, <2>2, <2>3
    DEF D4Inv, Control, WireInv, AtMostOne, AnswerInv, GivenInv, CreditGiven,
        WriteInv
<1> QED
  BY <1>1, <1>2, <1>3 DEF Next

-----------------------------------------------------------------------------
(* What may be in byte 8 of a packet, and in the variables it is kept in. *)
SocketBytes == Sockets \union {0, Unset, Revision}

Commands == {"EnterIEEE", "Init", "GetSocketID", "OpenChannel", "CloseChannel",
             "CreditRequest", "Credit"}

(* The packets of the printer; one packet of credit is granted at a time.  *)
Packets ==
  {p \in [type : Commands \union {"Data", "Error"}, result : Nat, socket : SocketBytes,
          value : Nat, current : BOOLEAN] :
     p.type = "CreditRequest" => p.value \in {0, 1}}

LinkTypes ==
  /\ wire \in Seq(Packets)
  /\ opened \subseteq Sockets
  /\ granted \in [Sockets -> 0 .. MaxCredit] /\ given \in [Sockets -> 0 .. MaxCredit]

(* The variables of the session and of OpenChannel, askForCredit and       *)
(* writeAndReadData.                                                       *)
SessionTypes ==
  /\ socket_id \in SocketBytes /\ channel \in SocketBytes /\ socketID \in SocketBytes
  /\ caller \in {"opened", "openedAgain"}
  /\ probes \in 0 .. ProbeTries /\ tries \in 0 .. InitTries /\ opens \in 0 .. OpenTries
  /\ retries \in -1 .. CreditTries /\ credit \in -1 .. MaxCredit
  /\ request \in 1 .. Len(Requests) + 1 /\ retry \in -1 .. DataTries
  /\ got \in Seq(Packets \union {None}) /\ Len(got) = request - 1

(* Those of sendReceiveCmd; a packet is looked into where there is one.    *)
IoTypes ==
  /\ rv \in -1 .. 19 /\ then \in Returns
  /\ pc = "answer" => cmd \in Commands
  /\ pc \in {"gotSocket", "gotSocketAgain", "gotCredit"} /\ rv > 0 => buf \in Packets

(* Where the program is, or will be when it has its answer. *)
At == IF pc = "answer" THEN then ELSE pc

(* An attempt to open the channel is not used up before its answer. *)
OpensOK == At = "gotOpen" => opens < OpenTries

(* A question is being asked, or the link initialised on its way. *)
InQuestion == {"credit", "gotCredit", "closed", "gotSocketAgain", "initedAgain", "openedAgain",
               "haveCredit", "given", "write", "read"}
AskingOK ==
  At \in InQuestion \/ (At \in {"open", "gotOpen"} /\ caller = "openedAgain") =>
    request <= Len(Requests)

TypeInv == LinkTypes /\ SessionTypes /\ IoTypes /\ OpensOK /\ AskingOK

(* Packets stay packets when another command is sent. *)
LEMMA StaleTypes ==
  ASSUME wire \in Seq(Packets)
  PROVE  Stale \in Seq(Packets)
<1>1. \A k \in 1 .. Len(wire) : wire[k] \in Packets
  OBVIOUS
<1>2. \A p \in Packets : [p EXCEPT !.current = FALSE] \in Packets
  BY DEF Packets
<1>3. Stale = [k \in 1 .. Len(wire) |-> [wire[k] EXCEPT !.current = FALSE]]
  BY DEF Stale
<1>4. Len(wire) \in Nat
  OBVIOUS
<1> QED
  BY <1>1, <1>2, <1>3, <1>4

(* The printer sends packets. *)
LEMMA SendsTypes ==
  ASSUME wire \in Seq(Packets), NEW type \in Commands \union {"Data", "Error"}, NEW result \in Nat,
         NEW socket \in SocketBytes, NEW value \in Nat,
         type = "CreditRequest" => value \in {0, 1},
         Sends(type, result, socket, value)
  PROVE  wire' \in Seq(Packets)
<1>1. Packet(type, result, socket, value) \in Packets
  BY DEF Packet, Packets
<1>2. Stale \in Seq(Packets)
  BY StaleTypes
<1>3. Append(Stale, Packet(type, result, socket, value)) \in Seq(Packets)
  BY <1>1, <1>2
<1> QED
  BY <1>2, <1>3 DEF Sends

(* What the printer keeps of its credit and channels when it answers. *)
LEMMA HandlesTypes ==
  ASSUME LinkTypes, NEW type \in Commands, NEW s \in SocketBytes, Handles(type, s)
  PROVE  LinkTypes'
<1>0. /\ 0 \in SocketBytes /\ Revision \in SocketBytes /\ Sockets \subseteq SocketBytes
      /\ MaxCredit \in Nat \ {0}
      /\ wire \in Seq(Packets) /\ opened \subseteq Sockets
      /\ granted \in [Sockets -> 0 .. MaxCredit] /\ given \in [Sockets -> 0 .. MaxCredit]
  BY LinkAssumption DEF SocketBytes, LinkTypes
<1>1. ASSUME NEW result \in Nat, NEW socket \in SocketBytes, NEW value \in Nat,
             type = "CreditRequest" => value \in {0, 1},
             Sends(type, result, socket, value)
      PROVE  wire' \in Seq(Packets)
  BY <1>0, <1>1, SendsTypes
<1>2. Same => opened' = opened /\ granted' = granted /\ given' = given
  BY DEF Same, printer
<1>3. /\ NoResources \in Nat /\ AlreadyOpen \in Nat /\ Overflow \in Nat /\ NotOpen \in Nat
      /\ NoService \in Nat /\ NoSocketID \in Nat /\ InitFailed \in Nat
  BY DEF NoResources, AlreadyOpen, Overflow, NotOpen, NoService, NoSocketID, InitFailed
<1>4. CASE type = "EnterIEEE" /\ Enters
  <2>1. PICK value \in {0, 1} : Sends(type, 0, 0, value)
    BY <1>4 DEF Enters
  <2> QED
    BY <1>0, <1>1, <1>2, <1>4, <2>1 DEF Enters, LinkTypes
<1>5. CASE type = "Init" /\ Inits
  <2>1. wire' \in Seq(Packets)
    BY <1>0, <1>1, <1>3, <1>5 DEF Inits
  <2>2. /\ opened' \subseteq Sockets
        /\ granted' \in [Sockets -> 0 .. MaxCredit] /\ given' \in [Sockets -> 0 .. MaxCredit]
    BY <1>0, <1>2, <1>5 DEF Inits
  <2> QED
    BY <2>1, <2>2 DEF LinkTypes
<1>6. CASE type = "GetSocketID" /\ GetsSocketID
  <2>1. wire' \in Seq(Packets)
    BY <1>0, <1>1, <1>3, <1>6 DEF GetsSocketID
  <2> QED
    BY <1>0, <1>2, <1>6, <2>1 DEF GetsSocketID, LinkTypes
<1>7. CASE type = "OpenChannel" /\ Opens(s)
  <2>1. wire' \in Seq(Packets)
    BY <1>0, <1>1, <1>3, <1>7 DEF Opens
  <2>2. /\ opened' \subseteq Sockets
        /\ granted' \in [Sockets -> 0 .. MaxCredit] /\ given' \in [Sockets -> 0 .. MaxCredit]
    <3>1. CASE Same
      BY <1>0, <1>2, <3>1
    <3>2. CASE /\ s \in Sockets /\ opened' = opened \union {s}
               /\ granted' = [granted EXCEPT ![s] = 0] /\ given' = [given EXCEPT ![s] = 0]
      BY <1>0, <3>2
    <3> QED
      BY <1>7, <3>1, <3>2 DEF Opens
  <2> QED
    BY <2>1, <2>2 DEF LinkTypes
<1>8. CASE type = "CloseChannel" /\ Closes(s)
  <2>1. wire' \in Seq(Packets)
    BY <1>0, <1>1, <1>3, <1>8 DEF Closes
  <2>2. /\ opened' \subseteq Sockets
        /\ granted' \in [Sockets -> 0 .. MaxCredit] /\ given' \in [Sockets -> 0 .. MaxCredit]
    <3>1. CASE s \notin opened
      BY <1>0, <1>2, <1>8, <3>1 DEF Closes
    <3>2. CASE s \in opened
      <4>1. /\ s \in Sockets /\ opened' = opened \ {s}
            /\ granted' = [granted EXCEPT ![s] = 0] /\ given' = [given EXCEPT ![s] = 0]
        BY <1>0, <1>8, <3>2 DEF Closes
      <4> QED
        BY <1>0, <4>1
    <3> QED
      BY <3>1, <3>2
  <2> QED
    BY <1>0, <2>1, <2>2 DEF LinkTypes
<1>9. CASE type = "CreditRequest" /\ Grants(s)
  <2>1. CASE s \notin opened
    <3>1. wire' \in Seq(Packets)
      BY <1>0, <1>1, <1>3, <1>9, <2>1 DEF Grants
    <3> QED
      BY <1>0, <1>2, <1>9, <2>1, <3>1 DEF Grants, LinkTypes
  <2>2. CASE s \in opened
    <3>1. PICK c \in {0, 1} : /\ granted[s] + c <= MaxCredit
                              /\ granted' = [granted EXCEPT ![s] = @ + c]
                              /\ Sends("CreditRequest", 0, s, c)
                              /\ UNCHANGED <<opened, given>>
      BY <1>9, <2>2 DEF Grants
    <3>2. s \in Sockets /\ granted[s] + c \in 0 .. MaxCredit
      BY <1>0, <2>2, <3>1
    <3>3. wire' \in Seq(Packets)
      BY <1>0, <1>1, <1>9, <3>1
    <3> QED
      BY <1>0, <3>1, <3>2, <3>3 DEF LinkTypes
  <2> QED
    BY <2>1, <2>2
<1>10. CASE type = "Credit" /\ TakesCredit(s)
  <2>1. wire' \in Seq(Packets)
    BY <1>0, <1>1, <1>3, <1>10 DEF TakesCredit
  <2>2. /\ opened' \subseteq Sockets /\ granted' = granted
        /\ given' \in [Sockets -> 0 .. MaxCredit]
    BY <1>0, <1>2, <1>10 DEF TakesCredit
  <2> QED
    BY <1>0, <2>1, <2>2 DEF LinkTypes
<1> QED
  BY <1>4, <1>5, <1>6, <1>7, <1>8, <1>9, <1>10 DEF Handles

(* ... and when it is sent a question. *)
LEMMA HandlesDataTypes ==
  ASSUME LinkTypes, NEW s \in SocketBytes, NEW question \in Nat, HandlesData(s, question)
  PROVE  LinkTypes'
<1>0. /\ MaxCredit \in Nat \ {0} /\ wire \in Seq(Packets) /\ opened \subseteq Sockets
      /\ granted \in [Sockets -> 0 .. MaxCredit] /\ given \in [Sockets -> 0 .. MaxCredit]
      /\ NotOpenedData \in Nat /\ NoCredit \in Nat
  BY LinkAssumption DEF LinkTypes, NotOpenedData, NoCredit
<1>1. Stale \in Seq(Packets)
  BY <1>0, StaleTypes
<1>2. CASE s \notin opened \/ granted[s] = 0
  <2>1. \E code \in Nat : Sends("Error", code, s, 0)
    BY <1>0, <1>2 DEF HandlesData
  <2>2. Same
    BY <1>2 DEF HandlesData
  <2> QED
    BY <1>0, <2>1, <2>2, SendsTypes DEF Same, printer, LinkTypes
<1>3. CASE s \in opened /\ granted[s] # 0
  <2>1. /\ granted' = [granted EXCEPT ![s] = @ - 1] /\ UNCHANGED opened
        /\ \/ wire' = Stale /\ UNCHANGED given
           \/ /\ given[s] # 0 /\ Sends("Data", 0, s, question)
              /\ given' = [given EXCEPT ![s] = @ - 1]
    BY <1>3 DEF HandlesData
  <2>2. granted' \in [Sockets -> 0 .. MaxCredit] /\ given' \in [Sockets -> 0 .. MaxCredit]
    <3>1. s \in Sockets /\ granted[s] \in 0 .. MaxCredit /\ given[s] \in 0 .. MaxCredit
      BY <1>0, <1>3
    <3>2. granted[s] - 1 \in 0 .. MaxCredit
      BY <1>0, <1>3, <3>1
    <3>3. given[s] # 0 => given[s] - 1 \in 0 .. MaxCredit
      BY <1>0, <3>1
    <3>4. granted' \in [Sockets -> 0 .. MaxCredit]
      BY <1>0, <2>1, <3>1, <3>2
    <3>5. CASE given' = given
      BY <1>0, <3>4, <3>5
    <3>6. CASE given[s] # 0 /\ given' = [given EXCEPT ![s] = given[s] - 1]
      BY <1>0, <3>1, <3>3, <3>4, <3>6
    <3> QED
      BY <2>1, <3>5, <3>6
  <2>3. wire' \in Seq(Packets)
    BY <1>0, <1>1, <2>1, SendsTypes
  <2> QED
    BY <1>0, <2>1, <2>2, <2>3 DEF LinkTypes
<1> QED
  BY <1>2, <1>3

(* A flush leaves an end of what there was. *)
LEMMA FlushTypes ==
  ASSUME LinkTypes, wire' \in Unflushed
  PROVE  wire' \in Seq(Packets)
<1>1. wire \in Seq(Packets) /\ Len(wire) \in Nat
  BY DEF LinkTypes
<1>2. PICK k \in 0 .. Len(wire) : wire' = SubSeq(wire, k + 1, Len(wire))
  BY <1>1 DEF Unflushed
<1> QED
  BY <1>1, <1>2

(* A command sent is answered or has failed; the program is where its      *)
(* caller goes on, or will be when it has its answer, or it hangs.         *)
LEMMA SendTypes ==
  ASSUME LinkTypes, NEW type \in Commands, NEW s \in SocketBytes, NEW go \in Returns,
         Send(type, s, go)
  PROVE  LinkTypes' /\ IoTypes' /\ At' \in {go, "hung"}
<1>1. LinkTypes'
  <2>1. CASE Handles(type, s)
    BY <2>1, HandlesTypes
  <2>2. CASE UNCHANGED link
    BY <2>2 DEF link, printer, LinkTypes
  <2> QED
    BY <2>1, <2>2 DEF Send
<1>2. cmd' = type /\ then' = go /\ rv' \in {0, -1} /\ pc' \in {"answer", go, "hung"}
  BY DEF Send
<1>3. IoTypes'
  BY <1>2 DEF IoTypes
<1> QED
  BY <1>1, <1>2, <1>3 DEF At

(* A step that sends a command keeps the types if it keeps the session's.  *)
LEMMA SendKeepsTypes ==
  ASSUME LinkTypes, NEW type \in Commands, NEW s \in SocketBytes, NEW go \in Returns,
         Send(type, s, go), SessionTypes',
         go = "gotOpen" => opens' < OpenTries,
         go \in InQuestion \/ (go \in {"open", "gotOpen"} /\ caller' = "openedAgain") =>
           request' <= Len(Requests)
  PROVE  TypeInv'
<1>1. LinkTypes' /\ IoTypes' /\ At' \in {go, "hung"}
  BY SendTypes
<1>2. OpensOK' /\ AskingOK'
  BY <1>1 DEF OpensOK, AskingOK, InQuestion
<1> QED
  BY <1>1, <1>2 DEF TypeInv

(* So does a step that sends none and looks at no answer next. *)
LEMMA StepKeepsTypes ==
  ASSUME LinkTypes', SessionTypes', rv' \in -1 .. 19, then' \in Returns,
         pc' \notin {"answer", "gotSocket", "gotSocketAgain", "gotCredit", "gotOpen"},
         pc' \in InQuestion \/ (pc' = "open" /\ caller' = "openedAgain") =>
           request' <= Len(Requests)
  PROVE  TypeInv'
<1>1. At' = pc'
  BY DEF At
<1>2. IoTypes' /\ OpensOK' /\ AskingOK'
  BY <1>1 DEF IoTypes, OpensOK, AskingOK
<1> QED
  BY <1>2 DEF TypeInv

(* The session's variables keep their types if they keep their values.     *)
LEMMA SameSession ==
  ASSUME SessionTypes, UNCHANGED <<socket_id, initing, opening, asking, asked>>
  PROVE  SessionTypes'
BY DEF SessionTypes, initing, opening, asking, asked

(* Byte 8 of a packet is a byte. *)
LEMMA SocketGotTypes ==
  ASSUME rv \in Int, rv > 0 => buf \in Packets
  PROVE  SocketGot \subseteq SocketBytes
<1>1. CASE rv <= 0
  BY <1>1 DEF SocketGot, SocketBytes
<1>2. CASE ~(rv <= 0) /\ buf.type = "EnterIEEE"
  BY <1>2 DEF SocketGot, SocketBytes
<1>3. CASE ~(rv <= 0) /\ buf.type # "EnterIEEE" /\ buf \in Packets
  BY <1>3 DEF SocketGot, Packets
<1> QED
  BY <1>1, <1>2, <1>3

(* The types hold before the first packet. *)
LEMMA InitTypes == Init => TypeInv
<1> SUFFICES ASSUME Init PROVE TypeInv
  OBVIOUS
<1>1. MaxCredit \in Nat \ {0} /\ Len(Requests) \in Nat
      /\ ProbeTries \in Nat /\ InitTries \in Nat /\ OpenTries \in Nat /\ CreditTries \in Nat /\ DataTries \in Nat
  BY LinkAssumption, SessionAssumption
<1>2. LinkTypes
  BY <1>1 DEF Init, LinkInit, LinkTypes
<1>3. SessionTypes
  <2>1. got \in Seq(Packets \union {None}) /\ Len(got) = 0
    BY DEF Init
  <2> QED
    BY <1>1, <2>1 DEF Init, SessionTypes, SocketBytes
<1>4. IoTypes /\ OpensOK /\ AskingOK
  BY DEF Init, IoTypes, Returns, At, OpensOK, AskingOK, InQuestion
<1> QED
  BY <1>2, <1>3, <1>4 DEF TypeInv

-----------------------------------------------------------------------------
(* initialize_printer and init_packet. *)
LEMMA InitPacketTypes ==
  ASSUME TypeInv,
         \/ Start \/ ForceD4 \/ EnterIEEE \/ Entered \/ InitCommand \/ Inited \/ GetSocketID
         \/ GotSocket \/ ChannelOpened \/ Flush
  PROVE  TypeInv'
<1>0. /\ LinkTypes /\ SessionTypes /\ rv \in -1 .. 19 /\ then \in Returns
      /\ 0 \in SocketBytes /\ socket_id \in SocketBytes
      /\ ProbeTries \in Nat /\ InitTries \in Nat /\ probes \in 0 .. ProbeTries
  BY SessionAssumption DEF TypeInv, IoTypes, SessionTypes, SocketBytes
<1> DEFINE Quiet == {"start", "force", "done", "enter", "init", "socket", "query"}
<1>1. ASSUME Flushed \/ UNCHANGED link
      PROVE  LinkTypes'
  BY <1>0, <1>1, FlushTypes DEF Flushed, ThrowsAway, link, printer, LinkTypes
<1>14. ASSUME NEW ok, InitPacketEnds(ok)
       PROVE  probes' \in 0 .. ProbeTries /\ pc' \in Quiet
  BY <1>0, <1>14 DEF InitPacketEnds
<1>2. ASSUME UNCHANGED <<io, socket_id, opening, asking, asked>>, LinkTypes',
             probes' \in 0 .. ProbeTries, tries' \in 0 .. InitTries, pc' \in Quiet
      PROVE  TypeInv'
  <2>1. SessionTypes'
    BY <1>0, <1>2 DEF SessionTypes, opening, asking, asked
  <2>2. rv' \in -1 .. 19 /\ then' \in Returns
    BY <1>0, <1>2 DEF io
  <2> QED
    BY <1>2, <2>1, <2>2, StepKeepsTypes DEF InQuestion
<1>15. ASSUME RetryInit, UNCHANGED <<io, socket_id, opening, asking, asked>>
       PROVE  TypeInv'
  <2>1. CASE tries < InitTries /\ tries' = tries + 1 /\ pc' = "enter" /\ Flushed /\ UNCHANGED probes
    <3>1. tries' \in 0 .. InitTries
      BY <1>0, <2>1 DEF SessionTypes
    <3>2. LinkTypes'
      BY <1>1, <2>1
    <3> QED
      BY <1>0, <1>2, <1>15, <2>1, <3>1, <3>2
  <2>2. CASE InitPacketEnds(FALSE) /\ UNCHANGED <<tries, link>>
    <3>1. tries' \in 0 .. InitTries
      BY <1>0, <2>2 DEF SessionTypes
    <3>2. LinkTypes' /\ probes' \in 0 .. ProbeTries /\ pc' \in Quiet
      BY <1>1, <1>14, <2>2
    <3> QED
      BY <1>2, <1>15, <3>1, <3>2
  <2> QED
    BY <1>15, <2>1, <2>2 DEF RetryInit
<1>3. ASSUME UNCHANGED <<io, socket_id, initing, opening, asking, asked, link>>, pc' \in Quiet
      PROVE  TypeInv'
  <2>1. LinkTypes' /\ SessionTypes' /\ rv' \in -1 .. 19 /\ then' \in Returns
    BY <1>0, <1>1, <1>3, SameSession DEF io
  <2> QED
    BY <1>3, <2>1, StepKeepsTypes DEF InQuestion
<1>4. ASSUME UNCHANGED <<socket_id, initing, opening, asking, asked>>,
             NEW type \in Commands, NEW s \in SocketBytes,
             NEW go \in {"entered", "inited", "gotSocket", "flush"}, Send(type, s, go)
      PROVE  TypeInv'
  <2>1. SessionTypes' /\ go \in Returns /\ go \notin InQuestion /\ go \notin {"open", "gotOpen"}
    BY <1>0, <1>4, SameSession DEF Returns, InQuestion
  <2> QED
    BY <1>0, <1>4, <2>1, SendKeepsTypes
<1>5. CASE Start
  <2>1. LinkTypes'
    BY <1>1, <1>5 DEF Start
  <2>2. UNCHANGED <<io, socket_id, opening, asking>> /\ pc' \in Quiet
    BY <1>5 DEF Start
  <2>3. CASE UNCHANGED asked
    <3>1. probes' \in 0 .. ProbeTries /\ tries' \in 0 .. InitTries
      BY <1>0, <1>5 DEF Start, initing, SessionTypes
    <3> QED
      BY <1>2, <2>1, <2>2, <2>3, <3>1
  <2>4. CASE pc' = "enter" /\ tries' = 0 /\ request' = 2 /\ got' = <<None>> /\ UNCHANGED <<probes, retry>>
    <3>1. got' \in Seq(Packets \union {None}) /\ Len(got') = 1
      BY <2>4
    <3>2. request' \in 1 .. Len(Requests) + 1
      BY <2>4, SessionAssumption
    <3>3. SessionTypes'
      BY <1>0, <2>2, <2>4, <3>1, <3>2 DEF SessionTypes, opening, asking
    <3>4. rv' \in -1 .. 19 /\ then' \in Returns
      BY <1>0, <2>2 DEF io
    <3> QED
      BY <2>1, <2>4, <3>3, <3>4, StepKeepsTypes DEF InQuestion
  <2> QED
    BY <1>5, <2>3, <2>4 DEF Start
<1>16. CASE ForceD4
  <2>1. LinkTypes'
    <3>1. wire' \in Seq(Packets)
      BY <1>0, <1>16, FlushTypes DEF ForceD4, ThrowsAway
    <3>2. \/ opened' = {} /\ granted' = [s \in Sockets |-> 0] /\ given' = granted'
          \/ UNCHANGED <<opened, granted, given>>
      BY <1>16 DEF ForceD4, ForcedOut, Same, printer
    <3>3. 0 \in 0 .. MaxCredit
      BY LinkAssumption
    <3> QED
      BY <1>0, <3>1, <3>2, <3>3 DEF LinkTypes
  <2> QED
    BY <1>0, <1>2, <1>16, <2>1 DEF ForceD4
<1>6. CASE EnterIEEE
  <2>1. "EnterIEEE" \in Commands
    BY DEF Commands
  <2> QED
    BY <1>0, <1>4, <1>6, <2>1 DEF EnterIEEE
<1>7. CASE Entered
  <2>1. \/ RetryInit
        \/ pc' \in {"enter", "init"} /\ UNCHANGED <<initing, link>>
    BY <1>7 DEF Entered
  <2>2. UNCHANGED <<io, socket_id, opening, asking, asked>>
    BY <1>7 DEF Entered
  <2> QED
    BY <1>3, <1>15, <2>1, <2>2
<1>8. CASE InitCommand
  <2>1. "Init" \in Commands
    BY DEF Commands
  <2> QED
    BY <1>0, <1>4, <1>8, <2>1 DEF InitCommand
<1>9. CASE Inited
  <2>1. \/ RetryInit
        \/ pc' = "socket" /\ UNCHANGED <<initing, link>>
    BY <1>9 DEF Inited
  <2>2. UNCHANGED <<io, socket_id, opening, asking, asked>>
    BY <1>9 DEF Inited
  <2> QED
    BY <1>3, <1>15, <2>1, <2>2
<1>10. CASE GetSocketID
  <2>1. "GetSocketID" \in Commands
    BY DEF Commands
  <2> QED
    BY <1>0, <1>4, <1>10, <2>1 DEF GetSocketID
<1>11. CASE GotSocket
  <2>1. socket_id' \in SocketBytes
    <3>1. rv > 0 => buf \in Packets
      BY <1>11 DEF GotSocket, TypeInv, IoTypes
    <3>2. rv \in Int
      BY <1>0
    <3> QED
      BY <1>11, <3>1, <3>2, SocketGotTypes DEF GotSocket
  <2>2. /\ UNCHANGED <<io, tries, asking, asked, link>>
        /\ \/ InitPacketEnds(FALSE) /\ UNCHANGED opening
           \/ pc' = "open" /\ channel' = socket_id' /\ opens' = 0 /\ caller' = "opened" /\ UNCHANGED probes
    BY <1>11 DEF GotSocket, Call
  <2>3. LinkTypes' /\ rv' \in -1 .. 19 /\ then' \in Returns
    BY <1>0, <1>1, <2>2 DEF io
  <2>4. pc' \in Quiet \union {"open"} /\ probes' \in 0 .. ProbeTries /\ caller' \in {"opened", caller}
    BY <1>0, <1>14, <2>2 DEF opening
  <2>5. SessionTypes'
    <3>1. OpenTries \in Nat
      BY SessionAssumption
    <3>2. channel' \in SocketBytes /\ opens' \in 0 .. OpenTries /\ caller' \in {"opened", "openedAgain"}
      <4>1. CASE UNCHANGED opening
        BY <1>0, <4>1 DEF SessionTypes, opening
      <4>2. CASE channel' = socket_id' /\ opens' = 0 /\ caller' = "opened"
        BY <2>1, <3>1, <4>2
      <4> QED
        BY <2>2, <4>1, <4>2
    <3> QED
      BY <1>0, <2>1, <2>2, <2>4, <3>2 DEF SessionTypes, asking, asked
  <2>6. pc' = "open" => caller' = "opened"
    BY <2>2, <1>14
  <2> QED
    BY <2>3, <2>4, <2>5, <2>6, StepKeepsTypes DEF InQuestion
<1>12. CASE ChannelOpened
  <2>1. "Credit" \in Commands
    BY DEF Commands
  <2>2. \/ Send("Credit", socket_id, "flush") /\ UNCHANGED probes
        \/ InitPacketEnds(FALSE) /\ UNCHANGED <<io, link>>
    BY <1>12 DEF ChannelOpened
  <2>3. UNCHANGED <<socket_id, tries, calledBy, opening, asking, asked>>
    BY <1>12 DEF ChannelOpened
  <2>4. CASE Send("Credit", socket_id, "flush") /\ UNCHANGED probes
    <3>1. UNCHANGED initing
      BY <2>3, <2>4 DEF initing
    <3> QED
      BY <1>0, <1>4, <2>1, <2>3, <2>4, <3>1
  <2>5. CASE InitPacketEnds(FALSE) /\ UNCHANGED <<io, link>>
    <3>1. LinkTypes' /\ tries' \in 0 .. InitTries
      BY <1>0, <1>1, <2>3, <2>5 DEF SessionTypes
    <3> QED
      BY <1>2, <1>14, <2>3, <2>5, <3>1
  <2> QED
    BY <2>2, <2>4, <2>5
<1>13. CASE Flush
  <2>1. LinkTypes'
    BY <1>1, <1>13 DEF Flush
  <2>2. InitPacketEnds(TRUE) /\ UNCHANGED <<io, socket_id, tries, opening, asking, asked>>
    BY <1>13 DEF Flush
  <2>3. tries' \in 0 .. InitTries
    BY <1>0, <2>2 DEF SessionTypes
  <2> QED
    BY <1>2, <1>14, <2>1, <2>2, <2>3
<1> QED
  BY <1>5, <1>6, <1>7, <1>8, <1>9, <1>10, <1>11, <1>12, <1>13, <1>16

(* OpenChannel: the attempt counted is one that was left.                  *)
LEMMA OpenChannelTypes ==
  ASSUME TypeInv, OpenChannel \/ GotOpen
  PROVE  TypeInv'
<1>0. /\ LinkTypes /\ SessionTypes /\ rv \in -1 .. 19 /\ then \in Returns
      /\ channel \in SocketBytes /\ caller \in {"opened", "openedAgain"} /\ At = pc
      /\ pc \in {"open", "gotOpen"}
      /\ opens \in 0 .. OpenTries /\ OpenTries \in Nat
      /\ {"OpenChannel", "CloseChannel"} \subseteq Commands
      /\ {"open", "gotOpen"} \subseteq Returns
  BY SessionAssumption
  DEF TypeInv, IoTypes, SessionTypes, At, OpenChannel, GotOpen, Commands, Returns
<1>1. caller = "openedAgain" => request <= Len(Requests)
  BY <1>0 DEF TypeInv, AskingOK
<1>2. CASE OpenChannel
  <2>1. SessionTypes' /\ caller' = caller /\ request' = request /\ opens' = opens
    BY <1>0, <1>2, SameSession DEF OpenChannel, opening, asked
  <2>2. CASE opens < OpenTries /\ Send("OpenChannel", channel, "gotOpen")
    BY <1>0, <1>1, <2>1, <2>2, SendKeepsTypes DEF InQuestion
  <2>3. CASE pc' = caller /\ rv' = 1 /\ UNCHANGED <<cmd, then, buf, d4Errno, link>>
    <3>1. LinkTypes' /\ rv' \in -1 .. 19 /\ then' \in Returns
      BY <1>0, <2>3 DEF link, printer, LinkTypes
    <3> QED
      BY <1>0, <1>1, <2>1, <2>3, <3>1, StepKeepsTypes DEF InQuestion
  <2> QED
    BY <1>2, <2>2, <2>3 DEF OpenChannel
<1>3. CASE GotOpen
  <2>0. opens < OpenTries
    BY <1>0, <1>3 DEF GotOpen, TypeInv, OpensOK
  <2>1. /\ UNCHANGED <<socket_id, initing, channel, caller, asking, asked>>
        /\ UNCHANGED <<caller, request>>
    BY <1>3 DEF GotOpen, asked
  <2>2. ASSUME opens' \in {opens, opens + 1}
        PROVE  SessionTypes'
    BY <1>0, <2>0, <2>1, <2>2 DEF SessionTypes, initing, asking, asked
  <2>3. CASE Send("CloseChannel", channel, "open") /\ Attempted
    <3>1. SessionTypes'
      BY <2>2, <2>3 DEF Attempted
    <3> QED
      BY <1>0, <1>1, <2>1, <2>3, <3>1, SendKeepsTypes DEF InQuestion
  <2>4. CASE /\ rv' = IF rv = Size["OpenChannel"] THEN 1 ELSE -1
             /\ pc' = caller /\ UNCHANGED <<cmd, then, buf, d4Errno, opens, link>>
    <3>1. LinkTypes' /\ rv' \in -1 .. 19 /\ then' \in Returns
      BY <1>0, <2>4 DEF link, printer, LinkTypes
    <3>2. SessionTypes'
      BY <2>2, <2>4
    <3> QED
      BY <1>0, <1>1, <2>1, <2>4, <3>1, <3>2, StepKeepsTypes DEF InQuestion
  <2> QED
    BY <1>3, <2>3, <2>4 DEF GotOpen
<1> QED
  BY <1>2, <1>3

(* askForCredit, and the call that follows it: the question counts as      *)
(* asked until its answer is there or writeAndReadData fails.              *)
LEMMA AskForCreditTypes ==
  ASSUME TypeInv,
         \/ Query \/ AskForCredit \/ GotCredit \/ Closed \/ GotSocketAgain \/ InitedAgain
         \/ OpenedAgain \/ HaveCredit
  PROVE  TypeInv'
<1>0. /\ LinkTypes /\ SessionTypes /\ rv \in -1 .. 19 /\ rv \in Int /\ then \in Returns
      /\ 0 \in SocketBytes /\ socket_id \in SocketBytes /\ socketID \in SocketBytes
      /\ CreditTries \in Nat /\ MaxCredit \in Nat \ {0} /\ Len(Requests) \in Nat
      /\ {"CreditRequest", "CloseChannel", "GetSocketID", "Init", "Credit"} \subseteq Commands
  <2>1. CreditTries \in Nat /\ MaxCredit \in Nat \ {0} /\ Len(Requests) \in Nat
    BY LinkAssumption, SessionAssumption
  <2>2. LinkTypes /\ SessionTypes /\ rv \in -1 .. 19 /\ then \in Returns
    BY DEF TypeInv, IoTypes
  <2>3. 0 \in SocketBytes /\ socket_id \in SocketBytes /\ socketID \in SocketBytes
    BY <2>2 DEF SessionTypes, SocketBytes
  <2>4. {"CreditRequest", "CloseChannel", "GetSocketID", "Init", "Credit"} \subseteq Commands
    BY DEF Commands
  <2> QED
    BY <2>1, <2>2, <2>3, <2>4
<1>1. pc \in InQuestion => request <= Len(Requests)
  <2>1. pc \in InQuestion => At = pc
    BY DEF At, InQuestion
  <2> QED
    BY <2>1 DEF TypeInv, AskingOK
<1>2. ASSUME UNCHANGED <<socket_id, initing, opening, asked>>,
             socketID' \in SocketBytes, retries' \in -1 .. CreditTries, credit' \in -1 .. MaxCredit
      PROVE  SessionTypes'
  BY <1>0, <1>2 DEF SessionTypes, initing, opening, asked
<1>3. ASSUME pc \in InQuestion, SessionTypes', UNCHANGED <<opening, asked>>,
             NEW type \in Commands, NEW s \in SocketBytes,
             NEW go \in {"gotCredit", "closed", "gotSocketAgain", "initedAgain", "given"},
             Send(type, s, go)
      PROVE  TypeInv'
  <2>1. request' = request /\ go \in Returns /\ go # "gotOpen"
    BY <1>3 DEF asked, Returns
  <2> QED
    BY <1>0, <1>1, <1>3, <2>1, SendKeepsTypes
<1>4. ASSUME pc \in InQuestion, SessionTypes', UNCHANGED <<link, asked>>,
             IoGone \/ UNCHANGED io, pc' \in {"credit", "haveCredit"}
      PROVE  TypeInv'
  <2>1. rv' \in -1 .. 19 /\ then' \in Returns
    BY <1>0, <1>4 DEF io, IoGone, Returns
  <2>2. UNCHANGED link /\ request' = request
    BY <1>4 DEF asked
  <2>3. LinkTypes'
    BY <1>0, <2>2 DEF link, printer, LinkTypes
  <2> QED
    BY <1>1, <1>4, <2>1, <2>2, <2>3, StepKeepsTypes
<1>5. CASE Query
  <2>1. /\ then' = "start" /\ rv' = 0 /\ channel' = 0 /\ opens' = 0 /\ caller' = "opened"
        /\ probes' = 0 /\ tries' = 0
        /\ UNCHANGED <<socket_id, request, retry, got, wire, opened, granted, given>>
    BY <1>5 DEF Query, IoGone, InitingGone, OpeningGone, asked, link, printer
  <2>2. \/ /\ request <= Len(Requests) /\ pc' = "credit"
           /\ socketID' = socket_id /\ retries' = CreditTries /\ credit' = 0
        \/ pc' = "close" /\ UNCHANGED <<socketID, retries, credit>>
    BY <1>5 DEF Query, asking
  <2>3. SessionTypes'
    <3>1. 0 \in 0 .. OpenTries /\ 0 \in 0 .. InitTries /\ 0 \in 0 .. ProbeTries
      BY SessionAssumption
    <3>2. /\ socketID' \in SocketBytes /\ retries' \in -1 .. CreditTries
          /\ credit' \in -1 .. MaxCredit
      BY <1>0, <2>2 DEF SessionTypes
    <3> QED
      BY <1>0, <2>1, <3>1, <3>2 DEF SessionTypes
  <2>4. LinkTypes' /\ rv' \in -1 .. 19 /\ then' \in Returns
    BY <1>0, <2>1 DEF LinkTypes, Returns
  <2> QED
    BY <2>1, <2>2, <2>3, <2>4, StepKeepsTypes DEF InQuestion
<1>6. CASE AskForCredit
  <2>1. pc \in InQuestion /\ UNCHANGED <<socket_id, initing, opening, socketID, credit, asked>>
    BY <1>6 DEF AskForCredit, InQuestion
  <2>2. CASE MayAsk /\ Send("CreditRequest", socketID, "gotCredit") /\ retries' = retries - 1
    <3>1. retries' \in -1 .. CreditTries /\ credit' \in -1 .. MaxCredit
      BY <1>0, <2>1, <2>2 DEF MayAsk, SessionTypes
    <3>2. SessionTypes'
      BY <1>0, <1>2, <2>1, <3>1
    <3> QED
      BY <1>0, <1>3, <2>1, <2>2, <3>2
  <2>3. CASE pc' = "haveCredit" /\ UNCHANGED <<io, link, retries>>
    <3>1. retries' \in -1 .. CreditTries /\ credit' \in -1 .. MaxCredit
      BY <1>0, <2>1, <2>3 DEF SessionTypes
    <3>2. SessionTypes'
      BY <1>0, <1>2, <2>1, <3>1
    <3> QED
      BY <1>4, <2>1, <2>3, <3>2
  <2> QED
    BY <1>6, <2>2, <2>3 DEF AskForCredit
<1>7. CASE GotCredit
  <2>1. pc \in InQuestion /\ UNCHANGED <<socket_id, initing, opening, socketID, asked>>
    BY <1>7 DEF GotCredit, InQuestion
  <2>2. retries \in -1 .. CreditTries /\ credit \in -1 .. MaxCredit
    BY <1>0 DEF SessionTypes
  <2>3. CreditGot \in {-1, 0, 1}
    <3>1. rv > 0 => buf \in Packets
      BY <1>7 DEF GotCredit, TypeInv, IoTypes
    <3>2. rv = Size["CreditRequest"] => rv > 0
      BY DEF Size
    <3>3. buf \in Packets /\ buf.type = "CreditRequest" => buf.value \in {0, 1}
      BY DEF Packets
    <3>4. CASE rv = Size["CreditRequest"]
      BY <3>1, <3>2, <3>3, <3>4 DEF CreditGot
    <3>5. CASE rv # Size["CreditRequest"]
      BY <1>0, <3>5 DEF CreditGot
    <3> QED
      BY <3>4, <3>5
  <2>4. \/ /\ AsksAtOnce /\ Send("CreditRequest", socketID, "gotCredit")
           /\ retries' = retries - 1 /\ credit' = credit
        \/ /\ CreditGot >= 0 /\ credit' = CreditGot /\ pc' = "credit"
           /\ IoGone /\ UNCHANGED <<link, retries>>
        \/ credit' = -1 /\ pc' = "haveCredit" /\ IoGone /\ UNCHANGED <<link, retries>>
        \/ credit' = 0 /\ Send("CloseChannel", socketID, "closed") /\ retries' = retries
    BY <1>7 DEF GotCredit
  <2>5. retries' \in -1 .. CreditTries /\ credit' \in -1 .. MaxCredit
    BY <1>0, <2>2, <2>3, <2>4 DEF AsksAtOnce
  <2>6. SessionTypes'
    BY <1>0, <1>2, <2>1, <2>5
  <2>7. UNCHANGED <<opening, asked>>
    BY <2>1
  <2> QED
    BY <1>0, <1>3, <1>4, <2>1, <2>4, <2>6, <2>7
<1>8. CASE Closed
  <2>1. pc \in InQuestion /\ UNCHANGED <<opening, asked>> /\ Send("GetSocketID", 0, "gotSocketAgain")
    BY <1>8 DEF Closed, InQuestion
  <2>2. SessionTypes'
    BY <1>0, <1>8, SameSession DEF Closed
  <2> QED
    BY <1>0, <1>3, <2>1, <2>2
<1>9. CASE GotSocketAgain
  <2>1. /\ pc \in InQuestion /\ UNCHANGED <<opening, asked>> /\ Send("Init", 0, "initedAgain")
        /\ UNCHANGED <<socket_id, initing, retries, credit>>
    BY <1>9 DEF GotSocketAgain, InQuestion
  <2>2. socketID' \in SocketBytes
    <3>1. rv > 0 => buf \in Packets
      BY <1>9 DEF GotSocketAgain, TypeInv, IoTypes
    <3> QED
      BY <1>0, <1>9, <3>1, SocketGotTypes DEF GotSocketAgain
  <2>3. SessionTypes'
    BY <1>0, <1>2, <2>1, <2>2 DEF SessionTypes
  <2> QED
    BY <1>0, <1>3, <2>1, <2>3
<1>10. CASE InitedAgain
  <2>1. /\ pc \in InQuestion /\ UNCHANGED <<rv, then, socket_id, initing, asking, asked, link>>
        /\ \/ /\ pc' = "open" /\ channel' = socketID /\ opens' = 0
              /\ caller' = "openedAgain"
           \/ pc' = "openedAgain" /\ UNCHANGED <<channel, opens, caller>>
    BY <1>10 DEF InitedAgain, Call, opening, io, InQuestion
  <2>2. SessionTypes' /\ request' = request
    BY <1>0, <2>1, SessionAssumption DEF SessionTypes, initing, asking, asked
  <2>3. LinkTypes' /\ rv' \in -1 .. 19 /\ then' \in Returns
    BY <1>0, <2>1 DEF link, printer, LinkTypes
  <2>4. pc' \notin {"answer", "gotSocket", "gotSocketAgain", "gotCredit", "gotOpen"}
    BY <2>1
  <2> QED
    BY <1>1, <2>1, <2>2, <2>3, <2>4, StepKeepsTypes
<1>11. CASE OpenedAgain
  <2>1. /\ pc \in InQuestion /\ pc' = "credit" /\ IoGone /\ UNCHANGED <<link, asked>>
        /\ channel' = 0 /\ opens' = 0 /\ caller' = "opened"
        /\ UNCHANGED <<socket_id, initing, socketID, retries, credit>>
    BY <1>11 DEF OpenedAgain, OpeningGone, InQuestion
  <2>2. SessionTypes'
    BY <1>0, <2>1, SessionAssumption DEF SessionTypes, initing, asked
  <2> QED
    BY <1>4, <2>1, <2>2
<1>12. CASE HaveCredit
  <2>1. /\ pc \in InQuestion /\ UNCHANGED <<socket_id, initing, asked>>
        /\ socketID' = 0 /\ retries' = 0 /\ credit' = 0
        /\ channel' = 0 /\ opens' = 0 /\ caller' = "opened"
    BY <1>12 DEF HaveCredit, AskingGone, OpeningGone, InQuestion
  <2>2. SessionTypes' /\ request' = request
    BY <1>0, <2>1, SessionAssumption DEF SessionTypes, initing, asked
  <2>3. CASE Send("Credit", socket_id, "given")
    <3>1. "given" \in Returns
      BY DEF Returns
    <3> QED
      BY <1>0, <1>1, <2>1, <2>2, <2>3, <3>1, SendKeepsTypes
  <2>4. CASE pc' = "failed" /\ UNCHANGED <<io, link>>
    <3>1. LinkTypes' /\ rv' \in -1 .. 19 /\ then' \in Returns
      BY <1>0, <2>4 DEF link, printer, io, LinkTypes
    <3> QED
      BY <2>2, <2>4, <3>1, StepKeepsTypes DEF InQuestion
  <2> QED
    BY <1>12, <2>3, <2>4 DEF HaveCredit
<1> QED
  BY <1>5, <1>6, <1>7, <1>8, <1>9, <1>10, <1>11, <1>12

(* sendReceiveCmd's reading of the answer, or giving it up. *)
LEMMA AnswerTypes ==
  ASSUME TypeInv, ReadAnswer \/ Timeout
  PROVE  TypeInv'
<1>0. /\ LinkTypes /\ SessionTypes /\ IoTypes /\ pc = "answer" /\ cmd \in Commands
      /\ pc' = then /\ then' = then /\ then \in Returns /\ "answer" \notin Returns
  BY DEF TypeInv, IoTypes, ReadAnswer, Timeout, Returns
<1>1. SessionTypes' /\ UNCHANGED <<opens, caller, request>>
  BY <1>0, SameSession DEF ReadAnswer, Timeout, opening, asked
<1>2. At' = then /\ At = then
  BY <1>0 DEF At
<1>3. OpensOK' /\ AskingOK'
  BY <1>1, <1>2 DEF TypeInv, OpensOK, AskingOK
<1>4. CASE ReadAnswer
  <2>1. wire \in Seq(Packets) /\ wire # <<>>
    BY <1>0, <1>4 DEF ReadAnswer, LinkTypes
  <2>2. Head(wire) \in Packets /\ Tail(wire) \in Seq(Packets)
    BY <2>1
  <2>3. LinkTypes' /\ buf' \in Packets
    BY <1>0, <1>4, <2>2 DEF ReadAnswer, printer, LinkTypes
  <2>4. \A c \in Commands : Size[c] \in 8 .. 19
    BY DEF Commands, Size
  <2>5. rv' \in -1 .. 19
    <3>1. rv' = Outcome(Head(wire)) /\ Head(wire).type \in Commands \union {"Data", "Error"}
      BY <1>4, <2>2 DEF ReadAnswer, Packets
    <3> QED
      BY <1>0, <2>4, <3>1 DEF Outcome
  <2>6. IoTypes'
    BY <1>0, <2>3, <2>5 DEF IoTypes
  <2> QED
    BY <1>1, <1>3, <2>3, <2>6 DEF TypeInv
<1>5. CASE Timeout
  <2>1. LinkTypes' /\ rv' = -1
    BY <1>0, <1>5 DEF Timeout, GoesOn, printer, LinkTypes
  <2>2. IoTypes'
    BY <1>0, <2>1 DEF IoTypes
  <2> QED
    BY <1>1, <1>3, <2>1, <2>2 DEF TypeInv
<1> QED
  BY <1>4, <1>5

(* writeAndReadData, once credit is there: an answer counts one question.  *)
LEMMA WriteAndReadDataTypes ==
  ASSUME TypeInv, Given \/ WriteData \/ ReadData \/ ReadDataTimesOut
  PROVE  TypeInv'
<1>0. /\ LinkTypes /\ SessionTypes /\ rv \in -1 .. 19 /\ then \in Returns
      /\ socket_id \in SocketBytes /\ request \in Nat /\ Len(Requests) \in Nat /\ DataTries \in Nat
  BY SessionAssumption DEF TypeInv, IoTypes, SessionTypes
<1>1. pc \in InQuestion /\ request <= Len(Requests)
  BY DEF At, InQuestion, TypeInv, AskingOK, Given, WriteData, ReadData, ReadDataTimesOut
<1>2. CASE Given \/ ReadDataTimesOut
  <2>1. /\ UNCHANGED <<socket_id, initing, opening, asking, asked, wire, printer>>
        /\ pc' \in {"write", "failed"}
        /\ (rv' = rv /\ then' = then) \/ (rv' = 0 /\ then' = "start")
    <3>1. CASE Given
      BY <3>1 DEF Given, IoGone, link
    <3>2. CASE ReadDataTimesOut
      BY <3>2 DEF ReadDataTimesOut, GoesOn, host, io
    <3> QED
      BY <1>2, <3>1, <3>2
  <2>2. LinkTypes' /\ SessionTypes' /\ rv' \in -1 .. 19 /\ then' \in Returns /\ request' = request
    <3>1. LinkTypes'
      BY <1>0, <2>1 DEF printer, LinkTypes
    <3>2. SessionTypes' /\ request' = request
      BY <1>0, <2>1, SameSession DEF asked
    <3> QED
      BY <1>0, <2>1, <3>1, <3>2 DEF Returns
  <2> QED
    BY <1>1, <2>1, <2>2, StepKeepsTypes
<1>3. CASE WriteData
  <2>1. /\ UNCHANGED <<rv, then, socket_id, initing, opening, asking, request, got>>
        /\ \/ HandlesData(socket_id, request) /\ pc' = "read" /\ retry' = DataTries
           \/ UNCHANGED link /\ pc' \in {"failed", "hung"} /\ retry' = retry
    BY <1>3 DEF WriteData, io
  <2>2. LinkTypes'
    BY <1>0, <2>1, HandlesDataTypes DEF link, printer, LinkTypes
  <2>3. SessionTypes'
    BY <1>0, <2>1 DEF SessionTypes, initing, opening, asking
  <2> QED
    BY <1>0, <1>1, <2>1, <2>2, <2>3, StepKeepsTypes
<1>4. CASE ReadData
  <2>1. wire \in Seq(Packets) /\ wire # <<>> /\ got \in Seq(Packets \union {None})
    BY <1>0, <1>4 DEF ReadData, LinkTypes, SessionTypes
  <2>2. /\ Head(wire) \in Packets /\ Tail(wire) \in Seq(Packets)
        /\ Append(got, Head(wire)) \in Seq(Packets \union {None})
        /\ Len(Append(got, Head(wire))) = Len(got) + 1
    BY <2>1
  <2>3. LinkTypes' /\ rv' \in -1 .. 19 /\ then' \in Returns
    BY <1>0, <1>4, <2>2 DEF ReadData, printer, io, LinkTypes
  <2>4. UNCHANGED <<socket_id, initing, opening, asking>>
    BY <1>4 DEF ReadData
  <2>5. CASE got' = Append(got, Head(wire)) /\ request' = request + 1 /\ pc' = "query" /\ retry' = 0
    <3>1. SessionTypes'
      BY <1>0, <1>1, <2>2, <2>4, <2>5 DEF SessionTypes, initing, opening, asking
    <3> QED
      BY <2>3, <2>5, <3>1, StepKeepsTypes DEF InQuestion
  <2>6. CASE ~(retry < 0) /\ retry' = retry - 1 /\ UNCHANGED <<pc, got, request>>
    <3>1. SessionTypes'
      BY <1>0, <2>4, <2>6 DEF SessionTypes, initing, opening, asking
    <3>2. pc' = "read"
      BY <1>4, <2>6 DEF ReadData
    <3> QED
      BY <1>1, <2>3, <2>6, <3>1, <3>2, StepKeepsTypes
  <2> QED
    BY <1>4, <2>5, <2>6 DEF ReadData, Accepts
<1> QED
  BY <1>2, <1>3, <1>4

(* The end of a session, and the start of the next one. *)
LEMMA EndTypes ==
  ASSUME TypeInv, Failed \/ CloseChannel \/ Killed \/ Restart
  PROVE  TypeInv'
<1>0. /\ LinkTypes /\ SessionTypes /\ rv \in -1 .. 19 /\ then \in Returns
      /\ socket_id \in SocketBytes
  BY DEF TypeInv, IoTypes, SessionTypes
<1>1. CASE Failed
  <2>1. LinkTypes' /\ rv' \in -1 .. 19 /\ then' \in Returns
    BY <1>0, <1>1 DEF Failed, io, link, printer, LinkTypes
  <2>2. /\ UNCHANGED <<socket_id, initing, opening, asking, retry>>
        /\ \/ UNCHANGED <<request, got>>
           \/ request' = 2 /\ got' = <<None>>
    BY <1>1 DEF Failed
  <2>3. ASSUME UNCHANGED <<request, got>>
        PROVE  SessionTypes'
    BY <1>0, <2>2, <2>3 DEF SessionTypes, initing, opening, asking
  <2>4. ASSUME request' = 2 /\ got' = <<None>>
        PROVE  SessionTypes'
    <3>1. got' \in Seq(Packets \union {None}) /\ Len(got') = 1
      BY <2>4
    <3>2. request' \in 1 .. Len(Requests) + 1
      BY <2>4, SessionAssumption
    <3> QED
      BY <1>0, <2>2, <2>4, <3>1, <3>2 DEF SessionTypes, initing, opening, asking
  <2>5. pc' \in {"close", "done", "query"}
    BY <1>1 DEF Failed
  <2> QED
    BY <2>1, <2>2, <2>3, <2>4, <2>5, StepKeepsTypes DEF InQuestion
<1>2. CASE CloseChannel
  <2>1. SessionTypes' /\ "CloseChannel" \in Commands /\ "done" \in Returns
    BY <1>0, <1>2, SameSession DEF CloseChannel, Commands, Returns
  <2>2. Send("CloseChannel", socket_id, "done")
    BY <1>2 DEF CloseChannel
  <2> QED
    BY <1>0, <2>1, <2>2, SendKeepsTypes DEF InQuestion
<1>3. CASE Killed \/ Restart
  <2>1. /\ then' = "start" /\ rv' = 0 /\ channel' = 0 /\ opens' = 0 /\ caller' = "opened"
        /\ socketID' = 0 /\ retries' = 0 /\ credit' = 0 /\ socket_id' = Unset /\ probes' = 0
        /\ tries' = 0 /\ request' = 1 /\ retry' = 0 /\ got' = <<>>
        /\ UNCHANGED <<wire, opened, granted, given>> /\ pc' \in {"done", "start"}
    BY <1>3
    DEF Killed, Restart, ProgramGone, IoGone, InitingGone, OpeningGone, AskingGone, link, printer
  <2>2. got' \in Seq(Packets \union {None}) /\ Len(got') = 0
    BY <2>1
  <2>3. SessionTypes'
    BY <2>1, <2>2, LinkAssumption, SessionAssumption DEF SessionTypes, SocketBytes
  <2>4. LinkTypes' /\ then' \in Returns
    BY <1>0, <2>1 DEF LinkTypes, Returns
  <2> QED
    BY <2>1, <2>3, <2>4, StepKeepsTypes DEF InQuestion
<1> QED
  BY <1>1, <1>2, <1>3

(* Every step keeps the types. *)
LEMMA NextTypes ==
  ASSUME TypeInv, [Next]_vars
  PROVE  TypeInv'
<1>1. CASE Host
  BY <1>1, InitPacketTypes, OpenChannelTypes, AskForCreditTypes, AnswerTypes,
     WriteAndReadDataTypes, EndTypes
  DEF Host
<1>2. CASE Killed \/ Restart
  BY <1>2, EndTypes
<1>3. CASE Finished \/ UNCHANGED vars
  <2>1. UNCHANGED vars
    BY <1>3 DEF Finished
  <2>2. LinkTypes' /\ SessionTypes' /\ UNCHANGED <<pc, cmd, then, rv, buf, opens, caller, request>>
    BY <2>1, SameSession DEF vars, host, io, opening, asked, link, printer, LinkTypes, TypeInv
  <2> QED
    BY <2>2 DEF TypeInv, IoTypes, At, OpensOK, AskingOK
<1> QED
  BY <1>1, <1>2, <1>3 DEF Next

(* Every variable keeps its type, and every counter of attempts its range,*)
(* be the answers late or not: what is read of a packet is read where      *)
(* there is one, an attempt is counted only where one is left (OpensOK)    *)
(* and a question answered only where one was asked (AskingOK).            *)
THEOREM TypesHold == Spec => []TypeOK
<1>1. Init => TypeInv
  BY InitTypes
<1>2. TypeInv /\ [Next]_vars => TypeInv'
  BY NextTypes
<1>3. TypeInv => TypeOK
  BY DEF TypeInv, LinkTypes, SessionTypes, IoTypes, SocketBytes, TypeOK, Size
<1> QED
  BY <1>1, <1>2, <1>3, PTL DEF Spec

-----------------------------------------------------------------------------
(* What was sent past a write that failed is not forgotten. *)
LEMMA SendOvertakes ==
  ASSUME overtaken, NEW type, NEW socket, NEW go, Send(type, socket, go)
  PROVE  overtaken'
BY DEF Send, link

(* Only a flush forgets what was overtaken, and it leaves nothing behind.  *)
LEMMA FlushKeeps ==
  ASSUME overtaken, ~overtaken', Control, Control', [Next]_vars
  PROVE  D4Inv'
<1> DEFINE Quiet == {"start", "force", "done", "enter", "query"}
<1>1. ~UNCHANGED overtaken
  OBVIOUS
<1>2. \A type, socket, go : ~Send(type, socket, go)
  BY SendOvertakes
<1>3. ThrowsAway => wire' = <<>>
  BY DEF ThrowsAway
<1>4. CASE Start
  <2>1. wire' = <<>> /\ pc' \in {"start", "done", "enter", "force"}
    BY <1>3, <1>4 DEF Start, Flushed
  <2> QED
    BY <2>1, QuietStepKeeps
<1>5. CASE ForceD4
  BY <1>3, <1>5, QuietStepKeeps DEF ForceD4
<1>6. CASE Entered \/ Inited
  <2>1. RetryInit /\ ~UNCHANGED link
    BY <1>1, <1>6 DEF Entered, Inited, link
  <2>2. wire' = <<>> /\ pc' = "enter"
    BY <1>3, <2>1 DEF RetryInit, Flushed, link
  <2> QED
    BY <2>2, QuietStepKeeps
<1>7. CASE Flush
  <2>1. wire' = <<>>
    BY <1>1, <1>3, <1>7 DEF Flush, Flushed, link
  <2>2. pc' \in {"start", "force", "done", "query"}
    BY <1>7 DEF Flush, InitPacketEnds
  <2> QED
    BY <2>1, <2>2, QuietStepKeeps
<1>8. ~(Timeout \/ ReadDataTimesOut)
  BY DEF Timeout, ReadDataTimesOut, GoesOn
<1>9. ~(GotSocket \/ Query \/ InitedAgain \/ OpenedAgain \/ Given \/ Failed)
  BY <1>1 DEF GotSocket, Query, InitedAgain, OpenedAgain, Given, Failed, link
<1>10. ~(ReadAnswer \/ ReadData \/ WriteData)
  BY <1>1 DEF ReadAnswer, ReadData, WriteData, link
<1>11. ~(EnterIEEE \/ InitCommand \/ GetSocketID \/ Closed \/ GotSocketAgain \/ CloseChannel)
  BY <1>2 DEF EnterIEEE, InitCommand, GetSocketID, Closed, GotSocketAgain, CloseChannel
<1>12. ~(OpenChannel \/ GotOpen \/ ChannelOpened)
  BY <1>1, <1>2 DEF OpenChannel, GotOpen, ChannelOpened, link
<1>13. ~(AskForCredit \/ GotCredit \/ HaveCredit)
  BY <1>1, <1>2 DEF AskForCredit, GotCredit, HaveCredit, link
<1>14. ~(Killed \/ Restart \/ Finished \/ UNCHANGED vars)
  BY <1>1 DEF Killed, Restart, Finished, vars, link
<1> QED
  BY <1>4, <1>5, <1>6, <1>7, <1>8, <1>9, <1>10, <1>11, <1>12, <1>13, <1>14 DEF Next, Host

(* Where the program is and what it keeps, whatever was overtaken; and how *)
(* it stands with the printer where nothing was.                           *)
Together == TypeInv /\ (~overtaken => D4Inv)

LEMMA NextTogether ==
  ASSUME Together, [Next]_vars
  PROVE  Together'
<1>1. TypeInv /\ TypeInv'
  BY NextTypes DEF Together
<1>2. Control /\ Control'
  BY <1>1 DEF TypeInv, IoTypes, SessionTypes, Control
<1>3. ASSUME ~overtaken'
      PROVE  D4Inv'
  <2>1. CASE ~overtaken
    BY <1>3, <2>1, NextD4Inv DEF Together
  <2>2. CASE overtaken
    BY <1>2, <1>3, <2>2, FlushKeeps
  <2> QED
    BY <2>1, <2>2
<1> QED
  BY <1>1, <1>3 DEF Together

(* Host and printer agree again after every flush that throws away all     *)
(* there is, however many answers were late before: one packet at most is  *)
(* on its way then, and only where it is read or thrown away (WireInv), it *)
(* is the answer to the command sent last (AnswerInv), and a good answer   *)
(* to Credit means an open channel (GivenInv).                             *)
THEOREM InTime == Spec => []Together
<1>1. Init => Together
  BY InitTypes, InitD4Inv DEF Together
<1>2. Together /\ [Next]_vars => Together'
  BY NextTogether
<1> QED
  BY <1>1, <1>2, PTL DEF Spec

(* Data is never written to a channel that the printer has closed, unless  *)
(* an answer was overtaken, although init_packet's result is ignored and   *)
(* OpenChannel's misleads: the answer to Credit is what tells.             *)
THEOREM DataIsOnOpenChannel == Spec => []DataOnOpenChannel
<1>1. Together => DataOnOpenChannel
  BY DEF Together, D4Inv, WriteInv, DataOnOpenChannel
<1> QED
  BY <1>1, InTime, PTL

(* Nothing but the reading of an answer puts a packet into the buffer.     *)
LEMMA BufferSteps ==
  ASSUME [Next]_vars, buf' # buf, buf' # None
  PROVE  ReadAnswer
<1>1. \A type, socket, go : ~Send(type, socket, go)
  BY DEF Send
<1>2. ~IoGone /\ ~UNCHANGED io /\ ~UNCHANGED buf
  BY DEF IoGone, io
<1>3. ~(Start \/ ForceD4 \/ Entered \/ Inited \/ GotSocket \/ Flush \/ InitedAgain \/ WriteData
        \/ ReadData \/ Failed \/ Timeout)
  BY <1>2
  DEF Start, ForceD4, Entered, Inited, GotSocket, Flush, InitedAgain, WriteData, ReadData, Failed,
      Timeout
<1>4. ~(Query \/ OpenedAgain \/ Given)
  BY <1>2 DEF Query, OpenedAgain, Given
<1>5. ~(EnterIEEE \/ InitCommand \/ GetSocketID \/ Closed \/ GotSocketAgain \/ CloseChannel)
  BY <1>1 DEF EnterIEEE, InitCommand, GetSocketID, Closed, GotSocketAgain, CloseChannel
<1>6. ~(OpenChannel \/ GotOpen \/ ChannelOpened)
  BY <1>1, <1>2 DEF OpenChannel, GotOpen, ChannelOpened
<1>7. ~(AskForCredit \/ GotCredit \/ HaveCredit)
  BY <1>1, <1>2 DEF AskForCredit, GotCredit, HaveCredit
<1>8. ~ReadDataTimesOut /\ ~UNCHANGED host
  BY <1>2 DEF ReadDataTimesOut, host
<1>9. ~(Killed \/ Restart)
  BY <1>2 DEF Killed, Restart, ProgramGone
<1>10. ~(Finished \/ UNCHANGED vars)
  BY <1>8 DEF Finished, vars
<1> QED
  BY <1>3, <1>4, <1>5, <1>6, <1>7, <1>8, <1>9, <1>10 DEF Next, Host

(* sendReceiveCmd compares nothing, and yet reads the answer to its own    *)
(* command wherever the host went on without none that may still come.     *)
THEOREM AnswersAreOwn == Spec => OwnAnswer
<1>1. Together /\ [Next]_vars => (buf' # buf /\ ~overtaken => buf' = None \/ buf'.current)
  <2> SUFFICES ASSUME Together, [Next]_vars, buf' # buf, ~overtaken, buf' # None
               PROVE  buf'.current
    OBVIOUS
  <2>1. ReadAnswer
    BY BufferSteps
  <2>2. wire = <<wire[1]>> /\ wire # <<>> /\ wire[1].current
    BY <2>1 DEF ReadAnswer, Together, D4Inv, WireInv, AtMostOne, AnswerInv
  <2>3. ASSUME NEW p, wire = <<p>>
        PROVE  Head(wire) = p /\ wire[1] = p
    BY <2>3
  <2> QED
    BY <2>1, <2>2, <2>3 DEF ReadAnswer
<1> QED
  BY <1>1, InTime, PTL DEF Spec, OwnAnswer

-----------------------------------------------------------------------------
(* As many packets as may come late are on their way, and the answer to    *)
(* what was sent last; a packet of data read in vain is one of them.       *)
WireBound ==
  Len(wire) <= IF pc = "read" THEN Late + 1 - (DataTries - retry)
               ELSE IF pc \in {"answer", "start", "done"} THEN Late + 1
               ELSE Late

(* The printer sends one packet at a time. *)
LEMMA SendsOne ==
  ASSUME wire \in Seq(Packets), NEW type, NEW result, NEW socket, NEW value,
         Sends(type, result, socket, value)
  PROVE  Len(wire') <= Len(wire) + 1
<1>1. Stale \in Seq(Packets)
  BY StaleTypes
<1>2. Len(Stale) = Len(wire) /\ Len(wire) \in Nat
  BY DEF Stale
<1>3. Len(Append(Stale, Packet(type, result, socket, value))) = Len(wire) + 1
  BY <1>1, <1>2
<1> QED
  BY <1>2, <1>3 DEF Sends

LEMMA HandlesOne ==
  ASSUME wire \in Seq(Packets), NEW type, NEW s, Handles(type, s)
  PROVE  Len(wire') <= Len(wire) + 1
<1>1. ASSUME NEW t, NEW result, NEW socket, NEW value, Sends(t, result, socket, value)
      PROVE  Len(wire') <= Len(wire) + 1
  BY <1>1, SendsOne
<1> QED
  BY <1>1 DEF Handles, Enters, Inits, GetsSocketID, Opens, Closes, Grants, TakesCredit

LEMMA HandlesDataOne ==
  ASSUME wire \in Seq(Packets), NEW s, NEW question, HandlesData(s, question)
  PROVE  Len(wire') <= Len(wire) + 1
<1>1. ASSUME NEW t, NEW result, NEW socket, NEW value, Sends(t, result, socket, value)
      PROVE  Len(wire') <= Len(wire) + 1
  BY <1>1, SendsOne
<1>2. wire' = Stale => Len(wire') <= Len(wire) + 1
  <2>1. Stale = [k \in 1 .. Len(wire) |-> [wire[k] EXCEPT !.current = FALSE]]
    BY DEF Stale
  <2>2. Len(Stale) = Len(wire)
    BY <2>1
  <2> QED
    BY <2>2
<1> QED
  BY <1>1, <1>2 DEF HandlesData

(* A command is sent where only what may come late is on its way.          *)
LEMMA SendBound ==
  ASSUME TypeInv, Len(wire) <= Late, NEW type, NEW socket, NEW go \in Returns,
         Send(type, socket, go)
  PROVE  WireBound'
<1>0. wire \in Seq(Packets) /\ Len(wire) \in Nat /\ Late \in Nat
  BY LinkAssumption DEF TypeInv, LinkTypes
<1>1. go # "read" /\ go # "answer"
  BY DEF Returns
<1>2. CASE Handles(type, socket) /\ pc' = "answer"
  <2>1. Len(wire') <= Late + 1
    BY <1>0, <1>2, HandlesOne
  <2> QED
    BY <1>2, <2>1 DEF WireBound
<1>3. CASE UNCHANGED link /\ pc' \in {go, "hung"}
  BY <1>0, <1>1, <1>3 DEF WireBound, link
<1>4. CASE Len(wire) < Late /\ Handles(type, socket) /\ pc' = go
  <2>1. Len(wire') <= Late
    BY <1>0, <1>4, HandlesOne
  <2> QED
    BY <1>0, <1>1, <1>4, <2>1 DEF WireBound
<1> QED
  BY <1>2, <1>3, <1>4 DEF Send

(* A flush leaves only what may come late. *)
LEMMA FlushBound ==
  ASSUME TypeInv, ThrowsAway
  PROVE  Len(wire') <= Late
<1>1. wire \in Seq(Packets) /\ Len(wire) \in Nat /\ Late \in Nat
  BY LinkAssumption DEF TypeInv, LinkTypes
<1>2. PICK k \in 0 .. Len(wire) : Len(wire) - k <= Late /\ wire' = SubSeq(wire, k + 1, Len(wire))
  BY <1>1 DEF ThrowsAway, Unflushed
<1>3. Len(wire') = Len(wire) - k
  BY <1>1, <1>2
<1> QED
  BY <1>1, <1>2, <1>3

(* So does a step that reads nothing next, if it adds nothing either.      *)
LEMMA StepBound ==
  ASSUME WireBound, Late \in Nat, Len(wire) \in Nat, pc \notin {"answer", "read", "start", "done"},
         wire' = wire, pc' # "read"
  PROVE  WireBound'
BY DEF WireBound

LEMMA NextBound ==
  ASSUME TypeInv, WireBound, [Next]_vars
  PROVE  WireBound'
<1>0. /\ wire \in Seq(Packets) /\ Len(wire) \in Nat /\ Late \in Nat /\ DataTries \in Nat
      /\ retry \in -1 .. DataTries
  BY LinkAssumption, SessionAssumption DEF TypeInv, LinkTypes, SessionTypes
<1> DEFINE Between == pc \notin {"answer", "read", "start", "done"}
<1>1. Between => Len(wire) <= Late
  BY DEF WireBound
<1>2. Len(wire) <= Late + 1
  BY <1>0 DEF WireBound
<1>3. ASSUME Between, NEW type, NEW socket, NEW go \in Returns, Send(type, socket, go)
      PROVE  WireBound'
  BY <1>1, <1>3, SendBound
<1>4. ASSUME Between, UNCHANGED link, pc' # "read"
      PROVE  WireBound'
  BY <1>0, <1>4, StepBound DEF link
<1>5. ASSUME ThrowsAway, pc' # "read"
      PROVE  WireBound'
  <2>1. Len(wire') <= Late
    BY <1>5, FlushBound
  <2> QED
    BY <1>0, <1>5, <2>1 DEF WireBound
<1>6. /\ {"entered", "inited", "gotSocket", "gotOpen", "open", "flush", "gotCredit", "closed",
         "gotSocketAgain", "initedAgain", "given", "done"} \subseteq Returns
      /\ "read" \notin Returns
  BY DEF Returns
<1>7. CASE Start \/ ForceD4
  <2>1. ThrowsAway /\ pc' # "read"
    BY <1>7 DEF Start, ForceD4, Flushed
  <2> QED
    BY <1>5, <2>1
<1>8. CASE Entered \/ Inited
  <2>1. Between /\ pc' # "read"
    BY <1>8 DEF Entered, Inited, RetryInit, InitPacketEnds
  <2>2. ThrowsAway \/ UNCHANGED link
    BY <1>8 DEF Entered, Inited, RetryInit, Flushed
  <2> QED
    BY <1>4, <1>5, <2>1, <2>2
<1>9. CASE Flush
  <2>1. Between /\ pc' # "read"
    BY <1>9 DEF Flush, InitPacketEnds
  <2>2. ThrowsAway \/ UNCHANGED link
    BY <1>9 DEF Flush, Flushed
  <2> QED
    BY <1>4, <1>5, <2>1, <2>2
<1>10. CASE EnterIEEE \/ InitCommand \/ GetSocketID \/ Closed \/ GotSocketAgain
  <2>1. Between
    BY <1>10 DEF EnterIEEE, InitCommand, GetSocketID, Closed, GotSocketAgain
  <2> QED
    BY <1>3, <1>6, <1>10, <2>1 DEF EnterIEEE, InitCommand, GetSocketID, Closed, GotSocketAgain
<1>11. CASE CloseChannel
  BY <1>3, <1>6, <1>11 DEF CloseChannel
<1>12. CASE GotSocket \/ InitedAgain
  <2>1. Between /\ pc' # "read" /\ UNCHANGED link
    BY <1>12 DEF GotSocket, InitedAgain, InitPacketEnds, Call
  <2> QED
    BY <1>4, <2>1
<1>13. CASE OpenChannel \/ GotOpen
  <2>1. Between /\ caller # "read"
    BY <1>13 DEF OpenChannel, GotOpen, TypeInv, SessionTypes
  <2>2. \/ \E type \in {"OpenChannel", "CloseChannel"}, go \in {"gotOpen", "open"} :
            Send(type, channel, go)
        \/ UNCHANGED link /\ pc' = caller
    BY <1>13 DEF OpenChannel, GotOpen
  <2> QED
    BY <1>3, <1>4, <1>6, <2>1, <2>2
<1>14. CASE ChannelOpened
  <2>1. Between
    BY <1>14 DEF ChannelOpened
  <2>2. Send("Credit", socket_id, "flush") \/ (UNCHANGED link /\ pc' # "read")
    BY <1>14 DEF ChannelOpened, InitPacketEnds
  <2> QED
    BY <1>3, <1>4, <1>6, <2>1, <2>2
<1>15. CASE Query \/ OpenedAgain \/ Given \/ Failed
  <2>1. Between /\ pc' # "read" /\ UNCHANGED link
    BY <1>15 DEF Query, OpenedAgain, Given, Failed
  <2> QED
    BY <1>4, <2>1
<1>16. CASE AskForCredit \/ GotCredit \/ HaveCredit
  <2>1. Between
    BY <1>16 DEF AskForCredit, GotCredit, HaveCredit
  <2>2. \/ Send("CreditRequest", socketID, "gotCredit")
        \/ Send("CloseChannel", socketID, "closed")
        \/ Send("Credit", socket_id, "given")
        \/ UNCHANGED link /\ pc' # "read"
    BY <1>16 DEF AskForCredit, GotCredit, HaveCredit
  <2> QED
    BY <1>3, <1>4, <1>6, <2>1, <2>2
<1>17. CASE ReadAnswer
  <2>1. Len(wire') = Len(wire) - 1 /\ pc' \in Returns
    BY <1>0, <1>17 DEF ReadAnswer, TypeInv, IoTypes
  <2> QED
    BY <1>0, <1>2, <1>6, <2>1 DEF WireBound
<1>18. CASE Timeout \/ ReadDataTimesOut
  <2>1. wire' = wire /\ Len(wire) <= Late /\ pc' # "read"
    BY <1>6, <1>18 DEF Timeout, ReadDataTimesOut, GoesOn, TimesOut, TypeInv, IoTypes
  <2> QED
    BY <1>0, <2>1 DEF WireBound
<1>19. CASE WriteData
  <2>1. pc = "write" /\ Len(wire) <= Late
    BY <1>1, <1>19 DEF WriteData
  <2>2. CASE HandlesData(socket_id, request) /\ pc' = "read" /\ retry' = DataTries
    <3>1. Len(wire') <= Late + 1
      BY <1>0, <2>1, <2>2, HandlesDataOne
    <3> QED
      BY <1>0, <2>2, <3>1 DEF WireBound
  <2>3. CASE UNCHANGED link /\ pc' \in {"failed", "hung"}
    BY <1>4, <2>1, <2>3
  <2> QED
    BY <1>19, <2>2, <2>3 DEF WriteData
<1>20. CASE ReadData
  <2>1. Len(wire') = Len(wire) - 1 /\ Len(wire) <= Late + 1 - (DataTries - retry)
    BY <1>0, <1>20 DEF ReadData, WireBound
  <2>2. CASE pc' = "query"
    BY <1>0, <2>1, <2>2 DEF WireBound
  <2>3. CASE pc' = "read" /\ retry' = retry - 1
    BY <1>0, <2>1, <2>3 DEF WireBound
  <2> QED
    BY <1>20, <2>2, <2>3 DEF ReadData
<1>21. CASE Killed \/ Restart
  <2>1. wire' = wire /\ pc' \in {"start", "done"}
    BY <1>21 DEF Killed, Restart, link
  <2> QED
    BY <1>0, <1>2, <2>1 DEF WireBound
<1>22. CASE Finished \/ UNCHANGED vars
  <2>1. UNCHANGED host /\ UNCHANGED link /\ pc' = pc
    BY <1>22 DEF Finished, vars
  <2>2. wire' = wire /\ retry' = retry
    BY <2>1 DEF host, asked, link
  <2> QED
    BY <2>1, <2>2 DEF WireBound
<1> QED
  BY <1>7, <1>8, <1>9, <1>10, <1>11, <1>12, <1>13, <1>14, <1>15, <1>16, <1>17, <1>18, <1>19, <1>20,
     <1>21, <1>22
  DEF Next, Host

(* Nothing but writeAndReadData accepts an answer. *)
LEMMA GotSteps ==
  ASSUME [Next]_vars
  PROVE  ReadData \/ got' = <<>> \/ got' = <<None>> \/ UNCHANGED got
<1>1. CASE Start \/ Failed
  BY <1>1 DEF Start, Failed, asked
<1>2. CASE Killed \/ Restart
  BY <1>2 DEF Killed, Restart, ProgramGone
<1>3. CASE WriteData
  BY <1>3 DEF WriteData
<1>4. CASE ReadDataTimesOut
  BY <1>4 DEF ReadDataTimesOut, host, asked
<1>5. CASE \/ ForceD4 \/ EnterIEEE \/ Entered \/ InitCommand \/ Inited \/ GetSocketID \/ GotSocket
           \/ OpenChannel \/ GotOpen \/ ChannelOpened \/ Flush
  BY <1>5
  DEF ForceD4, EnterIEEE, Entered, InitCommand, Inited, GetSocketID, GotSocket, OpenChannel, GotOpen,
      ChannelOpened, Flush, asked
<1>6. CASE \/ Query \/ AskForCredit \/ GotCredit \/ Closed \/ GotSocketAgain \/ InitedAgain
           \/ OpenedAgain \/ HaveCredit \/ Given \/ CloseChannel \/ ReadAnswer \/ Timeout
  BY <1>6
  DEF Query, AskForCredit, GotCredit, Closed, GotSocketAgain, InitedAgain, OpenedAgain, HaveCredit,
      Given, CloseChannel, ReadAnswer, Timeout, asked
<1>7. CASE Finished \/ UNCHANGED vars
  <2>1. UNCHANGED host
    BY <1>7 DEF Finished, vars
  <2> QED
    BY <2>1 DEF host, asked
<1> QED
  BY <1>1, <1>2, <1>3, <1>4, <1>5, <1>6, <1>7 DEF Next, Host

(* The packet accepted last is one that was tested, as long as no more are *)
(* late than may be read in vain: the untested one would have to be one    *)
(* more than were on their way (WireBound).                                *)
THEOREM AnswersAreTested == Spec => []AnswersTested
<1> DEFINE Inv == TypeInv /\ WireBound /\ AnswersTested
<1>1. Init => Inv
  <2> SUFFICES ASSUME Init PROVE WireBound /\ AnswersTested
    BY InitTypes
  <2>1. Len(wire) = 0 /\ Late \in Nat /\ pc = "start"
    BY LinkAssumption DEF Init, LinkInit
  <2>2. DOMAIN got = {}
    BY DEF Init
  <2> QED
    BY <2>1, <2>2 DEF WireBound, AnswersTested
<1>2. ASSUME Inv, [Next]_vars
      PROVE  Inv'
  <2>1. TypeInv' /\ WireBound'
    BY <1>2, NextTypes, NextBound
  <2>2. AnswersTested'
    <3> SUFFICES ASSUME Late <= DataTries
                 PROVE  \A k \in DOMAIN got' :
                          got'[k] # None =>
                            got'[k].type = "Data" /\ Requests[got'[k].value] = Requests[k]
      BY DEF AnswersTested
    <3>1. CASE ReadData
      <4>0. /\ wire \in Seq(Packets) /\ wire # <<>> /\ Len(wire) > 0
            /\ Len(wire) <= Late + 1 - (DataTries - retry)
            /\ retry \in -1 .. DataTries /\ DataTries \in Nat /\ Late \in Nat
            /\ got \in Seq(Packets \union {None}) /\ Len(got) = request - 1 /\ request \in Int
        <5>1. wire \in Seq(Packets) /\ wire # <<>>
          BY <1>2, <3>1 DEF TypeInv, LinkTypes, ReadData
        <5>2. Len(wire) > 0
          BY <5>1
        <5>3. Len(wire) <= Late + 1 - (DataTries - retry)
          BY <1>2, <3>1 DEF ReadData, WireBound
        <5> QED
          BY <1>2, <5>1, <5>2, <5>3, LinkAssumption, SessionAssumption DEF TypeInv, SessionTypes
      <4>1. ~(retry < 0)
        BY <4>0
      <4>2. CASE /\ Head(wire).type = "Data" /\ Requests[Head(wire).value] = Requests[request]
                 /\ got' = Append(got, Head(wire))
        <5>1. Head(wire) \in Packets \union {None}
          BY <4>0
        <5>2. /\ DOMAIN got = 1 .. request - 1 /\ DOMAIN got' = 1 .. request
              /\ got'[request] = Head(wire)
              /\ \A k \in 1 .. request - 1 : got'[k] = got[k]
          BY <4>0, <4>2, <5>1
        <5> QED
          BY <1>2, <4>0, <4>2, <5>2 DEF AnswersTested
      <4>3. CASE UNCHANGED got
        BY <1>2, <4>3 DEF AnswersTested
      <4> QED
        BY <3>1, <4>1, <4>2, <4>3 DEF ReadData, Accepts, Test
    <3>2. CASE got' = <<>> \/ got' = <<None>>
      <4>1. \A k \in DOMAIN got' : got'[k] = None
        BY <3>2
      <4> QED
        BY <4>1
    <3>3. CASE UNCHANGED got
      BY <1>2, <3>3 DEF AnswersTested
    <3> QED
      BY <1>2, <3>1, <3>2, <3>3, GotSteps
  <2> QED
    BY <2>1, <2>2
<1>3. Inv => AnswersTested
  OBVIOUS
<1> QED
  BY <1>1, <1>2, <1>3, PTL DEF Spec

=============================================================================
