-------------------------------- MODULE D4Link --------------------------------
(***************************************************************************)
(* The printer at the other end of escputil's IEEE 1284.4 link, as far as  *)
(* src/src/escputil/d4lib.c relies on it, and the packets on their way to  *)
(* the host.  A command is answered once, or its answer is lost, or it     *)
(* takes longer than the host waits for it: up to Late packets are then    *)
(* still on their way when the next command is sent.                       *)
(***************************************************************************)
EXTENDS Integers, Sequences

CONSTANTS
  Sockets,    (* socket IDs the printer may give to the service EPSON-CTRL  *)
  MaxCredit,  (* bound: packets of credit outstanding in either direction   *)
  Late        (* bound: packets that are still on their way past a timeout  *)

ASSUME LinkAssumption ==
  /\ Sockets \subseteq 1 .. 254
  /\ MaxCredit \in Nat \ {0}
  /\ Late \in Nat

VARIABLES
  wire,       (* packets of the printer that the host has not read          *)
  overtaken,  (* history: the host went on without one of them, and has not *)
              (* thrown all of them away since                              *)
  opened,     (* sockets with an open channel                               *)
  granted,    (* per socket: packets the host may send                      *)
  given       (* per socket: packets the printer may send                   *)

printer == <<opened, granted, given>>
link    == <<wire, overtaken, printer>>

(* Results of a command, and codes of an error packet, with the texts of   *)
(* errorMessage[].                                                         *)
NoResources   == 4   (* "No sufficient resources available now."            *)
AlreadyOpen   == 6   (* "Channel already open."                             *)
Overflow      == 7   (* "Credit overflow, previous credit remain valid."    *)
NotOpen       == 8   (* "Channel is not open."                              *)
NoService     == 9   (* "Service not available on specified socket."        *)
NoSocketID    == 10  (* "Service name to socket ID failed."                 *)
InitFailed    == 11  (* "Init transaction failed."                          *)
NoCredit      == 129 (* "No credit for received packet, ignored"            *)
NotOpenedData == 132 (* "Data received for a non opened channel."           *)
(* Those that d4lib.c takes for an error. *)
Fatal == {NotOpen, NoService, NoSocketID, InitFailed, NotOpenedData}

(* The protocol revision, byte 8 of the reply to Init. *)
Revision == 16

LinkInit ==
  /\ wire = <<>> /\ overtaken = FALSE
  /\ opened = {}
  /\ granted = [s \in Sockets |-> 0] /\ given = granted

-----------------------------------------------------------------------------
(* `socket' is byte 8 of a reply, `value' the credit or the request it is  *)
(* about, and `current' history: nothing was sent to the printer since.    *)
Packet(type, result, socket, value) ==
  [type |-> type, result |-> result, socket |-> socket, value |-> value,
   current |-> TRUE]

Stale == [k \in DOMAIN wire |-> [wire[k] EXCEPT !.current = FALSE]]

(* The printer sends a packet, which may get lost. *)
Sends(type, result, socket, value) ==
  wire' \in {Append(Stale, Packet(type, result, socket, value)), Stale}

Same == UNCHANGED printer

(* EnterIEEE; the answer may be all zeros (value 0). *)
Enters == \E value \in {0, 1} : Sends("EnterIEEE", 0, 0, value) /\ Same

(* Init starts the conversation; channels may stay open from before.       *)
Inits ==
  \/ /\ Sends("Init", 0, Revision, 0)
     /\ opened' \in {{}, opened}
     /\ granted' = [s \in Sockets |-> 0] /\ given' = granted'
  \/ Sends("Init", InitFailed, Revision, 0) /\ Same

GetsSocketID ==
  /\ \/ \E s \in Sockets : Sends("GetSocketID", 0, s, 0)
     \/ Sends("GetSocketID", NoSocketID, 0, 0)
  /\ Same

Opens(s) ==
  IF s \notin Sockets THEN Sends("OpenChannel", NoService, s, 0) /\ Same
  ELSE IF s \in opened THEN Sends("OpenChannel", AlreadyOpen, s, 0) /\ Same
  ELSE \/ /\ Sends("OpenChannel", 0, s, 0)
          /\ opened' = opened \union {s}
          /\ granted' = [granted EXCEPT ![s] = 0]
          /\ given' = [given EXCEPT ![s] = 0]
       \/ Sends("OpenChannel", NoResources, s, 0) /\ Same

Closes(s) ==
  IF s \notin opened THEN Sends("CloseChannel", NotOpen, s, 0) /\ Same
  ELSE /\ Sends("CloseChannel", 0, s, 0)
       /\ opened' = opened \ {s}
       /\ granted' = [granted EXCEPT ![s] = 0]
       /\ given' = [given EXCEPT ![s] = 0]

(* CreditRequest: the printer grants a packet, or none now. *)
Grants(s) ==
  IF s \notin opened THEN Sends("CreditRequest", NotOpen, s, 0) /\ Same
  ELSE \E c \in {0, 1} :
         /\ granted[s] + c <= MaxCredit
         /\ granted' = [granted EXCEPT ![s] = @ + c]
         /\ Sends("CreditRequest", 0, s, c)
         /\ UNCHANGED <<opened, given>>

TakesCredit(s) ==
  IF s \notin opened THEN Sends("Credit", NotOpen, s, 0) /\ Same
  ELSE IF given[s] = MaxCredit THEN Sends("Credit", Overflow, s, 0) /\ Same
  ELSE /\ given' = [given EXCEPT ![s] = @ + 1]
       /\ Sends("Credit", 0, s, 0)
       /\ UNCHANGED <<opened, granted>>

(* The printer's reaction to a command. *)
Handles(type, s) ==
  \/ type = "EnterIEEE"     /\ Enters
  \/ type = "Init"          /\ Inits
  \/ type = "GetSocketID"   /\ GetsSocketID
  \/ type = "OpenChannel"   /\ Opens(s)
  \/ type = "CloseChannel"  /\ Closes(s)
  \/ type = "CreditRequest" /\ Grants(s)
  \/ type = "Credit"        /\ TakesCredit(s)

(* ... and to a packet of data, which asks for one packet of data.         *)
HandlesData(s, request) ==
  IF s \notin opened THEN Sends("Error", NotOpenedData, s, 0) /\ Same
  ELSE IF granted[s] = 0 THEN Sends("Error", NoCredit, s, 0) /\ Same
  ELSE /\ granted' = [granted EXCEPT ![s] = @ - 1]
       /\ IF given[s] = 0 THEN wire' = Stale /\ UNCHANGED given
          ELSE Sends("Data", 0, s, request) /\ given' = [given EXCEPT ![s] = @ - 1]
       /\ UNCHANGED opened

(* escputil forces the printer out of D4 mode; not every printer obeys.    *)
ForcedOut ==
  \/ opened' = {} /\ granted' = [s \in Sockets |-> 0] /\ given' = granted'
  \/ Same
=============================================================================
