---------------------------- MODULE DyesubPrinter ----------------------------
(***************************************************************************)
(* What a dye-sublimation backend promises to CUPS, with no sheets, no     *)
(* list and no merging: the images of a document are exposed in the order  *)
(* in which they were read, each as often as it was asked for, and the     *)
(* status is CUPS_BACKEND_OK only when nothing is left to expose.  An      *)
(* error gives up everything that is pending; a cancelled document may     *)
(* lose copies, never gain one or change their order.                      *)
(***************************************************************************)
EXTENDS Naturals, Sequences

CONSTANTS
  MaxImages, (* bound: images in the input stream      *)
  Copies     (* copy counts an image may be asked for  *)

VARIABLES
  accepted,  (* images read so far                                *)
  pending,   (* images still to expose, one element per copy      *)
  out,       (* images exposed                                    *)
  cancelled, (* SIGTERM was received                              *)
  status     (* "printing", then the status given to CUPS         *)

printer == <<accepted, pending, out, cancelled, status>>

PInit ==
  /\ accepted = 0
  /\ pending = <<>>
  /\ out = <<>>
  /\ cancelled = FALSE
  /\ status = "printing"

Accept ==
  /\ status = "printing"
  /\ accepted < MaxImages
  /\ accepted' = accepted + 1
  /\ \E c \in Copies : pending' = pending \o [k \in 1..c |-> accepted + 1]
  /\ UNCHANGED <<out, cancelled, status>>

(* One sheet: the first k pending images.  After a SIGTERM the following   *)
(* ones may be given up.                                                   *)
Expose ==
  /\ status = "printing"
  /\ \E k \in 1 .. Len(pending) :
       /\ out' = out \o SubSeq(pending, 1, k)
       /\ \E lost \in 0 .. (IF cancelled THEN Len(pending) - k ELSE 0) :
            pending' = SubSeq(pending, k + lost + 1, Len(pending))
  /\ UNCHANGED <<accepted, cancelled, status>>

Fail ==
  /\ status = "printing"
  /\ status' = "CUPS_BACKEND_FAILED"
  /\ pending' = <<>>
  /\ UNCHANGED <<accepted, out, cancelled>>

Succeed ==
  /\ status = "printing"
  /\ pending = <<>>
  /\ status' = "CUPS_BACKEND_OK"
  /\ UNCHANGED <<accepted, pending, out, cancelled>>

Cancel ==
  /\ status # "CUPS_BACKEND_OK"
  /\ cancelled' = TRUE
  /\ UNCHANGED <<accepted, pending, out, status>>

PNext == Accept \/ Expose \/ Fail \/ Succeed \/ Cancel

PSafety == PInit /\ [][PNext]_printer

(* What is pending is exposed or given up, and the job ends.               *)
PSpec == PSafety /\ WF_printer(Expose \/ Fail \/ Succeed)
=============================================================================
