----------------------------- MODULE CupsFilter -----------------------------
(***************************************************************************)
(* The CUPS filter (src/src/cups/rastertogutenprint.c) with the row loop   *)
(* of the Epson driver (escp2_do_print in src/src/main/print-escp2.c) and  *)
(* the buffered image that turns back sides around (buffer-image.c).       *)
(*                                                                         *)
(* The filter reads pages of a raster stream: a header, then cupsHeight    *)
(* lines.  The driver asks for the lines it wants and prints each on as    *)
(* many lines of paper as the scale calls for; what it leaves is purged.   *)
(* cancel_job may run between any two steps; only Image_get_row looks at   *)
(* the flag that it sets, once, before it reads.                           *)
(*                                                                         *)
(* A line of the raster is <<its page, its number>>; what it holds is left *)
(* out, and so is everything that happens along a line.                    *)
(***************************************************************************)
EXTENDS Integers, Sequences

CONSTANTS
  Pages,       (* the stream has at most this many pages                    *)
  Headers,     (* what initialize_page may make of a page's header          *)
  SoftDuplex,  (* back sides must be turned around by the driver            *)
  BreaksOff,   (* may the stream end within a page?                         *)
  NoLine, NULL

(* cupsHeight of the header; the height of the page's area at the raster's *)
(* and at the printer's resolution; whether stp_verify accepts all but the *)
(* height.  (An area lower than one line of the raster that still has one  *)
(* line of paper is left out.)                                             *)
HeaderType ==
  {h \in [cupsHeight : Nat \ {0}, height : Int, printed : Nat, verifies : BOOLEAN] :
     h.height <= 0 => h.printed = 0}

ASSUME FilterAssumption ==
  /\ Pages \in Nat
  /\ Headers \subseteq HeaderType
  /\ SoftDuplex \in BOOLEAN /\ BreaksOff \in BOOLEAN
  /\ NULL \notin HeaderType
  /\ NoLine \notin Nat \X Nat

VARIABLES
  pc,
  ras,          (* the stream: page and lines read, lines that are there    *)
  v,            (* the page's settings and header, or NULL                  *)
  page, row,    (* cups.page, cups.row                                      *)
  initialized_job, aborted,
  printer,      (* started: sent the job's initialization, not its end      *)
  y, errline, errval, errlast, in_data,  (* escp2_print_data                *)
  buf,          (* lines in the buffered image                              *)
  sheet,        (* what is on this page's paper, line by line               *)
  status,       (* what stp_print returned or is about to                   *)
  tmp_image_status,  (* in a call of Image_get_row, the flag at its start   *)
  cancelled,    (* Image_status = STP_IMAGE_STATUS_ABORT                    *)
  readBefore,   (* the first line not read when the signal came             *)
  underWay      (* the line that was just being read then, or NoLine        *)

main   == <<page, initialized_job, aborted, printer>>
stream == <<ras, row>>
scale  == <<y, errline, errval, errlast>>
paper  == <<in_data, buf, sheet>>
signal == <<cancelled, readBefore, underWay>>
vars   == <<pc, v, stream, main, scale, paper, status, tmp_image_status, signal>>

Init ==
  /\ pc = "header"
  /\ ras = [page |-> 0, read |-> 0, there |-> 0, broken |-> FALSE]
  /\ v = NULL
  /\ page = 0 /\ row = 0
  /\ initialized_job = FALSE /\ aborted = FALSE
  /\ printer = "idle"
  /\ y = 0 /\ errline = 0 /\ errval = 0 /\ errlast = -1
  /\ in_data = NoLine /\ buf = <<>> /\ sheet = <<>>
  /\ status = 1
  /\ tmp_image_status = "none"
  /\ cancelled = FALSE /\ readBefore = <<0, 0>> /\ underWay = NoLine

Lesser(a, b) == IF a < b THEN a ELSE b

(* cups->adjusted_height: what the driver takes for the image's height. *)
adjusted_height == Lesser(v.height, v.cupsHeight)

(* stp_verify: of the heights, only those below zero are refused. *)
Verifies == v.verifies /\ v.height >= 0

(* Back sides have odd numbers. *)
Flipped == SoftDuplex /\ page % 2 = 1

-----------------------------------------------------------------------------
(* Reading the stream. *)

(* CUPS_READ_HEADER succeeds, and initialize_page takes the settings.  A   *)
(* stream that stands within a page has no header to offer.                *)
NextHeader ==
  /\ pc = "header"
  /\ ras.page < Pages /\ ~ras.broken /\ ras.read = ras.there
  /\ \E h \in Headers : \E there \in 0 .. h.cupsHeight :
       /\ there < h.cupsHeight => BreaksOff
       /\ ras' = [page |-> ras.page + 1, read |-> 0, there |-> there,
                  broken |-> there < h.cupsHeight]
       /\ v' = h
  /\ row' = 0
  /\ pc' = "page"
  /\ UNCHANGED <<main, scale, paper, status, tmp_image_status, signal>>

(* The stream is at its end, or what stands there is no header. *)
NoMoreHeaders ==
  /\ pc = "header"
  /\ pc' = "end"
  /\ UNCHANGED <<v, stream, main, scale, paper, status, tmp_image_status, signal>>

(* cupsRasterReadPixels, n lines of it: past the end it reads nothing. *)
ReadPixels(n) ==
  /\ row' = row + n
  /\ ras' = [ras EXCEPT !.read = Lesser(ras.read + n, ras.there)]

(* Mutant: the driver gets the line at which the stream happens to be. *)
OneLine(r) == IF row < v.cupsHeight THEN 1 ELSE 0

(* How many lines Image_get_row reads to get to line r. *)
LinesUpTo(r) ==
  IF row <= r THEN Lesser(r + 1, v.cupsHeight) - row ELSE 0

(* What is in the caller's buffer after n lines were read over data. *)
LineRead(n, data) ==
  LET last == Lesser(ras.read + n, ras.there) - 1
  IN  IF row >= v.cupsHeight THEN NoLine
      ELSE IF last >= ras.read THEN <<ras.page, last>> ELSE data

(* Mutant: a page that was given up is not purged. *)
ExcessOfPrinted == IF status = 2 THEN 0 ELSE v.cupsHeight - row

(* purge_excess_data *)
Excess == v.cupsHeight - row

-----------------------------------------------------------------------------
(* The driver's row loop, escp2_print_data. *)

(* Mutant: the error is carried one line late. *)
CarriesLate(e) == e > v.printed

(* The error amounts to a line of the image. *)
Carries(e) == e >= v.printed

(* One more line of paper. *)
NextLine ==
  LET errdiv == adjusted_height \div v.printed
      errmod == adjusted_height % v.printed
      e      == errval + errmod
  IN  /\ y' = y + 1
      /\ errval' = IF Carries(e) THEN e - v.printed ELSE e
      /\ errline' = errline + errdiv + (IF Carries(e) THEN 1 ELSE 0)

Printing == pc = "print" /\ y < v.printed

(* stp_dither and stp_write_weave *)
PutLine(line) ==
  /\ sheet' = Append(sheet, line)
  /\ NextLine
  /\ UNCHANGED <<pc, status>>

(* The driver gives the page up: it flushes what it has and ejects it. *)
GiveUp ==
  /\ status' = 2
  /\ pc' = "printed"
  /\ UNCHANGED <<sheet, y, errval, errline>>

(* The image's line is the last one again. *)
DuplicateLine ==
  /\ Printing /\ errline = errlast
  /\ PutLine(in_data)
  /\ UNCHANGED <<v, stream, main, errlast, in_data, buf, tmp_image_status, signal>>

Buffered == Len(buf) = adjusted_height

(* A line that is not in memory is wanted; back sides are read from their  *)
(* first line on until they are there as a whole.                          *)
LineWanted == Printing /\ errline # errlast /\ (Flipped => ~Buffered)

Asked == IF Flipped THEN Len(buf) ELSE errline

(* Image_get_row is called: it takes the flag before it reads.  (The rows  *)
(* it is asked for are on the page: the white ones it makes up below it,   *)
(* and the errors of an image that is not there, never come to pass.)      *)
GetRow ==
  /\ LineWanted /\ tmp_image_status = "none"
  /\ tmp_image_status' = IF cancelled THEN "abort" ELSE "ok"
  /\ UNCHANGED <<pc, v, stream, main, scale, paper, status, signal>>

(* It reads up to the line asked for, which is all that is left of the     *)
(* lines in the buffer, and reports the flag that it took.                 *)
ReadRow ==
  LET n == LinesUpTo(Asked) IN
  /\ LineWanted /\ ~Flipped /\ tmp_image_status # "none"
  /\ errlast' = errline
  /\ ReadPixels(n)
  /\ in_data' = LineRead(n, in_data)
  /\ IF tmp_image_status = "abort" THEN GiveUp ELSE PutLine(in_data')
  /\ tmp_image_status' = "none"
  /\ UNCHANGED <<v, main, buf, signal>>

(* Mutant: the buffered image does not look at what Image_get_row says. *)
FillsOn == FALSE

FillAborts == tmp_image_status = "abort"

(* buffered_image_get_row, called for the first line, has them all read ... *)
FillBuffer ==
  LET n == LinesUpTo(Asked) IN
  /\ LineWanted /\ Flipped /\ tmp_image_status # "none"
  /\ ReadPixels(n)
  /\ buf' = Append(buf, LineRead(n, NoLine))
  /\ IF FillAborts
     THEN GiveUp /\ errlast' = errline
     ELSE UNCHANGED <<pc, status, sheet, scale>>
  /\ tmp_image_status' = "none"
  /\ UNCHANGED <<v, main, in_data, signal>>

(* ... and hands out the one that is there on the turned page; it does not *)
(* ask whether the job was cancelled since.                                *)
GetBufferedRow ==
  /\ Printing /\ errline # errlast /\ Flipped /\ Buffered
  /\ errlast' = errline
  /\ in_data' = buf[adjusted_height - errline]
  /\ PutLine(in_data')
  /\ UNCHANGED <<v, stream, main, buf, tmp_image_status, signal>>

PageIsPrinted ==
  /\ pc = "print" /\ y >= v.printed
  /\ pc' = "printed"
  /\ UNCHANGED <<v, stream, main, scale, paper, status, tmp_image_status, signal>>

-----------------------------------------------------------------------------
(* The loop over the pages. *)

(* Mutant: the filter goes on with the next page. *)
SkipsPage ==
  /\ pc' = "header"
  /\ page' = page + 1
  /\ ReadPixels(Excess)
  /\ UNCHANGED aborted

(* stp_print returned 0: the job is aborted. *)
VerifyFails ==
  /\ pc' = "end"
  /\ aborted' = TRUE
  /\ UNCHANGED <<page, stream>>

(* stp_start_job before the first page, whatever it returns, and stp_print *)
(* up to the row loop, which divides by the number of lines to print.      *)
StartPage ==
  /\ pc = "page"
  /\ initialized_job' = TRUE
  /\ printer' = IF ~initialized_job /\ Verifies THEN "started" ELSE printer
  /\ IF ~Verifies
     THEN /\ VerifyFails
          /\ UNCHANGED <<status, scale, paper>>
     ELSE /\ pc' = IF v.printed = 0 THEN "crashed" ELSE "print"
          /\ y' = 0 /\ errline' = 0 /\ errval' = 0 /\ errlast' = -1
          /\ in_data' = NoLine /\ buf' = <<>> /\ sheet' = <<>>
          /\ status' = 1
          /\ UNCHANGED <<page, aborted, stream>>
  /\ UNCHANGED <<v, tmp_image_status, signal>>

(* The page is ejected and the buffered image freed; stp_print returns 1   *)
(* or 2, which is one to main: it purges the page and goes on.             *)
EndPage ==
  /\ pc = "printed"
  /\ buf' = <<>>
  /\ ReadPixels(Excess)
  /\ page' = page + 1
  /\ pc' = "header"
  /\ UNCHANGED <<v, initialized_job, aborted, printer, scale, in_data, sheet, status,
                 tmp_image_status, signal>>

(* stp_end_job with the settings of the last page, which are verified once *)
(* more; its result is ignored.                                            *)
EndJob ==
  /\ pc = "end"
  /\ printer' = IF v # NULL /\ Verifies THEN "idle" ELSE printer
  /\ pc' = "done"
  /\ UNCHANGED <<v, stream, page, initialized_job, aborted, scale, paper, status,
                 tmp_image_status, signal>>

(* SIGTERM *)
cancel_job ==
  /\ pc \notin {"done", "crashed"} /\ ~cancelled
  /\ cancelled' = TRUE
  /\ readBefore' = <<ras.page, ras.read>>
  /\ underWay' = IF tmp_image_status = "none" THEN NoLine
                 ELSE LineRead(LinesUpTo(Asked), NoLine)
  /\ UNCHANGED <<pc, v, stream, main, scale, paper, status, tmp_image_status>>

Exited == pc \in {"done", "crashed"} /\ UNCHANGED vars

Next ==
  \/ NextHeader \/ NoMoreHeaders \/ StartPage
  \/ DuplicateLine \/ GetRow \/ ReadRow \/ FillBuffer \/ GetBufferedRow \/ PageIsPrinted
  \/ EndPage \/ EndJob
  \/ cancel_job
  \/ Exited

Spec == Init /\ [][Next]_vars

-----------------------------------------------------------------------------
Lines == (Nat \X Nat) \union {NoLine}

(* Every variable keeps its type; the error of the scale stays below one   *)
(* line, and the filter reads no more lines than the page has.             *)
TypeOK ==
  /\ pc \in {"header", "page", "print", "printed", "end", "done", "crashed"}
  /\ ras \in [page : Nat, read : Nat, there : Nat, broken : BOOLEAN]
  /\ v \in Headers \union {NULL}
  /\ page \in Nat /\ row \in Nat
  /\ initialized_job \in BOOLEAN /\ aborted \in BOOLEAN
  /\ printer \in {"idle", "started"}
  /\ y \in Nat /\ errline \in Nat /\ errval \in Nat /\ errlast \in Int
  /\ in_data \in Lines /\ buf \in Seq(Lines) /\ sheet \in Seq(Lines)
  /\ status \in {1, 2}
  /\ cancelled \in BOOLEAN /\ readBefore \in Nat \X Nat /\ underWay \in Lines
  /\ tmp_image_status \in {"none", "ok", "abort"}
  /\ tmp_image_status # "none" => pc = "print"
  /\ pc \in {"page", "print", "printed"} => v # NULL /\ row <= v.cupsHeight
  /\ pc = "print" => errval < v.printed

(* The line of the image that belongs on line k of the paper. *)
ImageLine(k) ==
  LET r == (k * adjusted_height) \div v.printed
  IN  IF Flipped THEN adjusted_height - r - 1 ELSE r

(* What is on the paper is the page, scaled, and turned around on a back   *)
(* side that the printer cannot turn: whatever was skipped, repeated,      *)
(* buffered, purged or cancelled before, each line is the one that belongs *)
(* there, of this page.  (A stream that breaks off leaves old lines in     *)
(* their place.)                                                           *)
LinesInPlace ==
  pc \in {"print", "printed"} /\ ~ras.broken =>
    \A k \in 1 .. Len(sheet) : sheet[k] = <<page + 1, ImageLine(k - 1)>>

(* When the filter looks for a header, the stream stands where the next    *)
(* page begins.                                                            *)
Aligned == pc = "header" => ras.read = ras.there /\ ras.page = page

(* The stream has been read past the line. *)
Before(line, position) ==
  \/ line = NoLine
  \/ line[1] < position[1]
  \/ line[1] = position[1] /\ line[2] < position[2]

(* Once the signal has come, nothing gets on paper that had not been read,  *)
(* but for the one line whose call had looked at the flag before; whether   *)
(* or not it is repeated, and whatever the buffered image still hands out.  *)
CancelStopsReading ==
  cancelled =>
    \A k \in 1 .. Len(sheet) : Before(sheet[k], readBefore) \/ sheet[k] = underWay

(* No page is printed on a printer that was not sent the initialization of *)
(* the job, although nobody looks at what stp_start_job returns.           *)
PagesOnStartedPrinter == pc \in {"print", "printed"} => printer = "started"
=============================================================================
