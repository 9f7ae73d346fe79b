--------------------------------- MODULE Weave ---------------------------------
(***************************************************************************)
(* The soft weave of src/main/print-weave.c and the part of the ESC/P2     *)
(* driver's flush function that places a pass on the page                  *)
(* (src/main/escp2-driver.c).                                              *)
(*                                                                         *)
(* The driver hands the page over row by row, stp_write_weave; each row is *)
(* split into subpasses, and each subpass of each colour is appended to    *)
(* the buffer of the pass that prints it, in slot pass % vmod of a bank of *)
(* buffers.  A pass is sent when the row after its last one is reached.    *)
(*                                                                         *)
(* A line of data is the row, the subpass and whether there is ink in it.  *)
(* All lines take the same room in a buffer, the worst case of the packing *)
(* functions.  The one-entry cache of the row parameters, horizontal       *)
(* bounds, the bits of a line and the printers that split the lines of a   *)
(* colour between several heads (split_channels) are left out.             *)
(***************************************************************************)
EXTENDS WeaveRows, SequencesExt

CONSTANT Jobs \* the arguments of stp_initialize_weave; max_blank bounding the
              \* rows of a colour that may hold no ink; and the driver's
              \* min_nozzles, nozzle_start, send_zero_pass_advance and whether
              \* printing_initial_vertical_offset is not 0 at first
              \* (initial_offset)

\* A printer whose first jets are not used announces all jets of its head
\* (src/xml/escp2/model, FirstNozzle and MinNozzles, but for the printers with
\* split channels).

ASSUME JobsAssumption ==
    \A j \in Jobs :
        /\ j.jets \in Nat \ {0} /\ j.sep \in Nat \ {0} /\ j.osample \in Nat \ {0}
        /\ j.v_subpasses \in Nat \ {0} /\ j.v_subsample \in Nat \ {0}
        /\ j.osample * j.v_subpasses * j.v_subsample <= j.jets
        /\ j.jets = 1 => j.sep = 1
        /\ j.head_offset \in Seq(Nat) /\ j.head_offset # <<>>
        /\ Len(j.head_offset) = 1 => j.head_offset = <<0>>
        /\ j.line_count \in Nat \ {0} /\ j.first_line \in Nat
        /\ j.page_height \in Nat /\ j.max_blank \in Nat
        /\ j.strategy \in Strategies
        /\ j.min_nozzles \in Nat /\ j.nozzle_start \in Nat
        /\ j.nozzle_start > 0 => j.min_nozzles >= j.nozzle_start + j.jets
        /\ j.send_zero_pass_advance \in BOOLEAN /\ j.initial_offset \in BOOLEAN

VARIABLES
    job,        \* the job, an element of Jobs
    sw,         \* what stp_initialize_weave computes of it, a constant of the page
    lineno, current_vertical_subpass,
    last_pass,  \* the number of the last pass sent
    bank,       \* slot -> the pass it holds and its buffers, by colour
    last_pass_offset, \* the row that the driver has moved the head to
    sent,       \* history: the passes sent, with the place they were printed at
    inked,      \* history: <<row, colour, subpass>> handed over with ink
    status      \* "printing", "done", or "aborted" by stp_abort

vars == <<job, sw, lineno, current_vertical_subpass, last_pass, bank,
          last_pass_offset, sent, inked, status>>

-----------------------------------------------------------------------------
(* What stp_initialize_weave computes once for the whole page.             *)

\* The rows of data a buffer has room for: the jets, and the rows by which the
\* jets of one colour are below those of another.
VirtualJets(j, maxHeadOffset) == j.jets + (maxHeadOffset + j.sep - 1) \div j.sep

\* Mutant: no room for the passes that wait for a colour further down.
OneHeadSlots(j, oversample, virtual_jets) == 2 * j.sep * oversample

\* "The value of vmod limits how many passes may be unfinished at a time."
PassSlots(j, oversample, virtual_jets) ==
    2 * j.sep * oversample
      * (IF virtual_jets > j.jets THEN (virtual_jets + j.jets - 1) \div j.jets ELSE 1)

stp_initialize_weave(j) ==
    LET oversample    == j.osample * j.v_subpasses * j.v_subsample
        maxHeadOffset == Max(Range(j.head_offset))
        virtual_jets  == VirtualJets(j, maxHeadOffset)
        last_line     == j.first_line + j.line_count - 1 + maxHeadOffset
        raw           == initialize_raw_weave(j.sep, j.jets, oversample, j.strategy)
        weaveparm     == calculate_pass_map(raw, j.page_height, j.first_line, last_line)
    IN  [jets         |-> j.jets,
         separation   |-> j.sep,
         h_passes     |-> j.osample * j.v_subpasses,
         vertical_oversample |-> j.v_subsample,
         oversample   |-> oversample,
         head_offset  |-> j.head_offset,
         firstline    |-> j.first_line,
         lastline     |-> j.first_line + j.line_count - 1,
         virtual_jets |-> virtual_jets,
         vmod         |-> PassSlots(j, oversample, virtual_jets),
         weaveparm    |-> weaveparm,
         by_row       |-> [row \in j.first_line .. last_line |->
                             [s \in 0 .. oversample - 1 |->
                                 stpi_calculate_row_parameters(weaveparm, row, s)]]]

Colours    == DOMAIN sw.head_offset
Subpasses  == 0 .. sw.oversample - 1
Slots      == 0 .. sw.vmod - 1

weave_parameters_by_row(row, subpass) ==
    LET p     == sw.by_row[row][subpass]
        start == p.logicalpassstart + sw.separation * p.missingstartrows
    IN  [pass |-> p.pass, jet |-> p.jet, logicalpassstart |-> p.logicalpassstart,
         physpassstart |-> start,
         physpassend   |-> start + sw.separation * (p.jetsused - 1)]

\* The parameters and the slot of a subpass of a colour of a row: the lookups
\* stpi_get_lineoffsets, stpi_get_linecount, ..., stpi_get_pass_by_row.
Place(row, subpass, c) == weave_parameters_by_row(row + sw.head_offset[c], subpass)
Slot(row, subpass, c)  == Place(row, subpass, c).pass % sw.vmod

Line(row, subpass, ink) == [row |-> row, subpass |-> subpass, ink |-> ink]
Phantom == Line(-1, -1, FALSE)

NoPass == [pass |-> -1, subpass |-> 0, logicalpassstart |-> 0, physpassend |-> 0]
EmptySlot(colours) ==
    [pass  |-> NoPass,
     lines |-> [c \in colours |-> <<>>],
     linecount  |-> [c \in colours |-> 0],
     lineactive |-> [c \in colours |-> FALSE]]

-----------------------------------------------------------------------------
(* The steps of one row.                                                   *)

\* The pass of a slot is set up when the first line for it arrives.
InitializePass(b, s, p, subpass) ==
    IF b[s].pass.pass >= 0 THEN b
    ELSE [b EXCEPT ![s] =
             [EmptySlot(Colours) EXCEPT
                 !.pass = [pass |-> p.pass, subpass |-> subpass,
                           logicalpassstart |-> p.logicalpassstart,
                           physpassend |-> p.physpassend]]]

\* Mutant: only the colour that starts the pass is filled.
FillFirst(b, s, c, jet) ==
    IF jet > 0 /\ \A k \in Colours : b[s].linecount[k] = 0
    THEN [b EXCEPT ![s].lines[c] = [k \in 1 .. jet |-> Phantom],
                   ![s].linecount[c] = jet]
    ELSE b

\* The fill function: jet lines without ink above the first line of a colour.
Fill(b, s, c, jet) ==
    IF b[s].linecount[c] = 0 /\ jet > 0
    THEN [b EXCEPT ![s].lines[c] = [k \in 1 .. jet |-> Phantom],
                   ![s].linecount[c] = jet]
    ELSE b

\* The subpasses of every colour, subpass by subpass and colour by colour.
SubpassColours ==
    [k \in 1 .. sw.oversample * Len(sw.head_offset) |->
        <<(k - 1) \div Len(sw.head_offset), ((k - 1) % Len(sw.head_offset)) + 1>>]

initialize_subpass(row, b, subpass, c) ==
    LET p == Place(row, subpass, c)
        s == p.pass % sw.vmod
    IN  Fill(InitializePass(b, s, p, subpass), s, c, p.jet)

initialize_row(row, b) ==
    FoldLeft(LAMBDA acc, ic : initialize_subpass(row, acc, ic[1], ic[2]), b, SubpassColours)

\* The lines that the current vertical subpass adds, colour by colour.
LinesOf(ink) ==
    [k \in 1 .. Len(sw.head_offset) * sw.h_passes |->
        LET c == ((k - 1) \div sw.h_passes) + 1
        IN  [colour |-> c,
             line   |-> Line(lineno,
                             current_vertical_subpass * sw.h_passes
                                 + ((k - 1) % sw.h_passes),
                             c \in ink)]]

\* Mutant: a line that fills a buffer to its end is taken for one too many.
LastLineRefused(b, s, c) == Len(b[s].lines[c]) + 1 >= sw.virtual_jets

BufferFull(b, s, c) == Len(b[s].lines[c]) >= sw.virtual_jets

\* Mutant: the last line decides whether the colour is sent.
SetsActive(active, ink) == ink

\* A colour of a pass is active once one of its lines has ink.
Active(active, ink) == active \/ ink

\* The bank after a line, or <<>> when stp_abort ends the program instead.
add_to_row(b, l) ==
    LET s == Slot(lineno, l.line.subpass, l.colour)
    IN  IF b = <<>> \/ BufferFull(b, s, l.colour) THEN <<>>
        ELSE [b EXCEPT ![s].lines[l.colour] = Append(@, l.line),
                       ![s].lineactive[l.colour] = Active(@, l.line.ink)]

-----------------------------------------------------------------------------
(* Sending passes.  st holds the variables that a flush changes.           *)

\* The command that moves the paper is sent if the pass starts further down; for
\* every pass, as they are sent in the order of their numbers, if the printer
\* wants moves by zero; and once to make up for the initial offset.
Moves(st, start) ==
    \/ start > st.last_pass_offset
    \/ job.send_zero_pass_advance
    \/ job.initial_offset /\ \A n \in DOMAIN st.sent : DOMAIN st.sent[n].lines = {}

set_vertical_position(st, start) ==
    IF Moves(st, start) THEN start ELSE st.last_pass_offset

\* How many lines the print command announces for n lines of a colour, and how
\* many empty ones are sent with them: for the jets above the first that is
\* used, and below the lines for the jets that have none.
Announced(n) == IF n < job.min_nozzles THEN job.min_nozzles ELSE n
EmptyLines(n) ==
    LET extralines == Announced(n) - n
    IN  IF extralines > job.nozzle_start THEN extralines ELSE job.nozzle_start

Cleared(slot, active) ==
    [slot EXCEPT !.lines = [c \in Colours |-> <<>>], !.linecount = [c \in Colours |-> 0]]

\* The driver prints the colours that hold ink, at the row the head is at, and
\* empties the buffers.
stpi_escp2_flush_pass(st, s) ==
    LET slot   == st.bank[s]
        active == {c \in Colours : slot.lineactive[c]}
        at     == IF active = {} THEN st.last_pass_offset
                  ELSE set_vertical_position(st, slot.pass.logicalpassstart)
    IN  [st EXCEPT
            !.last_pass_offset = at,
            !.sent = Append(@, [pass   |-> slot.pass.pass,
                                subpass |-> slot.pass.subpass,
                                at     |-> at,
                                nlines |-> [c \in active |-> Announced(slot.linecount[c])],
                                empty  |-> [c \in active |-> EmptyLines(slot.linecount[c])],
                                lines  |-> [c \in active |-> slot.lines[c]]]),
            !.bank[s] = Cleared(@, active)]

\* One turn of the loop: the next pass, when it has been started and, unless
\* everything is flushed, its last row is above lineno.
FlushNext(st, flushall) ==
    LET s == (st.last_pass + 1) % sw.vmod
        p == st.bank[s].pass
    IN  IF p.pass < 0 \/ (~flushall /\ p.physpassend >= lineno)
        THEN st
        ELSE [stpi_escp2_flush_pass(st, s) EXCEPT !.last_pass = p.pass,
                                                  !.bank[s].pass.pass = -1]

\* A turn frees a slot or changes nothing, so that as many turns as there are
\* passes in the slots are the loop.
stpi_flush_passes(st, flushall) ==
    FoldLeft(LAMBDA acc, turn : FlushNext(acc, flushall), st,
             [turn \in 1 .. Cardinality({s \in Slots : st.bank[s].pass.pass >= 0}) |-> turn])

\* The line counts of the row's passes go up.
CountLine(st, subpass, c) ==
    [st EXCEPT !.bank[Slot(lineno, subpass, c)].linecount[c] = @ + 1]
CountLines(st, subpass) ==
    FoldLeft(LAMBDA acc, c : CountLine(acc, subpass, c), st, [c \in Colours |-> c])

\* The passes before one that ends with the row are sent.
finalize_subpass(st, subpass) ==
    IF weave_parameters_by_row(lineno, subpass).physpassend = lineno
    THEN stpi_flush_passes(CountLines(st, subpass), FALSE)
    ELSE CountLines(st, subpass)

finalize_row(st) == FoldLeft(finalize_subpass, st, [k \in 1 .. sw.oversample |-> k - 1])

Keep(st) ==
    /\ bank' = st.bank
    /\ last_pass' = st.last_pass
    /\ last_pass_offset' = st.last_pass_offset
    /\ sent' = st.sent

State(b) == [bank |-> b, last_pass |-> last_pass,
             last_pass_offset |-> last_pass_offset, sent |-> sent]

-----------------------------------------------------------------------------
Init ==
    /\ job \in Jobs
    /\ sw = stp_initialize_weave(job)
    /\ lineno = sw.firstline
    /\ current_vertical_subpass = 0
    /\ last_pass = -1
    /\ bank = [s \in Slots |-> EmptySlot(Colours)]
    /\ last_pass_offset = 0
    /\ sent = <<>>
    /\ inked = {}
    /\ status = "printing"

\* The lines handed over so far, with this one, that hold no ink.
Blanks(ink) ==
    LET handed == (lineno - sw.firstline) * sw.vertical_oversample
                    + current_vertical_subpass + 1
    IN  handed * Cardinality(Colours)
          - (Cardinality(inked) \div sw.h_passes) - Cardinality(ink)

stp_write_weave(ink) ==
    /\ status = "printing"
    /\ lineno <= sw.lastline
    /\ Blanks(ink) <= job.max_blank
    /\ LET ready == IF current_vertical_subpass = 0
                    THEN initialize_row(lineno, bank) ELSE bank
           new   == LinesOf(ink)
           b     == FoldLeft(add_to_row, ready, new)
       IN  IF b = <<>>
           THEN /\ status' = "aborted"
                /\ UNCHANGED <<lineno, current_vertical_subpass, bank, last_pass,
                               last_pass_offset, sent, inked>>
           ELSE /\ inked' = inked \cup {<<lineno, l.colour, l.line.subpass>> :
                                           l \in {x \in Range(new) : x.line.ink}}
                /\ IF current_vertical_subpass + 1 >= sw.vertical_oversample
                   THEN /\ Keep(finalize_row(State(b)))
                        /\ lineno' = lineno + 1
                        /\ current_vertical_subpass' = 0
                   ELSE /\ Keep(State(b))
                        /\ current_vertical_subpass' = current_vertical_subpass + 1
                        /\ UNCHANGED lineno
                /\ UNCHANGED status
    /\ UNCHANGED <<job, sw>>

\* The driver ends the page after its last row, or earlier when the image
\* cannot be read any further.
stp_flush_all ==
    /\ status = "printing"
    /\ current_vertical_subpass = 0
    /\ Keep(stpi_flush_passes(State(bank), TRUE))
    /\ status' = "done"
    /\ UNCHANGED <<job, sw, lineno, current_vertical_subpass, inked>>

Next ==
    \/ \E ink \in SUBSET Colours : stp_write_weave(ink)
    \/ stp_flush_all

Spec == Init /\ [][Next]_vars

-----------------------------------------------------------------------------
(* Properties.                                                             *)

\* Every variable has its type: stpi_softweave_t and stp_pass_t.
TypeOK ==
    /\ job \in Jobs
    /\ lineno \in sw.firstline .. sw.lastline + 1
    /\ current_vertical_subpass \in 0 .. sw.vertical_oversample - 1
    /\ last_pass \in -1 .. Len(sent) - 1
    /\ last_pass_offset \in Nat
    /\ DOMAIN bank = Slots
    /\ \A s \in Slots :
          /\ bank[s].pass.pass \in Nat \cup {-1}
          /\ bank[s].pass.subpass \in Subpasses
          /\ bank[s].linecount \in [Colours -> Nat]
          /\ bank[s].lineactive \in [Colours -> BOOLEAN]
          /\ DOMAIN bank[s].lines = Colours
    /\ status \in {"printing", "done", "aborted"}

\* Everything printed so far: <<number of the pass sent, colour, place>>.
Inks ==
    UNION {UNION {{<<n, c, k>> : k \in {i \in DOMAIN sent[n].lines[c] : sent[n].lines[c][i].ink}} :
                     c \in Colours \cap DOMAIN sent[n].lines} :
              n \in DOMAIN sent}

LineAt(i) == sent[i[1]].lines[i[2]][i[3]]

\* A line of a colour is printed with the head where the jet that receives its
\* data is over the line's own row, in the subpass of the pass, and the command
\* of the pass announces as many lines as follow it, with the empty ones for jets
\* that are not used.  The place results from
\* the head position after all earlier passes, from the phantom lines filled in
\* above the first line, and from every line appended since.
LinesInPlace ==
    /\ \A i \in Inks :
          /\ i[3] <= sw.jets
          /\ LineAt(i).row + sw.head_offset[i[2]]
               = sent[i[1]].at + sw.separation * (i[3] - 1)
          /\ LineAt(i).subpass = sent[i[1]].subpass
    /\ \A n \in DOMAIN sent : \A c \in DOMAIN sent[n].lines :
          sent[n].nlines[c] = Len(sent[n].lines[c]) + sent[n].empty[c]

\* The pass of every line of the job, and the first number that no line has.
LinePasses ==
    {Place(row, s, c).pass : row \in sw.firstline .. sw.lastline, s \in Subpasses, c \in Colours}
FirstMissing == CHOOSE n \in 0 .. Cardinality(LinePasses) :
                    n \notin LinePasses /\ 0 .. n - 1 \subseteq LinePasses

\* No line is printed twice, and none is printed that was not handed over.
Printed == {<<LineAt(i).row, i[2], LineAt(i).subpass>> : i \in Inks}
NoLineTwice ==
    /\ Cardinality(Printed) = Cardinality(Inks)
    /\ Printed \subseteq inked

\* No line is printed twice, none is printed that was not handed over, and when
\* a page that was handed over completely has been flushed, exactly the lines
\* have been printed whose pass is numbered below the first number without a
\* line: stpi_flush_passes stops there, even when it flushes everything.
EveryLineOnce ==
    /\ NoLineTwice
    /\ status = "done" /\ lineno > sw.lastline =>
          Printed = {l \in inked : Place(l[1], l[3], l[2]).pass < FirstMissing}

\* "Passes are numbered consecutively, and each pass must logically start at no
\* smaller a row number than the previous pass": no number is without a line,
\* so that by EveryLineOnce the whole page is printed, whenever the image has at
\* least separation rows and some colour prints each row of the page it spans.
PassesConsecutive ==
    LET Start == [p \in LinePasses |->
                    {Place(x[1], x[2], x[3]).logicalpassstart :
                        x \in {y \in (sw.firstline .. sw.lastline) \X Subpasses \X Colours :
                                  Place(y[1], y[2], y[3]).pass = p}}]
        rows  == {row + sw.head_offset[c] : row \in sw.firstline .. sw.lastline, c \in Colours}
    IN  lineno = sw.firstline /\ inked = {} =>
          /\ \A p \in LinePasses : Cardinality(Start[p]) = 1
          /\ \A p, q \in LinePasses : p < q => Max(Start[p]) <= Min(Start[q])
          /\ job.line_count >= sw.separation /\ rows = DOMAIN sw.by_row =>
                LinePasses = 0 .. Max(LinePasses)

\* The lines of a slot that holds no pass are zero: the warnings of
\* initialize_row, "lineoffs should be zero", are never printed.
FreeSlotsEmpty ==
    \A s \in Slots : bank[s].pass.pass = -1 =>
        \A c \in Colours : bank[s].linecount[c] = 0 /\ bank[s].lines[c] = <<>>

\* "If pass x is not yet printed, pass x+vmod cannot be started": the slot that
\* the next row needs is free or holds the pass the row belongs to, and that
\* pass has not been sent.  Free slots are empty.
SlotsNotStolen ==
    /\ FreeSlotsEmpty
    /\ status = "printing" /\ lineno <= sw.lastline =>
        \A s \in Subpasses : \A c \in Colours :
            LET p == Place(lineno, s, c).pass
            IN  /\ bank[p % sw.vmod].pass.pass \in {-1, p}
                /\ p > last_pass

\* No buffer is filled beyond virtual_jets lines, by phantom lines or by data,
\* and the overflow check of add_to_row never ends the program.
BuffersSuffice ==
    /\ TypeOK
    /\ status # "aborted"
    /\ \A s \in Slots : \A c \in Colours : Len(bank[s].lines[c]) <= sw.virtual_jets

\* The row lookup of the raw weave finds the pass that starts where it says and
\* belongs to the subpass, and the assertions on the row hold.
LookupsInverse ==
    LET w == sw.weaveparm.rw
    IN  \A row \in DOMAIN sw.by_row, s \in Subpasses :
            LET raw == calculate_raw_row_parameters(w, row + Span(w), s)
            IN  /\ calculate_raw_pass_parameters(w, raw.pass)
                     = [startrow |-> raw.startrow, subpass |-> s]
                /\ RowAsserts(sw.weaveparm, row, s)

\* No two rows, in any subpass, share a jet of a pass.
JetsNotShared ==
    LET rows == DOMAIN sw.by_row
    IN  Cardinality({<<sw.by_row[x[1]][x[2]].pass, sw.by_row[x[1]][x[2]].jet>> :
                        x \in rows \X Subpasses})
          = Cardinality(rows \X Subpasses)

\* The two lookups of the raw weave are inverse: the pass found for a row and a
\* subpass starts where the row lookup says and belongs to the subpass, and no
\* two rows share a jet of a pass.  The assertions on the row hold.
RowAndPassAgree ==
    lineno = sw.firstline /\ inked = {} => LookupsInverse /\ JetsNotShared
================================================================================
