# Gutenprint: models, checks and proofs

This directory is a verification project for Gutenprint (the repository in
`src/`): TLA+ modules translated from its C code, TLC configurations that check
them on small instances, and theorems checked by TLAPS. `PROJECT.json` is the
index: it maps every definition to the lines it stands for, names the runs and
what they check, and lists the hazards the properties are aimed at.

Gutenprint is mostly tables and arithmetic on pixels; what a model checker can
say something about are the parts that keep state over a sequence of calls or of
packets. Eight of them are modelled: the dye-sublimation job pipeline, the main loop of
one of its printers, the list and the caches of the library, its curves, the weave, the
CUPS filter, and the IEEE 1284.4 link.

## 1. Inventory

| Component | State it keeps | Operations | What is hard | What makes it correct |
|---|---|---|---|---|
| Dye-sublimation job pipeline (`src/cups/backend_common.c`, `backend_*.c`) | `jobs[]` of one `read_parse`, the job list (3 slots), the entry and copy in print, `terminate` | `handle_input`, `__dyesub_append_job`, `dyesub_joblist_*`, a backend's `read_parse`, `combine_jobs`, `main_loop`, `cleanup_job` | job structures copied by value with one buffer; merging, odd copies, holding back a page; an error or a signal anywhere | no buffer freed twice or leaked; no image lost, repeated or out of order; nothing held back for ever |
| Generic list (`src/main/print-list.c`) | links, length, three caches of the node found last | create, destroy, set data, lookups by index and name | caches and walks from four starting points, recycled addresses | links agree with the promised order, lookups right whatever came before |
| Object caches (`src/main/refcache.c`) | per cache an item list and a string list, one list of caches | create, add, find, remove, replace, destroy | every operation changes two lists by separate calls | the two lists agree |
| Parsed XML files (`src/main/xml.c`) | cached trees, `cached_xml_files` by address, locale nesting, files loaded at start-up | cached and uncached parse, free, init/exit | addresses come back; names of caches; assertions that end the program | a parse returns a live tree of the right document, in one cache |
| IEEE 1284.4 link (`src/escputil/d4lib.c`, `escputil.c`) | socket, credit, retry counters; the printer's channels and credit | EnterIEEE, Init, GetSocketID, OpenChannel, Credit, CreditRequest, data, CloseChannel; recovery | lost, refused and late answers, writes that take nothing, nested retries, a run killed half way | answers matched with commands, data only on open channels, every run ends |
| Weave (`src/main/print-weave.c`, flush function in `escp2-driver.c`) | a bank of line buffers, one slot per unfinished pass; the last pass sent; the head's place | `stp_initialize_weave`, `stp_write_weave`, flush functions | the renumbering of passes at both ends of the page, colours that are rows apart, slots shared by pass number | each line printed once, by the right jet with the head at the right row; no slot taken from an unfinished pass |
| Printer main loops (`backend_mitsu70x.c`, `backend_hiti.c`, `backend_shinkos6145.c`, ...) | job id, deck, copies left, header of the last sheet; the printer's jobs, decks and errors | waking, choosing a deck, asking for memory, sending, polling | two decks, a status that is stale when used, ids that come back, early returns, a collated call with the header of the last | a sheet reported printed was printed; no sheet in vain but for an error; held only for an error; returns |
| CUPS filter (`src/cups/rastertogutenprint.c`, the row loop of `print-escp2.c`, `buffer-image.c`) | the stream's position, page, row, cancel flag; the scale's error; the buffered back side | pages, rows on demand, purging, signals | a stream without page marks read by a driver that skips and repeats; a signal anywhere; a page that fails in mid-job | each line of paper has its line of the image; a header is found after every page; a signal stops the printing of what was not read; pages go to an initialized printer |
| Variables, sequences, curves, arrays (`print-vars.c`, `sequence.c`, `curve.c`, `curve-cache.c`, `array.c`) | typed parameters; points with bounds, their range, copies in other types, the deltas between them | setters, resampling, rescaling, reversing, copies; reads that compute and keep | derived data that each of a dozen setters has to drop; setters that look at what others left behind | what is kept is what would be computed; points stay within bounds, wrapped curves closed |
| Modules, paths, printer registry (`module.c`, `path.c`, `printers.c`) | lists of modules and printers | start-up registration | order of loading, duplicates | a printer is registered once |
| Printer drivers, colour, dithering, PPDs, UI, mini-XML | tables, rows of pixels, widgets | | data, not control | not modelled, see section 7 |

How they interact. The CUPS filter and the drivers call the library, which looks
everything up in lists (print-list) and caches (refcache, xml); the library is
single-threaded, so there the order of calls is the only source of surprises.
`rastertogutenprint` and the dye-sub backend are separate processes connected by a
pipe; the backend is one thread plus a signal handler, with the printer as the
other party. `escputil` is a process of its own, with the printer at the other end
of a device file, and the printer's state outlives it.

## 2. Modules

| Module | Models |
|---|---|
| `DyesubJobs` | the job pipeline, from `read_parse` to the status given to CUPS |
| `DyesubPrinter` | the abstract specification: what a backend promises to CUPS |
| `DyesubRefinement` | the mapping under which `DyesubJobs` implements `DyesubPrinter` |
| `DyesubJobs_proof` | theorems about `DyesubJobs` |
| `StpList` | `print-list.c` |
| `StpList_proof` | theorems about `StpList` |
| `RefCache`, `XmlCache` | `refcache.c`; `xml.c` on top of it (EXTENDS), with the rest of the library as another client |
| `XmlCache_proof` | theorems about `XmlCache` and the `RefCache` under it |
| `D4Link` | the printer and the wire, as far as `d4lib.c` relies on them (external) |
| `D4Session` | `d4lib.c` and escputil's use of it, over `D4Link` (EXTENDS) |
| `D4Session_proof` | theorems about `D4Session` |
| `WeaveRows` | the arithmetic of the weave: raw and cooked passes (no state) |
| `Weave` | the rows, the bank of buffers and the flushes, over `WeaveRows` (EXTENDS) |
| `Weave_proof` | theorems about `WeaveRows`, the parameters that `Weave` looks up in it, and the bank |
| `MitsuLoop` | `mitsu70x_main_loop`, with the printer as its environment |
| `MitsuLoop_proof` | theorems about `MitsuLoop` |
| `CupsFilter` | `rastertogutenprint`'s pages and rows, with the Epson driver's row loop and `buffer-image.c` |
| `CupsFilter_proof` | theorems about `CupsFilter` |
| `StpSequence` | `sequence.c`: operators on one sequence (no state) |
| `StpCurve` | `curve.c` over it (EXTENDS) |
| `StpCurve_proof` | theorems about `StpCurve` |
| `MC*` | symmetry sets and constant values for TLC |

### DyesubJobs

One action per step of `handle_input` between two points at which an error or a
signal makes a difference: `ReadPage`/`ReadEnds` (the backend's `read_parse`),
`AppendPlain`/`AppendToLast`/`AppendCopies` (the three outcomes of
`__dyesub_append_job`, whole, with the buffers it allocates and frees),
`PageAppended` (`dyesub_joblist_canwait`), `StartEntry`/`PrintCopy`/
`PrintFails`/`EntryPrinted` (`dyesub_joblist_print` and `main_loop`),
`CleanupList`, `CreateFails`, and `Sigterm` between any two. A job is a record
with its buffer's address, the images on its sheet, copies, `can_combine` and the
size of the print. The printer-specific parts are seen only through what they
return: `read_parse` returns any page or panorama, `combine_jobs` takes
two small prints of the same size unless memory fails (`KeepsCombine` covers the
backends that leave `can_combine` set in the result and those that do not),
the polarity hook returns anything, `main_loop` prints copies or fails.
`StartEntry` goes through the list once: `dyesub_joblist_print` would go through it `list->copies`
times (backend_common.c:2065), which is 1, as nothing sets `collate` (57). `PrintCopy` is a
copy that came out, however often `main_loop` sent it: that a copy may be sent again to the
other deck is in `MitsuLoop`.

### StpList

Nodes are addresses, fields are functions of them, a freed address may come back.
The loops of the lookups and of `stp_list_destroy` run one node per step. `order` is
a history variable: the list the insertions and removals promise; the properties
compare links, caches and results with it. Indices asked for are -1 .. length, as
only indices past the end are refused by the code.

### RefCache, XmlCache

`RefCache` keeps both lists of every cache. `XmlCache` adds `cached_xml_files`,
the live trees, and the two ways of parsing. Callers free only what they parsed
uncached, as all of the library does.

### D4Link, D4Session

Every command goes through `Send` and `ReadAnswer`/`Timeout` (`sendReceiveCmd`),
with `then` the place its caller goes on; so the three levels of the C code
(commands, `OpenChannel`/`askForCredit`, `init_packet`/`writeAndReadData`) are
sequences of actions that share them. A packet is a record of its command, result,
byte 8 and credit; the sizes expected by each caller are kept, because they decide
what happens when a packet is taken for another (`Outcome`). `current` is history:
whether the packet answers the last thing sent. The printer answers once or loses
the answer, refuses, opens the service on any socket, and keeps its state when
`escputil` is killed (`Killed`, `Restart`). Up to `Late` packets may still be on their way when the
host gives up waiting (`TimesOut`, `GoesOn`), when a write is reported to have failed (`Send`), or after a
flush (`Unflushed`). `overtaken` is history: the host has gone on without a packet that may
still come, and has not thrown away all there was since.

`Start` is the probing of `initialize_printer` (escputil.c:881-926), with its attempts
(`ProbeTries`), the printers without D4, the known model that skips it, and the decision to force the printer out of
packet mode (`ForceD4`) from a buffer that may never have been written. `InitPacketEnds` is what
`initialize_printer` makes of `init_packet`'s result in each of the three places that call it; `socket_id`
stays what an earlier probe made of it. Two things have no count in the code, and none in the model:
an answer of zeros has `EnterIEEE` ask again (`Entered`), and a write that takes nothing is repeated
("hung").

### WeaveRows, Weave

`WeaveRows` translates the functions of `print-weave.c` that map a row and a subpass to
a pass, a jet and a start row: `calculate_raw_pass_parameters` and its inverse
`calculate_raw_row_parameters` for the six patterns, and `calculate_pass_map`, which moves
the passes of both ends of the page by whole separations and renumbers them. Loops that
search are the least number found; `qsort` is the rank of a pass among the others. Where an image
ends far above the bottom of its page, `first_postmapped_pass` is moved below zero and
`calculate_raw_pass_parameters` is called with negative numbers, though its comment
(print-weave.c:155) says `>= 0`; `CDiv` and `CMod` are the division of C for these.

`Weave` is one action per call of the driver: `stp_write_weave` (one row, with the ink
its colours have; everything `stp_write_weave` calls is part of it: setting up passes, filling in lines
above the first, appending, counting, sending the passes that end here) and
`stp_flush_all`. A line is its row, its subpass and whether it has ink. The flush
function is ESC/P2's (`stpi_escp2_flush_pass`, `set_vertical_position`), because that is
where a pass gets its place on the paper; `sent` is the history of passes with it. What the driver's model
says of the printer is part of the job: the least number of jets to announce (`min_nozzles`) and the first of
them that is used (`nozzle_start`), with the lines of padding that they cost, whether the head is told to move by
zero (`send_zero_pass_advance`), and the initial offset. Channels that are split over several commands
(`split_channels`) are left out: they cut the line of a jet in columns, and every part has the same row.

### MitsuLoop

The backend is the steps of `mitsu70x_main_loop` between which the printer is asked
something: `Convert`, `mitsu70x_wakeup`, `SelectDeck` (the status, deck selection and
the three ways to give up), `CheckMemory` (memory, job id, header), `SendJob`, `Poll`
(errors of the deck, state of the job, early return, the other deck), `CallAgain` (the
next collated copy, `dyesub_joblist_print`; only if `collate` were set), `TransferFails`, and `sigterm_handler`
between any two. Between any two steps the printer loads, prints, cools down, jams with or
without losing the sheet, and is cleared (`Load`, `Expose`, `Cooled`, `Jam`, `Clear`).
What is assumed of it, since no source says: its status names the job sent last, a
sheet that an error ended is reported as ended abnormally, an error stops one deck, and its
memory holds `Banks` unfinished jobs. It may hold jobs of earlier backends, with any
id. `left` is history: how `main_loop` stopped watching a sheet. The rows of a
raw job (`raw`) may fail to arrive without anybody looking; the printer then ends the job abnormally. `DyesubJobs` sees this
loop as `PrintCopy` and `PrintFails` only; `MitsuLoop` says what the success it reports
there is worth.

### CupsFilter

`main`'s loop is `NextHeader`/`NoMoreHeaders` (`CUPS_READ_HEADER`, `initialize_page`),
`StartPage` (`stp_start_job` and `stp_print` up to the row loop, with `stp_verify`),
`EndPage` (`purge_excess_data`, the next page) and `EndJob`. The row loop of
`escp2_print_data` is one action per line of paper, by where the line comes from: the line
before (`DuplicateLine`), `Image_get_row`, or on a back side that the printer cannot
turn, the buffered image, which first reads all lines of the page, one `Image_get_row`
at a time (`FillBuffer`), and then hands them out in reverse (`GetBufferedRow`). `Image_get_row` is two
steps: `GetRow` takes the flag into `tmp_image_status` (1567), and `ReadRow` or `FillBuffer` reads the
pixels (1597-1615) and reports what was taken. `cancel_job` (SIGTERM) comes between any two steps, these included.
A line is <<page, number>>; `sheet`, what is on the paper, `readBefore`, where the stream stood when the signal
came, and `underWay`, the line whose call had taken the flag then, are
history. The branches of `Image_get_row` for a NULL image (1574-1580) and a row out of order (1631-1634)
are not reached: the image is there while a page is printed, and its driver asks for rows in order. ESC/P2 stands for the drivers, because its loop is the common one (the
scale's quotient and remainder, `errline != errlast`) and it uses the buffered image. What
the program does after a division by zero is "crashed".

### StpSequence, StpCurve

`StpSequence` has one operator per function of `sequence.c`, on a record of the fields of
`stp_sequence_t`; the seven copies in other types are one field, `converted`, which holds the points they
were made of. `StpCurve` is one action per call of `curve.c` that changes the curve or what it
keeps, in any order: the setters, `stp_curve_rescale`, `stp_curve_resample`, `stp_curve_set_gamma`,
copying and reversing (the caller goes on with the result), and the three reads that compute and keep
something (`stp_curve_interpolate_value`, `stp_curve_get_range`, `stp_curve_get_*_data`).
`stpi_curve_set_points`, `clear_curve_data` and `compute_intervals` are part of the calls that
use them. `interval` is not the deltas but the points and the type they were computed from.

Heights are compared, not computed. Numbers are a few integers, and an infinity that is not
`Finite`; NaN is left out. What `stp_curve_rescale` makes of a height is a member of
`Compositions`; a resampled point is any number within the limits that its neighbours, the
bounds or the power set (`DensePoint`, `PiecewisePoint`, `GammaPoint`). Reading a delta where there are none
is "crashed"; a position past the last delta, which the check of curve.c:1148 lets pass, may be (`PastDeltas`).

## 3. Runs

| Run | Configuration | Checks | Shows |
|---|---|---|---|
| `merge` | 3 pages of 1-2 copies, 2 sizes, 4 buffers | `NothingLeaks`, `HeldPagesMove`, `PrintsTheDocument` | refinement of `DyesubPrinter` with errors and SIGTERM anywhere |
| `faults` | 4 images, up to 3 copies, panoramas, malloc fails, 5 buffers | `TypeOK`, `HeapSafe`, `NeverOverprints`, `InOrder` | whatever is lost, nothing is freed twice, printed twice or overtaken |
| `lost_copies` | 2 pages of 3 copies | `SuccessMeansPrinted` | violated, see findings |
| `list_lookup` | up to 5 nodes with 2 names, up to 9 of one name | `WellLinked`, `CachesCoherent`, `IndexLookupRight`, `NameLookupRight` | every sequence of calls leaves links, caches and lookups right; a lookup by name that walks the list finds the first of the name |
| `list_insert` | insertion before a node | `WellLinked` | violated, see findings |
| `xml` | 3 addresses, 2 files, 2 paths | `ListsAgree`, `RecordsLiveNodes`, `CachedNodesLive`, `ReturnsWhatWasAsked` | caches hold live trees of the right document, the assertions never fire |
| `d4` | 2 sockets, 2 questions, 2 runs of escputil, `Late = 1` | `TypeOK`, `DataOnOpenChannel`, `AnswersTested`, `OwnAnswer`, `EverySessionEnds` | a link that loses, refuses and is late with one answer at a time: from when to when answers belong to their commands, and that data goes to open channels then; that what is accepted was tested; that every run ends |
| `weave` | 331 jobs of 1-4 jets, separations 1-4, 1-2 colours, printers that announce jets they do not use | `LinesInPlace`, `EveryLineOnce`, `PassesConsecutive`, `SlotsNotStolen`, `BuffersSuffice`, `RowAndPassAgree` | every line of a page is printed once at its place, and the buffers suffice; which lines of very short images are not |
| `mitsu_loop` | 1-2 decks, 2 copies or 2 rounds, raw or not, 1 error besides those at the start, leftover jobs | `TypeOK`, `EndedMeansPrinted`, `OkMeansPrinted`, `OneExtraPerError`, `HoldOnlyWithoutDeck`, `ReturnsOrBlocked` | what the statuses that `main_loop` returns mean for the paper |
| `cups_filter` | 3 pages, 2-4 lines read, 1-5 printed, back sides turned, the stream may break off | `TypeOK`, `LinesInPlace`, `Aligned`, `CancelStopsReading`, `PagesOnStartedPrinter` | whatever is skipped, repeated, cut off, buffered or cancelled, lines and pages are found in their places |
| `curve` | curves of 2-3 points or pairs, wrapped or not, two pairs of bounds to set, two compositions | `RangeRight`, `DerivedFresh`, `PointsKept` | whatever calls came before, kept ranges, copies and deltas are those of the points; only the calls that `Careless` names take a curve out of its bounds or open it |
| `curve_deltas` | the same | `DeltasAtHand` | violated, see findings |

The types of `StpList`, `XmlCache` and `Weave` are checked with `WellLinked`,
`RecordsLiveNodes` and `BuffersSuffice`, that of `StpCurve` with `RangeRight`, which include `TypeOK`.

Every property of a passing run has a mutant in `PROJECT.json`: a plausible bug in
one definition (a swapped order, a forgotten reset, a dropped count) that makes TLC
find the property violated. The mutated forms stand in the modules beside the
definition, marked "Mutant".

### Bounds and why they are enough

* **Dye-sub.** The list's three slots and `MAX_JOBS_FROM_READ_PARSE` are the
  source's. An append looks only at the last entry and the new job, so three pages
  reach every case twice (a merged entry followed by another merge); four images
  fill the list and overflow it with a panorama behind a held page. Copies enter by
  `<= 1`, parity and `- 1 = 1`, so 1, 2 and 3 are representative; the run `merge`
  leaves 3 out because there the code loses copies (`lost_copies`), and panoramas
  because a full list then drops a panel. Buffers: at most three entries, three
  parsed jobs and one merge, bounded in turn by the images.
* **List.** The walk from the cached node is taken in the second half from five
  nodes on, in the first half only from eight on (a neighbour of the cached node needs no
  walk), so lists grow to nine. Of the lists that differ in their addresses
  only, `CONSTRAINT Representative` keeps the ascending one: nodes are only compared, and
  insertion and removal clear the caches. With two names five nodes give the cached
  node, its neighbour, the node of the index cache and two others; longer lists have one name.
* **XML.** Two files times two paths give two caches with two items; the third address
  lets a freed one be reused while another is cached.
* **D4.** One try on each level (`ProbeTries`, `InitTries`, `OpenTries`, `CreditTries`, `MaxRequests`, `DataTries`
  are 1; the code has 3, 5, 5, 10, 2 and 5) still reaches the first try, a retry and giving up, since each counter is tested before it
  is counted. Two questions of different kinds are needed
  for an answer to be taken for another's; two runs for what the first leaves
  behind; two sockets for the service to move. One late packet is enough to part commands and answers, and it reaches
  every place that reads or flushes; more of them are `AnswersAreTested`'s (section 5). `MaxCredit` bounds outstanding packets:
  with two, a printer that got credit when the channel was opened takes it for the question, too.
* **Weave.** The families in `MCWeave` vary one thing each: the pattern (a head with four
  passes per sub-block, the smallest in which all differ), oversampling in each
  direction, images that start in the moved rows or below, and that end near the bottom or
  far from it, colours half a separation, one separation or more than a head apart,
  images shorter than the separation, lines without ink, and printers that announce more jets than are used, move by zero
  or have an initial offset. Heads have up to four
  jets; nothing in the arithmetic but `gcd`, quotients and remainders depends on the numbers,
  and 1, 2, 3 and 4 give coprime, equal and dividing pairs. Pages are at least three heads
  high. On most of them the tables of the two ends overlap, as the comment at print-weave.c:535 fears
  (`EndsApart` in `Weave_proof`, which is that the overlap does no harm whatever the sizes, holds for 192
  of the 331 jobs), and the properties hold for these, too; on pages of about two heads or less they need not (section 4). Not in the instance: the pattern
  `ascending_3x`, which the repository's weave test says is broken (run-weavetest.test.in), and more
  oversampling than jets, which no driver asks for.
* **MitsuLoop.** Two copies are one left to its deck and one that must be watched; two
  rounds are one call with a fresh header and one with that of the last sheet. Errors that are there
  at the start and one that comes give a job with one deck left, none, and one that
  fails while it prints. Ids wrap at 6 and start at 5, so that 0 is skipped and the ids of the leftovers
  come back. Memory for two jobs is filled by one leftover and one sheet.

* **CupsFilter.** A front, a turned back and a front again. Of a page of four lines the driver
  takes 1, 3, 4 or (it thinks) 5, and prints them on 1 to 5: equal, enlarged with and without a
  remainder, reduced so that lines are skipped, cut off so that lines are left to be purged. One
  header fails verification, one has a negative height. The stream may break off after any line.

* **StpCurve.** Callers give two heights or pairs of 0 and 1, so a curve has two points or, wrapped
  or resampled, three, and six numbers when `stp_curve_set_data` allocates for pairs. `One` is 2, so that
  there is a position and a height between 0 and 1.0. Bounds are those of a new curve, (0, 2), or -1..1 or
  1..2: inside and outside of the points there are, with and without a negative lower one. One composition negates
  (refused for bounds whose negation is not finite, allowed for -1..1), one is a power
  that turns the positive numbers over and takes 0 to infinity. Adding is the third mode and
  differs from multiplying by a positive number in nothing the model sees. Setting the first and the second
  point are the two cases of a wrapped curve. `VIEW` takes states for one that differ in the ends of a range
  that is to be scanned again: nothing reads them before.

### Fairness

* `DyesubJobs`: weak fairness of `handle_input`'s own steps. It is one thread that
  waits for nothing but the stream and the printer; both answer, if only with an error
  or a timeout (`PrintFails`, `ReadEnds`). `Sigterm` has none.
* `D4Session`: weak fairness of `Host`. Every read and every single write of `d4lib.c` runs under
  a timer (`SET_TIMER`), and reading and flushing have counts (`count >= 100`, `count = 200`). Two loops have none:
  `EnterIEEE`'s `goto Loop` on an answer of zeros (836), and the writes of `writeCmd` (421) and `writeData`
  (1232) as long as they take nothing. The code promises no end there, and fairness gives none: the first goes
  on as long as the printer answers zeros, the second is the state "hung", which no step of `Host` leaves.
  `EverySessionEnds` therefore has `Responds` for a hypothesis: from some time on, the printer does
  neither. `Killed` and `Restart` have none.
* `MitsuLoop`: weak fairness of the backend's loops, of waking, and of loading, printing
  and cooling on each deck, all without an error: `sleep(1)` and `goto top` go on for
  ever, and so does a deck that works. Nobody has to clear an error, no transfer has to
  fail, and so `ReturnsOrBlocked` has a second alternative: sheets on decks whose errors
  nobody clears fill the memory, and `main_loop` asks again for ever.
* The other modules state safety only. Deadlock is checked in every run but `weave`,
  where the page ends (`stp_flush_all` or `stp_abort`); the other final states have an
  explicit stuttering step (`Finished`, `Aborted`, `Returned`).

## 4. Findings

Where the code does something else than the repository says, the run checks the
quoted line and TLC finds it violated.

* `lost_copies` (backend_common.c:1883): merging the first copy of a page with
  the last entry keeps only a single left-over copy; with three copies two are lost
  and the job's buffer leaks, and the status is `CUPS_BACKEND_OK`, "Success".
* `list_insert` (print-list.c:622): `ln->prev` is tested before it is set, so
  inserting before a node, as list.h:276 documents, makes a cycle. All callers in
  the library pass NULL.
* `curve_deltas` (curve.c:898): `stp_curve_set_point` frees the deltas and leaves
  `recompute_interval` alone, of which curve.c:64 says "Do we need to recompute the deltas?".
  Interpolate, set a point, interpolate again: the second interpolation reads `curve->interval`,
  which is NULL.

Other things the modelling met, in the models as the code has them:

* *Weave.* `stpi_flush_passes` stops at the first pass number that no line was written
  for, also when everything is flushed. An image of fewer rows than the separation
  has such numbers (smallest: 2 jets, separation 2, one row), and so has a gap between the rows
  of two colours; what comes behind is not printed. `EveryLineOnce` says exactly which
  lines these are, and `PassesConsecutive` when there are none; the comments at
  print-weave.c:849 and :867 number the passes consecutively without that condition.
* *Weave.* The FIXME at print-weave.c:535 asks that `first_normal_pass` stay at or before
  `first_postmapped_pass`. Where it does not, and passes are moved at the top, two passes can get one number and two
  rows one jet of it: 2 jets, separation 2, oversampling 2, four rows on a page of four rows. Every such
  page that was tried is less than about twice as high as the head; run-weavetest has none below five
  heads. `RowAndPassAgree`, `PassesConsecutive`, `LinesInPlace` and `BuffersSuffice` fail there; that no line
  is printed twice does not (`NoLineTwiceHolds`).
* *MitsuLoop.* A job id is compared only with the one the last status named (the search
  for collisions, mitsu70x:2053, is under `#if 0`), while `attach` takes the first id from the
  CUPS job; the end of a leftover with the same id is taken for ours
  (`EndedMeansPrinted` has that alternative, `OkMeansPrinted` excludes such sheets).
* *MitsuLoop.* `hdr->deck` is overwritten with the deck that was chosen (2081), and read
  as the user's choice by the next collated copy (1793); from then on an error holds the job
  though the other deck could print it. `HoldForCause` is therefore about `round = 1`.
* *MitsuLoop.* An error that comes after the sheet is finished has the copy printed again on a
  printer with two decks, and the failure of a copy that was left to its deck goes unnoticed:
  `OneExtraPerError` and `OkMeansPrinted` say how far this goes.

* *CupsFilter.* `stp_end_job` verifies the settings of the last page once more: when a later page
  fails verification the end of the job is not sent, and the printer stays as the job set it
  up (`EndJob`; rastertogutenprint.c:1421, print-escp2.c:4541).
* *CupsFilter.* `stp_verify` accepts a height of zero, though its message says "Height must be
  greater than zero" (printers.c:881); the row loop divides by it (print-escp2.c:4377, "crashed").
* *CupsFilter.* What `cupsRasterReadPixels` returns is not looked at (1606): a stream that breaks off
  gives the line before once more, and the job succeeds. `LinesInPlace` leaves such pages out.
* *CupsFilter.* The table of the buffered rows has nine bytes a row and no room for the NULL
  that ends it, by which it is freed (buffer-image.c:76, :111). Allocations are not modelled.
* *CupsFilter.* A driver returns 2 for a cancelled page ("abort requested by the driver",
  printers.h:193), which `main` takes for success (rastertogutenprint.c:1391): the pages that follow
  are started, each up to its first line, and the status is 0.
* *StpCurve.* What `Careless` names. New bounds are not compared with the points there are.
  `stp_curve_set_subrange` looks at the range of the curve it writes to, not of what it puts in, and leaves
  the last point of a wrapped curve though the first changed (curve.h:117: "A wrapped curve has the same
  value at x=0 and x=1"). `stp_curve_set_data` on a curve of n pairs allocates as for pairs, and the
  second half is zeros (`piecewise` is reset after `stpi_curve_set_points`, 632). A negative power
  turns the bounds over, and `stp_sequence_set_bounds` refuses them (1014). Reversing pairs
  makes a sequence with bounds 0..1 (502), and a wrapped one need not begin at 0 any more.
  `stp_curve_set_interpolation_type` leaves deltas that were computed for the other type.
* *StpCurve.* `stp_curve_set_gamma` fills two points by resampling, and one of them is a power
  of 0 with a negative exponent, that is infinite; interpolation turns the curve the other way
  round (curve.c:1261, `fgamma > 0`, against `< 0` in `interpolate_gamma_internal`).
  On a piecewise curve it leaves no points at all (1204).
* *XmlCache.* A cached tree that a caller frees stays in its cache, as
  `stp_xml_free_parsed_file` looks for it under its address instead of its name (xml.c:438). No
  caller of the library does so.
* *D4Session.* `askForCredit` may return 0 after its retries, which its caller takes for
  success (d4lib.c:1335), although d4lib.c:1143 says it asks "as long as the returned credit is 0".
* *D4Session.* `sendReceiveCmd` takes the next packet for the answer, whatever it answers
  (d4lib.c:751), though its header says "send a command and get the answer." (733): after one late answer all following
  ones are off by one, until a flush. `OwnAnswer` and `DataOnOpenChannel` without `~overtaken` are violated in the run `d4`.
* *D4Session.* `writeAndReadData` leaves its loop after the last attempt without looking at what the test said
  (d4lib.c:1349), though its header has the test as "function to verify buffer contents" (1317): with more late packets than
  attempts, an error packet, a reply to a command or the answer to another question is returned as the answer. With `DataTries = 0`
  and `Late = 2`, TLC finds the conclusion of `AnswersTested` violated.
* *StpList.* A lookup by name or long name "get[s] the first node with name" by its comments (print-list.c:365, :439). The
  caches answer before the list is walked (381-407): where several nodes have a name, the node behind the cached one, or
  the one in the index cache, is returned though an earlier one has the name, too. `NameLookupRight` asks for the first of
  a lookup that walks; with that for every lookup, TLC finds it violated by three nodes of a name.
* *StpCurve.* `stp_curve_interpolate_value` compares the position with the real point count (curve.c:1148), which
  is one more than the points of a wrapped curve, though curve.h:570 says that it "returns FALSE if 'where' is less
  than 0 or greater than the number" of points. A wrapped curve of two points, interpolated between 2 and 3, has `curve->interval` read
  past its end (1105); so has an open curve of n points between n - 1 and n, which the header permits. The model may crash there.

## 5. Proofs

`DyesubJobs_proof` proves, for every list length, number of images, copies, kinds,
polarities and buffers that satisfy `JobsAssumption`:

* `TypeCorrect`: `Spec => []TypeOK`
* `HeapIsSafe`: `Spec => []HeapSafe`, that is: no buffer is freed twice, no job refers to a freed
  buffer, and no two jobs share one, whatever is merged, split, dropped or cleaned up
* `Inductive`: the invariant behind both
* `DocumentOrder`: `Spec => []InOrder`, by `OrderHolds`
* `NothingOverprinted`: `Spec => []NeverOverprints`
* `PairwiseNeverLeaks`: `ASSUME Pairwise PROVE Spec => []NothingLeaks`
* `PrintsSafely`: `ASSUME Pairwise PROVE Spec /\ [][~CreateFails]_vars => Printer!PSafety`, the refinement of
  `DyesubPrinter` but for its fairness, and `PrintsWithMemory`, the same for `~MallocMayFail`.

The invariant is `IInv == TypeOK /\ HeapSafe /\ InLoop`. `HeapSafe` alone is not
inductive: that the buffer freed by a merge belongs to no other job needs the jobs
and the list typed, and `PrintCopy` reads `list[next]`, which needs `InLoop` (inside
`main_loop`, `next` is an entry of the list) for `TypeOK`. There is one lemma per
action that touches jobs (`ReadPageKeeps`, `AppendPlainKeeps`, `AppendToLastKeeps`,
`AppendCopiesKeeps`, ...), resting on lemmas about the operators: `AddJobFacts` (what
a list owns after an append, full or not), `TailFacts`, `FrontFacts`, `HeapFacts`.
The argument of the two merges is the one the C code relies on tacitly: of the
structures that share a buffer exactly one ends up in the list or in `cleanup_job`.
`Buffers` need not be finite and `MallocMayFail` and `KeepsCombine` may be either.

`InOrder` looks at the paper only. `OrderInv` says it of everything an image passes through: the
images on paper, of the entries still to print, of the jobs read last, and of the page to come
follow one another (`AtMost`). A job keeps one page's images (`Alike`) until it is merged, and the
entry in print may repeat a sheet only of one page (`SheetOK`): else its second copy would bring the first
page behind the second.

`NeverOverprints` counts, and a count over a list of jobs is a sum, which is awkward to reason about here.
`OverInv` numbers instead: the exposures of an image that were made (`OutAt`) and those to come (`Exposures` of
the jobs in `Held`) have each a number of their own among `1 .. requested` (`Numbered`). Reading a page hands
out its numbers, splitting and merging move them, printing a copy moves one to the paper, and losing
a job drops them; `NeverOverprints` follows, since an injection into `1 .. requested` bounds what it numbers.

`NothingLeaks` needs the hypothesis `Pairwise`: pages of one or two copies, one job to a read. It is the case that
`__dyesub_append_job` is written for, and the run `merge` has it; with three copies the
code leaks, as the run `lost_copies` shows. `LeakInv` is that what is allocated is what
the list and `jobs` own, and that the list has a slot left when a job is to be appended, which holds because
`handle_input` prints the list whenever it cannot wait for one more.

For `PrintsSafely` the abstract list of images to expose is a concatenation over the entries of the list and the jobs
at hand (`Pending`). What concatenation does to an append is proved without induction: `FlattenSeq` is a
choice among functions that satisfy a recursive equation; two of them agree, and one exists, by the least index at
which they would not (`FlattensAgree`, `FlattensExists`), and so it is computed for the empty list, one job and
an append (`FlattenConcat`). `JobExposures` and `ListExposures` say this of jobs, `PendingIs` of each place of
the program, and there is one lemma per action from the invariants: reading a page is `Accept`, a printed sheet is
`Expose`, an error is `Fail`, the end is `Succeed`, and merging and splitting are stutters
(`MergedExposures`, `PairedExposures`: the images of the two jobs, in the same order and number).
`InitImplements` and `StepImplements` collect them. `StatusInv` adds that every job has an image and that a failure
leaves the loop; `LeakInv` that a slot is free when a job is appended.
Both hypotheses are needed: three copies and panoramas lose copies in the code (`lost_copies`), and when the list
cannot be created (`CreateFails`) the page just read is dropped without an error, which the
abstract printer has no step for. The run `merge` has neither.

`D4Session_proof` proves for every number of sockets, late packets, questions, sessions and attempts on every level
(`LinkAssumption`, `SessionAssumption`):

* `TypesHold`: `Spec => []TypeOK`
* `AnswersAreOwn`: `Spec => OwnAnswer`, an action property
* `DataIsOnOpenChannel`: `Spec => []DataOnOpenChannel`
* `InTime`: the invariant behind these two
* `AnswersAreTested`: `Spec => []AnswersTested`.

The C code compares no answer with its command, so the argument is about where a packet
can be. `Together` is `TypeInv /\ (~overtaken => D4Inv)`, and `D4Inv` says how the two sides stand while
nothing is overtaken. `WireInv`: there is one packet at most, and only while an answer is waited for
(`answer`), data is read (`read`), or after a session's end until `Start` has flushed it;
hence every command is sent on an empty wire (`SendFacts`). `AnswerInv`: what is then on
its way has the type of the command, and a good answer to `Credit` comes from an open
channel. `GivenInv` keeps that until `writeAndReadData` tests it. A step that goes on without a packet makes
`overtaken` true, and only a flush that leaves nothing makes it false again (`FlushKeeps`); all of them are
where neither an answer nor data is waited for, so that `D4Inv` holds again from there, whatever was before. That the results of
`init_packet` and of `OpenChannel` mislead their callers does no harm: between the answer
to `Credit` and the write no other command is sent. `SendKeeps` is the one lemma for all
places that send a command, `QuietStepKeeps` the one for steps that neither wait
nor write.

`AnswersAreTested` counts. `WireBound`: where a command or a question is sent at most `Late` packets are on
their way, while it is waited for at most one more, and each packet of data that was read in vain is one of these. The last
attempt of `writeAndReadData` takes a packet untested; by then as many were read in vain as there are attempts and one, so that
with `Late <= DataTries` none is left to take.

The ranges in `TypeOK` are not inductive, because the counters are raised in one place and tested in
another, with an answer between. `TypeInv` adds that an attempt to open a channel is not used
up before its answer (`OpensOK`), and that whoever asks has a question left (`AskingOK`), also while the link is
initialised again under it; `At` is the place the program is at, or will be with its
answer.

`MitsuLoop_proof` proves for every set of jobs, memory of the printer, range of job ids,
leftovers and number of errors (`PrintjobAssumption`, `PrinterAssumption`):

* `HoldsForCause`: `Spec => HoldOnlyWithoutDeck`. `DeckChosen` is the invariant it needs: a chosen deck is one
  of the printer's, and the first call still has the deck that was asked for.
* `TypeCorrect`: `Spec => []TypeOK`, with `IInv`: a call that goes on has a copy left, the
  sheet it watches is the last one, and goes to the deck that was chosen.
* `OneSheetPerError`: `Spec => []OneExtraPerError`. The bound on the sheets is not
  inductive. `Budget` is: the sheets sent, plus the copies left, plus one for an error of
  the chosen deck that `main_loop` has not seen (`Alarm`), are at most the copies of all
  rounds, plus the errors reported, plus one while a sheet is in hand (`InHand`). Only
  `Jam` raises the right side without a sheet, and only the poll that sees the error spends it.
* `EndsAreTrue`: `ASSUME EnoughIds PROVE Spec => []EndedMeansPrinted`
* `OkIsTrue`: `ASSUME EnoughIds PROVE Spec => []OkMeansPrinted`

The last two say that a status about an id is about the sheet it is taken for, and the code compares
an id with the one before it only. `EnoughIds` is what makes that do: the copies of all rounds and the errors
are fewer than the ids (2^16 in the printer; by `OneSheetPerError` a call then sends fewer sheets
than there are ids). `OwnIds` says that the ids of our sheets count on from one another, around
the end at most once; with `EnoughIds` they differ (`OwnIdsDiffer`). `LoopIds` ties `jobid` and the
header to the last sheet at each place. `CopiesInv` has the copies: those accounted for (`Accounted`:
ended, left early or left to their deck) plus those to go are those of all rounds so far. `LeftInv` says
that a caller who waits on one deck leaves no sheet alone.

`CupsFilter_proof` proves, for every set of headers (images and papers of any height), any number of
pages, with and without turned back sides and broken streams (`FilterAssumption`):

* `TypeCorrect`, `LinesAreInPlace`, `HeadersAreFound`, `CancelIsHeeded`, `PrinterIsStarted`: the five
  properties of the run `cups_filter`
* `Inductive`: the invariant behind them.

Its parts are `ScaleInv`, `StreamInv`, `SheetInv`, `MemoryInv`, `PrinterInv` and `ReadInv`. The
scale is an equation: `errline * printed + errval = y * adjusted_height`, with `0 <= errval < printed`;
so `errline` is the quotient that `ImageLine` names, and below `adjusted_height` as long as
`y < printed`. `MemoryInv` says what the driver holds between two lines: `in_data` is line `errlast`, and
the buffer is the lines read so far, in order. `StreamInv` ties `row` to the stream's position. `ReadInv` is `CancelStopsReading` for what
is still in memory: everything in memory and on paper has been read, and after the signal
what is in the memory of a page in progress was read before it or is the line that was under way (`Heeded`); a call
that took the flag before the signal reads just that line (`underWay`). `CallInv` is that such a call is for a
line that is not in memory.

`StpCurve_proof` proves, for curves of any length, any numbers, bounds, compositions and limit
(`SequenceAssumption`, `CurveAssumption`; of the finite numbers only that they are an interval
with 0 .. 1.0 in it):

* `RangeIsRight`: `Spec => []RangeRight`, with the types
* `DerivedIsFresh`: `Spec => []DerivedFresh`
* `Inductive`: the invariant behind both
* `SoundCurvesStaySound`: `Spec => PointsKept`, an action property.

`CurveInv` is the types, `SeqOK` (a kept range is the range, kept copies are of the points), fresh deltas,
and `PairsOK`: the points of a piecewise curve are pairs, with positions between 0 and 1, of which no
copies were made. The last is needed because emptying a sequence keeps its copies
(`stp_sequence_set_size`), as `stp_curve_set_gamma` does on a piecewise curve; and the positions
are finite numbers only while they are between 0 and 1 when they are turned. Each operator of `StpSequence` has a
lemma that it keeps `SeqOK`; `set_point` is the one that may keep a range, and there
the argument is that of sequence.c:297: a limit that is not the old number is still held by another point
or by the bound, and a new number within the range makes no new limit.

`PointsKept` needs `PointsInv` besides: the bounds are finite and in order, and a curve has no single point,
as resampling reads the point behind the one it begins at. There is one lemma per call. The exact
lemmas (`FrontExact`, `PointExact`, `ClosingExact`, `PointsExact`) say which point is what afterwards;
`SameCount`, that rescaling allocates exactly the points it writes; `Division`, that a resampled point lies
between two points there are. Of `Compositions` the proof uses that sums and products keep the order of
finite numbers or, for negative factors, turn it over (`CurveAssumption`); a power need not, which is one of the
`Careless` calls.

`XmlCache_proof` proves, for every set of caches, files, addresses and other clients (`XmlAssumption`: the caches of
the other clients are not those of the XML code, and names of files are no addresses):

* `ListsAlwaysAgree`: `Spec => []ListsAgree`, of `refcache.c`
* `LiveNodesRecorded`, `CachedNodesAreLive`, `WhatWasAskedIsReturned`: the other three properties of the run `xml`
* `XInvHolds`, `XInductive`: the invariant behind them.

`ListsAgree` is inductive with the types (`RefInv`); each operation has a lemma of what it does to the
items of its cache and that it leaves the others alone (`PositionFacts` says what a lookup finds). The other
three are not: that a cache's tree stays live when a caller frees one needs to know that callers own
uncached trees only (`OwnedAreUncached`) and that cached trees are recorded under their cache
(`CachedAreRecorded`); that a new tree may take a freed address needs that an address is recorded if and
only if a live tree has it.

`StpList_proof` proves, for lists of any length, every set of addresses, names and data, and nodes whose addresses come
back, `ASSUME AppendsOnly`:

* `ListWellLinked`, `ListCachesCoherent`, `IndexLookupsRight`, `NameLookupsRight`: the four properties of
  the run `list_lookup`
* `ListInvHolds`: the invariant behind them.

`AppendsOnly` is that `stp_list_item_create` is called with NULL for `next`. Every caller in
the library does so, and the run has it (`Befores = {NULL}`); the run `list_insert` shows that the links are wrong
otherwise. `ListInv` adds to the properties what the walks know on their way. `IndexWalkOK`: the node
in hand is the one at the index in hand, and the index asked for lies ahead, so that the end of the list is
not met first. `NameWalkOK`: no node passed has the name, so that the node a walk ends at is the first of it. `IndexCacheOK`: the cached node is the one at the
cached index, for which a removal before it has to clear the cache. Its lemmas say what `Append` and
`RemoveAt` do to the order, and so to the links of each node (`RemoveAtFacts`).

`Weave_proof` proves, for every head and every page that satisfies `JobsAssumption` (positive sizes, no more
oversampling than jets, offsets of the colours from zero up) and every pattern but `ascending_3x`:

* `RawLookup`: `calculate_raw_row_parameters` returns the one pass, and the one jet of it, that
  `calculate_raw_pass_parameters` puts over a row in a subpass
* `LookupsAreInverse`: `LookupsInverse`, that is the same for every row of a job, together with the assertions of
  `stpi_calculate_row_parameters`
* `RowsAndPassesAgree`: `RowAndPassAgree` of the run `weave`, for jobs with `EndsApart`: besides, no
  two rows and subpasses share a jet of a pass, moved and renumbered as they are
* `NoLineTwiceHolds`: `NoLineTwice`, the part of `EveryLineOnce` that no line is printed twice and none that was not handed
  over with ink, for every page, `EndsApart` or not.

The argument for `RawLookup`: the advance and the number of passes of a sub-block are coprime once both
are divided by their greatest common divisor (`RawFacts`). Of as many consecutive passes of a
sub-block, therefore, exactly one has the row at a jet (`OneOfARun`: no two of them leave the same remainder, so that
each remainder is met; `CoprimeStep` has the arithmetic, by the least multiple that is one of both). The
two tables of offsets are inverse for five of the patterns
(`OffsetOfBlock`, `BlockOfOffset`); for `ascending_3x` they are not, which is what its weave test reports. The backward
walk of `calculate_raw_row_parameters` gets there before it has gone round a band twice, and what it carries
along (band, place in the band, offset) describes the pass it stands at (`RawRow`).
`PassOf` gives every pass its band and place, so that the two lookups meet.

For the page: `PageMap` says that the loops of `calculate_pass_map` end and that the passes of every row are
within its bounds, since later passes start at no smaller rows (`StartsGrow`); `SortPermutes`
that sorting by rank is a permutation; `PassmapNumbers` that `make_passmap` gives no number twice and stays in its range;
`NumbersDiffer` that the three ranges (top, middle, bottom) do not meet. A jet is moved against its
pass (`Renumbered`), so the row that a jet covers stays the same, and two rows that shared a jet of a pass
would share one in the raw weave, which `RawLookup` excludes (`JetsDiffer`). The parameters do not change while a page is
printed (`PageIsConstant`), so that the invariant is the function's.

`EndsApart` is that no pass is moved at the top, or `first_normal_pass <= first_postmapped_pass` after both were
moved, which is what the FIXME at print-weave.c:535 asks for. It holds for images that begin far enough below the
top of the page, and for images of a few heads that end near its bottom. Of the 331 jobs of the run it holds for 192.

`NoLineTwice` is about the bank, and needs nothing of the arithmetic but types (`RowTyped`, `PageFacts`): that a
row and subpass have some pass and some jet. Its invariant, `EachLineKept`, is `Tidy` and `HandedOver`. `Tidy`:
the lines with ink in the slots of the bank and in the passes sent are lines that were handed over, and no
two places hold the same one. `HandedOver`: those are of rows and subpasses before the ones at hand. Both passed TLC on
the jobs of the run first. A row brings lines that are not there yet (`NewLines`); a pass that takes over a slot
of another one loses its lines or appends to them, but copies none; what a flush sends is gone from its slot
(`FlushedTidy`). Printed twice would be a line at two places (`TidyPrintsOnce`). The loops over
colours, subpasses and passes to flush are folds, and a fold is again a choice among the solutions of a recursive equation: one exists,
and what each turn keeps the fold keeps, by the least turn at which it would not (`FoldExists`, `FoldSteps`).

Only model-checked:

* the liveness properties (`HeldPagesMove`, `EverySessionEnds`, `ReturnsOrBlocked`): out of the prover's reach
* of the refinement `PrintsTheDocument` its fairness: that what is pending is exposed or given up in the end
* of `Weave`: `LinesInPlace`, `PassesConsecutive`, `SlotsNotStolen` and `BuffersSuffice`, and of `EveryLineOnce` that at
  the end every line is printed that is not behind a missing pass. They need more of the moved passes
  than that their jets differ: how many are open at once, for any offsets of the colours, that their numbers have no
  gap, and where they start and end after the two ends were renumbered. `vmod` is sized for that by rule of
  thumb, and on the smallest pages it does not suffice (section 4), so that the theorems would be about
  `EndsApart` and more
* `RowAndPassAgree` for pages whose two tables overlap and whose top passes are moved: it is false on the smallest
  of them (section 4) and holds for the jobs of the run.

## 6. Plan

1. *Done.* `DyesubJobs`, its abstract printer, the refinement, the first theorems.
2. *Done.* `StpList`, `RefCache`, `XmlCache`.
3. *Done.* `D4Link`, `D4Session` with late answers, and its theorems.
4. *Done.* `WeaveRows`, `Weave`; `MitsuLoop` and its theorems; `CupsFilter` and its theorems;
   `StpSequence`, `StpCurve` and its theorems.
5. `XmlStart` (files loaded at start-up, printers registered) over `XmlCache`; composing
   two curves (`stp_curve_compose`) and `curve-cache.c` over `StpCurve`; the wait loops of one more backend, and the error paths of `read_parse`.
6. *Done.* Proofs of every safety property of the runs of `DyesubJobs`, `StpList`,
   `XmlCache` with `RefCache`, `D4Session`, `MitsuLoop`, `CupsFilter`, `StpCurve`.
7. *Done.* The arithmetic of the weave: `RowAndPassAgree` where the ends of the page are apart, and `NoLineTwice` for every page;
   the safety of the refinement of `DyesubPrinter`.
8. `SlotsNotStolen` and `PassesConsecutive` for pages without moved passes, where a pass starts one advance
   below the one before, and from them `LinesInPlace` and the end of `EveryLineOnce`.

## 7. Not modelled

Most of the repository's lines are here: the modelled components are the ones whose
correctness depends on the order of steps, and they are a small part of the code.

* Printer drivers (`print-canon.c`, `print-escp2.c`, `print-dyesub.c`, `print-pcl.c` ...):
  tables of models, and functions that write commands from them in a straight line.
* Colour conversion, channels, dithering, the values between the points of a curve: arithmetic on data.
* PPD generation, command filters, the user interface and the GIMP plug-in: text
  and layout.
* Mini-XML, packaging, translations: vendored or data.
* Of the modelled components: USB discovery and command lines of the backends; the
  other backends' `main_loop`s; mitsu70x's test mode, markers and conversion library;
  copying and sorted insertion of lists; start-up loading of XML files; the one-entry cache
  of row parameters, `repeat_count` and horizontal bounds of the weave, split channels, and the flush functions of
  drivers other than ESC/P2; composition of two curves, reading curves from XML, `curve-cache.c`, arrays, and
  the setters of a sequence in other types; options, the page's width and trimming, and other drivers' row
  loops in the CUPS filter; bytes on the D4 wire (`SafeWrite` repeats a whole buffer
  after a partial write), `readData` and `Exit`, which escputil never calls.
