------------------------------- MODULE WeaveRows -------------------------------
(***************************************************************************)
(* The arithmetic of the weave, src/main/print-weave.c: which pass of the  *)
(* print head prints a given row, with which jet, and where the head is.   *)
(*                                                                         *)
(* The raw weave repeats one block of passes without end.  The cooked      *)
(* weave bends it at the first and the last rows of the page, where the    *)
(* head would have to leave the paper: the passes of the two ends are      *)
(* moved by whole separations and renumbered by the row they start at.     *)
(*                                                                         *)
(* The pass map of a page whose image ends far above its bottom takes in   *)
(* passes of negative numbers, of which CDiv and CMod are the / and %.     *)
(* Every other quantity that the C code divides is non-negative or an      *)
(* exact multiple, so that \div and % are.                                 *)
(***************************************************************************)
EXTENDS Integers, Sequences, FiniteSets, FiniteSetsExt, TLC

Strategies == {"zigzag", "ascending", "descending", "ascending_2x", "staggered",
               "ascending_3x"}

gcd(x, y) == Max({d \in 1 .. x : x % d = 0 /\ y % d = 0})

\* Division as C does it, towards zero.
CDiv(a, b) == IF a >= 0 THEN a \div b ELSE -((-a) \div b)
CMod(a, b) == a - b * CDiv(a, b)

-----------------------------------------------------------------------------
(* The raw weave (raw_t).                                                  *)

initialize_raw_weave(separation, jets, oversample, strategy) ==
    LET advance == Max({1, jets \div oversample})
        blocks  == gcd(separation, advance)
    IN  [separation            |-> separation,
         jets                  |-> jets,
         oversampling          |-> oversample,
         advancebasis          |-> advance,
         subblocksperpassblock |-> blocks,
         passespersubblock     |-> separation \div blocks,
         strategy              |-> strategy]

\* The rows from the first jet of a head at its top position to one past its
\* last jet, rounded up to whole separations.
Span(w) == w.separation * w.jets

\* Mutant: the zigzag comes back on the even offsets.
ZigzagOnEven(w, block) ==
    LET n == w.subblocksperpassblock
    IN  IF block * 2 < n THEN 2 * block ELSE 2 * (n - block) - 2

\* The offset, within a sub-block, of the passes of the given sub-block.
SubpassOffset(w, block) ==
    LET n     == w.subblocksperpassblock
        third == (n + 2) \div 3
    IN  CASE w.strategy = "zigzag" ->
               IF block * 2 < n THEN 2 * block ELSE 2 * (n - block) - 1
          [] w.strategy = "ascending" -> block
          [] w.strategy = "descending" -> n - 1 - block
          [] w.strategy = "ascending_2x" ->
               IF block * 2 < n THEN 2 * block ELSE 1 + 2 * (block - (n + 1) \div 2)
          [] w.strategy = "ascending_3x" ->
               IF block * 3 < n THEN 3 * block
               ELSE IF 3 * (block - third) < n - 2 THEN 2 + 3 * (block - third)
               ELSE 1 + 3 * (block - third - n \div 3)
          [] w.strategy = "staggered" ->
               IF block * 2 < n THEN 2 * block
               ELSE IF block * 2 < n + 2 THEN 1
               ELSE 2 * (n - block) + 1

calculate_raw_pass_parameters(w, pass) ==
    LET perband == w.separation * w.oversampling
        inband  == CMod(pass, perband)
        block   == CDiv(CMod(pass, w.separation) * w.subblocksperpassblock, w.separation)
    IN  [startrow |-> Span(w) * CDiv(pass, perband) + w.advancebasis * inband
                        + SubpassOffset(w, block),
         subpass  |-> CDiv(inband, w.separation)]

\* The sub-block whose passes start at the given offset: the inverse that
\* calculate_raw_row_parameters computes for itself.
SubpassBlock(w, offset) ==
    LET n == w.subblocksperpassblock
    IN  CASE w.strategy = "zigzag" ->
               IF offset % 2 = 0 THEN offset \div 2 ELSE n - (offset + 1) \div 2
          [] w.strategy = "ascending" -> offset
          [] w.strategy = "descending" -> n - 1 - offset
          [] w.strategy = "ascending_2x" ->
               IF offset % 2 = 0 THEN offset \div 2
               ELSE (offset - 1) \div 2 + (n + 1) \div 2
          [] w.strategy = "ascending_3x" ->
               (offset \div 3) + (IF offset % 3 >= 1 THEN (n + 2) \div 3 ELSE 0)
                               + (IF offset % 3 = 2 THEN (n + 1) \div 3 ELSE 0)
          [] w.strategy = "staggered" ->
               IF offset % 2 = 0 THEN offset \div 2
               ELSE IF offset = 1 THEN (n + 1) \div 2
               ELSE n - (offset - 1) \div 2

\* The walk back from the pass that starts nearest above the row, pass by
\* pass and band by band, to the first one that prints the row in the wanted
\* subpass.  back is the number of passes walked; a walk of more than
\* MaxWalk(w) passes is taken for one that does not end.
MaxWalk(w) == 4 * w.separation * w.oversampling

calculate_raw_row_parameters(w, row, subpass) ==
    LET perband   == w.separation * w.oversampling
        suboffset == row % w.subblocksperpassblock
        block     == SubpassBlock(w, suboffset)
        band      == row \div Span(w)
        baserow   == row - suboffset - band * Span(w)
        inband    == baserow \div w.advancebasis
        rounded   == (w.advancebasis * w.oversampling) % w.jets
        At(back)  ==
            LET bands == IF back <= inband THEN 0
                         ELSE (back - inband + perband - 1) \div perband
            IN  [band   |-> band - bands,
                 inband |-> inband - back + bands * perband,
                 offset |-> (baserow % w.advancebasis) + back * w.advancebasis
                              + bands * w.separation * (w.jets - rounded)]
        Prints(at) ==
            /\ at.offset % w.separation = 0
            /\ at.inband \div w.separation = subpass
            /\ (at.inband % w.separation) \div w.passespersubblock = block
        found == At(CHOOSE back \in 0 .. MaxWalk(w) :
                        /\ Prints(At(back))
                        /\ \A b \in 0 .. back - 1 : ~Prints(At(b)))
        jet   == (found.offset \div w.separation) % w.jets
    IN  [pass     |-> found.band * perband + found.inband,
         jet      |-> jet,
         startrow |-> row - jet * w.separation]

-----------------------------------------------------------------------------
(* The cooked weave (cooked_t).                                            *)

\* Mutant: the passes keep the order of the raw weave.
KeepsRawOrder(s) == s

\* The passes in the order of their start rows, equal ones in their old order.
sort_by_start_row(s) ==
    LET Before(i, k) == \/ s[i].startrow < s[k].startrow
                        \/ s[i].startrow = s[k].startrow /\ i < k
        Rank(k) == 1 + Cardinality({i \in DOMAIN s : Before(i, k)})
    IN  [n \in DOMAIN s |-> s[CHOOSE k \in DOMAIN s : Rank(k) = n]]

\* The raw passes from .. to-1 of one end of the page, with the number each
\* is printed as and the separations it is moved by.  The passes
\* stagger_from .. stagger_to-1 are spread over the free separations.
make_passmap(w, first, from, to, stagger_from, stagger_to, maximal, separations) ==
    LET Raw(p)    == calculate_raw_pass_parameters(w, p).startrow - Span(w)
        Mirror(r) == IF maximal >= 0 THEN maximal - r ELSE r
        Onto(r)   == IF r < 0 THEN r % w.separation ELSE r
        byStart   == sort_by_start_row(
                         [i \in 1 .. to - from |->
                             [map |-> from + i - 1, startrow |-> Onto(Mirror(Raw(from + i - 1)))]])
        Spread(i) ==
            LET r == byStart[i].startrow
                k == (i - 1 - (stagger_from - from)) % (separations + 1)
            IN  IF /\ i - 1 \in stagger_from - from .. stagger_to - from - 1
                   /\ r \div w.separation < k
                THEN (r % w.separation) + w.separation * k
                ELSE r
        final     == sort_by_start_row(
                         [i \in 1 .. to - from |->
                             [map |-> byStart[i].map, startrow |-> Mirror(Spread(i))]])
    IN  [p \in from .. to - 1 |->
            LET i == CHOOSE k \in DOMAIN final : final[k].map = p
            IN  [pass    |-> i - 1 + from - first,
                 stagger |-> (final[i].startrow - Raw(p)) \div w.separation]]

calculate_pass_map(w, page_height, firstrow, lastrow) ==
    LET height    == Max({page_height, lastrow + 1})
        Start(p)  == calculate_raw_pass_parameters(w, p).startrow
        Within(p) == Start(p) <= lastrow + Span(w)
        OnPage(p) == Start(p) - w.separation < height /\ Within(p)
        limit     == lastrow + Span(w) + w.separation + 1
        premapped  == Min({p \in 0 .. limit : Start(p) - w.separation >= firstrow})
        normal     == Min({p \in premapped .. limit : ~(Start(p) < Span(w) /\ OnPage(p))})
        postmapped == Min({p \in normal .. limit : ~OnPage(p)})
        unused     == Min({p \in postmapped .. limit : ~Within(p)})
        above      == firstrow \div w.separation
        below      == (height - lastrow - 1) \div w.separation
        extra      == ((above + 1) * w.separation + w.advancebasis - 1) \div w.advancebasis
        fewer      == ((below + 1) * w.separation + w.advancebasis) \div w.advancebasis
        normal2    == IF normal > premapped THEN normal + extra ELSE normal
        post2      == postmapped - fewer
    IN  [rw                   |-> w,
         first_row_printed    |-> firstrow,
         last_row_printed     |-> lastrow,
         first_premapped_pass |-> premapped,
         first_normal_pass    |-> normal2,
         first_postmapped_pass |-> post2,
         first_unused_pass    |-> unused,
         premap  |-> IF normal > premapped
                     THEN make_passmap(w, premapped, premapped, normal2,
                                       premapped, normal, -1, above)
                     ELSE <<>>,
         postmap |-> make_passmap(w, premapped, post2, unused, postmapped, unused,
                                  height - 1 - w.separation * (w.jets - 1), below)]

\* The number a raw pass is printed as, and the separations it is moved by.
Renumbered(ck, pass) ==
    CASE pass < ck.first_normal_pass -> ck.premap[pass]
      [] /\ pass >= ck.first_normal_pass
         /\ pass >= ck.first_postmapped_pass -> ck.postmap[pass]
      [] OTHER -> [pass |-> pass - ck.first_premapped_pass, stagger |-> 0]

\* The jets of a pass moved by stagger separations that stay over printed rows;
\* phantom jets of those that were moved are above the first.
JetsUsed(ck, start, stagger, phantom) ==
    LET sep     == ck.rw.separation
        Over(n) == IF n > 0 THEN (n + sep - 1) \div sep ELSE 0
        missing == phantom + Over(ck.first_row_printed - (start + sep * phantom))
        used    == ck.rw.jets - Max({stagger, -stagger}) - (missing - phantom)
        lastrow == start + sep * (missing + used - 1)
    IN  [missingstartrows |-> missing,
         jetsused         |-> used - Over(lastrow - ck.last_row_printed)]

\* The pass, the jet and the extent of the pass that prints a row.
Cooked(ck, raw, move) ==
    LET start == raw.startrow - Span(ck.rw) + move.stagger * ck.rw.separation
        jets  == JetsUsed(ck, start, move.stagger, Max({0, -move.stagger}))
    IN  [pass             |-> move.pass,
         jet              |-> raw.jet - move.stagger,
         logicalpassstart |-> start,
         missingstartrows |-> jets.missingstartrows,
         jetsused         |-> jets.jetsused]

CookedRow(ck, raw) == Cooked(ck, raw, Renumbered(ck, raw.pass))

stpi_calculate_row_parameters(ck, row, subpass) ==
    CookedRow(ck, calculate_raw_row_parameters(ck.rw, row + Span(ck.rw), subpass))

\* The assertions of stpi_calculate_row_parameters on the row and its raw pass.
RowAsserts(ck, row, subpass) ==
    LET w   == ck.rw
        raw == calculate_raw_row_parameters(w, row + Span(w), subpass)
    IN  /\ row \in ck.first_row_printed .. ck.last_row_printed
        /\ raw.pass >= ck.first_premapped_pass
        /\ raw.pass < ck.first_unused_pass
================================================================================
