-------------------------------- MODULE MCWeave --------------------------------
(* Weave on small heads: every job of a few families. *)
EXTENDS Weave

Job(head, passes, offsets, rows, first, page, strategy, blank) ==
    [jets |-> head[1], sep |-> head[2], osample |-> passes[1],
     v_subpasses |-> passes[2], v_subsample |-> passes[3],
     head_offset |-> offsets, line_count |-> rows, first_line |-> first,
     page_height |-> page, strategy |-> strategy, max_blank |-> blank,
     min_nozzles |-> 1, nozzle_start |-> 0,
     send_zero_pass_advance |-> FALSE, initial_offset |-> FALSE]

HeadSpan(head) == head[1] * head[2]
Fits(passes, head) == passes[1] * passes[2] * passes[3] <= head[1]

\* Every strategy on a head whose sub-blocks have four passes.
StrategyJobs ==
    {Job(<<4, 4>>, <<1, 1, 1>>, <<0>>, rows, first, 49, st, 0) :
        rows \in {4, 17}, first \in {0, 1, 17},
        st \in Strategies \ {"ascending_3x"}}

\* Heads and ways of oversampling; images that start in the rows at the top,
\* whose passes are moved, or below them, and end near the bottom or far from it.
PassJobs ==
    UNION {{Job(h, w, <<0>>, rows, first, page, "zigzag", 0) :
               w \in {x \in {<<1, 1, 1>>, <<2, 1, 1>>, <<1, 2, 1>>, <<2, 1, 2>>} : Fits(x, h)},
               rows \in {h[2], HeadSpan(h) + 1}, first \in {0, 1, HeadSpan(h) + 1},
               page \in {3 * HeadSpan(h), 3 * HeadSpan(h) + 1}} :
              h \in {<<1, 1>>, <<2, 2>>, <<3, 2>>, <<4, 3>>}}

\* Two colours whose jets are half a separation, or a whole head, apart.
ColourJobs ==
    UNION {{Job(h, w, o, rows, first, 4 * HeadSpan(h), "ascending", 0) :
               w \in {x \in {<<1, 1, 1>>, <<2, 1, 1>>} : Fits(x, h)},
               o \in {<<0, h[2] \div 2>>, <<0, HeadSpan(h) + h[2]>>, <<h[2], 0>>},
               rows \in {h[2], HeadSpan(h) + h[2] + 1}, first \in {0, 3}} :
              h \in {<<2, 2>>, <<3, 2>>}}

\* Images of fewer rows than the separation.
ShortJobs ==
    {Job(h, <<1, 1, 1>>, o, rows, first, 3 * HeadSpan(h), "zigzag", 0) :
        h \in {<<2, 2>>, <<3, 3>>}, o \in {<<0>>, <<0, 1>>, <<0, 4>>}, rows \in 1 .. 2, first \in {0, 2}}

\* Blank lines anywhere.
BlankJobs ==
    {Job(<<2, 2>>, <<1, 1, 1>>, <<0, 1>>, 5, first, 12, "zigzag", 2) : first \in 0 .. 1}

\* Printers that announce all jets of the head, or a jet that is not used besides;
\* that are told to move by zero, or move once by an initial offset.
Printers(jobs) ==
    UNION {{[j EXCEPT !.min_nozzles = j.jets + unused, !.nozzle_start = unused,
                      !.send_zero_pass_advance = zero, !.initial_offset = ~zero] :
               unused \in {0, 1}, zero \in BOOLEAN} : j \in jobs}

PrinterJobs == Printers({j \in ColourJobs : j.first_line = 3})

SmallJobs == PrinterJobs \cup StrategyJobs \cup PassJobs \cup ColourJobs \cup ShortJobs \cup BlankJobs
================================================================================
