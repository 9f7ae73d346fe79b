---------------------------- MODULE StpSequence ----------------------------
(***************************************************************************)
(* src/src/main/sequence.c: a vector of numbers with bounds, and two       *)
(* things derived from it that are kept until it changes: the range of the *)
(* numbers, and copies of them in other types.                             *)
(*                                                                         *)
(* Operators on one stp_sequence_t: what a function makes of it.  Indices  *)
(* count from 0 as in the source.  Numbers are integers, and those that    *)
(* are not Finite stand for infinities; NaN is left out.                   *)
(***************************************************************************)
EXTENDS Integers, Sequences

CONSTANTS
  Numbers,   (* the numbers there are                                       *)
  Finite,    (* those for which isfinite holds                              *)
  NULL

ASSUME SequenceAssumption ==
  /\ Numbers \subseteq Int /\ Finite \subseteq Numbers /\ 0 \in Finite
  /\ NULL \notin Seq(Numbers)

(* converted: the points of which copies in other types were made.         *)
SequenceType ==
  [data : Seq(Numbers), blo : Numbers, bhi : Numbers, rlo : Numbers, rhi : Numbers,
   recompute_range : BOOLEAN, converted : Seq(Numbers) \union {NULL}]

(* stp_sequence_create, whose upper bound is 1.0 *)
sequence_create(one) ==
  [data |-> <<>>, blo |-> 0, bhi |-> one, rlo |-> 0, rhi |-> one,
   recompute_range |-> TRUE, converted |-> NULL]

get_point(s, where) == s.data[where + 1]

set_bounds(s, low, high) ==
  IF low > high THEN s
  ELSE [s EXCEPT !.blo = low, !.rlo = low, !.bhi = high, !.rhi = high,
                 !.recompute_range = TRUE]

(* The copies stay when all points go. *)
set_size(s, size) ==
  [s EXCEPT !.data = [k \in 1 .. size |-> 0], !.recompute_range = TRUE,
            !.converted = IF size = 0 THEN @ ELSE NULL]

set_data(s, data) ==
  [s EXCEPT !.data = data, !.recompute_range = TRUE, !.converted = NULL]

set_subrange(s, where, data) ==
  IF where + Len(data) > Len(s.data) THEN s
  ELSE [s EXCEPT !.data = [k \in 1 .. Len(s.data) |->
                             IF k \in where + 1 .. where + Len(data)
                             THEN data[k - where] ELSE s.data[k]],
                 !.recompute_range = TRUE, !.converted = NULL]

(* Mutant: only a number outside the range changes it. *)
RangeWidens(s, where, number) == number < s.rlo \/ number > s.rhi

(* The number may be a new limit of the range, or the last to hold one.    *)
RangeMayChange(s, where, number) ==
  \/ number < s.rlo
  \/ number > s.rhi
  \/ get_point(s, where) \in {s.rlo, s.rhi}

Settable(s, where, number) ==
  /\ where < Len(s.data) /\ number \in Finite
  /\ s.blo <= number /\ number <= s.bhi

set_point(s, where, number) ==
  IF ~Settable(s, where, number) THEN s
  ELSE [s EXCEPT !.data = [k \in 1 .. Len(s.data) |->
                             IF k = where + 1 THEN number ELSE s.data[k]],
                 !.recompute_range = @ \/ RangeMayChange(s, where, number),
                 !.converted = NULL]

(* What the range is compared with: the points, and the bound the scan     *)
(* starts from.                                                            *)
Points(s) == {s.data[k] : k \in 1 .. Len(s.data)}

IsLeast(number, set) == number \in set /\ \A other \in set : number <= other
IsGreatest(number, set) == number \in set /\ \A other \in set : other <= number

IsRange(s, low, high) ==
  /\ IsLeast(low, Points(s) \union {s.bhi})
  /\ IsGreatest(high, Points(s) \union {s.blo})

(* stp_sequence_get_range: scan_sequence_range when it has to be.  The     *)
(* sequences it may leave: there is one.                                   *)
get_range(s) ==
  LET limits == Points(s) \union {s.blo, s.bhi} IN
  IF ~s.recompute_range THEN {s}
  ELSE {[s EXCEPT !.rlo = range[1], !.rhi = range[2], !.recompute_range = FALSE] :
          range \in {r \in limits \X limits : IsRange(s, r[1], r[2])}}

(* stp_sequence_get_float_data and the like *)
get_converted(s) ==
  [s EXCEPT !.converted = IF @ = NULL THEN s.data ELSE @]

(* stp_sequence_copy into a new one *)
sequence_copy(s) == [s EXCEPT !.converted = NULL]

Reversed(data) == [k \in 1 .. Len(data) |-> data[Len(data) - k + 1]]

sequence_reverse(s) == [s EXCEPT !.data = Reversed(s.data), !.converted = NULL]
=============================================================================
