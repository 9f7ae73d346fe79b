------------------------------ MODULE StpCurve ------------------------------
(***************************************************************************)
(* src/src/main/curve.c: a curve is a sequence of points, equally spaced   *)
(* or (piecewise) pairs of a position and a height, that may wrap around   *)
(* or follow a power.  What is kept besides the points is derived from     *)
(* them: the range, copies in other types, and the deltas between them.    *)
(*                                                                         *)
(* One action per call of the library, in any order.  A call that is       *)
(* refused and changes nothing is no action.                               *)
(***************************************************************************)
EXTENDS StpSequence

CONSTANTS
  One,                (* 1.0                                                *)
  curve_point_limit,
  Given, Bounds,      (* the heights and bounds that callers give           *)
  Counts,             (* how many points they give                          *)
  Places,             (* the points they set singly or begin a part at      *)
  Compositions        (* what stp_curve_rescale may do to a height: its     *)
                      (* mode, and what the number it is given makes of each *)

(* A sum or a product of finite numbers keeps their order, or turns it      *)
(* over if the factor is negative.                                          *)
ASSUME CurveAssumption ==
  /\ One \in Nat \ {0} /\ 0 .. One \subseteq Finite
  /\ \A low, high \in Finite : low .. high \subseteq Finite
  /\ Given \subseteq Numbers /\ Bounds \subseteq Finite \X Finite
  /\ Counts \subseteq Nat \ {0} /\ Places \subseteq Nat
  /\ curve_point_limit \in Nat /\ curve_point_limit >= 3
  /\ Compositions \subseteq [mode : {"add", "multiply", "exponentiate"},
                             of : [Numbers -> Int]]
  /\ \A c \in Compositions, low, high \in Finite :
       c.mode # "exponentiate" /\ low <= high =>
         IF c.mode = "multiply" /\ c.of[One] < c.of[0] THEN c.of[high] <= c.of[low]
         ELSE c.of[low] <= c.of[high]

VARIABLES
  seq,                 (* the sequence of points                            *)
  curve_type, wrap,    (* wrap: wrap_mode is STP_CURVE_WRAP_AROUND          *)
  piecewise,
  gamma,               (* its sign; 0: the curve does not follow a power    *)
  recompute_interval,
  interval,            (* the points and the type the deltas were computed  *)
                       (* from, or NULL                                     *)
  crashed

mode == <<curve_type, wrap>>
vars == <<seq, mode, piecewise, gamma, recompute_interval, interval, crashed>>

Types == {"linear", "spline"}

real_point_count == IF piecewise THEN Len(seq.data) \div 2 ELSE Len(seq.data)
get_point_count  == IF wrap THEN real_point_count - 1 ELSE real_point_count

(* Points 0 .. n-1, and the one that repeats the first.                    *)
WithWrap(n) == IF wrap THEN n + 1 ELSE n

(* stpi_curve_ctor *)
Init ==
  /\ wrap \in BOOLEAN
  /\ seq = set_point(set_point(set_size(sequence_create(One), WithWrap(2)), 0, 0), 1, One)
  /\ curve_type = "linear"
  /\ piecewise = FALSE
  /\ gamma = IF wrap THEN 0 ELSE 1
  /\ recompute_interval = TRUE
  /\ interval = NULL
  /\ crashed = FALSE

Allowed(n) == 2 <= n /\ WithWrap(n) <= curve_point_limit

(* stpi_curve_set_points: old points and deltas go.                        *)
set_points(s, n, pairs) ==
  IF ~Allowed(n) THEN s
  ELSE set_size(set_size(s, 0), WithWrap(n) * (IF pairs THEN 2 ELSE 1))

InBounds(x) == seq.blo <= x /\ x <= seq.bhi

(* New points that are no power: the deltas are to be computed again.      *)
Replaced ==
  /\ gamma' = 0
  /\ interval' = NULL
  /\ recompute_interval' = TRUE
  /\ UNCHANGED <<mode, crashed>>

-----------------------------------------------------------------------------
stp_curve_set_bounds(low, high) ==
  /\ low <= high
  /\ seq' = set_bounds(seq, low, high)
  /\ UNCHANGED <<mode, piecewise, gamma, recompute_interval, interval, crashed>>

(* Mutant: the point that repeats the first one is forgotten. *)
LeftOpen(s, where, x) == s

(* The point behind the last repeats the first. *)
Closing(s, where, x) == IF wrap THEN set_point(s, where, x) ELSE s

(* The points are allocated for what the curve was: twice as many if it    *)
(* was piecewise.                                                          *)
stp_curve_set_data(data) ==
  /\ Allowed(Len(data))
  /\ \A k \in DOMAIN data : data[k] \in Finite /\ InBounds(data[k])
  /\ seq' = Closing(set_subrange(set_points(seq, Len(data), piecewise), 0, data),
                    Len(data), data[1])
  /\ piecewise' = FALSE
  /\ Replaced

(* Positions rise from 0, to 1 or before it. *)
ArePoints(xs, ys) ==
  LET n == Len(ys) IN
  /\ \A k \in 1 .. n : /\ ys[k] \in Finite /\ InBounds(ys[k])
                        /\ 0 <= xs[k] /\ xs[k] <= One
  /\ xs[1] = 0
  /\ IF wrap THEN \A k \in 1 .. n : xs[k] < One ELSE xs[n] = One
  /\ \A k \in 1 .. n - 1 : xs[k] < xs[k + 1]

Pairs(xs, ys) ==
  [k \in 1 .. 2 * Len(ys) |-> IF k % 2 = 1 THEN xs[(k + 1) \div 2] ELSE ys[k \div 2]]

stp_curve_set_data_points(xs, ys) ==
  LET n == Len(ys) IN
  /\ Allowed(n) /\ ArePoints(xs, ys)
  /\ seq' = Closing(Closing(set_subrange(set_points(seq, n, TRUE), 0, Pairs(xs, ys)),
                            2 * n, xs[1]),
                    2 * n + 1, ys[1])
  /\ piecewise' = TRUE
  /\ Replaced

(* The range that is looked at is that of the curve, not of what is put    *)
(* into it; what a wrapped curve begins with may be replaced without its   *)
(* end.                                                                    *)
stp_curve_set_subrange(start, data) ==
  /\ start + Len(data) <= get_point_count /\ ~piecewise
  /\ \E s \in get_range(seq) :
       IF s.rlo < s.blo \/ s.rhi > s.bhi
       THEN /\ seq' = s
            /\ UNCHANGED <<mode, piecewise, gamma, recompute_interval, interval, crashed>>
       ELSE /\ seq' = set_subrange(s, start, data)
            /\ UNCHANGED piecewise
            /\ Replaced

(* Mutant: the deltas are kept. *)
KeepsDeltas == UNCHANGED interval

(* The deltas go, but recompute_interval is left alone. *)
DeltasGo == interval' = NULL

(* The power is forgotten even if the point is refused. *)
stp_curve_set_point(where, x) ==
  /\ where < get_point_count
  /\ gamma' = 0
  /\ IF piecewise \/ ~Settable(seq, where, x)
     THEN UNCHANGED <<seq, interval>>
     ELSE /\ seq' = IF where = 0 THEN Closing(set_point(seq, where, x), get_point_count, x)
                    ELSE set_point(seq, where, x)
          /\ DeltasGo
  /\ UNCHANGED <<mode, piecewise, recompute_interval, crashed>>

stp_curve_set_interpolation_type(itype) ==
  /\ curve_type' = itype
  /\ UNCHANGED <<seq, wrap, piecewise, gamma, recompute_interval, interval, crashed>>

-----------------------------------------------------------------------------
(* stp_curve_rescale *)

(* Is this a multiplication by a negative number? *)
Negates(c) == c.mode = "multiply" /\ c.of[One] < c.of[0]

NewBounds(c) ==
  IF Negates(c) THEN <<c.of[seq.bhi], c.of[seq.blo]>>
  ELSE <<c.of[seq.blo], c.of[seq.bhi]>>

Clipped(x, low, high) == IF x > high THEN high ELSE IF x < low THEN low ELSE x

(* Is there a height at position k of the data? *)
IsHeight(k) == piecewise => k % 2 = 0

stp_curve_rescale(c, bounds_mode) ==
  LET bounds == IF bounds_mode = "rescale" THEN NewBounds(c) ELSE <<seq.blo, seq.bhi>>
      composed == [k \in 1 .. Len(seq.data) |->
                     IF IsHeight(k) THEN c.of[seq.data[k]] ELSE seq.data[k]]
      data == [k \in 1 .. Len(seq.data) |->
                 IF IsHeight(k) THEN Clipped(composed[k], bounds[1], bounds[2])
                 ELSE seq.data[k]]
  IN
  /\ c.mode = "exponentiate" /\ bounds_mode = "rescale" => seq.blo >= 0
  /\ bounds[1] \in Finite /\ bounds[2] \in Finite
  /\ get_point_count # 0
  /\ bounds_mode = "error" => data = composed
  /\ seq' = set_subrange(set_points(set_bounds(seq, bounds[1], bounds[2]),
                                    get_point_count, piecewise), 0, data)
  /\ UNCHANGED piecewise
  /\ Replaced

-----------------------------------------------------------------------------
(* stp_curve_resample *)

(* compute_intervals, when it has to be *)
Deltas ==
  IF ~recompute_interval THEN interval
  ELSE IF Len(seq.data) = 0 THEN NULL
  ELSE [of |-> seq.data, type |-> curve_type]

DeltasReady == Deltas # NULL /\ Deltas.type = curve_type

(* A delta for each point of a spline, for each interval of a linear curve. *)
DeltaCount(deltas) == IF deltas.type = "spline" THEN Len(deltas.of) ELSE Len(deltas.of) - 1

Between(x, a, b) == (a <= x /\ x <= b) \/ (b <= x /\ x <= a)

(* The number of intervals. *)
old == IF real_point_count > 1 THEN real_point_count - 1 ELSE 1

(* Point i of last + 1 between the points that were there: linear          *)
(* interpolation with the deltas of splines may lead anywhere.             *)
DensePoint(x, i, last) ==
  LET iwhere == (i * old) \div last IN
  IF (i * old) % last = 0 THEN x = get_point(seq, iwhere)
  ELSE IF curve_type = "spline" THEN InBounds(x)
  ELSE DeltasReady => Between(x, get_point(seq, iwhere), get_point(seq, iwhere + 1))

(* Between the pairs; the last is met, and the first if it is where the    *)
(* curve begins.                                                           *)
PiecewisePoint(x, i, last) ==
  CASE i = 0 /\ seq.data[1] = 0 -> x = Clipped(seq.data[2], seq.blo, seq.bhi)
    [] i = last -> x = Clipped(seq.data[Len(seq.data)], seq.blo, seq.bhi)
    [] OTHER -> InBounds(x)

(* blo + (bhi - blo) * pow(where, -abs(gamma)), where = i * old / last, or *)
(* one less that; the power of 0 is infinite (and NaN if there is but one  *)
(* height, which is left out).                                             *)
GammaPoint(x, i, last) ==
  LET where == IF gamma > 0 THEN last - i * old ELSE i * old IN
  /\ where = last => x = seq.bhi
  /\ where = 0 => seq.blo < seq.bhi /\ x \notin Finite
  /\ 0 <= where /\ where < last => seq.bhi <= x
  /\ where > last => InBounds(x)

NewPoint(x, i, last) ==
  IF piecewise THEN PiecewisePoint(x, i, last)
  ELSE IF gamma # 0 THEN GammaPoint(x, i, last)
  ELSE DensePoint(x, i, last)

NewPoints(last) == {x \in Numbers : \E i \in 0 .. last : NewPoint(x, i, last)}

(* The deltas are looked at, but are not there. *)
NullDeltas(last) ==
  /\ ~piecewise /\ gamma = 0 /\ Deltas = NULL
  /\ \E i \in 0 .. last : (i * old) % last # 0

(* Of a curve that became a spline afterwards, there is one too few. *)
PastDeltas(last) ==
  /\ ~piecewise /\ gamma = 0 /\ Deltas # NULL /\ curve_type = "spline"
  /\ \E i \in 0 .. last :
       (i * old) % last # 0 /\ (i * old) \div last + 1 >= DeltaCount(Deltas)

(* stpi_curve_set_data of the new points.  What is read past the deltas is *)
(* anything, if it can be read.                                            *)
stp_curve_resample(points) ==
  LET last == WithWrap(points) - 1 IN
  /\ piecewise \/ points # get_point_count
  /\ Allowed(points)
  /\ UNCHANGED <<mode, gamma>>
  /\ IF Len(seq.data) = 0
     THEN /\ interval' = Deltas
          /\ recompute_interval' = FALSE
          /\ UNCHANGED <<seq, piecewise, crashed>>
     ELSE \/ /\ NullDeltas(last) \/ PastDeltas(last)
             /\ crashed' = TRUE
             /\ UNCHANGED <<seq, piecewise, recompute_interval, interval>>
          \/ /\ ~NullDeltas(last)
             /\ \E data \in [1 .. last + 1 -> NewPoints(last)] :
                  /\ \A i \in 0 .. last : NewPoint(data[i + 1], i, last)
                  /\ seq' = set_data(set_size(seq, 0), data)
             /\ piecewise' = FALSE
             /\ interval' = NULL
             /\ recompute_interval' = TRUE
             /\ UNCHANGED crashed

(* The points go, and two come back; but not if the curve was piecewise,   *)
(* which it is still.                                                      *)
stp_curve_set_gamma(sign) ==
  /\ ~wrap
  /\ gamma' = sign
  /\ interval' = NULL
  /\ IF piecewise
     THEN /\ seq' = set_size(seq, 0)
          /\ recompute_interval' = FALSE
     ELSE /\ \E x \in Numbers :
               /\ seq.blo < seq.bhi /\ seq.bhi < x /\ x \notin Finite
               /\ seq' = set_data(set_size(seq, 0),
                                  IF sign > 0 THEN <<seq.bhi, x>> ELSE <<x, seq.bhi>>)
          /\ recompute_interval' = TRUE
  /\ UNCHANGED <<mode, piecewise, crashed>>

-----------------------------------------------------------------------------
(* Calls that read: what they compute is kept. *)

(* The deltas that a position between points integer and integer + 1 needs. *)
DeltasRead(integer) ==
  IF curve_type = "linear" THEN {integer}
  ELSE {integer, IF integer + 1 >= get_point_count THEN integer + 1 - get_point_count
                 ELSE integer + 1}

(* A position beyond the last point is let pass. *)
stp_curve_interpolate_value(integer) ==
  /\ ~piecewise /\ gamma = 0
  /\ integer < real_point_count
  /\ interval' = Deltas
  /\ recompute_interval' = FALSE
  /\ IF Deltas = NULL THEN crashed' = TRUE
     ELSE IF \E k \in DeltasRead(integer) : k >= DeltaCount(Deltas) THEN crashed' \in BOOLEAN
     ELSE UNCHANGED crashed
  /\ UNCHANGED <<seq, mode, piecewise, gamma>>

stp_curve_get_range ==
  /\ seq' \in get_range(seq)
  /\ UNCHANGED <<mode, piecewise, gamma, recompute_interval, interval, crashed>>

stp_curve_get_converted_data ==
  /\ ~piecewise
  /\ seq' = get_converted(seq)
  /\ UNCHANGED <<mode, piecewise, gamma, recompute_interval, interval, crashed>>

(* The caller goes on with the copy. *)
stp_curve_copy ==
  /\ seq' = sequence_copy(seq)
  /\ interval' = NULL
  /\ recompute_interval' = TRUE
  /\ UNCHANGED <<mode, piecewise, gamma, crashed>>

(* Pairs come back in an own sequence, which has bounds of its own. *)
Mirrored(data) ==
  [k \in 1 .. Len(data) |-> IF k % 2 = 1 THEN One - data[Len(data) - k]
                            ELSE data[Len(data) - k + 2]]

stp_curve_reverse ==
  /\ seq' = IF piecewise THEN set_data(sequence_create(One), Mirrored(seq.data))
            ELSE sequence_reverse(seq)
  /\ interval' = NULL
  /\ recompute_interval' = TRUE
  /\ UNCHANGED <<mode, piecewise, gamma, crashed>>

-----------------------------------------------------------------------------
Lists(set, lengths) == UNION {[1 .. n -> set] : n \in lengths}

SetBounds == \E b \in Bounds : stp_curve_set_bounds(b[1], b[2])
SetData == \E data \in Lists(Given, Counts) : stp_curve_set_data(data)
SetDataPoints ==
  \E n \in Counts : \E xs \in [1 .. n -> 0 .. One], ys \in [1 .. n -> Given] :
    stp_curve_set_data_points(xs, ys)
SetSubrange ==
  \E data \in Lists(Given, Counts \union {0}), start \in Places :
    stp_curve_set_subrange(start, data)
SetPoint == \E where \in Places, x \in Given : stp_curve_set_point(where, x)
SetInterpolationType == \E itype \in Types : stp_curve_set_interpolation_type(itype)
Rescale ==
  \E c \in Compositions, bounds_mode \in {"rescale", "clip", "error"} :
    stp_curve_rescale(c, bounds_mode)
Resample == \E points \in 2 .. curve_point_limit : stp_curve_resample(points)
Interpolate == \E integer \in 0 .. real_point_count : stp_curve_interpolate_value(integer)
SetGamma == \E sign \in {-1, 1} : stp_curve_set_gamma(sign)

Gone == crashed /\ UNCHANGED vars

Next ==
  \/ /\ ~crashed
     /\ \/ SetBounds \/ SetData \/ SetDataPoints \/ SetSubrange \/ SetPoint
        \/ SetInterpolationType \/ Rescale \/ Resample \/ SetGamma
        \/ Interpolate \/ stp_curve_get_range
        \/ stp_curve_get_converted_data \/ stp_curve_copy \/ stp_curve_reverse
  \/ Gone

Spec == Init /\ [][Next]_vars

-----------------------------------------------------------------------------
TypeOK ==
  /\ seq \in SequenceType
  /\ curve_type \in Types /\ wrap \in BOOLEAN /\ piecewise \in BOOLEAN
  /\ gamma \in {-1, 0, 1} /\ recompute_interval \in BOOLEAN /\ crashed \in BOOLEAN
  /\ interval \in [of : Seq(Numbers), type : Types] \union {NULL}

(* A range that is not marked for a new scan is that of the points, after  *)
(* any number of single points were set past it (sequence.c:297).          *)
RangeRight ==
  /\ TypeOK
  /\ ~seq.recompute_range => IsRange(seq, seq.rlo, seq.rhi)

(* Whatever is kept of earlier points is gone when they change: copies in  *)
(* other types, and the deltas.                                            *)
DerivedFresh ==
  /\ seq.converted # NULL => seq.converted = seq.data
  /\ interval # NULL => interval.of = seq.data

(* The curve begins at 0, is within its bounds, and ends where it begins   *)
(* if it wraps around.                                                     *)
Sound ==
  Len(seq.data) > 0 =>
    /\ piecewise => seq.data[1] = 0
    /\ \A k \in 1 .. Len(seq.data) : IsHeight(k) => InBounds(seq.data[k])
    /\ wrap => seq.data[Len(seq.data)] = seq.data[IF piecewise THEN 2 ELSE 1]

(* The calls that may make a sound curve unsound: new bounds are not       *)
(* compared with the points, a part is put in without a look at it, the    *)
(* data are twice as many as the pairs they replace, gamma goes to         *)
(* infinity, a negative power turns the bounds over, pairs are turned      *)
(* without their bounds, deltas are those of the other type.               *)
Careless ==
  \/ SetBounds
  \/ SetSubrange
  \/ piecewise /\ SetData
  \/ gamma' # 0
  \/ \E c \in Compositions :
       /\ c.mode = "exponentiate" /\ c.of[seq.blo] > c.of[seq.bhi]
       /\ stp_curve_rescale(c, "rescale")
  \/ piecewise /\ stp_curve_reverse
  \/ ~DeltasReady /\ ~piecewise /\ Resample

(* No other call does: single points, pairs, rescaling, resampling and     *)
(* turning keep a curve within its bounds, and closed.                     *)
PointsKept == [][Sound /\ ~Sound' => Careless]_vars

(* "recompute_interval: Do we need to recompute the deltas?" (curve.c:64): *)
(* if not, they are there.                                                 *)
DeltasAtHand == ~recompute_interval /\ Len(seq.data) > 0 => interval # NULL
=============================================================================
