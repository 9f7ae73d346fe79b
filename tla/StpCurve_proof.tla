--------------------------- MODULE StpCurve_proof ---------------------------
(* Proofs about StpCurve, for curves of any length and any numbers.         *)
EXTENDS StpCurve, TLAPS

RangeOK(s) == ~s.recompute_range => IsRange(s, s.rlo, s.rhi)
Fresh(s) == s.converted # NULL => s.converted = s.data

SeqOK(s) == s \in SequenceType /\ RangeOK(s) /\ Fresh(s)

-----------------------------------------------------------------------------
(* What the functions of sequence.c keep. *)

LEMMA SetBoundsOK ==
  ASSUME NEW s \in SequenceType, SeqOK(s), NEW low \in Numbers, NEW high \in Numbers
  PROVE  SeqOK(set_bounds(s, low, high)) /\ set_bounds(s, low, high).data = s.data
  BY DEF SeqOK, RangeOK, Fresh, set_bounds, SequenceType

LEMMA SetSizeOK ==
  ASSUME NEW s \in SequenceType, NEW n \in Nat, n # 0 \/ s.converted = NULL
  PROVE  /\ SeqOK(set_size(s, n)) /\ set_size(s, n).converted = NULL
         /\ set_size(s, n).data = [k \in 1 .. n |-> 0]
<1> DEFINE zeros == [k \in 1 .. n |-> 0]
<1>1. zeros \in Seq(Numbers)  BY SequenceAssumption
<1>2. set_size(s, n) = [s EXCEPT !.data = zeros, !.recompute_range = TRUE, !.converted = NULL]
  BY DEF set_size, SequenceType
<1> HIDE DEF zeros
<1>3. SeqOK([s EXCEPT !.data = zeros, !.recompute_range = TRUE, !.converted = NULL])
  BY <1>1 DEF SeqOK, RangeOK, Fresh, SequenceType
<1>4. [s EXCEPT !.data = zeros, !.recompute_range = TRUE, !.converted = NULL].data = zeros
  BY DEF SequenceType
<1>5. [s EXCEPT !.data = zeros, !.recompute_range = TRUE, !.converted = NULL].converted = NULL
  BY DEF SequenceType
<1> QED  BY <1>2, <1>3, <1>4, <1>5 DEF zeros

(* Whatever was there is typed again when points come. *)
LEMMA SetSizeTyped ==
  ASSUME NEW s \in SequenceType, NEW n \in Nat
  PROVE  set_size(s, n) \in SequenceType
<1>1. [k \in 1 .. n |-> 0] \in Seq(Numbers)  BY SequenceAssumption
<1> QED  BY <1>1 DEF set_size, SequenceType

LEMMA SetDataOK ==
  ASSUME NEW s \in SequenceType, NEW data \in Seq(Numbers)
  PROVE  SeqOK(set_data(s, data)) /\ set_data(s, data).data = data
         /\ set_data(s, data).converted = NULL
  BY DEF SeqOK, RangeOK, Fresh, set_data, SequenceType

LEMMA SetSubrangeOK ==
  ASSUME NEW s \in SequenceType, SeqOK(s), NEW where \in Nat, NEW data \in Seq(Numbers)
  PROVE  SeqOK(set_subrange(s, where, data))
<1> DEFINE new == [k \in 1 .. Len(s.data) |->
                     IF k \in where + 1 .. where + Len(data) THEN data[k - where] ELSE s.data[k]]
<1>1. CASE where + Len(data) > Len(s.data)
  BY <1>1 DEF set_subrange
<1>2. CASE ~(where + Len(data) > Len(s.data))
  <2>1. s.data \in Seq(Numbers)  BY DEF SequenceType
  <2>2. \A k \in 1 .. Len(s.data) : new[k] \in Numbers
    BY <2>1
  <2>3. new \in Seq(Numbers)  BY <2>1, <2>2
  <2>4. set_subrange(s, where, data)
          = [s EXCEPT !.data = new, !.recompute_range = TRUE, !.converted = NULL]
    BY <1>2 DEF set_subrange
  <2> HIDE DEF new
  <2>5. SeqOK([s EXCEPT !.data = new, !.recompute_range = TRUE, !.converted = NULL])
    BY <2>3 DEF SeqOK, RangeOK, Fresh, SequenceType
  <2> QED  BY <2>4, <2>5
<1> QED  BY <1>1, <1>2

(* The one case that keeps a range: the number is within it, and replaces   *)
(* none of its limits.                                                      *)
LEMMA SetPointOK ==
  ASSUME NEW s \in SequenceType, SeqOK(s), NEW where \in Nat, NEW number \in Int
  PROVE  SeqOK(set_point(s, where, number))
<1> DEFINE new == [k \in 1 .. Len(s.data) |->
                     IF k = where + 1 THEN number ELSE s.data[k]]
           t == [s EXCEPT !.data = new,
                          !.recompute_range = @ \/ RangeMayChange(s, where, number),
                          !.converted = NULL]
<1>1. CASE ~Settable(s, where, number)
  BY <1>1 DEF set_point
<1>2. CASE Settable(s, where, number)
  <2>1. number \in Numbers /\ where + 1 \in 1 .. Len(s.data)
    BY <1>2, SequenceAssumption DEF Settable, SequenceType
  <2>2. s.data \in Seq(Numbers) /\ Numbers \subseteq Int
    BY SequenceAssumption DEF SequenceType
  <2>3. new \in Seq(Numbers) /\ Len(new) = Len(s.data)
    <3>1. \A k \in 1 .. Len(s.data) : new[k] \in Numbers  BY <2>1, <2>2
    <3>2. Len(s.data) \in Nat  BY <2>2
    <3>3. new \in [1 .. Len(s.data) -> Numbers]  BY <3>1
    <3> QED  BY <3>2, <3>3
  <2>4. /\ t.data = new /\ t.converted = NULL /\ t.rlo = s.rlo /\ t.rhi = s.rhi
        /\ t.blo = s.blo /\ t.bhi = s.bhi
        /\ t.recompute_range = (s.recompute_range \/ RangeMayChange(s, where, number))
    BY DEF SequenceType
  <2>5. t \in SequenceType
    BY <2>3 DEF SequenceType, RangeMayChange
  <2>6. RangeOK(t)
    <3> SUFFICES ASSUME ~t.recompute_range PROVE IsRange(t, t.rlo, t.rhi)
      BY DEF RangeOK
    <3>1. ~s.recompute_range /\ ~RangeMayChange(s, where, number)
      BY <2>4
    <3>2. IsRange(s, s.rlo, s.rhi)  BY <3>1 DEF SeqOK, RangeOK
    <3>3. /\ s.rlo <= number /\ number <= s.rhi
          /\ s.data[where + 1] # s.rlo /\ s.data[where + 1] # s.rhi
      <4>1. s.rlo \in Int /\ s.rhi \in Int  BY <2>2 DEF SequenceType
      <4> QED  BY <3>1, <4>1, <2>2, <2>1 DEF RangeMayChange, get_point
    <3>4. Points(t) = {new[k] : k \in 1 .. Len(s.data)}
      BY <2>3, <2>4 DEF Points
    <3>5. \A x \in Points(t) : x = number \/ x \in Points(s)
      BY <3>4 DEF Points
    <3>6. \A x \in Points(s) : x # s.data[where + 1] => x \in Points(t)
      BY <3>4 DEF Points
    <3>7. /\ s.rlo \in Points(t) \union {s.bhi}
          /\ s.rhi \in Points(t) \union {s.blo}
      BY <3>2, <3>3, <3>6 DEF IsRange, IsLeast, IsGreatest
    <3>8. /\ \A x \in Points(t) \union {s.bhi} : s.rlo <= x
          /\ \A x \in Points(t) \union {s.blo} : x <= s.rhi
      BY <3>2, <3>3, <3>5 DEF IsRange, IsLeast, IsGreatest
    <3> HIDE DEF t
    <3> QED  BY <2>4, <3>7, <3>8 DEF IsRange, IsLeast, IsGreatest
  <2>7. set_point(s, where, number) = t  BY <1>2 DEF set_point
  <2> HIDE DEF t
  <2> QED  BY <2>4, <2>5, <2>6, <2>7 DEF SeqOK, Fresh
<1> QED  BY <1>1, <1>2

LEMMA GetRangeOK ==
  ASSUME NEW s \in SequenceType, SeqOK(s), NEW t \in get_range(s)
  PROVE  SeqOK(t) /\ t.data = s.data /\ t.converted = s.converted
<1>1. CASE ~s.recompute_range
  BY <1>1 DEF get_range
<1>2. CASE s.recompute_range
  <2> DEFINE limits == Points(s) \union {s.blo, s.bhi}
  <2>1. PICK range \in limits \X limits :
          /\ IsRange(s, range[1], range[2])
          /\ t = [s EXCEPT !.rlo = range[1], !.rhi = range[2], !.recompute_range = FALSE]
    BY <1>2 DEF get_range
  <2>2. limits \subseteq Numbers
    BY DEF Points, SequenceType
  <2>3. range[1] \in Numbers /\ range[2] \in Numbers
    BY <2>2
  <2>4. t \in SequenceType  BY <2>1, <2>3 DEF SequenceType
  <2>5. /\ t.data = s.data /\ t.blo = s.blo /\ t.bhi = s.bhi /\ t.converted = s.converted
        /\ t.rlo = range[1] /\ t.rhi = range[2]
    BY <2>1 DEF SequenceType
  <2>6. IsRange(t, t.rlo, t.rhi)
    BY <2>1, <2>5 DEF IsRange, Points
  <2> QED  BY <2>4, <2>5, <2>6 DEF SeqOK, RangeOK, Fresh
<1> QED  BY <1>1, <1>2 DEF SequenceType

LEMMA GetConvertedOK ==
  ASSUME NEW s \in SequenceType, SeqOK(s)
  PROVE  SeqOK(get_converted(s)) /\ get_converted(s).data = s.data
<1>1. /\ get_converted(s).data = s.data /\ get_converted(s).rlo = s.rlo
      /\ get_converted(s).rhi = s.rhi /\ get_converted(s).blo = s.blo
      /\ get_converted(s).bhi = s.bhi
      /\ get_converted(s).recompute_range = s.recompute_range
      /\ get_converted(s).converted = IF s.converted = NULL THEN s.data ELSE s.converted
  BY DEF get_converted, SequenceType
<1>2. get_converted(s) \in SequenceType
  BY DEF get_converted, SequenceType
<1>3. Points(get_converted(s)) = Points(s)  BY <1>1 DEF Points
<1> QED  BY <1>1, <1>2, <1>3 DEF SeqOK, RangeOK, Fresh, IsRange

LEMMA CopyOK ==
  ASSUME NEW s \in SequenceType, SeqOK(s)
  PROVE  /\ SeqOK(sequence_copy(s)) /\ sequence_copy(s).data = s.data
         /\ sequence_copy(s).converted = NULL
<1>1. /\ sequence_copy(s).data = s.data /\ sequence_copy(s).rlo = s.rlo
      /\ sequence_copy(s).rhi = s.rhi /\ sequence_copy(s).blo = s.blo
      /\ sequence_copy(s).bhi = s.bhi
      /\ sequence_copy(s).recompute_range = s.recompute_range
      /\ sequence_copy(s).converted = NULL
  BY DEF sequence_copy, SequenceType
<1>2. sequence_copy(s) \in SequenceType
  BY DEF sequence_copy, SequenceType
<1>3. Points(sequence_copy(s)) = Points(s)  BY <1>1 DEF Points
<1> QED  BY <1>1, <1>2, <1>3 DEF SeqOK, RangeOK, Fresh, IsRange

(* The same points, so the same range. *)
LEMMA ReverseOK ==
  ASSUME NEW s \in SequenceType, SeqOK(s)
  PROVE  SeqOK(sequence_reverse(s))
<1> DEFINE t == sequence_reverse(s)
           n == Len(s.data)
<1>1. s.data \in Seq(Numbers) /\ n \in Nat  BY DEF SequenceType
<1>2. \A k \in 1 .. n : n - k + 1 \in 1 .. n /\ n - (n - k + 1) + 1 = k  BY <1>1
<1>3. Reversed(s.data) \in [1 .. n -> Numbers]  BY <1>1, <1>2 DEF Reversed
<1>4. Reversed(s.data) \in Seq(Numbers) /\ Len(Reversed(s.data)) = n  BY <1>1, <1>3
<1>5. /\ t.data = Reversed(s.data) /\ t.rlo = s.rlo /\ t.rhi = s.rhi
      /\ t.blo = s.blo /\ t.bhi = s.bhi /\ t.converted = NULL
      /\ t.recompute_range = s.recompute_range
  BY DEF sequence_reverse, SequenceType
<1>6. t \in SequenceType
  BY <1>4 DEF sequence_reverse, SequenceType
<1>7. Points(t) = Points(s)
  <2>1. \A k \in 1 .. n : Reversed(s.data)[k] = s.data[n - k + 1]
    BY <1>1 DEF Reversed
  <2>2. \A k \in 1 .. n : s.data[k] = Reversed(s.data)[n - k + 1]
    BY <1>2, <2>1
  <2> QED  BY <1>2, <1>4, <1>5, <2>1, <2>2 DEF Points
<1> HIDE DEF t
<1> QED  BY <1>5, <1>6, <1>7 DEF SeqOK, RangeOK, Fresh, IsRange, t

-----------------------------------------------------------------------------
(* A piecewise curve holds pairs, whose positions lie between 0 and 1; its  *)
(* points are never converted.                                              *)
PairsOK(s) ==
  /\ Len(s.data) % 2 = 0
  /\ \A k \in 1 .. Len(s.data) : k % 2 = 1 => s.data[k] \in 0 .. One
  /\ s.converted = NULL

LEMMA Positions == 0 .. One \subseteq Numbers /\ One \in Numbers /\ Numbers \subseteq Int
  BY SequenceAssumption, CurveAssumption

LEMMA SetSubrangeData ==
  ASSUME NEW s \in SequenceType, NEW where \in Nat, NEW data \in Seq(Numbers)
  PROVE  LET t == set_subrange(s, where, data) IN
         /\ Len(t.data) = Len(s.data)
         /\ s.converted = NULL => t.converted = NULL
         /\ \A k \in 1 .. Len(s.data) :
              \/ t.data[k] = s.data[k]
              \/ k - where \in 1 .. Len(data) /\ t.data[k] = data[k - where]
<1> DEFINE new == [k \in 1 .. Len(s.data) |->
                     IF k \in where + 1 .. where + Len(data) THEN data[k - where] ELSE s.data[k]]
<1>1. CASE where + Len(data) > Len(s.data)
  BY <1>1 DEF set_subrange
<1>2. CASE ~(where + Len(data) > Len(s.data))
  <2>1. s.data \in Seq(Numbers) /\ Len(s.data) \in Nat /\ Len(data) \in Nat
    BY DEF SequenceType
  <2>2. Len(new) = Len(s.data)  BY <2>1
  <2>3. \A k \in 1 .. Len(s.data) :
              \/ new[k] = s.data[k]
              \/ k - where \in 1 .. Len(data) /\ new[k] = data[k - where]
    BY <2>1
  <2>4. /\ set_subrange(s, where, data).data = new
        /\ set_subrange(s, where, data).converted = NULL
    BY <1>2 DEF set_subrange, SequenceType
  <2> HIDE DEF new
  <2> QED  BY <2>2, <2>3, <2>4
<1> QED  BY <1>1, <1>2

(* From the front, as the setters do it. *)
LEMMA SetFrontData ==
  ASSUME NEW s \in SequenceType, NEW data \in Seq(Numbers), NEW t, t = set_subrange(s, 0, data)
  PROVE  /\ Len(t.data) = Len(s.data)
         /\ s.converted = NULL => t.converted = NULL
         /\ \A k \in 1 .. Len(s.data) :
              \/ t.data[k] = s.data[k]
              \/ k \in 1 .. Len(data) /\ t.data[k] = data[k]
<1>1. /\ Len(t.data) = Len(s.data)
      /\ s.converted = NULL => t.converted = NULL
      /\ \A k \in 1 .. Len(s.data) :
           \/ t.data[k] = s.data[k]
           \/ k - 0 \in 1 .. Len(data) /\ t.data[k] = data[k - 0]
  <2>1. 0 \in Nat  OBVIOUS
  <2> QED  BY <2>1, SetSubrangeData, Zenon
<1>2. \A k \in 1 .. Len(s.data) : k - 0 = k  OBVIOUS
<1> QED  BY <1>1, <1>2

LEMMA SetPointPairs ==
  ASSUME NEW s \in SequenceType, PairsOK(s), NEW where \in Nat, NEW number \in Int,
         where % 2 = 1 \/ number \in 0 .. One
  PROVE  PairsOK(set_point(s, where, number))
<1> DEFINE new == [k \in 1 .. Len(s.data) |->
                     IF k = where + 1 THEN number ELSE s.data[k]]
<1>1. CASE ~Settable(s, where, number)
  BY <1>1 DEF set_point
<1>2. CASE Settable(s, where, number)
  <2>1. Len(s.data) \in Nat  BY DEF SequenceType
  <2>2. Len(new) = Len(s.data)  BY <2>1
  <2>3. \A k \in 1 .. Len(s.data) : k % 2 = 1 => new[k] \in 0 .. One
    BY <2>1 DEF PairsOK
  <2>4. /\ set_point(s, where, number).data = new
        /\ set_point(s, where, number).converted = NULL
    BY <1>2 DEF set_point, SequenceType
  <2> HIDE DEF new
  <2> QED  BY <2>2, <2>3, <2>4 DEF PairsOK
<1> QED  BY <1>1, <1>2

LEMMA SetPointsOK ==
  ASSUME NEW s \in SequenceType, SeqOK(s), wrap \in BOOLEAN,
         NEW n \in Nat, NEW pairs \in BOOLEAN
  PROVE  /\ SeqOK(set_points(s, n, pairs))
         /\ pairs /\ (Allowed(n) \/ PairsOK(s)) => PairsOK(set_points(s, n, pairs))
<1>1. CASE ~Allowed(n)
  BY <1>1 DEF set_points
<1>2. CASE Allowed(n)
  <2> DEFINE size == WithWrap(n) * (IF pairs THEN 2 ELSE 1)
             cleared == set_size(s, 0)
  <2>1. size \in Nat /\ size # 0
    BY <1>2 DEF WithWrap, Allowed
  <2>2. pairs => size % 2 = 0
    BY DEF WithWrap
  <2>3. cleared \in SequenceType  BY SetSizeTyped
  <2>4. set_points(s, n, pairs) = set_size(cleared, size)
    BY <1>2 DEF set_points
  <2> HIDE DEF size, cleared
  <2>5. /\ SeqOK(set_size(cleared, size)) /\ set_size(cleared, size).converted = NULL
        /\ set_size(cleared, size).data = [k \in 1 .. size |-> 0]
    BY <2>1, <2>3, SetSizeOK
  <2>6. Len([k \in 1 .. size |-> 0]) = size  BY <2>1
  <2>7. 0 \in 0 .. One  BY CurveAssumption
  <2> QED  BY <2>2, <2>4, <2>5, <2>6, <2>7 DEF PairsOK
<1> QED  BY <1>1, <1>2

LEMMA ClosingOK ==
  ASSUME NEW s \in SequenceType, SeqOK(s), NEW where \in Nat, NEW x \in Int
  PROVE  /\ SeqOK(Closing(s, where, x))
         /\ PairsOK(s) /\ (where % 2 = 1 \/ x \in 0 .. One) => PairsOK(Closing(s, where, x))
  BY SetPointOK, SetPointPairs DEF Closing

-----------------------------------------------------------------------------
(* The invariant. *)
CurveInv ==
  /\ TypeOK
  /\ SeqOK(seq)
  /\ interval # NULL => interval.of = seq.data
  /\ piecewise => PairsOK(seq)

LEMMA CurveInvImplies == CurveInv => RangeRight /\ DerivedFresh
  BY DEF CurveInv, RangeRight, DerivedFresh, SeqOK, RangeOK, Fresh

(* What an action that replaces the points has to show. *)
LEMMA ReplacedOK ==
  ASSUME CurveInv, SeqOK(seq'), interval' = NULL, UNCHANGED <<wrap, curve_type, crashed>>,
         gamma' \in {-1, 0, 1}, recompute_interval' \in BOOLEAN, piecewise' \in BOOLEAN,
         piecewise' => PairsOK(seq')
  PROVE  CurveInv'
  BY DEF CurveInv, TypeOK, SeqOK

LEMMA GivenList ==
  ASSUME NEW counts \in SUBSET Nat, NEW data \in Lists(Given, counts)
  PROVE  data \in Seq(Numbers) /\ Len(data) \in Nat /\ Len(data) \in counts
         /\ \A k \in 1 .. Len(data) : data[k] \in Numbers
<1>1. PICK n \in counts : data \in [1 .. n -> Given]  BY DEF Lists
<1>2. n \in Nat /\ Given \subseteq Numbers  BY <1>1, CurveAssumption
<1>3. data \in [1 .. n -> Numbers]  BY <1>1, <1>2
<1> QED  BY <1>1, <1>2, <1>3

-----------------------------------------------------------------------------
LEMMA InitOK == Init => CurveInv
<1> SUFFICES ASSUME Init PROVE CurveInv
  OBVIOUS
<1> DEFINE empty == sequence_create(One)
           zeros == set_size(empty, WithWrap(2))
<1>1. empty \in SequenceType
  BY Positions, SequenceAssumption DEF sequence_create, SequenceType
<1>2. WithWrap(2) \in Nat /\ WithWrap(2) # 0  BY DEF Init, WithWrap
<1> HIDE DEF empty
<1>3. SeqOK(zeros)  BY <1>1, <1>2, SetSizeOK
<1> HIDE DEF zeros
<1>4. SeqOK(set_point(zeros, 0, 0))  BY <1>3, SetPointOK DEF SeqOK
<1>5. SeqOK(set_point(set_point(zeros, 0, 0), 1, One))
  BY <1>4, SetPointOK, CurveAssumption DEF SeqOK
<1>6. SeqOK(seq)  BY <1>5 DEF Init, zeros, empty
<1> QED  BY <1>6 DEF Init, CurveInv, TypeOK, SeqOK, Types

LEMMA SetBoundsStep == CurveInv /\ SetBounds => CurveInv'
<1> SUFFICES ASSUME CurveInv, NEW b \in Bounds, stp_curve_set_bounds(b[1], b[2])
             PROVE  CurveInv'
  BY DEF SetBounds
<1>1. b[1] \in Numbers /\ b[2] \in Numbers
  BY SequenceAssumption, CurveAssumption
<1>2. SeqOK(seq') /\ seq'.data = seq.data /\ seq'.converted = seq.converted
  <2>1. set_bounds(seq, b[1], b[2]).converted = seq.converted
    BY DEF set_bounds, CurveInv, SeqOK, SequenceType
  <2> QED  BY <1>1, <2>1, SetBoundsOK DEF CurveInv, SeqOK, stp_curve_set_bounds
<1> QED  BY <1>2 DEF CurveInv, TypeOK, SeqOK, PairsOK, stp_curve_set_bounds, mode

LEMMA SetDataStep == CurveInv /\ SetData => CurveInv'
<1> SUFFICES ASSUME CurveInv, NEW data \in Lists(Given, Counts), stp_curve_set_data(data)
             PROVE  CurveInv'
  BY DEF SetData
<1>1. data \in Seq(Numbers) /\ Len(data) \in Nat /\ data[1] \in Int
  <2>1. Counts \in SUBSET Nat  BY CurveAssumption
  <2>2. /\ data \in Seq(Numbers) /\ Len(data) \in Nat
        /\ \A k \in 1 .. Len(data) : data[k] \in Numbers
    BY <2>1, GivenList
  <2>3. 1 \in 1 .. Len(data)  BY <2>2 DEF stp_curve_set_data, Allowed
  <2> QED  BY <2>2, <2>3, Positions
<1>2. SeqOK(set_points(seq, Len(data), piecewise))
  BY <1>1, SetPointsOK DEF CurveInv, TypeOK
<1>3. SeqOK(set_subrange(set_points(seq, Len(data), piecewise), 0, data))
  BY <1>1, <1>2, SetSubrangeOK DEF SeqOK
<1>4. SeqOK(seq')
  BY <1>1, <1>3, ClosingOK DEF SeqOK, stp_curve_set_data
<1> QED  BY <1>4, ReplacedOK DEF stp_curve_set_data, Replaced, mode

LEMMA SetDataPointsStep == CurveInv /\ SetDataPoints => CurveInv'
<1> SUFFICES ASSUME CurveInv, NEW n \in Counts,
                    NEW xs \in [1 .. n -> 0 .. One], NEW ys \in [1 .. n -> Given],
                    stp_curve_set_data_points(xs, ys)
             PROVE  CurveInv'
  BY DEF SetDataPoints
<1>1. n \in Nat \ {0} /\ Len(ys) = n  BY CurveAssumption
<1>2. xs[1] \in 0 .. One /\ ys[1] \in Int
  <2>1. 1 \in 1 .. n  BY <1>1
  <2>2. Given \subseteq Int  BY CurveAssumption, Positions
  <2>3. xs[1] \in 0 .. One /\ ys[1] \in Given  BY <2>1
  <2> QED  BY <2>2, <2>3
<1> DEFINE pairs == Pairs(xs, ys)
           t == set_points(seq, n, TRUE)
           u == set_subrange(t, 0, pairs)
<1>3. pairs \in Seq(Numbers) /\ Len(pairs) = 2 * n
      /\ \A k \in 1 .. 2 * n : k % 2 = 1 => pairs[k] \in 0 .. One
  <2>1. \A k \in 1 .. 2 * n : IF k % 2 = 1 THEN (k + 1) \div 2 \in 1 .. n ELSE k \div 2 \in 1 .. n
    BY <1>1
  <2>2. \A k \in 1 .. 2 * n :
          /\ (IF k % 2 = 1 THEN xs[(k + 1) \div 2] ELSE ys[k \div 2]) \in Numbers
          /\ k % 2 = 1 => xs[(k + 1) \div 2] \in 0 .. One
    BY <2>1, Positions, CurveAssumption
  <2>3. pairs = [k \in 1 .. 2 * n |-> IF k % 2 = 1 THEN xs[(k + 1) \div 2] ELSE ys[k \div 2]]
    BY <1>1 DEF Pairs
  <2> HIDE DEF pairs
  <2>4. pairs \in [1 .. 2 * n -> Numbers]  BY <2>2, <2>3
  <2>5. 2 * n \in Nat  BY <1>1
  <2>6. pairs \in Seq(Numbers) /\ Len(pairs) = 2 * n  BY <2>4, <2>5
  <2> QED  BY <2>2, <2>3, <2>6
<1>4. Allowed(n)  BY <1>1 DEF stp_curve_set_data_points
<1>5. SeqOK(t) /\ PairsOK(t)
  BY <1>1, <1>4, SetPointsOK DEF CurveInv, TypeOK
<1> HIDE DEF pairs, t
<1>6. SeqOK(u)  BY <1>3, <1>5, SetSubrangeOK DEF SeqOK
<1>7. PairsOK(u)
  <2>1. t \in SequenceType  BY <1>5 DEF SeqOK
  <2>2. u = set_subrange(t, 0, pairs)  OBVIOUS
  <2> HIDE DEF u
  <2>3. /\ Len(u.data) = Len(t.data)
        /\ t.converted = NULL => u.converted = NULL
        /\ \A k \in 1 .. Len(t.data) :
             \/ u.data[k] = t.data[k]
             \/ k \in 1 .. Len(pairs) /\ u.data[k] = pairs[k]
    BY <1>3, <2>1, <2>2, SetFrontData
  <2> QED  BY <1>3, <1>5, <2>3 DEF PairsOK
<1> HIDE DEF u
<1>8. SeqOK(Closing(u, 2 * n, xs[1])) /\ PairsOK(Closing(u, 2 * n, xs[1]))
  <2>1. 2 * n \in Nat /\ xs[1] \in Int  BY <1>1, <1>2
  <2> QED  BY <1>2, <1>6, <1>7, <2>1, ClosingOK DEF SeqOK
<1>9. /\ SeqOK(Closing(Closing(u, 2 * n, xs[1]), 2 * n + 1, ys[1]))
      /\ PairsOK(Closing(Closing(u, 2 * n, xs[1]), 2 * n + 1, ys[1]))
  <2>1. 2 * n + 1 \in Nat /\ (2 * n + 1) % 2 = 1  BY <1>1
  <2> QED  BY <1>2, <1>8, <2>1, ClosingOK DEF SeqOK
<1>10. seq' = Closing(Closing(u, 2 * n, xs[1]), 2 * n + 1, ys[1])
  BY <1>1 DEF stp_curve_set_data_points, u, t, pairs
<1> QED  BY <1>9, <1>10, ReplacedOK DEF stp_curve_set_data_points, Replaced, mode

LEMMA SetSubrangeStep == CurveInv /\ SetSubrange => CurveInv'
<1> SUFFICES ASSUME CurveInv, NEW data \in Lists(Given, Counts \union {0}), NEW start \in Places,
                    stp_curve_set_subrange(start, data)
             PROVE  CurveInv'
  BY DEF SetSubrange
<1>1. data \in Seq(Numbers) /\ start \in Nat
  BY GivenList, CurveAssumption
<1>2. PICK s \in get_range(seq) :
         IF s.rlo < s.blo \/ s.rhi > s.bhi
         THEN /\ seq' = s
              /\ UNCHANGED <<mode, piecewise, gamma, recompute_interval, interval, crashed>>
         ELSE /\ seq' = set_subrange(s, start, data)
              /\ UNCHANGED piecewise
              /\ Replaced
  BY DEF stp_curve_set_subrange
<1>3. SeqOK(s) /\ s.data = seq.data
  BY GetRangeOK DEF CurveInv, SeqOK
<1>4. ~piecewise  BY DEF stp_curve_set_subrange
<1>5. CASE s.rlo < s.blo \/ s.rhi > s.bhi
  BY <1>2, <1>3, <1>4, <1>5 DEF CurveInv, TypeOK, SeqOK, mode
<1>6. CASE ~(s.rlo < s.blo \/ s.rhi > s.bhi)
  <2>1. SeqOK(set_subrange(s, start, data))  BY <1>1, <1>3, SetSubrangeOK DEF SeqOK
  <2> QED  BY <1>2, <1>4, <1>6, <2>1, ReplacedOK DEF Replaced, mode, CurveInv, TypeOK
<1> QED  BY <1>5, <1>6

LEMMA SetPointStep == CurveInv /\ SetPoint => CurveInv'
<1> SUFFICES ASSUME CurveInv, NEW where \in Places, NEW x \in Given, stp_curve_set_point(where, x)
             PROVE  CurveInv'
  BY DEF SetPoint
<1>1. where \in Nat /\ x \in Int  BY CurveAssumption, Positions
<1>2. gamma' = 0 /\ UNCHANGED <<curve_type, wrap, piecewise, recompute_interval, crashed>>
  BY DEF stp_curve_set_point, mode
<1>3. CASE piecewise \/ ~Settable(seq, where, x)
  <2>1. UNCHANGED <<seq, interval>>  BY <1>3 DEF stp_curve_set_point
  <2> QED  BY <1>2, <2>1 DEF CurveInv, TypeOK, SeqOK
<1>4. CASE ~(piecewise \/ ~Settable(seq, where, x))
  <2>1. interval' = NULL /\ ~piecewise'
    BY <1>2, <1>4 DEF stp_curve_set_point, DeltasGo
  <2>2. SeqOK(set_point(seq, where, x))  BY <1>1, SetPointOK DEF CurveInv, SeqOK
  <2>3. CASE where # 0
    <3>1. SeqOK(seq')  BY <1>4, <2>2, <2>3 DEF stp_curve_set_point
    <3> QED  BY <1>2, <2>1, <3>1, ReplacedOK DEF CurveInv, TypeOK
  <2>4. CASE where = 0
    <3>1. get_point_count \in Nat
      <4>1. seq.data \in Seq(Numbers) /\ wrap \in BOOLEAN
        BY DEF CurveInv, TypeOK, SequenceType
      <4>2. Len(seq.data) \in Nat /\ 0 < get_point_count
        BY <4>1, <1>1, <2>4 DEF stp_curve_set_point
      <4>3. get_point_count = IF wrap THEN Len(seq.data) - 1 ELSE Len(seq.data)
        BY <1>4 DEF get_point_count, real_point_count
      <4> QED  BY <4>2, <4>3
    <3>2. SeqOK(Closing(set_point(seq, where, x), get_point_count, x))
      BY <1>1, <2>2, <3>1, ClosingOK DEF SeqOK
    <3>3. SeqOK(seq')  BY <1>4, <2>4, <3>2 DEF stp_curve_set_point
    <3> QED  BY <1>2, <2>1, <3>3, ReplacedOK DEF CurveInv, TypeOK
  <2> QED  BY <2>3, <2>4
<1> QED  BY <1>3, <1>4

(* Heights are brought back to the bounds, and then are numbers again.      *)
LEMMA ClippedOK ==
  ASSUME NEW x \in Int, NEW low \in Finite, NEW high \in Finite
  PROVE  Clipped(x, low, high) \in Numbers
<1>1. low \in Int /\ high \in Int /\ Finite \subseteq Numbers
  BY SequenceAssumption
<1>2. Clipped(x, low, high) = low \/ Clipped(x, low, high) = high \/ Clipped(x, low, high) \in low .. high
  BY <1>1 DEF Clipped
<1> QED  BY <1>1, <1>2, CurveAssumption

LEMMA RescaleStep == CurveInv /\ Rescale => CurveInv'
<1> SUFFICES ASSUME CurveInv, NEW c \in Compositions, NEW bounds_mode,
                    stp_curve_rescale(c, bounds_mode)
             PROVE  CurveInv'
  BY DEF Rescale
<1> DEFINE bounds == IF bounds_mode = "rescale" THEN NewBounds(c) ELSE <<seq.blo, seq.bhi>>
           composed == [k \in 1 .. Len(seq.data) |->
                          IF IsHeight(k) THEN c.of[seq.data[k]] ELSE seq.data[k]]
           data == [k \in 1 .. Len(seq.data) |->
                      IF IsHeight(k) THEN Clipped(composed[k], bounds[1], bounds[2])
                      ELSE seq.data[k]]
           t == set_bounds(seq, bounds[1], bounds[2])
           u == set_points(t, get_point_count, piecewise)
<1>1. /\ bounds[1] \in Finite /\ bounds[2] \in Finite
      /\ get_point_count # 0
      /\ seq' = set_subrange(u, 0, data)
  BY DEF stp_curve_rescale
<1>2. /\ seq.data \in Seq(Numbers) /\ Len(seq.data) \in Nat
      /\ wrap \in BOOLEAN /\ piecewise \in BOOLEAN
  BY DEF CurveInv, TypeOK, SequenceType
<1>3. data \in Seq(Numbers) /\ Len(data) = Len(seq.data)
      /\ \A k \in 1 .. Len(seq.data) : ~IsHeight(k) => data[k] = seq.data[k]
  <2>1. \A k \in 1 .. Len(seq.data) : seq.data[k] \in Numbers  BY <1>2
  <2>2. c.of \in [Numbers -> Int]  BY CurveAssumption
  <2>3. \A k \in 1 .. Len(seq.data) : IsHeight(k) => composed[k] \in Int
    BY <2>1, <2>2
  <2> HIDE DEF composed, bounds
  <2>4. \A k \in 1 .. Len(seq.data) : data[k] \in Numbers
    BY <1>1, <2>1, <2>3, ClippedOK
  <2>5. \A k \in 1 .. Len(seq.data) : ~IsHeight(k) => data[k] = seq.data[k]
    OBVIOUS
  <2>6. data = [k \in 1 .. Len(seq.data) |-> data[k]]  OBVIOUS
  <2> HIDE DEF data
  <2>7. data \in [1 .. Len(seq.data) -> Numbers]  BY <2>4, <2>6
  <2> QED  BY <1>2, <2>5, <2>7
<1> HIDE DEF bounds, composed, data
<1>4. SeqOK(t) /\ t.data = seq.data
  <2>1. bounds[1] \in Numbers /\ bounds[2] \in Numbers  BY <1>1, SequenceAssumption
  <2> QED  BY <2>1, SetBoundsOK DEF CurveInv, SeqOK
<1>5. t.converted = seq.converted
  BY DEF set_bounds, CurveInv, SeqOK, SequenceType
<1> HIDE DEF t
<1>6. CASE get_point_count \in Nat
  <2>1. /\ SeqOK(u)
        /\ piecewise => PairsOK(u)
    <3>1. piecewise => PairsOK(t)  BY <1>4, <1>5 DEF CurveInv, PairsOK
    <3> QED  BY <1>2, <1>4, <1>6, <3>1, SetPointsOK DEF SeqOK
  <2> HIDE DEF u
  <2>2. SeqOK(seq')  BY <1>1, <1>3, <2>1, SetSubrangeOK DEF SeqOK
  <2>3. ASSUME piecewise PROVE PairsOK(seq')
    <3>1. u \in SequenceType  BY <2>1 DEF SeqOK
    <3>2. /\ Len(seq'.data) = Len(u.data)
          /\ u.converted = NULL => seq'.converted = NULL
          /\ \A k \in 1 .. Len(u.data) :
               \/ seq'.data[k] = u.data[k]
               \/ k \in 1 .. Len(data) /\ seq'.data[k] = data[k]
      BY <1>1, <1>3, <3>1, SetFrontData
    <3>3. \A k \in 1 .. Len(u.data) :
               \/ seq'.data[k] = u.data[k]
               \/ k \in 1 .. Len(seq.data) /\ seq'.data[k] = data[k]
      BY <3>2, <1>3
    <3>4. \A k \in 1 .. Len(seq.data) : k % 2 = 1 => data[k] = seq.data[k]
      BY <1>3, <2>3 DEF IsHeight
    <3>5. PairsOK(u) /\ PairsOK(seq)  BY <2>1, <2>3 DEF CurveInv
    <3> QED  BY <3>2, <3>3, <3>4, <3>5 DEF PairsOK
  <2> QED  BY <2>2, <2>3, ReplacedOK DEF stp_curve_rescale, Replaced, mode, CurveInv, TypeOK
<1>7. CASE get_point_count \notin Nat
  <2>1. real_point_count \in Nat
    <3>1. \A n \in Nat : n \div 2 \in Nat  OBVIOUS
    <3> QED  BY <1>2, <3>1 DEF real_point_count
  <2>2. ~Allowed(get_point_count)
    <3>1. get_point_count = real_point_count \/ get_point_count = real_point_count - 1
      BY DEF get_point_count
    <3>2. get_point_count < 2 /\ get_point_count \in Int  BY <1>7, <2>1, <3>1
    <3> QED  BY <3>2 DEF Allowed
  <2>3. u = t  BY <2>2 DEF set_points
  <2>0. seq' = set_subrange(t, 0, data) /\ t \in SequenceType
    BY <1>1, <1>4, <2>3 DEF SeqOK
  <2> HIDE DEF u
  <2>4. SeqOK(seq')  BY <1>3, <1>4, <2>0, SetSubrangeOK
  <2>5. ASSUME piecewise PROVE PairsOK(seq')
    <3>1. /\ Len(seq'.data) = Len(t.data)
          /\ t.converted = NULL => seq'.converted = NULL
          /\ \A k \in 1 .. Len(t.data) :
               \/ seq'.data[k] = t.data[k]
               \/ k \in 1 .. Len(data) /\ seq'.data[k] = data[k]
      BY <1>3, <2>0, SetFrontData
    <3>3. \A k \in 1 .. Len(seq.data) :
               \/ seq'.data[k] = seq.data[k]
               \/ seq'.data[k] = data[k]
      BY <3>1, <1>4
    <3>4. \A k \in 1 .. Len(seq.data) : k % 2 = 1 => data[k] = seq.data[k]
      BY <1>3, <2>5 DEF IsHeight
    <3>5. PairsOK(seq)  BY <2>5 DEF CurveInv
    <3> QED  BY <1>4, <1>5, <3>1, <3>3, <3>4, <3>5 DEF PairsOK
  <2> QED  BY <2>4, <2>5, ReplacedOK DEF stp_curve_rescale, Replaced, mode, CurveInv, TypeOK
<1> QED  BY <1>6, <1>7

LEMMA DeltasOK ==
  ASSUME CurveInv
  PROVE  /\ Deltas \in [of : Seq(Numbers), type : Types] \union {NULL}
         /\ Deltas # NULL => Deltas.of = seq.data
<1>1. /\ seq.data \in Seq(Numbers) /\ curve_type \in Types
      /\ interval \in [of : Seq(Numbers), type : Types] \union {NULL}
      /\ interval # NULL => interval.of = seq.data
  BY DEF CurveInv, TypeOK, SequenceType
<1> QED  BY <1>1 DEF Deltas

LEMMA ResampleStep == CurveInv /\ Resample => CurveInv'
<1> SUFFICES ASSUME CurveInv, NEW points \in 2 .. curve_point_limit, stp_curve_resample(points)
             PROVE  CurveInv'
  BY DEF Resample
<1> DEFINE last == WithWrap(points) - 1
<1>1. UNCHANGED <<curve_type, wrap, gamma>>  BY DEF stp_curve_resample, mode
<1>2. CASE Len(seq.data) = 0
  <2>1. /\ interval' = Deltas /\ recompute_interval' = FALSE
        /\ UNCHANGED <<seq, piecewise, crashed>>
    BY <1>2 DEF stp_curve_resample
  <2> QED  BY <1>1, <2>1, DeltasOK DEF CurveInv, TypeOK, SeqOK
<1>3. CASE /\ Len(seq.data) # 0 /\ (NullDeltas(last) \/ PastDeltas(last))
           /\ crashed' = TRUE /\ UNCHANGED <<seq, piecewise, recompute_interval, interval>>
  <2>1. crashed' = TRUE /\ UNCHANGED <<seq, piecewise, recompute_interval, interval>>
    BY <1>3 DEF stp_curve_resample
  <2> QED  BY <1>1, <2>1 DEF CurveInv, TypeOK, SeqOK
<1>4. CASE /\ \E data \in [1 .. last + 1 -> NewPoints(last)] :
                 seq' = set_data(set_size(seq, 0), data)
           /\ piecewise' = FALSE /\ interval' = NULL /\ recompute_interval' = TRUE
           /\ UNCHANGED crashed
  <2>1. PICK data \in [1 .. last + 1 -> NewPoints(last)] :
           seq' = set_data(set_size(seq, 0), data)
    BY <1>4
  <2>2. piecewise' = FALSE /\ interval' = NULL /\ recompute_interval' = TRUE /\ UNCHANGED crashed
    BY <1>4
  <2>3. data \in Seq(Numbers)
    <3>1. NewPoints(last) \subseteq Numbers  BY DEF NewPoints
    <3>2. last + 1 \in Nat  BY CurveAssumption DEF WithWrap, CurveInv, TypeOK
    <3> HIDE DEF last
    <3>3. data \in [1 .. last + 1 -> Numbers]  BY <3>1
    <3> QED  BY <3>2, <3>3
  <2>4. SeqOK(seq')
    <3>1. set_size(seq, 0) \in SequenceType  BY SetSizeTyped DEF CurveInv, SeqOK
    <3> QED  BY <2>1, <2>3, <3>1, SetDataOK
  <2> QED  BY <1>1, <2>2, <2>4, ReplacedOK DEF CurveInv, TypeOK
<1> QED  BY <1>2, <1>3, <1>4 DEF stp_curve_resample

LEMMA SetGammaStep == CurveInv /\ SetGamma => CurveInv'
<1> SUFFICES ASSUME CurveInv, NEW sign \in {-1, 1}, stp_curve_set_gamma(sign)
             PROVE  CurveInv'
  BY DEF SetGamma
<1>1. gamma' = sign /\ interval' = NULL /\ UNCHANGED <<curve_type, wrap, piecewise, crashed>>
  BY DEF stp_curve_set_gamma, mode
<1>2. seq \in SequenceType /\ piecewise \in BOOLEAN  BY DEF CurveInv, SeqOK, TypeOK
<1>3. CASE piecewise
  <2>1. seq' = set_size(seq, 0) /\ recompute_interval' = FALSE
    BY <1>3 DEF stp_curve_set_gamma
  <2>2. seq.converted = NULL  BY <1>3 DEF CurveInv, PairsOK
  <2>3. SeqOK(seq') /\ seq'.converted = NULL /\ seq'.data = [k \in 1 .. 0 |-> 0]
    BY <1>2, <2>1, <2>2, SetSizeOK
  <2>4. Len([k \in 1 .. 0 |-> 0]) = 0  OBVIOUS
  <2>5. PairsOK(seq')  BY <2>3, <2>4 DEF PairsOK
  <2> QED  BY <1>1, <1>2, <2>1, <2>3, <2>5, ReplacedOK
<1>4. CASE ~piecewise
  <2>1. recompute_interval' = TRUE
    BY <1>4 DEF stp_curve_set_gamma
  <2>2. PICK x \in Numbers :
          seq' = set_data(set_size(seq, 0), IF sign > 0 THEN <<seq.bhi, x>> ELSE <<x, seq.bhi>>)
    BY <1>4 DEF stp_curve_set_gamma
  <2>3. <<seq.bhi, x>> \in Seq(Numbers) /\ <<x, seq.bhi>> \in Seq(Numbers)
    BY <1>2 DEF SequenceType
  <2>4. SeqOK(seq')
    <3>1. set_size(seq, 0) \in SequenceType  BY <1>2, SetSizeTyped
    <3> QED  BY <2>2, <2>3, <3>1, SetDataOK
  <2>5. gamma' \in {-1, 0, 1} /\ piecewise' = FALSE  BY <1>1, <1>2, <1>4
  <2> QED  BY <1>1, <2>1, <2>4, <2>5, ReplacedOK
<1> QED  BY <1>2, <1>3, <1>4

LEMMA SetInterpolationTypeStep == CurveInv /\ SetInterpolationType => CurveInv'
  BY DEF SetInterpolationType, stp_curve_set_interpolation_type, CurveInv, TypeOK, SeqOK

LEMMA InterpolateStep == CurveInv /\ Interpolate => CurveInv'
<1> SUFFICES ASSUME CurveInv, Interpolate PROVE CurveInv'
  OBVIOUS
<1>0. PICK integer : stp_curve_interpolate_value(integer)  BY DEF Interpolate
<1>1. /\ interval' = Deltas /\ recompute_interval' = FALSE /\ crashed' \in BOOLEAN
      /\ UNCHANGED <<seq, curve_type, wrap, piecewise, gamma>>
  BY <1>0 DEF stp_curve_interpolate_value, mode, CurveInv, TypeOK
<1> QED  BY <1>1, DeltasOK DEF CurveInv, TypeOK, SeqOK

LEMMA GetRangeStep == CurveInv /\ stp_curve_get_range => CurveInv'
<1> SUFFICES ASSUME CurveInv, stp_curve_get_range PROVE CurveInv'
  OBVIOUS
<1>1. /\ seq' \in get_range(seq)
      /\ UNCHANGED <<curve_type, wrap, piecewise, gamma, recompute_interval, interval, crashed>>
  BY DEF stp_curve_get_range, mode
<1>2. SeqOK(seq') /\ seq'.data = seq.data /\ seq'.converted = seq.converted
  BY <1>1, GetRangeOK DEF CurveInv, SeqOK
<1> QED  BY <1>1, <1>2 DEF CurveInv, TypeOK, SeqOK, PairsOK

LEMMA GetConvertedStep == CurveInv /\ stp_curve_get_converted_data => CurveInv'
<1> SUFFICES ASSUME CurveInv, stp_curve_get_converted_data PROVE CurveInv'
  OBVIOUS
<1>1. /\ seq' = get_converted(seq) /\ ~piecewise
      /\ UNCHANGED <<curve_type, wrap, piecewise, gamma, recompute_interval, interval, crashed>>
  BY DEF stp_curve_get_converted_data, mode
<1>2. SeqOK(seq') /\ seq'.data = seq.data
  BY <1>1, GetConvertedOK DEF CurveInv, SeqOK
<1> QED  BY <1>1, <1>2 DEF CurveInv, TypeOK, SeqOK

LEMMA CopyStep == CurveInv /\ stp_curve_copy => CurveInv'
<1> SUFFICES ASSUME CurveInv, stp_curve_copy PROVE CurveInv'
  OBVIOUS
<1>1. /\ seq' = sequence_copy(seq) /\ interval' = NULL /\ recompute_interval' = TRUE
      /\ UNCHANGED <<curve_type, wrap, piecewise, gamma, crashed>>
  BY DEF stp_curve_copy, mode
<1>2. SeqOK(seq') /\ seq'.data = seq.data /\ seq'.converted = NULL
  BY <1>1, CopyOK DEF CurveInv, SeqOK
<1> QED  BY <1>1, <1>2 DEF CurveInv, TypeOK, SeqOK, PairsOK

LEMMA ReverseStep == CurveInv /\ stp_curve_reverse => CurveInv'
<1> SUFFICES ASSUME CurveInv, stp_curve_reverse PROVE CurveInv'
  OBVIOUS
<1>1. /\ interval' = NULL /\ recompute_interval' = TRUE
      /\ UNCHANGED <<curve_type, wrap, piecewise, gamma, crashed>>
  BY DEF stp_curve_reverse, mode
<1>2. gamma \in {-1, 0, 1} /\ piecewise \in BOOLEAN  BY DEF CurveInv, TypeOK
<1>3. CASE ~piecewise
  <2>1. SeqOK(seq')  BY <1>3, ReverseOK DEF stp_curve_reverse, CurveInv, SeqOK
  <2> QED  BY <1>1, <1>2, <1>3, <2>1, ReplacedOK
<1>4. CASE piecewise
  <2> DEFINE n == Len(seq.data)
             turned == Mirrored(seq.data)
             empty == sequence_create(One)
  <2>1. /\ seq.data \in Seq(Numbers) /\ n \in Nat /\ n % 2 = 0
        /\ \A k \in 1 .. n : k % 2 = 1 => seq.data[k] \in 0 .. One
    BY <1>4 DEF CurveInv, PairsOK, TypeOK, SequenceType
  <2>2. \A k \in 1 .. n : IF k % 2 = 1 THEN n - k \in 1 .. n /\ (n - k) % 2 = 1
                          ELSE n - k + 2 \in 1 .. n
    <3>1. n \in Nat /\ n % 2 = 0  BY <2>1
    <3> HIDE DEF n
    <3>2. SUFFICES ASSUME NEW k \in 1 .. n
                   PROVE  IF k % 2 = 1 THEN n - k \in 1 .. n /\ (n - k) % 2 = 1
                          ELSE n - k + 2 \in 1 .. n
      OBVIOUS
    <3>3. CASE k % 2 = 1
      <4>1. (n - k) % 2 = 1 /\ n - k \in Nat  BY <3>1, <3>3
      <4>2. n - k # 0  BY <4>1
      <4> QED  BY <3>1, <3>3, <4>1, <4>2
    <3>4. CASE k % 2 # 1
      <4>1. k >= 2  BY <3>4
      <4> QED  BY <3>1, <3>4, <4>1
    <3> QED  BY <3>3, <3>4
  <2>3. \A k \in 1 .. n :
          /\ (IF k % 2 = 1 THEN One - seq.data[n - k] ELSE seq.data[n - k + 2]) \in Numbers
          /\ k % 2 = 1 => One - seq.data[n - k] \in 0 .. One
    <3>1. \A x \in 0 .. One : One - x \in 0 .. One  BY CurveAssumption
    <3>2. n \in Nat /\ \A k \in 1 .. n : seq.data[k] \in Numbers  BY <2>1
    <3>3. SUFFICES ASSUME NEW k \in 1 .. n
                   PROVE  /\ (IF k % 2 = 1 THEN One - seq.data[n - k] ELSE seq.data[n - k + 2]) \in Numbers
                          /\ k % 2 = 1 => One - seq.data[n - k] \in 0 .. One
      OBVIOUS
    <3>4. CASE k % 2 = 1
      <4>1. n - k \in 1 .. n /\ (n - k) % 2 = 1  BY <2>2, <3>4
      <4>2. seq.data[n - k] \in 0 .. One  BY <2>1, <4>1
      <4> QED  BY <3>1, <3>4, <4>2, Positions
    <3>5. CASE k % 2 # 1
      <4>1. n - k + 2 \in 1 .. n  BY <2>2, <3>5
      <4> QED  BY <3>2, <3>5, <4>1
    <3> QED  BY <3>4, <3>5
  <2>4. turned = [k \in 1 .. n |-> IF k % 2 = 1 THEN One - seq.data[n - k]
                                   ELSE seq.data[n - k + 2]]
    BY DEF Mirrored
  <2> HIDE DEF turned
  <2>5. turned \in [1 .. n -> Numbers]  BY <2>3, <2>4
  <2>6. turned \in Seq(Numbers) /\ Len(turned) = n  BY <2>1, <2>5
  <2>7. empty \in SequenceType
    BY Positions, SequenceAssumption DEF sequence_create, SequenceType
  <2> HIDE DEF empty
  <2>8. SeqOK(set_data(empty, turned)) /\ set_data(empty, turned).data = turned
        /\ set_data(empty, turned).converted = NULL
    BY <2>6, <2>7, SetDataOK
  <2>9. seq' = set_data(empty, turned)  BY <1>4 DEF stp_curve_reverse, turned, empty
  <2>10. PairsOK(seq')
    BY <2>1, <2>3, <2>4, <2>6, <2>8, <2>9 DEF PairsOK
  <2> QED  BY <1>1, <1>2, <2>8, <2>9, <2>10, ReplacedOK
<1> QED  BY <1>3, <1>4

(* Whatever call comes next, the invariant stays. *)
THEOREM Inductive == CurveInv /\ [Next]_vars => CurveInv'
<1> SUFFICES ASSUME CurveInv, [Next]_vars PROVE CurveInv'
  OBVIOUS
<1>1. CASE UNCHANGED vars
  BY <1>1 DEF vars, mode, CurveInv, TypeOK, SeqOK
<1>2. CASE Gone
  BY <1>2 DEF Gone, vars, mode, CurveInv, TypeOK, SeqOK
<1>3. CASE Next /\ ~Gone
  BY <1>3, SetBoundsStep, SetDataStep, SetDataPointsStep, SetSubrangeStep, SetPointStep,
     SetInterpolationTypeStep, RescaleStep, ResampleStep, SetGammaStep, InterpolateStep,
     GetRangeStep, GetConvertedStep, CopyStep, ReverseStep
  DEF Next
<1> QED  BY <1>1, <1>2, <1>3

LEMMA Invariant == Spec => []CurveInv
  BY InitOK, Inductive, PTL DEF Spec

-----------------------------------------------------------------------------
(* However single points are set past the cached range, a range that is not *)
(* marked for a new scan is that of the points, for every curve.            *)
THEOREM RangeIsRight == Spec => []RangeRight
<1>1. CurveInv => RangeRight  BY CurveInvImplies
<1> QED  BY <1>1, Invariant, PTL

(* Copies and deltas that are kept are those of the points there are.       *)
THEOREM DerivedIsFresh == Spec => []DerivedFresh
<1>1. CurveInv => DerivedFresh  BY CurveInvImplies
<1> QED  BY <1>1, Invariant, PTL

-----------------------------------------------------------------------------
(* What keeps a sound curve sound.  Bounds are finite and in order, and a   *)
(* curve has no single point, or there would be none to go on to from it.   *)
PointsInv ==
  /\ seq.blo \in Finite /\ seq.bhi \in Finite /\ seq.blo <= seq.bhi
  /\ Len(seq.data) # 1

(* The bounds of a sequence are another's. *)
SameBounds(t, s) == t.blo = s.blo /\ t.bhi = s.bhi

(* New points in front, and what is behind them. *)
LEMMA FrontExact ==
  ASSUME NEW s \in SequenceType, NEW data \in Seq(Numbers), Len(data) <= Len(s.data),
         NEW t, t = set_subrange(s, 0, data)
  PROVE  /\ Len(t.data) = Len(s.data) /\ SameBounds(t, s)
         /\ \A k \in 1 .. Len(s.data) :
              t.data[k] = IF k \in 1 .. Len(data) THEN data[k] ELSE s.data[k]
<1> DEFINE new == [k \in 1 .. Len(s.data) |->
                     IF k \in 0 + 1 .. 0 + Len(data) THEN data[k - 0] ELSE s.data[k]]
<1>1. Len(s.data) \in Nat /\ Len(data) \in Nat  BY DEF SequenceType
<1>2. Len(new) = Len(s.data)  BY <1>1
<1>3. \A k \in 1 .. Len(s.data) : new[k] = IF k \in 1 .. Len(data) THEN data[k] ELSE s.data[k]
  BY <1>1
<1>4. ~(0 + Len(data) > Len(s.data))  BY <1>1
<1>5. t = [s EXCEPT !.data = new, !.recompute_range = TRUE, !.converted = NULL]
  BY <1>4 DEF set_subrange
<1> HIDE DEF new
<1>6. t.data = new /\ t.blo = s.blo /\ t.bhi = s.bhi
  BY <1>5 DEF SequenceType
<1> QED  BY <1>2, <1>3, <1>6 DEF SameBounds

(* One point, if it can be set. *)
LEMMA PointExact ==
  ASSUME NEW s \in SequenceType, NEW where \in Nat, NEW x \in Int,
         NEW t, t = set_point(s, where, x)
  PROVE  /\ Len(t.data) = Len(s.data) /\ SameBounds(t, s)
         /\ \A k \in 1 .. Len(s.data) : k # where + 1 => t.data[k] = s.data[k]
         /\ Settable(s, where, x) => t.data[where + 1] = x
<1>1. CASE ~Settable(s, where, x)
  <2>1. t = s  BY <1>1 DEF set_point
  <2> QED  BY <1>1, <2>1 DEF SameBounds
<1>2. CASE Settable(s, where, x)
  <2> DEFINE new == [k \in 1 .. Len(s.data) |-> IF k = where + 1 THEN x ELSE s.data[k]]
  <2>1. Len(s.data) \in Nat /\ where < Len(s.data)  BY <1>2 DEF SequenceType, Settable
  <2>2. /\ Len(new) = Len(s.data) /\ new[where + 1] = x
        /\ \A k \in 1 .. Len(s.data) : k # where + 1 => new[k] = s.data[k]
    BY <2>1
  <2>3. t = [s EXCEPT !.data = new,
                      !.recompute_range = @ \/ RangeMayChange(s, where, x),
                      !.converted = NULL]
    BY <1>2 DEF set_point
  <2> HIDE DEF new
  <2>4. t.data = new /\ t.blo = s.blo /\ t.bhi = s.bhi
    BY <2>3 DEF SequenceType
  <2> QED  BY <2>2, <2>4 DEF SameBounds
<1> QED  BY <1>1, <1>2

LEMMA ClosingExact ==
  ASSUME NEW s \in SequenceType, NEW where \in Nat, NEW x \in Int,
         NEW t, t = Closing(s, where, x)
  PROVE  /\ Len(t.data) = Len(s.data) /\ SameBounds(t, s)
         /\ \A k \in 1 .. Len(s.data) : k # where + 1 => t.data[k] = s.data[k]
         /\ wrap /\ Settable(s, where, x) => t.data[where + 1] = x
<1>1. CASE wrap
  <2>1. t = set_point(s, where, x)  BY <1>1 DEF Closing
  <2> QED  BY <2>1, PointExact
<1>2. CASE ~wrap
  <2>1. t = s  BY <1>2 DEF Closing
  <2> QED  BY <1>2, <2>1 DEF SameBounds
<1> QED  BY <1>1, <1>2

(* New points are as many as the curve has to have, within the old bounds.  *)
LEMMA PointsExact ==
  ASSUME NEW s \in SequenceType, NEW n \in Nat, NEW pairs \in BOOLEAN, wrap \in BOOLEAN,
         NEW t, t = set_points(s, n, pairs)
  PROVE  /\ SameBounds(t, s)
         /\ Allowed(n) /\ pairs => Len(t.data) = WithWrap(n) * 2
         /\ Allowed(n) /\ ~pairs => Len(t.data) = WithWrap(n)
         /\ ~Allowed(n) => t = s
<1>1. CASE ~Allowed(n)
  <2>1. t = s  BY <1>1 DEF set_points
  <2> QED  BY <1>1, <2>1 DEF SameBounds
<1>2. CASE Allowed(n)
  <2> DEFINE size == WithWrap(n) * (IF pairs THEN 2 ELSE 1)
             cleared == set_size(s, 0)
  <2>1. size \in Nat /\ size # 0  BY <1>2 DEF WithWrap, Allowed
  <2>2. cleared \in SequenceType /\ cleared.blo = s.blo /\ cleared.bhi = s.bhi
    <3>1. cleared \in SequenceType  BY SetSizeTyped
    <3> QED  BY <3>1 DEF set_size, SequenceType
  <2>3. t = set_size(cleared, size)  BY <1>2 DEF set_points
  <2> HIDE DEF size, cleared
  <2>4. t.data = [k \in 1 .. size |-> 0] /\ t.blo = cleared.blo /\ t.bhi = cleared.bhi
    BY <2>2, <2>3 DEF set_size, SequenceType
  <2>5. Len(t.data) = size  BY <2>1, <2>4
  <2>6. WithWrap(n) * 1 = WithWrap(n)  BY DEF WithWrap
  <2> QED  BY <1>2, <2>2, <2>4, <2>5, <2>6 DEF SameBounds, size
<1> QED  BY <1>1, <1>2

(* A sequence of as many points, within the same bounds. *)
LEMMA InvFrom ==
  ASSUME PointsInv, SameBounds(seq', seq), Len(seq'.data) # 1
  PROVE  PointsInv'
  BY DEF PointsInv, SameBounds

-----------------------------------------------------------------------------
(* stp_curve_set_data on a curve that is not piecewise: the data, and the   *)
(* first of them once more.                                                 *)
LEMMA SetDataKeeps ==
  ASSUME CurveInv, PointsInv, SetData
  PROVE  PointsInv' /\ (Sound' \/ Careless)
<1> PICK data \in Lists(Given, Counts) : stp_curve_set_data(data)
  BY DEF SetData
<1> DEFINE n == Len(data)
           t == set_points(seq, n, piecewise)
           u == set_subrange(t, 0, data)
<1>1. /\ Allowed(n) /\ \A k \in DOMAIN data : data[k] \in Finite /\ InBounds(data[k])
      /\ seq' = Closing(u, n, data[1]) /\ piecewise' = FALSE /\ wrap' = wrap
  BY DEF stp_curve_set_data, Replaced, mode
<1>2. data \in Seq(Numbers) /\ n \in Nat /\ n >= 2 /\ DOMAIN data = 1 .. n
  <2>1. Counts \in SUBSET Nat  BY CurveAssumption
  <2>2. data \in Seq(Numbers) /\ Len(data) \in Nat  BY <2>1, GivenList
  <2> QED  BY <1>1, <2>2 DEF Allowed
<1>3. data[1] \in Finite /\ data[1] \in Int /\ InBounds(data[1])
  <2>1. 1 \in 1 .. n  BY <1>2
  <2>2. data[1] \in Finite /\ InBounds(data[1])  BY <1>1, <1>2, <2>1
  <2> QED  BY <2>2, SequenceAssumption
<1>4. seq \in SequenceType /\ wrap \in BOOLEAN /\ piecewise \in BOOLEAN
  BY DEF CurveInv, TypeOK
<1>5. /\ SeqOK(t) /\ SameBounds(t, seq)
      /\ piecewise => Len(t.data) = WithWrap(n) * 2
      /\ ~piecewise => Len(t.data) = WithWrap(n)
  BY <1>1, <1>2, <1>4, SetPointsOK, PointsExact DEF CurveInv
<1>6. Len(t.data) \in Nat /\ Len(t.data) >= n /\ (~piecewise => Len(t.data) = WithWrap(n))
  <2>1. WithWrap(n) \in Nat /\ WithWrap(n) >= n  BY <1>2, <1>4 DEF WithWrap
  <2>2. Len(t.data) = WithWrap(n) * 2 \/ Len(t.data) = WithWrap(n)  BY <1>5
  <2>3. ~piecewise => Len(t.data) = WithWrap(n)  BY <1>5
  <2> HIDE DEF t, n
  <2> QED  BY <1>2, <2>1, <2>2, <2>3
<1> HIDE DEF t
<1>7. /\ Len(u.data) = Len(t.data) /\ SameBounds(u, t)
      /\ \A k \in 1 .. Len(t.data) : u.data[k] = IF k \in 1 .. n THEN data[k] ELSE t.data[k]
  <2>1. t \in SequenceType  BY <1>5 DEF SeqOK
  <2> QED  BY <1>2, <1>6, <2>1, FrontExact
<1>8. u \in SequenceType
  BY <1>2, <1>5, SetSubrangeOK DEF SeqOK
<1> HIDE DEF u
<1>9. /\ Len(seq'.data) = Len(u.data) /\ SameBounds(seq', u)
      /\ \A k \in 1 .. Len(u.data) : k # n + 1 => seq'.data[k] = u.data[k]
      /\ wrap /\ Settable(u, n, data[1]) => seq'.data[n + 1] = data[1]
  BY <1>1, <1>2, <1>3, <1>8, ClosingExact
<1>10. SameBounds(seq', seq)  BY <1>5, <1>7, <1>9 DEF SameBounds
<1>11. PointsInv'
  BY <1>2, <1>6, <1>7, <1>9, <1>10, InvFrom
<1>12. CASE piecewise
  <2>1. Careless  BY <1>12 DEF Careless
  <2> QED  BY <1>11, <2>1
<1>13. CASE ~piecewise
  <2>1. Len(seq'.data) = WithWrap(n)  BY <1>6, <1>7, <1>9, <1>13
  <2>2. \A k \in 1 .. n : k \in 1 .. Len(u.data) /\ k # n + 1
    BY <1>2, <1>6, <1>7
  <2>3. \A k \in 1 .. n : seq'.data[k] = data[k]
    BY <1>7, <1>9, <2>2
  <2>4. wrap => seq'.data[n + 1] = data[1]
    <3>1. wrap => n < Len(u.data)  BY <1>2, <1>6, <1>7, <1>13 DEF WithWrap
    <3>2. u.blo = seq.blo /\ u.bhi = seq.bhi  BY <1>5, <1>7 DEF SameBounds
    <3> QED  BY <1>3, <1>9, <3>1, <3>2 DEF Settable, InBounds
  <2>5. \A k \in 1 .. WithWrap(n) : k \in 1 .. n \/ (wrap /\ k = n + 1)
    BY <1>2 DEF WithWrap
  <2>6. \A k \in 1 .. WithWrap(n) : InBounds(seq'.data[k])
    BY <1>1, <1>2, <1>3, <2>3, <2>4, <2>5
  <2>7. Sound'
    <3>1. ~piecewise' /\ SameBounds(seq', seq) /\ 1 \in 1 .. n
      BY <1>1, <1>2, <1>10
    <3>2. wrap => Len(seq'.data) = n + 1  BY <2>1 DEF WithWrap
    <3>3. wrap => seq'.data[Len(seq'.data)] = seq'.data[1]  BY <2>3, <2>4, <3>1, <3>2
    <3> QED  BY <1>1, <2>1, <2>6, <3>1, <3>3 DEF Sound, IsHeight, InBounds, SameBounds
  <2> QED  BY <1>11, <2>7
<1> QED  BY <1>12, <1>13

(* stp_curve_set_data_points: the pairs, and the first of them once more.   *)
LEMMA SetDataPointsKeeps ==
  ASSUME CurveInv, PointsInv, SetDataPoints
  PROVE  PointsInv' /\ Sound'
<1> PICK n \in Counts : \E xs \in [1 .. n -> 0 .. One], ys \in [1 .. n -> Given] :
           stp_curve_set_data_points(xs, ys)
  BY DEF SetDataPoints
<1> PICK xs \in [1 .. n -> 0 .. One], ys \in [1 .. n -> Given] :
           stp_curve_set_data_points(xs, ys)
  OBVIOUS
<1> DEFINE pairs == Pairs(xs, ys)
           t == set_points(seq, n, TRUE)
           u == set_subrange(t, 0, pairs)
           v == Closing(u, 2 * n, xs[1])
<1>1. n \in Nat /\ Len(ys) = n /\ Len(ys) \in Nat  BY CurveAssumption
<1>2. /\ Allowed(n) /\ n >= 2 /\ xs[1] = 0
      /\ \A k \in 1 .. n : ys[k] \in Finite /\ InBounds(ys[k])
      /\ seq' = Closing(v, 2 * n + 1, ys[1])
      /\ piecewise' = TRUE /\ wrap' = wrap
  BY <1>1 DEF stp_curve_set_data_points, ArePoints, Allowed, Replaced, mode
<1>3. ys[1] \in Finite /\ ys[1] \in Int /\ InBounds(ys[1]) /\ xs[1] \in Int
  <2>1. 1 \in 1 .. n  BY <1>1, <1>2
  <2> QED  BY <1>2, <2>1, SequenceAssumption
<1>4. seq \in SequenceType /\ wrap \in BOOLEAN  BY DEF CurveInv, TypeOK
<1>5. /\ pairs \in Seq(Numbers) /\ Len(pairs) = 2 * n /\ 2 * n \in Nat
      /\ pairs[1] = xs[1] /\ pairs[2] = ys[1]
      /\ \A k \in 1 .. 2 * n : k % 2 = 0 => InBounds(pairs[k])
  <2>1. \A k \in 1 .. 2 * n : IF k % 2 = 1 THEN (k + 1) \div 2 \in 1 .. n ELSE k \div 2 \in 1 .. n
    BY <1>1
  <2>2. \A k \in 1 .. 2 * n :
          (IF k % 2 = 1 THEN xs[(k + 1) \div 2] ELSE ys[k \div 2]) \in Numbers
    BY <2>1, Positions, CurveAssumption
  <2>3. pairs = [k \in 1 .. 2 * n |-> IF k % 2 = 1 THEN xs[(k + 1) \div 2] ELSE ys[k \div 2]]
    BY <1>1 DEF Pairs
  <2> HIDE DEF pairs
  <2>4. pairs \in [1 .. 2 * n -> Numbers]  BY <2>2, <2>3
  <2>5. 2 * n \in Nat  BY <1>1
  <2>6. pairs \in Seq(Numbers) /\ Len(pairs) = 2 * n  BY <2>4, <2>5
  <2>7. \A k \in 1 .. 2 * n : k % 2 = 0 => pairs[k] = ys[k \div 2] /\ k \div 2 \in 1 .. n
    BY <2>1, <2>3
  <2>8. pairs[1] = xs[1] /\ pairs[2] = ys[1]
    <3>1. /\ 1 \in 1 .. 2 * n /\ 1 % 2 = 1 /\ (1 + 1) \div 2 = 1
          /\ 2 \in 1 .. 2 * n /\ 2 % 2 # 1 /\ 2 \div 2 = 1
      BY <1>1, <1>2
    <3> QED  BY <2>3, <3>1
  <2> QED  BY <1>2, <2>5, <2>6, <2>7, <2>8
<1>6. /\ SeqOK(t) /\ SameBounds(t, seq) /\ Len(t.data) = WithWrap(n) * 2
  <2>1. SeqOK(t)  BY <1>1, <1>4, SetPointsOK DEF CurveInv
  <2>2. PICK p \in BOOLEAN : p /\ t = set_points(seq, n, p)  OBVIOUS
  <2> HIDE DEF t
  <2>3. p /\ n \in Nat /\ Allowed(n) /\ seq \in SequenceType /\ wrap \in BOOLEAN
        /\ t = set_points(seq, n, p)
    BY <1>1, <1>2, <1>4, <2>2
  <2>4. SameBounds(t, seq) /\ Len(t.data) = WithWrap(n) * 2
    BY <2>3, PointsExact, Zenon
  <2> QED  BY <2>1, <2>4
<1> DEFINE m == WithWrap(n) * 2
<1>7. m \in Nat /\ m >= 4 /\ (wrap => m = 2 * n + 2) /\ (~wrap => m = 2 * n)
  BY <1>1, <1>2, <1>4 DEF WithWrap
<1> HIDE DEF pairs, t
<1>8. /\ Len(u.data) = Len(t.data) /\ SameBounds(u, t)
      /\ \A k \in 1 .. Len(t.data) :
           u.data[k] = IF k \in 1 .. Len(pairs) THEN pairs[k] ELSE t.data[k]
  <2>1. t \in SequenceType  BY <1>6 DEF SeqOK
  <2>2. Len(pairs) <= Len(t.data)  BY <1>5, <1>6, <1>7
  <2> QED  BY <1>5, <2>1, <2>2, FrontExact
<1>9. SeqOK(u)  BY <1>5, <1>6, SetSubrangeOK DEF SeqOK
<1> HIDE DEF u
<1>10. /\ Len(v.data) = Len(u.data) /\ SameBounds(v, u)
       /\ \A k \in 1 .. Len(u.data) : k # 2 * n + 1 => v.data[k] = u.data[k]
  <2>1. u \in SequenceType  BY <1>9 DEF SeqOK
  <2>2. v = Closing(u, 2 * n, xs[1])  OBVIOUS
  <2> HIDE DEF v
  <2> QED  BY <1>3, <1>5, <2>1, <2>2, ClosingExact
<1>11. SeqOK(v)
  <2>1. u \in SequenceType  BY <1>9 DEF SeqOK
  <2> QED  BY <1>3, <1>5, <1>9, <2>1, ClosingOK
<1> HIDE DEF v
<1>12. /\ Len(seq'.data) = Len(v.data) /\ SameBounds(seq', v)
       /\ \A k \in 1 .. Len(v.data) : k # (2 * n + 1) + 1 => seq'.data[k] = v.data[k]
       /\ wrap /\ Settable(v, 2 * n + 1, ys[1]) => seq'.data[(2 * n + 1) + 1] = ys[1]
  <2>1. v \in SequenceType  BY <1>11 DEF SeqOK
  <2>2. 2 * n + 1 \in Nat  BY <1>5
  <2> QED  BY <1>2, <1>3, <2>1, <2>2, ClosingExact
<1>13. SameBounds(seq', seq) /\ SameBounds(v, seq) /\ Len(seq'.data) = m /\ Len(v.data) = m
  BY <1>6, <1>8, <1>10, <1>12 DEF SameBounds
<1>14. \A k \in 1 .. 2 * n : seq'.data[k] = pairs[k]
  <2>1. \A k \in 1 .. 2 * n : k \in 1 .. m /\ k # 2 * n + 1 /\ k # (2 * n + 1) + 1
    BY <1>5, <1>7
  <2> QED  BY <1>5, <1>6, <1>8, <1>10, <1>12, <2>1
<1>15. wrap => seq'.data[m] = ys[1]
  <2>1. wrap => 2 * n + 1 < Len(v.data) /\ (2 * n + 1) + 1 = m
    BY <1>5, <1>7, <1>13
  <2> QED  BY <1>3, <1>12, <1>13, <2>1 DEF Settable, InBounds, SameBounds
<1>16. \A k \in 1 .. m : k % 2 = 0 => InBounds(seq'.data[k])
  <2>1. \A k \in 1 .. m : k % 2 = 0 => k \in 1 .. 2 * n \/ (wrap /\ k = m)
    <3>1. (2 * n + 1) % 2 = 1  BY <1>1
    <3> SUFFICES ASSUME NEW k \in 1 .. m, k % 2 = 0 PROVE k \in 1 .. 2 * n \/ (wrap /\ k = m)
      OBVIOUS
    <3>2. k # 2 * n + 1  BY <3>1
    <3>3. k \in Int /\ 1 <= k /\ k <= m  BY <1>7
    <3> HIDE DEF m
    <3>4. CASE wrap
      <4>1. m = 2 * n + 2  BY <1>7, <3>4
      <4> QED  BY <1>5, <3>2, <3>3, <3>4, <4>1
    <3>5. CASE ~wrap
      <4>1. m = 2 * n  BY <1>7, <3>5
      <4> QED  BY <1>5, <3>3, <4>1
    <3> QED  BY <3>4, <3>5
  <2> QED  BY <1>3, <1>5, <1>14, <1>15, <2>1
<1>17. PointsInv'
  <2>1. Len(seq'.data) # 1  BY <1>7, <1>13
  <2> QED  BY <1>13, <2>1, InvFrom
<1>18. seq'.data[1] = 0 /\ seq'.data[2] = ys[1]
  <2>1. 1 \in 1 .. 2 * n /\ 2 \in 1 .. 2 * n  BY <1>1, <1>2
  <2> QED  BY <1>2, <1>5, <1>14, <2>1
<1> HIDE DEF m
<1>19. Sound'
  BY <1>2, <1>13, <1>15, <1>16, <1>18 DEF Sound, IsHeight, InBounds, SameBounds
<1> QED  BY <1>17, <1>19

(* stp_curve_set_point looks at the bounds, and closes the curve.           *)
LEMMA SetPointKeeps ==
  ASSUME CurveInv, PointsInv, SetPoint
  PROVE  PointsInv' /\ (Sound => Sound')
<1> PICK where \in Places, x \in Given : stp_curve_set_point(where, x)
  BY DEF SetPoint
<1>1. where \in Nat /\ x \in Int  BY CurveAssumption, Positions
<1>2. UNCHANGED <<wrap, piecewise>> /\ where < get_point_count
  BY DEF stp_curve_set_point, mode
<1>3. CASE piecewise \/ ~Settable(seq, where, x)
  <2>1. UNCHANGED seq  BY <1>3 DEF stp_curve_set_point
  <2> QED  BY <1>2, <2>1 DEF PointsInv, Sound, IsHeight, InBounds
<1>4. CASE ~piecewise /\ Settable(seq, where, x)
  <2> DEFINE t == set_point(seq, where, x)
             n == Len(seq.data)
  <2>1. seq \in SequenceType /\ wrap \in BOOLEAN /\ n \in Nat
    BY DEF CurveInv, TypeOK, SequenceType
  <2>2. get_point_count = IF wrap THEN n - 1 ELSE n
    BY <1>4 DEF get_point_count, real_point_count
  <2>3. where < n /\ InBounds(x) /\ x \in Finite  BY <1>4 DEF Settable, InBounds
  <2>4. get_point_count \in Nat /\ (wrap => where + 1 < n /\ get_point_count + 1 = n /\ n >= 2)
    BY <1>1, <1>2, <2>1, <2>2, <2>3
  <2>5. /\ Len(t.data) = n /\ SameBounds(t, seq)
        /\ \A k \in 1 .. n : k # where + 1 => t.data[k] = seq.data[k]
        /\ t.data[where + 1] = x
    BY <1>1, <1>4, <2>1, PointExact
  <2>6. t \in SequenceType  BY <1>1, <2>1, SetPointOK DEF CurveInv, SeqOK
  <2>7. seq' = IF where = 0 THEN Closing(t, get_point_count, x) ELSE t
    BY <1>4 DEF stp_curve_set_point
  <2> HIDE DEF t
  <2>8. CASE where # 0
    <3>1. seq' = t  BY <2>7, <2>8
    <3>2. PointsInv'  BY <2>5, <3>1, InvFrom DEF PointsInv
    <3>3. ASSUME Sound PROVE Sound'
      <4>1. \A k \in 1 .. n : InBounds(seq'.data[k])
        BY <1>4, <2>3, <2>5, <3>1, <3>3 DEF Sound, IsHeight
      <4>2. wrap => seq'.data[n] = seq'.data[1]
        <5>1. wrap => n # where + 1 /\ 1 # where + 1 /\ n \in 1 .. n /\ 1 \in 1 .. n /\ n > 0
          BY <1>1, <2>1, <2>4, <2>8
        <5>2. wrap => seq.data[n] = seq.data[1]
          BY <1>4, <3>3, <5>1 DEF Sound
        <5> QED  BY <2>5, <3>1, <5>1, <5>2
      <4> QED  BY <1>2, <1>4, <2>5, <3>1, <4>1, <4>2 DEF Sound, IsHeight, InBounds, SameBounds
    <3> QED  BY <3>2, <3>3
  <2>9. CASE where = 0
    <3>1. seq' = Closing(t, get_point_count, x)  BY <2>7, <2>9
    <3> DEFINE last == get_point_count
    <3>2. /\ Len(seq'.data) = n /\ SameBounds(seq', t)
          /\ \A k \in 1 .. n : k # last + 1 => seq'.data[k] = t.data[k]
          /\ wrap /\ Settable(t, last, x) => seq'.data[last + 1] = x
      BY <1>1, <2>4, <2>5, <2>6, <3>1, ClosingExact
    <3>3. SameBounds(seq', seq)  BY <2>5, <3>2 DEF SameBounds
    <3>4. PointsInv'  BY <3>2, <3>3, InvFrom DEF PointsInv
    <3>5. wrap => seq'.data[n] = x
      <4>1. wrap => last < n /\ last + 1 = n  BY <2>1, <2>4
      <4>2. wrap => Settable(t, last, x)
        BY <2>3, <2>5, <4>1 DEF Settable, InBounds, SameBounds
      <4> QED  BY <3>2, <4>1, <4>2
    <3>6. seq'.data[1] = x
      <4>1. 1 \in 1 .. n /\ where + 1 = 1 /\ (wrap => 1 # last + 1)
        BY <2>1, <2>3, <2>4, <2>9
      <4>2. ~wrap => last + 1 = n + 1  BY <2>2
      <4>3. ~wrap => 1 # last + 1  BY <2>1, <2>3, <2>9, <4>2
      <4> QED  BY <2>1, <2>5, <3>2, <4>1, <4>3
    <3>7. ASSUME Sound, NEW k \in 1 .. n PROVE InBounds(seq'.data[k])
      <4>1. k = 1 \/ k # where + 1  BY <2>9
      <4>2. k # last + 1 \/ (wrap /\ k = n)
        <5>1. k <= n /\ n \in Nat /\ k \in Nat  BY <2>1
        <5>2. wrap => last + 1 = n  BY <2>4
        <5>3. ~wrap => last = n  BY <2>2
        <5> HIDE DEF last
        <5> QED  BY <5>1, <5>2, <5>3
      <4>3. k # where + 1 => InBounds(t.data[k])
        BY <1>4, <2>5, <3>7 DEF Sound, IsHeight
      <4> QED  BY <2>3, <3>2, <3>5, <3>6, <4>1, <4>2, <4>3
    <3>8. Sound => Sound'
      BY <1>2, <1>4, <3>2, <3>3, <3>5, <3>6, <3>7 DEF Sound, IsHeight, InBounds, SameBounds
    <3> QED  BY <3>4, <3>8
  <2> QED  BY <2>8, <2>9
<1>5. piecewise \in BOOLEAN  BY DEF CurveInv, TypeOK
<1> QED  BY <1>3, <1>4, <1>5

-----------------------------------------------------------------------------
LEMMA InitPoints == Init => PointsInv
<1> SUFFICES ASSUME Init PROVE PointsInv
  OBVIOUS
<1> DEFINE empty == sequence_create(One)
           n == WithWrap(2)
           zeros == set_size(empty, n)
           t == set_point(zeros, 0, 0)
<1>1. empty \in SequenceType /\ empty.blo = 0 /\ empty.bhi = One
  BY Positions, SequenceAssumption DEF sequence_create, SequenceType
<1>2. n \in Nat /\ n >= 2  BY DEF Init, WithWrap
<1> HIDE DEF empty, n
<1>3. zeros \in SequenceType /\ SeqOK(zeros) /\ zeros.blo = 0 /\ zeros.bhi = One
      /\ Len(zeros.data) = n
  <2>1. SeqOK(zeros) /\ zeros.data = [k \in 1 .. n |-> 0]  BY <1>1, <1>2, SetSizeOK
  <2>2. Len(zeros.data) = n  BY <1>2, <2>1
  <2>3. zeros.blo = 0 /\ zeros.bhi = One  BY <1>1 DEF set_size, SequenceType
  <2> QED  BY <2>1, <2>2, <2>3 DEF SeqOK
<1> HIDE DEF zeros
<1>4. t \in SequenceType  BY <1>3, SetPointOK DEF SeqOK
<1>5. SameBounds(t, zeros) /\ Len(t.data) = n  BY <1>3, PointExact
<1> HIDE DEF t
<1>6. seq = set_point(t, 1, One)  BY DEF Init, t, zeros, empty, n
<1>7. SameBounds(seq, t) /\ Len(seq.data) = n
  BY <1>4, <1>5, <1>6, CurveAssumption, PointExact
<1>8. seq.blo = 0 /\ seq.bhi = One  BY <1>3, <1>5, <1>7 DEF SameBounds
<1>9. 0 \in Finite /\ One \in Finite /\ 0 <= One  BY CurveAssumption
<1> QED  BY <1>2, <1>7, <1>8, <1>9 DEF PointsInv

(* A clipped height is within the limits it is clipped to.                  *)
LEMMA ClippedWithin ==
  ASSUME NEW x \in Int, NEW low \in Int, NEW high \in Int, low <= high
  PROVE  low <= Clipped(x, low, high) /\ Clipped(x, low, high) <= high
  BY DEF Clipped

(* New bounds are in order, unless a power turns them over.                 *)
LEMMA NewBoundsOrdered ==
  ASSUME PointsInv, NEW c \in Compositions,
         c.mode = "exponentiate" => ~(c.of[seq.blo] > c.of[seq.bhi])
  PROVE  NewBounds(c)[1] <= NewBounds(c)[2]
<1>1. seq.blo \in Finite /\ seq.bhi \in Finite /\ seq.blo <= seq.bhi
  BY DEF PointsInv
<1>2. c.of[seq.blo] \in Int /\ c.of[seq.bhi] \in Int
  <2>1. c.of \in [Numbers -> Int]  BY CurveAssumption
  <2> QED  BY <1>1, <2>1, SequenceAssumption
<1>3. CASE c.mode = "exponentiate"
  <2>1. c.of[seq.blo] <= c.of[seq.bhi]  BY <1>2, <1>3
  <2>2. ~Negates(c)  BY <1>3 DEF Negates
  <2> QED  BY <2>1, <2>2 DEF NewBounds
<1>4. CASE c.mode # "exponentiate"
  <2>1. IF Negates(c) THEN c.of[seq.bhi] <= c.of[seq.blo] ELSE c.of[seq.blo] <= c.of[seq.bhi]
    BY <1>1, <1>4, CurveAssumption DEF Negates
  <2> QED  BY <2>1 DEF NewBounds
<1> QED  BY <1>3, <1>4

(* New points are as many as the old ones, if it is them that are counted.  *)
LEMMA SameCount ==
  ASSUME CurveInv, NEW s \in SequenceType, s.data = seq.data,
         NEW u, u = set_points(s, get_point_count, piecewise)
  PROVE  Len(u.data) = Len(seq.data) /\ SameBounds(u, s)
<1> DEFINE n == Len(seq.data)
           g == get_point_count
<1>1. n \in Nat /\ wrap \in BOOLEAN /\ piecewise \in BOOLEAN
  BY DEF CurveInv, TypeOK, SequenceType
<1>2. real_point_count \in Nat /\ (piecewise => real_point_count * 2 = n)
      /\ (~piecewise => real_point_count = n)
  <2>1. piecewise => n % 2 = 0  BY DEF CurveInv, PairsOK
  <2>2. \A k \in Nat : k \div 2 \in Nat /\ (k % 2 = 0 => (k \div 2) * 2 = k)
    OBVIOUS
  <2> QED  BY <1>1, <2>1, <2>2 DEF real_point_count
<1>3. g \in Int /\ WithWrap(g) = real_point_count
  BY <1>1, <1>2 DEF get_point_count, WithWrap
<1> HIDE DEF g
<1>4. CASE ~Allowed(g)
  <2>1. u = s  BY <1>4 DEF set_points, g
  <2> QED  BY <2>1 DEF SameBounds
<1>5. CASE Allowed(g)
  <2>1. g \in Nat  BY <1>3, <1>5 DEF Allowed
  <2>2. u = set_points(s, g, piecewise)  BY DEF g
  <2>3. /\ SameBounds(u, s)
        /\ piecewise => Len(u.data) = WithWrap(g) * 2
        /\ ~piecewise => Len(u.data) = WithWrap(g)
    BY <1>1, <1>5, <2>1, <2>2, PointsExact
  <2> QED  BY <1>1, <1>2, <1>3, <2>3
<1> QED  BY <1>4, <1>5

(* stp_curve_rescale clips every height to the bounds it sets.              *)
LEMMA RescaleKeeps ==
  ASSUME CurveInv, PointsInv, Rescale
  PROVE  PointsInv' /\ (Sound => Sound' \/ Careless)
<1> PICK c \in Compositions, bounds_mode \in {"rescale", "clip", "error"} :
         stp_curve_rescale(c, bounds_mode)
  BY DEF Rescale
<1> DEFINE bounds == IF bounds_mode = "rescale" THEN NewBounds(c) ELSE <<seq.blo, seq.bhi>>
           composed == [k \in 1 .. Len(seq.data) |->
                          IF IsHeight(k) THEN c.of[seq.data[k]] ELSE seq.data[k]]
           data == [k \in 1 .. Len(seq.data) |->
                      IF IsHeight(k) THEN Clipped(composed[k], bounds[1], bounds[2])
                      ELSE seq.data[k]]
           low == bounds[1]
           high == bounds[2]
           n == Len(seq.data)
           t == set_bounds(seq, low, high)
           u == set_points(t, get_point_count, piecewise)
<1>1. /\ low \in Finite /\ high \in Finite
      /\ seq' = set_subrange(u, 0, data)
      /\ UNCHANGED <<wrap, piecewise>>
  BY DEF stp_curve_rescale, Replaced, mode
<1>2. /\ seq \in SequenceType /\ seq.data \in Seq(Numbers) /\ n \in Nat
      /\ wrap \in BOOLEAN /\ piecewise \in BOOLEAN
      /\ low \in Int /\ high \in Int /\ low \in Numbers /\ high \in Numbers
  <2>1. /\ seq \in SequenceType /\ seq.data \in Seq(Numbers) /\ n \in Nat
        /\ wrap \in BOOLEAN /\ piecewise \in BOOLEAN
    BY DEF CurveInv, TypeOK, SequenceType
  <2> HIDE DEF low, high, n, bounds
  <2>2. low \in Int /\ high \in Int /\ low \in Numbers /\ high \in Numbers
    BY <1>1, SequenceAssumption
  <2> QED  BY <2>1, <2>2
<1>3. low <= high \/ Careless
  <2>1. CASE bounds_mode # "rescale"
    <3>1. low = seq.blo /\ high = seq.bhi  BY <2>1
    <3> QED  BY <3>1 DEF PointsInv
  <2>2. CASE bounds_mode = "rescale" /\ c.mode = "exponentiate" /\ c.of[seq.blo] > c.of[seq.bhi]
    BY <2>2 DEF Careless
  <2>3. CASE bounds_mode = "rescale" /\ ~(c.mode = "exponentiate" /\ c.of[seq.blo] > c.of[seq.bhi])
    <3>1. NewBounds(c)[1] <= NewBounds(c)[2]  BY <2>3, NewBoundsOrdered
    <3> QED  BY <2>3, <3>1
  <2> QED  BY <2>1, <2>2, <2>3
<1>4. \A k \in 1 .. n : seq.data[k] \in Numbers /\ (IsHeight(k) => c.of[seq.data[k]] \in Int)
  <2>1. \A k \in 1 .. n : seq.data[k] \in Numbers  BY <1>2
  <2>2. c.of \in [Numbers -> Int]  BY CurveAssumption
  <2> QED  BY <2>1, <2>2
<1> HIDE DEF low, high
<1>5. data = [k \in 1 .. n |->
                IF IsHeight(k) THEN Clipped(c.of[seq.data[k]], low, high) ELSE seq.data[k]]
  BY DEF low, high
<1> HIDE DEF data, bounds
<1>6. data \in Seq(Numbers) /\ Len(data) = n
      /\ \A k \in 1 .. n :
           data[k] = IF IsHeight(k) THEN Clipped(c.of[seq.data[k]], low, high) ELSE seq.data[k]
  <2>1. \A k \in 1 .. n : data[k] \in Numbers
    BY <1>1, <1>4, <1>5, ClippedOK
  <2>2. data \in [1 .. n -> Numbers]  BY <1>5, <2>1
  <2> QED  BY <1>2, <1>5, <2>2
<1>7. /\ t \in SequenceType /\ t.data = seq.data
      /\ low <= high => t.blo = low /\ t.bhi = high
      /\ ~(low <= high) => SameBounds(t, seq)
  <2>1. t \in SequenceType /\ t.data = seq.data
    BY <1>2, SetBoundsOK DEF CurveInv, SeqOK
  <2>2. low > high <=> ~(low <= high)  BY <1>2
  <2> QED  BY <1>2, <2>1, <2>2 DEF set_bounds, SequenceType, SameBounds
<1> HIDE DEF t
<1>8. Len(u.data) = n /\ SameBounds(u, t)
  BY <1>7, SameCount
<1>9. u \in SequenceType
  <2>1. CASE get_point_count \in Nat
    <3>1. SeqOK(t)  BY <1>2, SetBoundsOK DEF t, CurveInv, SeqOK
    <3> QED  BY <1>2, <1>7, <2>1, <3>1, SetPointsOK DEF SeqOK
  <2>2. CASE get_point_count \notin Nat
    <3>1. real_point_count \in Int
      <4>1. \A k \in Nat : k \div 2 \in Int  OBVIOUS
      <4> QED  BY <1>2, <4>1 DEF real_point_count
    <3>2. get_point_count \in Int  BY <3>1 DEF get_point_count
    <3>3. ~Allowed(get_point_count)  BY <2>2, <3>2 DEF Allowed
    <3>4. u = t  BY <3>3 DEF set_points
    <3> QED  BY <1>7, <3>4
  <2> QED  BY <2>1, <2>2
<1> HIDE DEF u
<1>10. /\ Len(seq'.data) = n /\ SameBounds(seq', t)
       /\ \A k \in 1 .. n : seq'.data[k] = data[k]
  <2>1. Len(data) <= Len(u.data)  BY <1>2, <1>6, <1>8
  <2>2. /\ Len(seq'.data) = Len(u.data) /\ SameBounds(seq', u)
        /\ \A k \in 1 .. Len(u.data) :
             seq'.data[k] = IF k \in 1 .. Len(data) THEN data[k] ELSE u.data[k]
    BY <1>1, <1>6, <1>9, <2>1, FrontExact
  <2> QED  BY <1>6, <1>8, <2>2 DEF SameBounds
<1>11. PointsInv'
  <2>1. CASE low <= high
    BY <1>1, <1>7, <1>10, <2>1 DEF PointsInv, SameBounds
  <2>2. CASE ~(low <= high)
    BY <1>7, <1>10, <2>2 DEF PointsInv, SameBounds
  <2> QED  BY <2>1, <2>2
<1>12. ASSUME Sound, low <= high PROVE Sound'
  <2>1. CASE n = 0
    BY <1>10, <2>1 DEF Sound
  <2>2. CASE n # 0
    <3>1. seq'.blo = low /\ seq'.bhi = high  BY <1>7, <1>10, <1>12 DEF SameBounds
    <3>2. \A k \in 1 .. n : IsHeight(k) => low <= seq'.data[k] /\ seq'.data[k] <= high
      BY <1>2, <1>4, <1>6, <1>10, <1>12, ClippedWithin
    <3>3. piecewise => n % 2 = 0  BY DEF CurveInv, PairsOK
    <3>4. 1 \in 1 .. n /\ n \in 1 .. n /\ (piecewise => 2 \in 1 .. n)
      <4>1. \A k \in Nat : k # 0 => (1 \in 1 .. k /\ k \in 1 .. k /\ (k % 2 = 0 => 2 \in 1 .. k))
        OBVIOUS
      <4> QED  BY <1>2, <2>2, <3>3, <4>1
    <3>5. piecewise => seq'.data[1] = 0
      <4>1. 1 % 2 # 0  OBVIOUS
      <4> QED  BY <1>2, <1>6, <1>10, <1>12, <2>2, <3>4, <4>1 DEF Sound, IsHeight
    <3>6. wrap => seq'.data[n] = seq'.data[IF piecewise THEN 2 ELSE 1]
      <4>1. 2 % 2 = 0  OBVIOUS
      <4>2. IsHeight(n) /\ IsHeight(IF piecewise THEN 2 ELSE 1)
        BY <3>3, <4>1 DEF IsHeight
      <4>3. (IF piecewise THEN 2 ELSE 1) \in 1 .. n  BY <3>4
      <4>4. n > 0  BY <1>2, <2>2
      <4>5. wrap => seq.data[n] = seq.data[IF piecewise THEN 2 ELSE 1]
        BY <1>12, <4>4 DEF Sound
      <4> QED  BY <1>6, <1>10, <3>4, <4>2, <4>3, <4>5
    <3> QED  BY <1>1, <1>10, <3>1, <3>2, <3>5, <3>6 DEF Sound, IsHeight, InBounds
  <2> QED  BY <2>1, <2>2
<1> QED  BY <1>3, <1>11, <1>12

-----------------------------------------------------------------------------
(* Where point i of last + 1 lies between those of the curve. *)
LEMMA Division ==
  ASSUME NEW p \in Nat, NEW last \in Nat \ {0}, NEW o \in Nat
  PROVE  /\ p <= last * o => p \div last \in 0 .. o
         /\ p <= last * o /\ p % last # 0 => p \div last < o
         /\ p = last * o => p % last = 0 /\ p \div last = o
<1> DEFINE q == p \div last
           r == p % last
<1>1. q \in Nat /\ r \in Nat /\ r < last /\ p = last * q + r
  OBVIOUS
<1> HIDE DEF q, r
<1>2. ASSUME p <= last * o, q > o PROVE FALSE
  <2>1. PICK d \in Nat : q = o + 1 + d
    <3>1. q - o - 1 \in Nat /\ q = o + 1 + (q - o - 1)  BY <1>1, <1>2
    <3> QED  BY <3>1
  <2>2. last * q = last * o + last + last * d  BY <2>1
  <2>3. last * d \in Nat /\ last * o \in Nat  OBVIOUS
  <2> QED  BY <1>1, <1>2, <2>2, <2>3
<1>3. ASSUME p <= last * o, q = o, r # 0 PROVE FALSE
  <2>1. last * o \in Nat  OBVIOUS
  <2> QED  BY <1>1, <1>3, <2>1
<1>4. ASSUME p = last * o, q < o PROVE FALSE
  <2>1. PICK d \in Nat : o = q + 1 + d
    <3>1. o - q - 1 \in Nat /\ o = q + 1 + (o - q - 1)  BY <1>1, <1>4
    <3> QED  BY <3>1
  <2>2. last * o = last * q + last + last * d  BY <1>1, <2>1
  <2>3. last * d \in Nat /\ last * q \in Nat  BY <1>1
  <2> QED  BY <1>1, <1>4, <2>2, <2>3
<1>5. last * o \in Nat  OBVIOUS
<1>6. p <= last * o => q <= o  BY <1>1, <1>2
<1>7. p <= last * o /\ r # 0 => q < o  BY <1>1, <1>3, <1>6
<1>8. p = last * o => q = o /\ r = 0
  <2>1. p = last * o => q = o  BY <1>1, <1>4, <1>5, <1>6
  <2> QED  BY <1>1, <1>5, <2>1
<1> QED  BY <1>1, <1>6, <1>7, <1>8 DEF q, r

(* What lies between two heights within the bounds is within them.          *)
LEMMA BetweenWithin ==
  ASSUME seq \in SequenceType, NEW x \in Int, NEW a \in Int, NEW b \in Int,
         InBounds(a), InBounds(b), Between(x, a, b)
  PROVE  InBounds(x)
<1>1. seq.blo \in Int /\ seq.bhi \in Int  BY SequenceAssumption DEF SequenceType
<1> QED  BY <1>1 DEF InBounds, Between

(* The new points of a curve that is not piecewise and follows no power.    *)
LEMMA DenseKeeps ==
  ASSUME CurveInv, PointsInv, Sound, ~piecewise, DeltasReady, Len(seq.data) # 0,
         NEW last \in Nat \ {0}, NEW i \in 0 .. last, NEW x \in Numbers,
         DensePoint(x, i, last)
  PROVE  /\ InBounds(x)
         /\ i = 0 => x = seq.data[1]
         /\ i = last => x = seq.data[Len(seq.data)]
<1> DEFINE n == Len(seq.data)
           o == n - 1
           p == i * o
           w == p \div last
<1>1. seq \in SequenceType /\ n \in Nat /\ n >= 2 /\ \A k \in 1 .. n : seq.data[k] \in Int
  <2>1. seq \in SequenceType /\ seq.data \in Seq(Numbers) /\ n \in Nat
    BY DEF CurveInv, TypeOK, SequenceType
  <2>2. \A k \in 1 .. n : seq.data[k] \in Int  BY <2>1, SequenceAssumption
  <2>3. n # 1  BY DEF PointsInv
  <2> HIDE DEF n
  <2>4. n \in Nat /\ n # 0 /\ n # 1 => n >= 2  OBVIOUS
  <2>5. n # 0  BY DEF n
  <2> QED  BY <2>1, <2>2, <2>3, <2>4, <2>5
<1>2. old = o /\ o \in Nat /\ o >= 1
  <2>1. real_point_count = n  BY DEF real_point_count
  <2> QED  BY <1>1, <2>1 DEF old
<1>3. \A k \in 1 .. n : InBounds(seq.data[k])
  <2>1. n > 0  BY <1>1
  <2> QED  BY <2>1 DEF Sound, IsHeight
<1>4. p \in Nat /\ p <= last * o
  <2>1. PICK e \in Nat : last = i + e
    <3>1. last - i \in Nat /\ last = i + (last - i)  OBVIOUS
    <3> QED  BY <3>1
  <2>2. i \in Nat  OBVIOUS
  <2> HIDE DEF o
  <2>3. last * o = i * o + e * o  BY <1>2, <2>1, <2>2
  <2>4. i * o \in Nat /\ e * o \in Nat  BY <1>2, <2>2
  <2> QED  BY <2>3, <2>4
<1>5. /\ p % last = 0 => x = get_point(seq, w)
      /\ p % last # 0 => \/ InBounds(x)
                         \/ Between(x, get_point(seq, w), get_point(seq, w + 1))
  BY <1>2 DEF DensePoint
<1>6. i = 0 => p = 0
  BY <1>2
<1>7. i = last => p = last * o
  OBVIOUS
<1> HIDE DEF p
<1>8. /\ w \in 0 .. o /\ (p % last # 0 => w < o)
      /\ p = last * o => p % last = 0 /\ w = o
  <2> HIDE DEF o
  <2> QED  BY <1>2, <1>4, Division
<1>9. p = 0 => w = 0 /\ p % last = 0
  <2>1. 0 \div last = 0 /\ 0 % last = 0  OBVIOUS
  <2> QED  BY <2>1
<1> HIDE DEF w
<1>10. w + 1 \in 1 .. n /\ (p % last # 0 => (w + 1) + 1 \in 1 .. n)
  <2> HIDE DEF n
  <2> QED  BY <1>1, <1>8
<1>11. InBounds(x)
  <2>1. CASE p % last = 0
    BY <1>3, <1>5, <1>10, <2>1 DEF get_point
  <2>2. CASE p % last # 0 /\ ~InBounds(x)
    <3>1. Between(x, seq.data[w + 1], seq.data[(w + 1) + 1])
      BY <1>5, <2>2 DEF get_point
    <3>2. seq.data[w + 1] \in Int /\ seq.data[(w + 1) + 1] \in Int /\ x \in Int
          /\ InBounds(seq.data[w + 1]) /\ InBounds(seq.data[(w + 1) + 1])
      BY <1>1, <1>3, <1>10, <2>2, SequenceAssumption
    <3> QED  BY <1>1, <3>1, <3>2, BetweenWithin
  <2> QED  BY <2>1, <2>2
<1>12. i = 0 => x = seq.data[1]
  <2>1. 0 + 1 = 1  OBVIOUS
  <2> QED  BY <1>5, <1>6, <1>9, <2>1 DEF get_point
<1>13. i = last => x = seq.data[n]
  <2>1. i = last => x = get_point(seq, w) /\ w = o  BY <1>5, <1>7, <1>8
  <2>2. o + 1 = n  BY <1>1
  <2> QED  BY <2>1, <2>2 DEF get_point
<1> QED  BY <1>11, <1>12, <1>13

(* Those of a piecewise curve. *)
LEMMA PiecewiseKeeps ==
  ASSUME CurveInv, PointsInv, Sound, piecewise, Len(seq.data) # 0,
         NEW last \in Nat \ {0}, NEW i \in 0 .. last, NEW x \in Numbers,
         PiecewisePoint(x, i, last)
  PROVE  /\ InBounds(x)
         /\ i = 0 => x = Clipped(seq.data[2], seq.blo, seq.bhi)
         /\ i = last => x = Clipped(seq.data[Len(seq.data)], seq.blo, seq.bhi)
<1> DEFINE n == Len(seq.data)
<1>1. seq \in SequenceType /\ n \in Nat /\ (\A k \in 1 .. n : seq.data[k] \in Int)
      /\ seq.blo \in Int /\ seq.bhi \in Int
  <2>1. seq \in SequenceType /\ seq.data \in Seq(Numbers) /\ n \in Nat
        /\ seq.blo \in Numbers /\ seq.bhi \in Numbers
    BY DEF CurveInv, TypeOK, SequenceType
  <2>2. \A k \in 1 .. n : seq.data[k] \in Int
    <3>1. seq.data \in Seq(Numbers)  BY <2>1
    <3>2. \A k \in 1 .. n : seq.data[k] \in Numbers  BY <3>1
    <3> QED  BY <3>2, SequenceAssumption
  <2>3. seq.blo \in Int /\ seq.bhi \in Int  BY <2>1, SequenceAssumption
  <2> QED  BY <2>1, <2>2, <2>3
<1>2. 2 \in 1 .. n /\ n \in 1 .. n
  <2>1. n % 2 = 0 /\ n # 0  BY DEF CurveInv, PairsOK
  <2> HIDE DEF n
  <2>2. n # 1  BY <2>1
  <2> QED  BY <1>1, <2>1, <2>2
<1>3. seq.data[1] = 0
  <2>1. n > 0  BY <1>1
  <2> QED  BY <2>1 DEF Sound
<1>4. seq.blo <= seq.bhi  BY DEF PointsInv
<1>5. /\ seq.data[2] \in Int /\ InBounds(Clipped(seq.data[2], seq.blo, seq.bhi))
      /\ seq.data[n] \in Int /\ InBounds(Clipped(seq.data[n], seq.blo, seq.bhi))
  BY <1>1, <1>2, <1>4, ClippedWithin DEF InBounds
<1>6. CASE i = 0
  <2>1. i # last  BY <1>6
  <2>2. x = Clipped(seq.data[2], seq.blo, seq.bhi)
    BY <1>3, <1>6, <2>1 DEF PiecewisePoint
  <2> QED  BY <1>5, <1>6, <2>1, <2>2
<1>7. CASE i = last
  <2>1. i # 0  BY <1>7
  <2>2. x = Clipped(seq.data[n], seq.blo, seq.bhi)
    BY <1>7, <2>1 DEF PiecewisePoint
  <2> QED  BY <1>5, <1>7, <2>1, <2>2
<1>8. CASE i # 0 /\ i # last
  <2>1. InBounds(x)  BY <1>8 DEF PiecewisePoint
  <2> QED  BY <1>8, <2>1
<1> QED  BY <1>6, <1>7, <1>8

(* The data of a sequence are replaced, and nothing else. *)
LEMMA SetDataExact ==
  ASSUME NEW s \in SequenceType, NEW data, NEW t, t = set_data(set_size(s, 0), data)
  PROVE  t.data = data /\ SameBounds(t, s)
<1>1. set_size(s, 0) \in SequenceType  BY SetSizeTyped
<1>2. set_size(s, 0).blo = s.blo /\ set_size(s, 0).bhi = s.bhi
  BY DEF set_size, SequenceType
<1> DEFINE r == set_size(s, 0)
<1>3. r \in SequenceType /\ SameBounds(r, s) /\ t = set_data(r, data)
  BY <1>1, <1>2 DEF SameBounds
<1> HIDE DEF r
<1>4. t.data = data /\ t.blo = r.blo /\ t.bhi = r.bhi
  BY <1>3 DEF set_data, SequenceType
<1> QED  BY <1>3, <1>4 DEF SameBounds

LEMMA ResampleKeeps ==
  ASSUME CurveInv, PointsInv, Resample
  PROVE  PointsInv' /\ (Sound => Sound' \/ Careless)
<1> PICK points \in 2 .. curve_point_limit : stp_curve_resample(points)
  BY DEF Resample
<1> DEFINE last == WithWrap(points) - 1
<1>1. UNCHANGED <<wrap, gamma>>  BY DEF stp_curve_resample, mode
<1>2. wrap \in BOOLEAN /\ seq \in SequenceType /\ last \in Nat \ {0} /\ last + 1 >= 2
  <2>1. wrap \in BOOLEAN /\ seq \in SequenceType  BY DEF CurveInv, TypeOK
  <2> QED  BY <2>1, CurveAssumption DEF WithWrap
<1>3. CASE UNCHANGED <<seq, piecewise>>
  <2>1. UNCHANGED <<seq, piecewise>>
    BY <1>3
  <2> QED  BY <1>1, <2>1 DEF PointsInv, Sound, IsHeight, InBounds
<1>4. CASE /\ Len(seq.data) # 0
           /\ \E data \in [1 .. last + 1 -> NewPoints(last)] :
                /\ \A i \in 0 .. last : NewPoint(data[i + 1], i, last)
                /\ seq' = set_data(set_size(seq, 0), data)
           /\ piecewise' = FALSE
  <2>1. PICK data \in [1 .. last + 1 -> NewPoints(last)] :
          /\ \A i \in 0 .. last : NewPoint(data[i + 1], i, last)
          /\ seq' = set_data(set_size(seq, 0), data)
    BY <1>4
  <2>2. piecewise' = FALSE
    BY <1>4
  <2> HIDE DEF last
  <2>3. seq'.data = data /\ SameBounds(seq', seq)
    BY <1>2, <2>1, SetDataExact
  <2>4. Len(data) = last + 1 /\ last + 1 \in Nat
        /\ \A k \in 1 .. last + 1 : data[k] \in Numbers
    <3>1. NewPoints(last) \subseteq Numbers  BY DEF NewPoints
    <3> QED  BY <1>2, <2>1, <3>1
  <2>5. PointsInv'
    <3>1. Len(seq'.data) # 1  BY <1>2, <2>3, <2>4
    <3> QED  BY <2>3, <3>1, InvFrom
  <2>6. ASSUME Sound, ~Careless PROVE Sound'
    <3>1. gamma = 0 /\ (~piecewise => DeltasReady)
      BY <1>1, <2>6 DEF Careless
    <3>2. /\ \A i \in 0 .. last : InBounds(data[i + 1])
          /\ wrap => data[last + 1] = data[0 + 1]
      <4>1. \A i \in 0 .. last : i + 1 \in 1 .. last + 1 /\ data[i + 1] \in Numbers
        BY <1>2, <2>4
      <4>2. 0 \in 0 .. last /\ last \in 0 .. last  BY <1>2
      <4>3. Len(seq.data) > 0  BY <1>2, <1>4 DEF SequenceType
      <4>4. CASE piecewise
        <5>1. \A i \in 0 .. last : PiecewisePoint(data[i + 1], i, last)
          BY <2>1, <4>4 DEF NewPoint
        <5>2. \A i \in 0 .. last :
                /\ InBounds(data[i + 1])
                /\ i = 0 => data[i + 1] = Clipped(seq.data[2], seq.blo, seq.bhi)
                /\ i = last => data[i + 1] = Clipped(seq.data[Len(seq.data)], seq.blo, seq.bhi)
          BY <1>2, <1>4, <2>6, <4>1, <4>4, <5>1, PiecewiseKeeps
        <5>3. wrap => seq.data[Len(seq.data)] = seq.data[2]
          BY <2>6, <4>3, <4>4 DEF Sound
        <5> QED  BY <4>2, <5>2, <5>3
      <4>5. CASE ~piecewise
        <5>1. \A i \in 0 .. last : DensePoint(data[i + 1], i, last)
          BY <2>1, <3>1, <4>5 DEF NewPoint
        <5>2. \A i \in 0 .. last :
                /\ InBounds(data[i + 1])
                /\ i = 0 => data[i + 1] = seq.data[1]
                /\ i = last => data[i + 1] = seq.data[Len(seq.data)]
          BY <1>2, <1>4, <2>6, <3>1, <4>1, <4>5, <5>1, DenseKeeps
        <5>3. wrap => seq.data[Len(seq.data)] = seq.data[1]
          BY <2>6, <4>3, <4>5 DEF Sound
        <5> QED  BY <4>2, <5>2, <5>3
      <4>6. piecewise \in BOOLEAN  BY DEF CurveInv, TypeOK
      <4> QED  BY <4>4, <4>5, <4>6
    <3>3. \A k \in 1 .. last + 1 : InBounds(data[k])
      <4>1. \A k \in 1 .. last + 1 : k - 1 \in 0 .. last /\ (k - 1) + 1 = k  BY <1>2
      <4> QED  BY <3>2, <4>1
    <3>4. wrap => data[last + 1] = data[1]
      <4>1. 0 + 1 = 1  OBVIOUS
      <4> QED  BY <3>2, <4>1
    <3> QED  BY <1>1, <2>2, <2>3, <2>4, <3>3, <3>4 DEF Sound, InBounds, SameBounds
  <2> QED  BY <2>5, <2>6
<1> QED  BY <1>3, <1>4 DEF stp_curve_resample

LEMMA ReverseKeeps ==
  ASSUME CurveInv, PointsInv, stp_curve_reverse
  PROVE  PointsInv' /\ (Sound => Sound' \/ Careless)
<1> DEFINE n == Len(seq.data)
<1>1. UNCHANGED <<wrap, piecewise>> /\ seq \in SequenceType /\ n \in Nat
      /\ piecewise \in BOOLEAN
  BY DEF stp_curve_reverse, mode, CurveInv, TypeOK, SequenceType
<1>2. CASE piecewise
  <2>1. seq' = set_data(sequence_create(One), Mirrored(seq.data))
    BY <1>2 DEF stp_curve_reverse
  <2>2. seq'.data = Mirrored(seq.data) /\ seq'.blo = 0 /\ seq'.bhi = One
    BY <2>1 DEF set_data, sequence_create
  <2>3. Len(Mirrored(seq.data)) = n  BY <1>1 DEF Mirrored
  <2>4. n # 1  BY DEF PointsInv
  <2>5. 0 \in Finite /\ One \in Finite /\ 0 <= One  BY CurveAssumption
  <2>6. PointsInv'  BY <2>2, <2>3, <2>4, <2>5 DEF PointsInv
  <2>7. Careless  BY <1>2 DEF Careless
  <2> QED  BY <2>6, <2>7
<1>3. CASE ~piecewise
  <2>1. seq' = sequence_reverse(seq)  BY <1>3 DEF stp_curve_reverse
  <2>2. seq'.data = Reversed(seq.data) /\ SameBounds(seq', seq)
    BY <1>1, <2>1 DEF sequence_reverse, SameBounds, SequenceType
  <2>3. Len(Reversed(seq.data)) = n
        /\ \A k \in 1 .. n : Reversed(seq.data)[k] = seq.data[n - k + 1]
    BY <1>1 DEF Reversed
  <2>4. PointsInv'  BY <2>2, <2>3, InvFrom DEF PointsInv
  <2> HIDE DEF n
  <2>5. \A k \in 1 .. n : n - k + 1 \in 1 .. n  BY <1>1
  <2>6. n - n + 1 = 1 /\ n - 1 + 1 = n  BY <1>1
  <2>7. ASSUME Sound PROVE Sound'
    <3>1. CASE n = 0
      BY <2>2, <2>3, <3>1 DEF Sound, n
    <3>2. CASE n # 0
      <4>1. n > 0 /\ 1 \in 1 .. n /\ n \in 1 .. n  BY <1>1, <3>2
      <4>2. \A k \in 1 .. n : InBounds(seq.data[k])
        BY <1>3, <2>7, <4>1 DEF Sound, IsHeight, n
      <4>3. wrap => seq.data[n] = seq.data[1]
        BY <1>3, <2>7, <4>1 DEF Sound, n
      <4>4. \A k \in 1 .. n : InBounds(seq'.data[k])
        BY <2>2, <2>3, <2>5, <4>2
      <4>5. wrap => seq'.data[n] = seq'.data[1]
        BY <2>2, <2>3, <2>6, <4>1, <4>3
      <4> QED  BY <1>1, <1>3, <2>2, <2>3, <4>4, <4>5 DEF Sound, InBounds, SameBounds
    <3> QED  BY <3>1, <3>2
  <2> QED  BY <2>4, <2>7
<1> QED  BY <1>1, <1>2, <1>3

-----------------------------------------------------------------------------
(* The careless calls keep what the others rely on, and those that leave    *)
(* points and bounds alone change nothing.                                  *)
LEMMA SetBoundsKeeps ==
  ASSUME CurveInv, PointsInv, SetBounds
  PROVE  PointsInv' /\ Careless
<1> PICK b \in Bounds : stp_curve_set_bounds(b[1], b[2])
  BY DEF SetBounds
<1>1. b[1] \in Finite /\ b[2] \in Finite /\ b[1] \in Int /\ b[2] \in Int
  BY CurveAssumption, SequenceAssumption
<1>2. b[1] <= b[2] /\ seq' = set_bounds(seq, b[1], b[2]) /\ seq \in SequenceType
  BY DEF stp_curve_set_bounds, CurveInv, TypeOK
<1>3. seq'.blo = b[1] /\ seq'.bhi = b[2] /\ seq'.data = seq.data
  BY <1>1, <1>2 DEF set_bounds, SequenceType
<1>4. PointsInv'  BY <1>1, <1>2, <1>3 DEF PointsInv
<1> QED  BY <1>4 DEF Careless

LEMMA GetRangeBounds ==
  ASSUME NEW s \in SequenceType, NEW t \in get_range(s)
  PROVE  SameBounds(t, s)
<1>1. CASE ~s.recompute_range
  BY <1>1 DEF get_range, SameBounds
<1>2. CASE s.recompute_range
  <2> DEFINE limits == Points(s) \union {s.blo, s.bhi}
  <2>1. PICK range \in limits \X limits :
          t = [s EXCEPT !.rlo = range[1], !.rhi = range[2], !.recompute_range = FALSE]
    BY <1>2 DEF get_range
  <2> QED  BY <2>1 DEF SequenceType, SameBounds
<1> QED  BY <1>1, <1>2

LEMMA SetSubrangeKeeps ==
  ASSUME CurveInv, PointsInv, SetSubrange
  PROVE  PointsInv' /\ Careless
<1> PICK data \in Lists(Given, Counts \union {0}), start \in Places :
         stp_curve_set_subrange(start, data)
  BY DEF SetSubrange
<1>1. PICK s \in get_range(seq) : seq' = s \/ seq' = set_subrange(s, start, data)
  BY DEF stp_curve_set_subrange
<1>2. seq \in SequenceType  BY DEF CurveInv, TypeOK
<1>3. SeqOK(s) /\ s.data = seq.data
  BY <1>1, GetRangeOK DEF CurveInv, SeqOK
<1>4. s.blo = seq.blo /\ s.bhi = seq.bhi /\ s \in SequenceType
  BY <1>1, <1>2, <1>3, GetRangeBounds DEF SameBounds, SeqOK
<1>5. data \in Seq(Numbers) /\ start \in Nat
  <2>1. Counts \union {0} \in SUBSET Nat /\ Places \subseteq Nat  BY CurveAssumption
  <2> QED  BY <2>1, GivenList
<1>6. CASE seq' = s
  BY <1>3, <1>4, <1>6 DEF PointsInv, Careless
<1>7. CASE seq' = set_subrange(s, start, data)
  <2>1. Len(set_subrange(s, start, data).data) = Len(s.data)
    BY <1>4, <1>5, SetSubrangeData
  <2>2. SameBounds(set_subrange(s, start, data), s)
    BY <1>4 DEF set_subrange, SequenceType, SameBounds
  <2> QED  BY <1>3, <1>4, <1>7, <2>1, <2>2 DEF PointsInv, SameBounds, Careless
<1> QED  BY <1>1, <1>6, <1>7

LEMMA SetGammaKeeps ==
  ASSUME CurveInv, PointsInv, SetGamma
  PROVE  PointsInv' /\ Careless
<1> PICK sign \in {-1, 1} : stp_curve_set_gamma(sign)
  BY DEF SetGamma
<1>1. gamma' # 0  BY DEF stp_curve_set_gamma
<1>2. seq \in SequenceType  BY DEF CurveInv, TypeOK
<1>3. CASE piecewise
  <2>1. seq' = set_size(seq, 0)  BY <1>3 DEF stp_curve_set_gamma
  <2>2. seq'.data = [k \in 1 .. 0 |-> 0] /\ SameBounds(seq', seq)
    BY <1>2, <2>1 DEF set_size, SequenceType, SameBounds
  <2>3. Len(seq'.data) = 0  BY <2>2
  <2>4. Len(seq'.data) # 1  BY <2>3
  <2> QED  BY <1>1, <2>2, <2>4, InvFrom DEF Careless
<1>4. CASE ~piecewise
  <2>1. PICK x \in Numbers :
          seq' = set_data(set_size(seq, 0), IF sign > 0 THEN <<seq.bhi, x>> ELSE <<x, seq.bhi>>)
    BY <1>4 DEF stp_curve_set_gamma
  <2> DEFINE data == IF sign > 0 THEN <<seq.bhi, x>> ELSE <<x, seq.bhi>>
  <2>2. Len(data) = 2  OBVIOUS
  <2>3. seq' = set_data(set_size(seq, 0), data)  BY <2>1
  <2> HIDE DEF data
  <2>4. seq'.data = data /\ SameBounds(seq', seq)  BY <1>2, <2>3, SetDataExact
  <2>5. Len(seq'.data) # 1  BY <2>2, <2>4
  <2> QED  BY <1>1, <2>4, <2>5, InvFrom DEF Careless
<1> QED  BY <1>3, <1>4

LEMMA SamePointsKeep ==
  ASSUME CurveInv, PointsInv, SameBounds(seq', seq), seq'.data = seq.data,
         UNCHANGED <<wrap, piecewise>>
  PROVE  PointsInv' /\ (Sound => Sound')
<1>1. PointsInv'  BY InvFrom DEF PointsInv
<1>2. Sound => Sound'  BY DEF Sound, IsHeight, InBounds, SameBounds
<1> QED  BY <1>1, <1>2

(* These leave the points and the bounds alone. *)
LEMMA ReadersKeep ==
  ASSUME CurveInv, PointsInv,
         \/ SetInterpolationType \/ Interpolate \/ stp_curve_get_range
         \/ stp_curve_get_converted_data \/ stp_curve_copy \/ UNCHANGED vars
  PROVE  PointsInv' /\ (Sound => Sound')
<1>1. UNCHANGED <<wrap, piecewise>>
  BY DEF SetInterpolationType, stp_curve_set_interpolation_type, Interpolate,
         stp_curve_interpolate_value,
         stp_curve_get_range, stp_curve_get_converted_data, stp_curve_copy, vars, mode
<1>2. seq \in SequenceType /\ SeqOK(seq)  BY DEF CurveInv, TypeOK
<1>3. SameBounds(seq', seq) /\ seq'.data = seq.data
  <2>1. CASE stp_curve_get_range
    <3>1. seq' \in get_range(seq)  BY <2>1 DEF stp_curve_get_range
    <3>2. seq'.data = seq.data  BY <1>2, <3>1, GetRangeOK
    <3>3. SameBounds(seq', seq)  BY <1>2, <3>1, GetRangeBounds
    <3> QED  BY <3>2, <3>3
  <2>2. CASE stp_curve_get_converted_data
    <3>1. seq' = get_converted(seq)  BY <2>2 DEF stp_curve_get_converted_data
    <3> QED  BY <1>2, <3>1 DEF get_converted, SameBounds, SequenceType
  <2>3. CASE stp_curve_copy
    <3>1. seq' = sequence_copy(seq)  BY <2>3 DEF stp_curve_copy
    <3> QED  BY <1>2, <3>1 DEF sequence_copy, SameBounds, SequenceType
  <2>4. CASE \/ SetInterpolationType \/ Interpolate \/ UNCHANGED vars
    <3>1. seq' = seq
      BY <2>4 DEF SetInterpolationType, stp_curve_set_interpolation_type,
                  Interpolate, stp_curve_interpolate_value, vars
    <3> QED  BY <3>1 DEF SameBounds
  <2> QED  BY <2>1, <2>2, <2>3, <2>4
<1> QED  BY <1>1, <1>3, SamePointsKeep

LEMMA PointsStep ==
  ASSUME CurveInv, PointsInv, [Next]_vars
  PROVE  PointsInv' /\ (Sound /\ ~Sound' => Careless)
<1>1. CASE UNCHANGED vars
  BY <1>1, ReadersKeep
<1>2. CASE Gone
  <2>1. UNCHANGED vars  BY <1>2 DEF Gone
  <2> QED  BY <2>1, ReadersKeep
<1>3. CASE SetBounds
  BY <1>3, SetBoundsKeeps
<1>4. CASE SetData
  BY <1>4, SetDataKeeps
<1>5. CASE SetDataPoints
  BY <1>5, SetDataPointsKeeps
<1>6. CASE SetSubrange
  BY <1>6, SetSubrangeKeeps
<1>7. CASE SetPoint
  BY <1>7, SetPointKeeps
<1>8. CASE Rescale
  BY <1>8, RescaleKeeps
<1>9. CASE Resample
  BY <1>9, ResampleKeeps
<1>10. CASE SetGamma
  BY <1>10, SetGammaKeeps
<1>11. CASE stp_curve_reverse
  BY <1>11, ReverseKeeps
<1>12. CASE \/ SetInterpolationType \/ Interpolate \/ stp_curve_get_range
            \/ stp_curve_get_converted_data \/ stp_curve_copy
  BY <1>12, ReadersKeep
<1> QED
  BY <1>1, <1>2, <1>3, <1>4, <1>5, <1>6, <1>7, <1>8, <1>9, <1>10, <1>11, <1>12 DEF Next

(* Whatever calls come in whatever order, a curve of any length that begins *)
(* at 0, lies within its bounds and is closed where it wraps around stays   *)
(* so, unless one of the careless calls comes: single points, pairs,        *)
(* rescaling, resampling and turning check or clip what they put in.        *)
THEOREM SoundCurvesStaySound == Spec => PointsKept
<1>1. Init => CurveInv /\ PointsInv  BY InitOK, InitPoints
<1>2. CurveInv /\ PointsInv /\ [Next]_vars => CurveInv' /\ PointsInv'
  BY Inductive, PointsStep
<1>3. Spec => [](CurveInv /\ PointsInv)
  BY <1>1, <1>2, PTL DEF Spec
<1>4. CurveInv /\ PointsInv /\ [Next]_vars => [Sound /\ ~Sound' => Careless]_vars
  BY PointsStep
<1> QED  BY <1>3, <1>4, PTL DEF Spec, PointsKept
=============================================================================
