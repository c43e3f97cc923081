------------------------- MODULE DisjointSegmentsProofs ------------------------
(***************************************************************************)
(* Proofs about DisjointSegments for every size of the integer type.       *)
(***************************************************************************)
EXTENDS DisjointSegments, WellFoundedInduction, TLAPS

\* The split points that the code looks at are found at one position, which is
\* not wrapped: it is Modulus after a split point at the greatest value.
LoopAt(p) ==
    /\ boundaries.start_at <= p /\ p <= boundaries.stop_at + 1
    /\ index_start = p % Modulus
    /\ left = {v \in given : p <= v /\ v <= boundaries.stop_at}
    /\ p = boundaries.start_at \/ p - 1 \in given
    /\ p = boundaries.start_at => left # {}
    /\ \A r \in called : r.stop_at < p
    /\ \A v \in Values \ given : boundaries.start_at <= v /\ v < p =>
          \E r \in called : Covers(r, v)

IInv == /\ TypeOK
        /\ CalledForSegments
        /\ pc = "begin" => called = {}
        /\ pc = "loop" => \E p \in Nat : LoopAt(p)
        /\ InnerValuesAreCovered

--------------------------------------------------------------------------------
\* An index below Modulus is itself, and Modulus wraps around to 0.
LEMMA WrapAround ==
    ASSUME NEW p \in Nat
    PROVE  /\ p < Modulus => p % Modulus = p
           /\ p % Modulus \in Values
BY ModulusAssumption DEF Values

\* A non-empty set of naturals has the least element that Min chooses.
LEMMA MinIsLeast ==
    ASSUME NEW S \in SUBSET Nat, S # {}
    PROVE  Min(S) \in S /\ \A y \in S : Min(S) <= y
<1>1. \E x \in S : \A y \in S : ~(<<y, x>> \in OpToRel(<, Nat))
  BY NatLessThanWellFounded, WFMin
<1>2. \A x, y \in Nat : y < x => <<y, x>> \in OpToRel(<, Nat)
  BY DEF OpToRel
<1>3. \E x \in S : \A y \in S : ~(y < x)
  BY <1>1, <1>2
<1>4. \E x \in S : \A y \in S : x <= y
  BY <1>3
<1> QED
  BY <1>4 DEF Min

\* A non-empty set of values has the greatest element that Max chooses.
LEMMA MaxIsGreatest ==
    ASSUME NEW S \in SUBSET Values, S # {}
    PROVE  Max(S) \in S /\ \A y \in S : y <= Max(S)
<1> DEFINE T == {Modulus - y : y \in S}
<1>1. T \in SUBSET Nat /\ T # {}
  <2>1. \A y \in Values : Modulus - y \in Nat
    BY ModulusAssumption DEF Values
  <2>2. PICK y \in S : TRUE
    OBVIOUS
  <2>3. Modulus - y \in T
    OBVIOUS
  <2> QED
    BY <2>1, <2>3
<1>2. Min(T) \in T /\ \A z \in T : Min(T) <= z
  BY <1>1, MinIsLeast
<1>3. PICK x \in S : Min(T) = Modulus - x
  BY <1>2
<1>4. \A y \in S : Modulus - x <= Modulus - y
  BY <1>2, <1>3
<1>5. \A y \in S : x >= y
  BY <1>4, ModulusAssumption DEF Values
<1> QED
  BY <1>5 DEF Max, Values

\* trim leaves the split points within the boundaries.
LEMMA TrimIsWithin ==
    ASSUME TypeOK
    PROVE  /\ trim(boundaries, given) \in SUBSET Values
           /\ trim(boundaries, given) \in SUBSET Nat
           /\ boundaries.start_at \in Values /\ boundaries.stop_at \in Values
           /\ boundaries.start_at <= boundaries.stop_at
<1>1. /\ boundaries \in [start_at : Values, stop_at : Values]
      /\ boundaries.start_at <= boundaries.stop_at
  BY DEF TypeOK, Ranges
<1>2. trim(boundaries, given) \in SUBSET Values
  BY DEF TypeOK, trim
<1> QED
  BY <1>1, <1>2 DEF Values

\* While split points are left, the index has not wrapped around, and the
\* values between it and the next split point hold none.
LEMMA NextSplitPoint ==
    ASSUME TypeOK, NEW p \in Nat, LoopAt(p), left # {}
    PROVE  /\ Min(left) \in left /\ Min(left) \in given
           /\ index_start = p /\ p <= Min(left) /\ Min(left) <= boundaries.stop_at
           /\ \A v \in given : p <= v => Min(left) <= v
<1>1. /\ left \in SUBSET Nat /\ given \subseteq Values
      /\ boundaries.stop_at \in Values
  BY TrimIsWithin DEF TypeOK, Values
<1>2. Min(left) \in left /\ \A v \in left : Min(left) <= v
  BY <1>1, MinIsLeast
<1>3. left = {v \in given : p <= v /\ v <= boundaries.stop_at}
  BY DEF LoopAt
<1>4. p <= Min(left) /\ Min(left) <= boundaries.stop_at /\ Min(left) \in Values
  BY <1>1, <1>2, <1>3
<1>5. p < Modulus
  BY <1>4, ModulusAssumption DEF Values
<1>6. index_start = p
  BY <1>5, WrapAround DEF LoopAt
<1>7. ASSUME NEW v \in given, p <= v PROVE Min(left) <= v
  <2>1. CASE v <= boundaries.stop_at
    BY <2>1, <1>2, <1>3, <1>7
  <2>2. CASE ~(v <= boundaries.stop_at)
    BY <2>2, <1>1, <1>4 DEF Values
  <2> QED
    BY <2>1, <2>2
<1> QED
  BY <1>2, <1>3, <1>4, <1>6, <1>7

--------------------------------------------------------------------------------
\* Whole: with no split point within the boundaries they are a segment.
LEMMA WholeStep ==
    ASSUME IInv, Whole
    PROVE  IInv' /\ \A r \in called' \ called, q \in called : q.stop_at < r.start_at
<1>1. /\ TypeOK /\ called = {} /\ boundaries \in Ranges
      /\ boundaries.start_at \in Values /\ boundaries.stop_at \in Values
      /\ boundaries.start_at <= boundaries.stop_at /\ given \subseteq Values
  BY TrimIsWithin DEF IInv, Whole, TypeOK
<1>2. TypeOK'
  BY <1>1 DEF Whole, TypeOK
<1>3. CalledForSegments'
  <2>1. \A v \in given : ~Covers(boundaries, v)
    BY <1>1 DEF Whole, trim, Covers, Values
  <2>2. Covers(boundaries, boundaries.start_at) /\ Covers(boundaries, boundaries.stop_at)
    BY <1>1 DEF Covers, Values
  <2>3. IsSegment(boundaries)
    BY <2>1, <2>2 DEF IsSegment
  <2>4. \A r \in called' : IsSegment(r)
    BY <2>3 DEF Whole
  <2> QED
    BY <2>4 DEF Whole, CalledForSegments, IsSegment, Covers
<1>4. InnerValuesAreCovered'
  BY DEF Whole, InnerValuesAreCovered, Covers
<1>5. (pc' = "begin" => called' = {}) /\ (pc' = "loop" => \E p \in Nat : LoopAt(p)')
  BY DEF Whole
<1> QED
  BY <1>1, <1>2, <1>3, <1>4, <1>5 DEF IInv

\* Begin: a split point at the very beginning leaves nothing before it.
LEMMA BeginStep ==
    ASSUME IInv, Begin
    PROVE  IInv' /\ \A r \in called' \ called, q \in called : q.stop_at < r.start_at
<1> DEFINE points == trim(boundaries, given)
           first == Min(points)
<1>1. /\ TypeOK /\ called = {} /\ given \subseteq Values /\ boundaries \in Ranges
      /\ points \subseteq given /\ points \in SUBSET Nat
      /\ boundaries.start_at \in Values /\ boundaries.stop_at \in Values
      /\ boundaries.start_at <= boundaries.stop_at
      /\ points = {v \in given : boundaries.start_at <= v /\ v <= boundaries.stop_at}
  <2>1. TypeOK /\ called = {}
    BY DEF IInv, Begin
  <2>2. points = {v \in given : boundaries.start_at <= v /\ v <= boundaries.stop_at}
    BY <2>1, TrimIsWithin DEF trim, TypeOK, Values
  <2> QED
    BY <2>1, <2>2, TrimIsWithin DEF TypeOK
<1>2. first \in points /\ \A y \in points : first <= y
  BY <1>1, MinIsLeast DEF Begin
<1>3. first \in Values /\ first \in Nat
  BY <1>1, <1>2
<1>4. /\ called' = {} /\ boundaries' = boundaries /\ given' = given /\ pc' = "loop"
  BY <1>1 DEF Begin
<1>5. CASE first = boundaries.start_at
  <2>1. PICK p \in Nat : p = first + 1
    BY <1>3
  <2>2. left' = points \ {first} /\ index_start' = p % Modulus
    BY <1>5, <2>1 DEF Begin, Plus1
  <2>3. TypeOK'
    BY <1>1, <1>3, <1>4, <2>2, WrapAround DEF TypeOK
  <2>4. \A v \in Values : p <= v <=> boundaries.start_at <= v /\ v # first
    BY <1>1, <1>3, <1>5, <2>1 DEF Values
  <2>5. left' = {v \in given : p <= v /\ v <= boundaries.stop_at}
    BY <1>1, <2>2, <2>4
  <2>6. \A v \in Values \ given : ~(boundaries.start_at <= v /\ v < p)
    BY <1>1, <1>2, <1>3, <1>5, <2>1 DEF Values
  <2>7. /\ p # boundaries.start_at /\ boundaries.start_at <= p
        /\ p <= boundaries.stop_at + 1
    BY <1>1, <1>3, <1>5, <2>1 DEF Values
  <2>8. p - 1 \in given
    BY <1>1, <1>2, <1>3, <2>1
  <2>9. LoopAt(p)'
    BY <1>4, <2>2, <2>5, <2>6, <2>7, <2>8 DEF LoopAt
  <2> QED
    BY <1>4, <2>3, <2>9 DEF IInv, CalledForSegments, InnerValuesAreCovered
<1>6. CASE first # boundaries.start_at
  <2>1. left' = points /\ index_start' = boundaries.start_at
    BY <1>6 DEF Begin
  <2>2. TypeOK'
    BY <1>1, <1>4, <2>1 DEF TypeOK
  <2>3. PICK p \in Nat : p = boundaries.start_at
    BY <1>1 DEF Values
  <2>4. /\ index_start' = p % Modulus /\ p <= boundaries.stop_at + 1
        /\ \A v \in Values : ~(p <= v /\ v < p)
    BY <1>1, <2>1, <2>3, WrapAround, ModulusAssumption DEF Values
  <2>5. /\ left' = {v \in given : p <= v /\ v <= boundaries.stop_at}
        /\ left' # {}
    BY <1>1, <1>2, <2>1, <2>3
  <2>6. boundaries.start_at <= p
    BY <2>3
  <2>7. LoopAt(p)'
    BY <1>4, <2>3, <2>4, <2>5, <2>6 DEF LoopAt
  <2> QED
    BY <1>4, <2>2, <2>7 DEF IInv, CalledForSegments, InnerValuesAreCovered
<1> QED
  BY <1>4, <1>5, <1>6

\* Split: the values from the index up to before the next split point are a
\* segment, unless there are none.
LEMMA SplitStep ==
    ASSUME IInv, Split
    PROVE  IInv' /\ \A r \in called' \ called, q \in called : q.stop_at < r.start_at
<1>1. PICK p \in Nat : LoopAt(p)
  BY DEF IInv, Split
<1>2. /\ TypeOK /\ given \subseteq Values /\ called \subseteq Ranges
      /\ boundaries.start_at \in Values /\ boundaries.stop_at \in Values
      /\ \A r \in called : r.start_at \in Values /\ r.stop_at \in Values
      /\ \A r \in called : r.stop_at < p
  BY <1>1, TrimIsWithin DEF IInv, TypeOK, Ranges, LoopAt
<1>3. PICK stop \in Values : stop = Min(left)
  BY <1>1, <1>2, NextSplitPoint DEF Split
<1>4. /\ stop \in left /\ stop \in given /\ index_start = p
      /\ p <= stop /\ stop <= boundaries.stop_at
      /\ \A v \in given : p <= v => stop <= v
  BY <1>1, <1>2, <1>3, NextSplitPoint DEF Split
<1>5. /\ called' = IF p = stop THEN called ELSE called \cup {Segment(p, Minus1(stop))}
      /\ index_start' = (stop + 1) % Modulus /\ left' = left \ {stop}
      /\ boundaries' = boundaries /\ given' = given /\ pc' = "loop"
  BY <1>3, <1>4 DEF Split, Plus1
<1>6. /\ boundaries.start_at <= p
      /\ p = boundaries.start_at \/ p - 1 \in given
      /\ left = {v \in given : p <= v /\ v <= boundaries.stop_at}
  BY <1>1 DEF LoopAt
<1>7. p # stop => /\ Minus1(stop) = stop - 1 /\ stop - 1 \in Values
                  /\ p <= stop - 1 /\ p \in Values
  BY <1>4, WrapAround, ModulusAssumption DEF Minus1, Values
<1>8. p # stop => LET r == Segment(p, stop - 1)
                  IN  r \in Ranges /\ r.start_at = p /\ r.stop_at = stop - 1
  BY <1>7 DEF Segment, Ranges
<1>9. TypeOK'
  BY <1>2, <1>5, <1>7, <1>8, WrapAround DEF TypeOK, Values
<1>10. CalledForSegments'
  <2>1. ASSUME p # stop PROVE IsSegment(Segment(p, stop - 1))
    <3>1. \A v \in given : ~(p <= v /\ v <= stop - 1)
      BY <1>2, <1>4 DEF Values
    <3>2. /\ boundaries.start_at <= p /\ p <= boundaries.stop_at
          /\ boundaries.start_at <= stop - 1 /\ stop - 1 <= boundaries.stop_at
          /\ stop - 1 + 1 = stop
      BY <1>2, <1>4, <1>6, <1>7, <2>1 DEF Values
    <3> QED
      BY <1>4, <1>6, <1>8, <2>1, <3>1, <3>2 DEF IsSegment, Covers
  <2>2. \A r \in called' : IsSegment(r)
    BY <1>5, <1>7, <2>1 DEF IInv, CalledForSegments
  <2> QED
    BY <1>5, <2>2 DEF CalledForSegments, IsSegment, Covers
<1>11. LoopAt(stop + 1)'
  <2>1. /\ boundaries.start_at <= stop + 1 /\ stop + 1 <= boundaries.stop_at + 1
        /\ stop + 1 - 1 = stop /\ stop + 1 # boundaries.start_at
    BY <1>2, <1>4, <1>6 DEF Values
  <2>2. \A v \in Values : stop + 1 <= v <=> stop <= v /\ v # stop
    BY DEF Values
  <2>3. left' = {v \in given : stop + 1 <= v /\ v <= boundaries.stop_at}
    <3>1. \A v \in given : stop + 1 <= v <=> p <= v /\ v # stop
      BY <1>2, <1>4, <2>2 DEF Values
    <3> QED
      BY <1>5, <1>6, <3>1
  <2>4. \A r \in called' : r.stop_at < stop + 1
    BY <1>2, <1>4, <1>5, <1>7, <1>8 DEF Values
  <2>5. ASSUME NEW v \in Values \ given, boundaries.start_at <= v, v < stop + 1
        PROVE  \E r \in called' : Covers(r, v)
    <3>1. CASE v < p
      BY <1>1, <1>5, <2>5, <3>1 DEF LoopAt
    <3>2. CASE ~(v < p)
      <4>1. p # stop /\ p <= v /\ v <= stop - 1
        BY <1>4, <2>5, <3>2 DEF Values
      <4>2. Segment(p, stop - 1) \in called'
        BY <1>5, <1>7, <4>1
      <4> QED
        BY <1>8, <4>1, <4>2 DEF Covers
    <3> QED
      BY <3>1, <3>2
  <2> QED
    <3>1. PICK next \in Nat : next = stop + 1
      BY DEF Values
    <3>2. index_start' = next % Modulus /\ next - 1 \in given
      BY <1>4, <1>5, <3>1 DEF Values
    <3>3. LoopAt(next)'
      BY <1>5, <2>1, <2>3, <2>4, <2>5, <3>1, <3>2 DEF LoopAt
    <3> QED
      BY <3>1, <3>3
<1>12. \A r \in called' \ called, q \in called : q.stop_at < r.start_at
  BY <1>2, <1>5, <1>7, <1>8
<1>13. stop + 1 \in Nat /\ pc' = "loop"
  BY <1>5 DEF Values
<1> QED
  BY <1>9, <1>10, <1>11, <1>12, <1>13 DEF IInv, InnerValuesAreCovered

\* Finish: what is left above the last split point is a segment, but it is not
\* passed when it is a single value.
LEMMA FinishStep ==
    ASSUME IInv, Finish
    PROVE  IInv' /\ \A r \in called' \ called, q \in called : q.stop_at < r.start_at
<1>1. PICK p \in Nat : LoopAt(p)
  BY DEF IInv, Finish
<1>2. /\ TypeOK /\ given \subseteq Values /\ called \subseteq Ranges
      /\ boundaries.start_at \in Values /\ boundaries.stop_at \in Values
      /\ \A r \in called : r.start_at \in Values /\ r.stop_at \in Values
      /\ \A r \in called : r.stop_at < p
  BY <1>1, TrimIsWithin DEF IInv, TypeOK, Ranges, LoopAt
<1>3. PICK stop \in Values : stop = boundaries.stop_at
  BY <1>2
<1>4. /\ boundaries.start_at <= p /\ p <= stop + 1 /\ index_start = p % Modulus
      /\ p # boundaries.start_at /\ p - 1 \in given
      /\ \A v \in given : ~(p <= v /\ v <= stop)
  BY <1>1, <1>2, <1>3 DEF LoopAt, Finish
<1>5. /\ p - 1 \in Values /\ p - 1 \in trim(boundaries, given)
      /\ boundaries.start_at <= p - 1 /\ p - 1 <= stop
  BY <1>2, <1>3, <1>4 DEF Values, trim
<1>6. PICK back \in Values : back = Max(trim(boundaries, given))
  BY <1>2, <1>5, TrimIsWithin, MaxIsGreatest
<1>7. back \in given /\ back <= stop /\ p - 1 <= back
  BY <1>2, <1>3, <1>5, <1>6, TrimIsWithin, MaxIsGreatest DEF trim
<1>8. /\ called' = IF index_start # stop /\ stop # back
                   THEN called \cup {Segment(index_start, stop)} ELSE called
      /\ boundaries' = boundaries /\ given' = given /\ left' = left
      /\ index_start' = index_start /\ pc' = "done"
  BY <1>3, <1>6 DEF Finish
<1>9. p < stop => LET r == Segment(p, stop)
                  IN  r \in Ranges /\ r.start_at = p /\ r.stop_at = stop
  <2>1. p < stop => p \in Values /\ p <= stop
    BY ModulusAssumption DEF Values
  <2> QED
    BY <2>1 DEF Segment, Ranges
\* Only a segment of two or more values is passed.
<1>10. called' = IF p < stop THEN called \cup {Segment(p, stop)} ELSE called
  <2>1. CASE p = stop + 1
    <3>1. stop = back /\ ~(p < stop)
      BY <1>7, <2>1 DEF Values
    <3> QED
      BY <1>8, <3>1
  <2>2. CASE p # stop + 1
    <3>1. p <= stop /\ p < Modulus
      BY <1>4, <2>2, ModulusAssumption DEF Values
    <3>2. index_start = p
      BY <1>4, <3>1, WrapAround
    <3>3. stop # back
      BY <1>4, <1>7, <3>1 DEF Values
    <3>4. p # stop <=> p < stop
      BY <3>1 DEF Values
    <3> QED
      BY <1>8, <3>2, <3>3, <3>4
  <2> QED
    BY <2>1, <2>2
<1>11. TypeOK'
  BY <1>2, <1>8, <1>9, <1>10 DEF TypeOK
<1>12. CalledForSegments'
  <2>1. ASSUME p < stop PROVE IsSegment(Segment(p, stop))
    <3>1. PICK r : r = Segment(p, stop)
      OBVIOUS
    <3>2. r.start_at = p /\ r.stop_at = stop
      BY <1>9, <2>1, <3>1
    <3>3. Covers(boundaries, p) /\ Covers(boundaries, stop)
      BY <1>2, <1>3, <1>4, <2>1 DEF Values, Covers
    <3>4. \A v \in given : ~Covers(r, v)
      BY <1>4, <3>2 DEF Covers
    <3> QED
      BY <1>3, <1>4, <3>1, <3>2, <3>3, <3>4 DEF IsSegment
  <2>2. \A r \in called' : IsSegment(r)
    BY <1>10, <2>1 DEF IInv, CalledForSegments
  <2> QED
    BY <1>8, <2>2 DEF CalledForSegments, IsSegment, Covers
<1>13. InnerValuesAreCovered'
  <2>1. SUFFICES ASSUME NEW v \in Values \ given, Covers(boundaries, v),
                        ~(v = stop /\ v - 1 \in given)
                 PROVE  \E r \in called' : Covers(r, v)
    BY <1>3, <1>8 DEF InnerValuesAreCovered, Covers
  <2>2. boundaries.start_at <= v /\ v <= stop
    BY <1>3, <2>1 DEF Covers
  <2>3. CASE v < p
    BY <1>1, <1>10, <2>2, <2>3 DEF LoopAt
  <2>4. CASE ~(v < p)
    <3>1. p <= v /\ p < stop
      BY <1>4, <2>1, <2>2, <2>4 DEF Values
    <3> QED
      BY <1>9, <1>10, <2>2, <3>1 DEF Covers
  <2> QED
    BY <2>3, <2>4
<1>14. \A r \in called' \ called, q \in called : q.stop_at < r.start_at
  BY <1>2, <1>9, <1>10
<1> QED
  BY <1>8, <1>11, <1>12, <1>13, <1>14 DEF IInv

--------------------------------------------------------------------------------
LEMMA Initial == Init => IInv
<1> SUFFICES ASSUME Init PROVE IInv
  OBVIOUS
<1>1. boundaries.start_at \in Values
  BY DEF Init, Ranges
<1> QED
  BY <1>1 DEF Init, IInv, TypeOK, CalledForSegments, InnerValuesAreCovered

\* Every step keeps the invariant, and calls func above the earlier calls.
LEMMA Step ==
    ASSUME IInv, [Next]_vars
    PROVE  IInv' /\ \A r \in called' \ called, q \in called : q.stop_at < r.start_at
<1>1. CASE UNCHANGED vars
  <2>1. /\ boundaries' = boundaries /\ given' = given /\ left' = left
        /\ index_start' = index_start /\ called' = called /\ pc' = pc
    BY <1>1 DEF vars
  <2>2. TypeOK' /\ CalledForSegments' /\ InnerValuesAreCovered'
    BY <2>1 DEF IInv, TypeOK, CalledForSegments, InnerValuesAreCovered, IsSegment, Covers
  <2>3. pc' = "loop" => \E p \in Nat : LoopAt(p)'
    BY <2>1 DEF IInv, LoopAt
  <2> QED
    BY <2>1, <2>2, <2>3 DEF IInv
<1> QED
  BY <1>1, WholeStep, BeginStep, SplitStep, FinishStep DEF Next

LEMMA Inductive == Spec => []IInv
<1>1. IInv /\ [Next]_vars => IInv'
  BY Step
<1> QED
  BY <1>1, Initial, PTL DEF Spec

\* The variables keep their types, for every size of the integer type: the
\* index wraps around and never leaves it.
THEOREM TypeCorrect == Spec => []TypeOK
<1>1. IInv => TypeOK
  BY DEF IInv
<1> QED
  BY <1>1, Inductive, PTL

\* func is called for longest ranges without split points only, for every size
\* of the integer type, every range and every set of split points.
THEOREM SegmentsOnly == Spec => []CalledForSegments
<1>1. IInv => CalledForSegments
  BY DEF IInv
<1> QED
  BY <1>1, Inductive, PTL

\* At the end, nothing but a single value behind the last split point was left
\* out, for every size of the integer type.
THEOREM NothingElseIsLeftOut == Spec => []InnerValuesAreCovered
<1>1. IInv => InnerValuesAreCovered
  BY DEF IInv
<1> QED
  BY <1>1, Inductive, PTL

\* Each call of func is for a range above those of the calls before it, for
\* every size of the integer type.
THEOREM Ascending == Spec => CallsAscend
<1>1. IInv /\ [Next]_vars =>
        [\A r \in called' \ called, q \in called : q.stop_at < r.start_at]_vars
  BY Step
<1> QED
  BY <1>1, Inductive, PTL DEF Spec, CallsAscend
================================================================================
