--------------------------- MODULE DisjointSegments ----------------------------
(***************************************************************************)
(* for_each_disjoint_segment, which splits an inclusive range of unsigned  *)
(* integers at given points and calls func for the segments between them.  *)
(* A flat_set::span is the set of its values, an iterator into it the set  *)
(* of the values that are left, *i the least of them. The arithmetic is    *)
(* that of an unsigned type with Modulus values.                           *)
(***************************************************************************)
EXTENDS Integers, FiniteSetsExt

CONSTANT Modulus

ASSUME ModulusAssumption == Modulus \in Nat \ {0}

VARIABLES
    boundaries,   \* the inclusive range to split
    given,        \* the split points passed to the function
    left,         \* split points from the iterator i to the end
    index_start,
    called,       \* the ranges func was called with
    pc            \* "begin", "loop", "done"

vars == <<boundaries, given, left, index_start, called, pc>>

Values == 0 .. Modulus - 1
Segment(from, to) == [start_at |-> from, stop_at |-> to]
Ranges == {r \in [start_at : Values, stop_at : Values] : r.start_at <= r.stop_at}

TypeOK == /\ boundaries \in Ranges /\ given \subseteq Values
          /\ left \subseteq given /\ index_start \in Values
          /\ called \subseteq Ranges /\ pc \in {"begin", "loop", "done"}

Init == /\ boundaries \in Ranges /\ given \in SUBSET Values
        /\ left = {} /\ index_start = boundaries.start_at
        /\ called = {} /\ pc = "begin"

\* Mutated form of Plus1: the index does not wrap around.
Plus1_Wide(v) == v + 1

Plus1(v) == (v + 1) % Modulus
Minus1(v) == (v - 1) % Modulus

--------------------------------------------------------------------------------
\* Mutated form of trim: the value equal to stop_at is cut off.
trim_Exclusive(b, vals) == {v \in vals : v >= b.start_at /\ v < b.stop_at}

\* The values within the boundaries.
trim(b, vals) == {v \in vals : v >= b.start_at /\ v <= b.stop_at}

\* Without split points in the range, func gets the whole range.
Whole == /\ pc = "begin" /\ trim(boundaries, given) = {}
         /\ called' = {boundaries} /\ pc' = "done"
         /\ UNCHANGED <<boundaries, given, left, index_start>>

\* A split point at the very beginning is skipped.
Begin == /\ pc = "begin" /\ trim(boundaries, given) # {}
         /\ LET points == trim(boundaries, given)
                first == Min(points)
            IN  IF first = boundaries.start_at
                THEN left' = points \ {first} /\ index_start' = Plus1(first)
                ELSE left' = points /\ index_start' = boundaries.start_at
         /\ pc' = "loop"
         /\ UNCHANGED <<boundaries, given, called>>

\* Mutated form of Split: segments of one value are skipped, too.
Split_SkipsSingle ==
    /\ pc = "loop" /\ left # {}
    /\ LET stop == Min(left)
       IN  /\ called' = IF index_start = stop \/ Plus1(index_start) = stop THEN called
                        ELSE called \cup {Segment(index_start, Minus1(stop))}
           /\ index_start' = Plus1(stop)
           /\ left' = left \ {stop}
    /\ UNCHANGED <<boundaries, given, pc>>

\* One round of the loop over the split points.
Split == /\ pc = "loop" /\ left # {}
         /\ LET stop == Min(left)
            IN  /\ called' = IF index_start = stop THEN called
                             ELSE called \cup {Segment(index_start, Minus1(stop))}
                /\ index_start' = Plus1(stop)
                /\ left' = left \ {stop}
         /\ UNCHANGED <<boundaries, given, pc>>

\* The block after the loop.
Finish == /\ pc = "loop" /\ left = {}
          /\ LET stop == boundaries.stop_at
                 back == Max(trim(boundaries, given))
             IN  called' = IF index_start # stop /\ stop # back
                           THEN called \cup {Segment(index_start, stop)}
                           ELSE called
          /\ pc' = "done"
          /\ UNCHANGED <<boundaries, given, left, index_start>>

Next == Whole \/ Begin \/ Split \/ Finish

Spec == Init /\ [][Next]_vars

--------------------------------------------------------------------------------
Covers(r, v) == r.start_at <= v /\ v <= r.stop_at

\* A longest range within the boundaries that holds no split point.
IsSegment(r) == /\ Covers(boundaries, r.start_at) /\ Covers(boundaries, r.stop_at)
                /\ \A v \in given : ~Covers(r, v)
                /\ r.start_at = boundaries.start_at \/ r.start_at - 1 \in given
                /\ r.stop_at = boundaries.stop_at \/ r.stop_at + 1 \in given

\* func is called for longest ranges without split points only, also at both
\* ends of the integer type, where the indices wrap around. It follows that no
\* two of the ranges overlap.
CalledForSegments == \A r \in called : IsSegment(r)

\* Nothing is passed twice: each call is for a range above those before it.
CallsAscend == [][\A r \in called' \ called, q \in called : q.stop_at < r.start_at]_vars

\* When the function returns, every value in the boundaries that is no split
\* point was in some range. The exception is the last value when its neighbour is
\* a split point: the condition of Finish drops a segment that consists of it
\* alone, while segments of one value are passed everywhere else.
InnerValuesAreCovered ==
    pc = "done" =>
        \A v \in Values \ given :
            Covers(boundaries, v) /\ ~(v = boundaries.stop_at /\ v - 1 \in given) =>
                \E r \in called : Covers(r, v)
================================================================================
