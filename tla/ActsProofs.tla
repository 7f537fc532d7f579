----------------------------- MODULE ActsProofs -----------------------------
(***************************************************************************)
(* Proofs about module Acts, for every value of its constants.             *)
(***************************************************************************)
EXTENDS Acts, FiniteSetTheorems, TLAPS

USE DEF Mixed, Active, Silent

\* check_window returns one of three values, whatever the frames are.
LEMMA CheckWindowType ==
  ASSUME NEW s, NEW w
  PROVE  check_window(s, w) \in {Mixed, Active, Silent}
BY DEF check_window

\* The inductive invariant: the segment lists cannot be kept in order without
\* the types of their elements, and end() writes a frame number only because an
\* open segment has a start that is a received frame.
IInv == TypeOK /\ WellFormed

\* A reset object is of its type and holds no frame and no segment.
LEMMA ResetEmpty ==
  /\ reset \in ActsObject
  /\ reset.acts_ = <<>> /\ reset.seg_sts_ = <<>> /\ reset.seg_ends_ = <<>>
  /\ Len(reset.acts_) = 0 /\ Len(reset.seg_sts_) = 0 /\ Len(reset.seg_ends_) = 0
<1>1. \A S : <<>> \in Seq(S)
  OBVIOUS
<1>2. reset \in ActsObject
  BY <1>1 DEF reset, ActsObject
<1> QED
  BY <1>2 DEF reset

\* No segments, nothing out of order.
LEMMA EmptyWellFormed == acts = reset => WellFormed
<1> SUFFICES ASSUME acts = reset
             PROVE  WellFormed
  OBVIOUS
<1> QED
  BY ResetEmpty DEF WellFormed, Ordered

\* What add_act does to the segment lists: one of them grows by the frame
\* added, or neither changes.
LEMMA AddActCases ==
  ASSUME NEW a \in ActsObject, NEW act \in {0, 1}
  PROVE  LET b == add_act(a, act)
             f == Len(a.acts_)
         IN  /\ b \in ActsObject
             /\ b.acts_ = Append(a.acts_, act)
             /\ \/ /\ b.seg_sts_ = a.seg_sts_
                   /\ b.seg_ends_ = a.seg_ends_
                \/ /\ Len(a.seg_sts_) = Len(a.seg_ends_)
                   /\ b.seg_sts_ = Append(a.seg_sts_, f)
                   /\ b.seg_ends_ = a.seg_ends_
                \/ /\ IsOpen(a)
                   /\ f - Last(a.seg_sts_) > MinClose
                   /\ b.seg_sts_ = a.seg_sts_
                   /\ b.seg_ends_ = Append(a.seg_ends_, f)
<1> DEFINE b    == add_act(a, act)
           f    == Len(a.acts_)
           acts1 == Append(a.acts_, act)
           status == check_window(acts1, f \div Window)
<1>1. status \in {Mixed, Active, Silent}
  BY CheckWindowType
<1>2. acts1 \in Seq({0, 1}) /\ f \in Nat /\ Len(acts1) = f + 1
  BY DEF ActsObject
<1>3. CASE Len(acts1) % Window # 0
  <2>1. b = [a EXCEPT !.acts_ = acts1]
    BY <1>3 DEF add_act
  <2> QED
    BY <2>1, <1>2 DEF ActsObject
<1>4. CASE Len(acts1) % Window = 0
  <2> DEFINE starts == StartsSegment(a, status)
             ends   == EndsSegment(a, f, status)
  <2>1. b = [acts_         |-> acts1,
             wind_stats_   |-> Append(a.wind_stats_, status),
             seg_sts_      |-> IF starts THEN Append(a.seg_sts_, f) ELSE a.seg_sts_,
             seg_ends_     |-> IF ends THEN Append(a.seg_ends_, f) ELSE a.seg_ends_,
             last_seg_idx_ |-> IF ends THEN f ELSE a.last_seg_idx_]
    BY <1>4 DEF add_act
  <2>2. ~ (starts /\ ends)
    BY DEF StartsSegment, EndsSegment
  <2>3. starts => Len(a.seg_sts_) = Len(a.seg_ends_)
    BY DEF StartsSegment
  <2>4. ends => IsOpen(a) /\ f - Last(a.seg_sts_) > MinClose
    BY DEF EndsSegment
  <2> HIDE DEF starts, ends, status
  <2> QED
    BY <2>1, <2>2, <2>3, <2>4, <1>1, <1>2 DEF ActsObject
<1> QED
  BY <1>3, <1>4

\* What end does to the segment lists: it closes the open segment at the last
\* frame, or changes neither.
LEMMA EndCases ==
  ASSUME NEW a \in ActsObject,
         IsOpen(a) => Len(a.acts_) > 0
  PROVE  LET b == end(a)
             n == Len(a.acts_)
         IN  /\ b \in ActsObject
             /\ b.acts_ = a.acts_
             /\ b.seg_sts_ = a.seg_sts_
             /\ \/ b.seg_ends_ = a.seg_ends_
                \/ /\ IsOpen(a)
                   /\ n - Last(a.seg_sts_) > MinTail
                   /\ b.seg_ends_ = Append(a.seg_ends_, n - 1)
<1> DEFINE n      == Len(a.acts_)
           st     == Last(a.seg_sts_)
           closes == n - st > MinTail /\ PercentAbove(a.acts_, st, n - 1, 1, 2)
<1>1. CASE ~ IsOpen(a)
  BY <1>1 DEF end
<1>2. CASE IsOpen(a)
  <2>1. end(a) = [a EXCEPT !.seg_ends_ = IF closes THEN Append(@, n - 1) ELSE @,
                           !.last_seg_idx_ = n - 1]
    BY <1>2 DEF end
  <2>2. n - 1 \in Nat
    BY <1>2 DEF ActsObject
  <2>3. closes => n - st > MinTail
    OBVIOUS
  <2> DEFINE ends == IF closes THEN Append(a.seg_ends_, n - 1) ELSE a.seg_ends_
  <2>4. ends \in Seq(Nat)
    BY <2>2 DEF ActsObject
  <2>5. end(a) = [a EXCEPT !.seg_ends_ = ends, !.last_seg_idx_ = n - 1]
    BY <2>1
  <2>6. \/ ends = a.seg_ends_
        \/ /\ n - st > MinTail
           /\ ends = Append(a.seg_ends_, n - 1)
    BY <2>3
  <2> HIDE DEF ends, closes
  <2>7. /\ end(a) \in ActsObject
        /\ end(a).acts_ = a.acts_
        /\ end(a).seg_sts_ = a.seg_sts_
        /\ end(a).seg_ends_ = ends
    BY <2>2, <2>4, <2>5 DEF ActsObject
  <2> QED
    BY <1>2, <2>6, <2>7
<1> QED
  BY <1>1, <1>2
-----------------------------------------------------------------------------
\* More frames, or the end of the recording, leave the segments in order.
LEMMA OrderedKept ==
  ASSUME NEW sts \in Seq(Nat), NEW ends \in Seq(Nat), NEW n \in Nat, NEW m \in Nat,
         NEW over \in BOOLEAN, n <= m, Ordered(sts, ends, n, FALSE)
  PROVE  Ordered(sts, ends, m, over)
<1>1. \A i \in 1..Len(sts) : sts[i] \in Nat
  OBVIOUS
<1>2. \A i \in 1..Len(ends) : ends[i] \in Nat
  OBVIOUS
<1> QED
  BY <1>1, <1>2 DEF Ordered

\* A segment may start at the frame that arrives when none is open.
LEMMA OrderedStart ==
  ASSUME NEW sts \in Seq(Nat), NEW ends \in Seq(Nat), NEW n \in Nat,
         Len(sts) = Len(ends), Ordered(sts, ends, n, FALSE)
  PROVE  Ordered(Append(sts, n), ends, n + 1, FALSE)
<1> DEFINE s == Append(sts, n)
<1>1. /\ Len(s) = Len(sts) + 1
      /\ s[Len(sts) + 1] = n
      /\ \A i \in 1..Len(sts) : s[i] = sts[i] /\ sts[i] \in Nat
  OBVIOUS
<1>2. Len(ends) \in Nat /\ \A i \in 1..Len(ends) : ends[i] \in Nat
  OBVIOUS
<1> HIDE DEF s
<1> QED
  BY <1>1, <1>2 DEF Ordered

\* The open segment may close at a received frame far enough from its start.
LEMMA OrderedClose ==
  ASSUME NEW sts \in Seq(Nat), NEW ends \in Seq(Nat), NEW n \in Nat, NEW m \in Nat,
         NEW f \in Nat, NEW over \in BOOLEAN,
         Len(sts) = Len(ends) + 1, Ordered(sts, ends, n, FALSE), n <= m, f < m,
         f - sts[Len(sts)] > MinClose \/ (over /\ f - sts[Len(sts)] >= MinTail)
  PROVE  Ordered(sts, Append(ends, f), m, over)
<1> DEFINE e == Append(ends, f)
<1>1. /\ Len(ends) \in Nat
      /\ Len(e) = Len(ends) + 1
      /\ e[Len(ends) + 1] = f
      /\ \A i \in 1..Len(ends) : e[i] = ends[i] /\ ends[i] \in Nat
  OBVIOUS
<1>2. \A i \in 1..Len(sts) : sts[i] \in Nat
  OBVIOUS
<1>3. \A i \in 1..Len(ends) :
        /\ ends[i] < n
        /\ ends[i] - sts[i] > MinClose
        /\ ends[i] < sts[i + 1]
  BY <1>1, <1>2 DEF Ordered
<1> HIDE DEF e
<1>4. \A i \in 1..Len(sts) : sts[i] < m
  BY <1>2 DEF Ordered
<1>5. ASSUME NEW i \in 1..Len(e)
      PROVE  /\ e[i] < m
             /\ \/ e[i] - sts[i] > MinClose
                \/ over /\ i = Len(e) /\ e[i] - sts[i] >= MinTail
             /\ i < Len(sts) => e[i] < sts[i + 1]
  <2>1. CASE i = Len(ends) + 1
    BY <1>1, <1>2, <2>1
  <2>2. CASE i \in 1..Len(ends)
    <3>1. /\ e[i] = ends[i] /\ e[i] \in Nat /\ e[i] < n
          /\ e[i] - sts[i] > MinClose
          /\ e[i] < sts[i + 1]
      BY <1>1, <1>3, <2>2
    <3> QED
      BY <3>1
  <2> QED
    BY <1>1, <2>1, <2>2
<1> QED
  BY <1>1, <1>4, <1>5 DEF Ordered
-----------------------------------------------------------------------------
\* The invariant is inductive.
LEMMA Inductive == Spec => []IInv
<1> USE SegmentAssumption
<1> DEFINE sts  == acts.seg_sts_
           ends == acts.seg_ends_
           f    == Len(acts.acts_)
<1>1. Init => IInv
  BY ResetEmpty, EmptyWellFormed DEF Init, IInv, TypeOK
<1>2. ASSUME IInv, [Next]_vars
      PROVE  IInv'
  <2>1. /\ acts \in ActsObject
        /\ ended \in BOOLEAN
        /\ f \in Nat
        /\ sts \in Seq(Nat)
        /\ ends \in Seq(Nat)
        /\ Ordered(sts, ends, f, ended)
    BY <1>2 DEF IInv, TypeOK, WellFormed, Frames, ActsObject
  <2>2. WellFormed' <=> Ordered(sts', ends', f', ended')
    BY DEF WellFormed, Frames
  <2>3. ASSUME NEW act \in {0, 1}, AddAct(act)
        PROVE  IInv'
    <3>1. acts' = add_act(acts, act) /\ ended = FALSE /\ ended' = FALSE
      BY <2>1, <2>3 DEF AddAct
    <3>0. Ordered(sts, ends, f, FALSE)
      BY <2>1, <3>1, Zenon
    <3>2. acts' \in ActsObject /\ acts'.acts_ = Append(acts.acts_, act)
      BY <2>1, <3>1, AddActCases
    <3>3. f' = f + 1
      BY <2>1, <3>2 DEF ActsObject
    <3>4. CASE sts' = sts /\ ends' = ends
      <4>1. f + 1 \in Nat /\ f <= f + 1
        BY <2>1
      <4>2. Ordered(sts, ends, f + 1, FALSE)
        BY <2>1, <3>0, <4>1, OrderedKept
      <4> QED
        BY <2>2, <3>1, <3>2, <3>3, <3>4, <4>2 DEF IInv, TypeOK
    <3>5. CASE Len(sts) = Len(ends) /\ sts' = Append(sts, f) /\ ends' = ends
      <4>1. Ordered(sts', ends', f + 1, FALSE)
        BY <2>1, <3>1, <3>5, OrderedStart
      <4> QED
        BY <2>2, <3>1, <3>2, <3>3, <4>1 DEF IInv, TypeOK
    <3>6. CASE /\ IsOpen(acts) /\ f - Last(sts) > MinClose
               /\ sts' = sts /\ ends' = Append(ends, f)
      <4>1. Len(sts) = Len(ends) + 1 /\ f - sts[Len(sts)] > MinClose
        BY <3>6 DEF IsOpen, Last
      <4>2. f + 1 \in Nat /\ f < f + 1 /\ f <= f + 1
        BY <2>1
      <4>3. Ordered(sts, Append(ends, f), f + 1, FALSE)
        BY <2>1, <3>0, <4>1, <4>2, OrderedClose
      <4> QED
        BY <2>2, <3>1, <3>2, <3>3, <3>6, <4>3 DEF IInv, TypeOK
    <3> QED
      BY <2>1, <3>1, <3>4, <3>5, <3>6, AddActCases
  <2>4. ASSUME End
        PROVE  IInv'
    <3>1. acts' = end(acts) /\ ended = FALSE /\ ended' = TRUE
      BY <2>1, <2>4 DEF End
    <3>0. Ordered(sts, ends, f, FALSE)
      BY <2>1, <3>1, Zenon
    <3>2. IsOpen(acts) => /\ Len(sts) = Len(ends) + 1
                          /\ Len(sts) \in 1..Len(sts)
                          /\ sts[Len(sts)] \in Nat
                          /\ sts[Len(sts)] < f
                          /\ f > 0
      BY <2>1, <3>0 DEF IsOpen, Ordered
    <3>3. /\ acts' \in ActsObject
          /\ acts'.acts_ = acts.acts_
          /\ sts' = sts
      BY <2>1, <3>1, <3>2, EndCases
    <3>4. CASE ends' = ends
      <4>1. f <= f
        BY <2>1
      <4>2. Ordered(sts, ends, f, TRUE)
        BY <2>1, <3>0, <4>1, OrderedKept
      <4> QED
        BY <2>2, <3>1, <3>3, <3>4, <4>2 DEF IInv, TypeOK
    <3>5. CASE IsOpen(acts) /\ f - Last(sts) > MinTail /\ ends' = Append(ends, f - 1)
      <4>1. (f - 1) - sts[Len(sts)] >= MinTail /\ f - 1 \in Nat /\ f - 1 < f /\ f <= f
        BY <2>1, <3>2, <3>5 DEF Last
      <4>3. Ordered(sts, Append(ends, f - 1), f, TRUE)
        BY <2>1, <3>0, <3>2, <3>5, <4>1, OrderedClose
      <4> QED
        BY <2>2, <3>1, <3>3, <3>5, <4>3 DEF IInv, TypeOK
    <3> QED
      BY <2>1, <3>1, <3>2, <3>4, <3>5, EndCases
  <2>5. ASSUME Reset
        PROVE  IInv'
    <3>1. acts' = reset /\ ended' = FALSE
      BY <2>5 DEF Reset
    <3>2. Ordered(sts', ends', f', ended')
      BY <3>1, ResetEmpty DEF Ordered
    <3> QED
      BY <2>2, <3>1, <3>2, ResetEmpty DEF IInv, TypeOK
  <2>6. CASE UNCHANGED vars
    BY <1>2, <2>6 DEF IInv, vars, TypeOK, WellFormed, Frames
  <2> QED
    BY <1>2, <2>3, <2>4, <2>5, <2>6 DEF Next
<1> QED
  BY <1>1, <1>2, PTL DEF Spec

\* The fields of an Acts object keep their types.
THEOREM TypeCorrect == Spec => []TypeOK
BY Inductive, PTL DEF IInv

\* The segments of an Acts object are always paired, long enough, disjoint and
\* in the order of their frames.
THEOREM SegmentsWellFormed == Spec => []WellFormed
BY Inductive, PTL DEF IInv
-----------------------------------------------------------------------------
\* A start after the last end pairs with nothing yet.
LEMMA PairsStart ==
  ASSUME NEW sts \in Seq(Nat), NEW ends \in Seq(Nat), NEW f \in Nat,
         Len(sts) = Len(ends)
  PROVE  Pairs(Append(sts, f), ends) = Pairs(sts, ends)
BY DEF Pairs

\* An end pairs with the last start.
LEMMA PairsClose ==
  ASSUME NEW sts \in Seq(Nat), NEW ends \in Seq(Nat), NEW f \in Nat,
         Len(sts) = Len(ends) + 1
  PROVE  Pairs(sts, Append(ends, f)) = Append(Pairs(sts, ends), <<sts[Len(sts)], f>>)
<1> DEFINE e == Append(ends, f)
           p == Pairs(sts, ends)
           x == <<sts[Len(sts)], f>>
<1>1. /\ Len(ends) \in Nat
      /\ Len(e) = Len(ends) + 1
      /\ e[Len(ends) + 1] = f
      /\ \A i \in 1..Len(ends) : e[i] = ends[i]
  OBVIOUS
<1>2. p \in Seq(Nat \X Nat) /\ Len(p) = Len(ends)
  BY DEF Pairs
<1>3. x \in Nat \X Nat
  OBVIOUS
<1>4. /\ Append(p, x) \in Seq(Nat \X Nat)
      /\ Len(Append(p, x)) = Len(ends) + 1
      /\ Append(p, x)[Len(ends) + 1] = x
      /\ \A i \in 1..Len(ends) : Append(p, x)[i] = p[i]
  BY <1>2, <1>3
<1>5. \A i \in 1..(Len(ends) + 1) : Append(p, x)[i] = <<sts[i], e[i]>>
  BY <1>1, <1>4 DEF Pairs
<1>6. Append(p, x) = [i \in 1..(Len(ends) + 1) |-> Append(p, x)[i]]
  BY <1>4
<1> HIDE DEF e, p, x
<1>7. Append(p, x) = [i \in 1..(Len(ends) + 1) |-> <<sts[i], e[i]>>]
  BY <1>5, <1>6
<1> QED
  BY <1>1, <1>7 DEF Pairs, e, p, x

\* What the invariant says of the object, for the two theorems that follow.
LEMMA InvFacts ==
  IInv => /\ acts \in ActsObject
          /\ Len(acts.acts_) \in Nat
          /\ acts.seg_sts_ \in Seq(Nat)
          /\ acts.seg_ends_ \in Seq(Nat)
          /\ IsOpen(acts) => Len(acts.acts_) > 0
<1> SUFFICES ASSUME IInv
             PROVE  /\ acts \in ActsObject
                    /\ Len(acts.acts_) \in Nat
                    /\ acts.seg_sts_ \in Seq(Nat)
                    /\ acts.seg_ends_ \in Seq(Nat)
                    /\ IsOpen(acts) => Len(acts.acts_) > 0
  OBVIOUS
<1>1. /\ acts \in ActsObject
      /\ Len(acts.acts_) \in Nat
      /\ acts.seg_sts_ \in Seq(Nat)
      /\ acts.seg_ends_ \in Seq(Nat)
  BY DEF IInv, TypeOK, ActsObject
<1>2. \A i \in 1..Len(acts.seg_sts_) : acts.seg_sts_[i] < Len(acts.acts_)
  BY DEF IInv, WellFormed, Ordered, Frames
<1>3. IsOpen(acts) => 1 \in 1..Len(acts.seg_sts_) /\ acts.seg_sts_[1] \in Nat
  BY <1>1 DEF IsOpen
<1> QED
  BY <1>1, <1>2, <1>3

\* An Acts object implements the abstract segmentation.
THEOREM Implementation == Spec => ImplementsSegmentation
<1> DEFINE sts  == acts.seg_sts_
           ends == acts.seg_ends_
           f    == Len(acts.acts_)
<1>1. Init => Segments!Init
  BY ResetEmpty DEF Init, Segments!Init, Pairs, Frames, IsOpen
<1>2. ASSUME IInv, [Next]_vars
      PROVE  [Segments!Next]_(Segments!vars)
  <2>1. /\ acts \in ActsObject
        /\ f \in Nat
        /\ sts \in Seq(Nat)
        /\ ends \in Seq(Nat)
        /\ IsOpen(acts) => f > 0
    BY <1>2, InvFacts
  <2>2. ASSUME NEW act \in {0, 1}, AddAct(act)
        PROVE  Segments!Frame
    <3>1. acts' = add_act(acts, act) /\ ~ ended /\ ended' = ended
      BY <2>2 DEF AddAct
    <3>2. acts' \in ActsObject /\ acts'.acts_ = Append(acts.acts_, act)
      BY <2>1, <3>1, AddActCases
    <3>3. f' = f + 1
      BY <2>1, <3>2 DEF ActsObject
    <3>4. CASE sts' = sts /\ ends' = ends
      BY <3>1, <3>3, <3>4 DEF Segments!Frame, Frames, IsOpen
    <3>5. CASE Len(sts) = Len(ends) /\ sts' = Append(sts, f) /\ ends' = ends
      <4>1. Pairs(sts', ends') = Pairs(sts, ends)
        BY <2>1, <3>5, PairsStart
      <4>2. ~ IsOpen(acts) /\ IsOpen(acts)' /\ Last(sts)' = f
        BY <2>1, <3>5 DEF IsOpen, Last
      <4>3. Segments!Start
        BY <4>1, <4>2 DEF Segments!Start, Frames
      <4> QED
        BY <3>1, <3>3, <4>3 DEF Segments!Frame, Frames
    <3>6. CASE /\ IsOpen(acts) /\ f - Last(sts) > MinClose
               /\ sts' = sts /\ ends' = Append(ends, f)
      <4>1. Len(sts) = Len(ends) + 1
        BY <3>6 DEF IsOpen
      <4>2. Pairs(sts', ends') = Append(Pairs(sts, ends), <<Last(sts), f>>)
        BY <2>1, <3>6, <4>1, PairsClose DEF Last
      <4>3. ~ IsOpen(acts)'
        BY <2>1, <3>6, <4>1 DEF IsOpen
      <4>4. Segments!Close
        BY <3>6, <4>2, <4>3 DEF Segments!Close, Frames
      <4> QED
        BY <3>1, <3>3, <4>4 DEF Segments!Frame, Frames
    <3> QED
      BY <2>1, <3>1, <3>4, <3>5, <3>6, AddActCases
  <2>3. ASSUME End
        PROVE  Segments!Finish
    <3>1. acts' = end(acts) /\ ~ ended /\ ended' = TRUE
      BY <2>3 DEF End
    <3>2. acts'.acts_ = acts.acts_ /\ sts' = sts
      BY <2>1, <3>1, EndCases
    <3>3. CASE ends' = ends
      BY <3>1, <3>2, <3>3 DEF Segments!Finish, Frames, IsOpen
    <3>4. CASE IsOpen(acts) /\ f - Last(sts) > MinTail /\ ends' = Append(ends, f - 1)
      <4>1. Len(sts) = Len(ends) + 1 /\ f - 1 \in Nat
        BY <2>1, <3>4 DEF IsOpen
      <4>2. Pairs(sts', ends') = Append(Pairs(sts, ends), <<Last(sts), f - 1>>)
        BY <2>1, <3>2, <3>4, <4>1, PairsClose DEF Last
      <4>3. ~ IsOpen(acts)'
        BY <2>1, <3>2, <3>4, <4>1 DEF IsOpen
      <4> QED
        BY <3>1, <3>2, <3>4, <4>2, <4>3 DEF Segments!Finish, Frames
    <3> QED
      BY <2>1, <3>1, <3>3, <3>4, EndCases
  <2>4. ASSUME Reset
        PROVE  Segments!Reset
    BY <2>4, ResetEmpty DEF Reset, Segments!Reset, Pairs, Frames, IsOpen
  <2>5. CASE UNCHANGED vars
    BY <2>5 DEF vars, Segments!vars, Frames
  <2> QED
    BY <1>2, <2>2, <2>3, <2>4, <2>5 DEF Next, Segments!Next
<1> QED
  BY <1>1, <1>2, Inductive, PTL DEF Spec, ImplementsSegmentation, Segments!Spec

\* A segment found stays where it is until the object is reset.
THEOREM SegmentsNeverMove == Spec => SegmentsStable
<1> DEFINE sts  == acts.seg_sts_
           ends == acts.seg_ends_
<1>1. \A s \in Seq(Nat) : IsPrefix(s, s)
  BY DEF IsPrefix
<1>2. \A s \in Seq(Nat), x \in Nat : IsPrefix(s, Append(s, x))
  BY DEF IsPrefix
<1>3. ASSUME IInv, [Next]_vars
      PROVE  [KeepsSegments]_vars
  <2>1. /\ acts \in ActsObject
        /\ Len(acts.acts_) \in Nat
        /\ sts \in Seq(Nat)
        /\ ends \in Seq(Nat)
        /\ IsOpen(acts) => Len(acts.acts_) > 0
    BY <1>3, InvFacts
  <2>2. ASSUME NEW act \in {0, 1}, AddAct(act)
        PROVE  KeepsSegments
    BY <1>1, <1>2, <2>1, <2>2, AddActCases DEF AddAct, KeepsSegments
  <2>3. ASSUME End
        PROVE  KeepsSegments
    <3>1. Len(acts.acts_) - 1 \in Nat \/ ends' = ends
      BY <2>1, <2>3, EndCases DEF End
    <3> QED
      BY <1>1, <1>2, <2>1, <2>3, <3>1, EndCases DEF End, KeepsSegments
  <2>4. ASSUME Reset
        PROVE  KeepsSegments
    BY <2>4 DEF Reset, KeepsSegments
  <2> QED
    BY <1>3, <2>2, <2>3, <2>4 DEF Next
<1> QED
  BY <1>3, Inductive, PTL DEF Spec, SegmentsStable
-----------------------------------------------------------------------------
\* The quotient and the remainder of a division.
LEMMA Division ==
  ASSUME NEW n \in Nat, NEW k \in Nat \ {0}
  PROVE  /\ n \div k \in Nat
         /\ n % k \in 0..(k - 1)
         /\ n = k * (n \div k) + (n % k)
OBVIOUS

\* Without the remainder, the product is not larger.
LEMMA QuotientBelow ==
  ASSUME NEW n \in Nat, NEW k \in Nat \ {0}
  PROVE  n \div k \in Nat /\ k * (n \div k) <= n
<1>1. \A q \in Nat, r \in 0..(k - 1) : n = k * q + r => k * q <= n
  OBVIOUS
<1>2. n \div k \in Nat /\ n % k \in 0..(k - 1)
  BY Division
<1>3. n = k * (n \div k) + (n % k)
  BY Division
<1> QED
  BY <1>1, <1>2, <1>3

\* Quotient and remainder are the only numbers of this kind.
LEMMA DivisionUnique ==
  ASSUME NEW k \in Nat \ {0}, NEW q \in Nat, NEW p \in Nat,
         NEW r \in 0..(k - 1), NEW s \in 0..(k - 1), k * q + r = k * p + s
  PROVE  q = p /\ r = s
<1>1. CASE q < p
  <2>1. k * (q + 1) <= k * p /\ k * (q + 1) = k * q + k
    BY <1>1
  <2> QED
    BY <2>1
<1>2. CASE p < q
  <2>1. k * (p + 1) <= k * q /\ k * (p + 1) = k * p + k
    BY <1>2
  <2> QED
    BY <2>1
<1> QED
  BY <1>1, <1>2

\* The last frame of a complete window has been received.
LEMMA WindowReceived ==
  ASSUME NEW n \in Nat, NEW w \in 0..(n \div Window - 1)
  PROVE  /\ LastFrame(w) \in Nat
         /\ LastFrame(w) < n
         /\ w * Window \in Nat
<1> USE SegmentAssumption
<1>1. n \div Window \in Nat /\ Window * (n \div Window) <= n
  BY QuotientBelow
<1>2. (w + 1) * Window <= Window * (n \div Window)
  BY <1>1
<1>3. (w + 1) * Window = w * Window + Window /\ w * Window \in Nat
  OBVIOUS
<1> QED
  BY <1>1, <1>2, <1>3 DEF LastFrame

\* A frame completes a window exactly if the number of frames is then a multiple
\* of the window's length.
LEMMA WindowCompleted ==
  ASSUME NEW n \in Nat
  PROVE  /\ (n + 1) % Window # 0 => (n + 1) \div Window = n \div Window
         /\ (n + 1) % Window = 0 => /\ (n + 1) \div Window = n \div Window + 1
                                    /\ LastFrame(n \div Window) = n
<1> USE SegmentAssumption
<1> DEFINE q == n \div Window
           r == n % Window
           p == (n + 1) \div Window
           s == (n + 1) % Window
<1>1. q \in Nat /\ r \in 0..(Window - 1) /\ n = Window * q + r
  BY Division
<1>2. n + 1 \in Nat /\ p \in Nat /\ s \in 0..(Window - 1) /\ n + 1 = Window * p + s
  <2>1. n + 1 \in Nat
    OBVIOUS
  <2> QED
    BY <2>1, Division
<1> HIDE DEF q, r, p, s
<1>3. CASE r = Window - 1
  <2>1. Window * (q + 1) = Window * q + Window /\ Window * (q + 1) = (q + 1) * Window
    BY <1>1
  <2>2. Window * (q + 1) + 0 = Window * p + s
    BY <1>1, <1>2, <1>3, <2>1
  <2>3. p = q + 1 /\ s = 0
    BY <1>1, <1>2, <2>2, DivisionUnique
  <2>4. LastFrame(q) = n
    BY <1>1, <1>3, <2>1 DEF LastFrame
  <2> QED
    BY <2>3, <2>4 DEF q, p, s
<1>4. CASE r # Window - 1
  <2>1. r + 1 \in 0..(Window - 1) /\ Window * q + (r + 1) = Window * p + s
    BY <1>1, <1>2, <1>4
  <2>2. p = q /\ s = r + 1
    BY <1>1, <1>2, <2>1, DivisionUnique
  <2> QED
    BY <1>1, <2>2 DEF q, p, s
<1> QED
  BY <1>3, <1>4

\* The active frames of window w.
ActiveIn(a, w) == {f \in (w * Window)..LastFrame(w) : a[f + 1] = 1}

\* A window is silent exactly if none of its frames is active.
SilentIn(a, w) == \A f \in (w * Window)..LastFrame(w) : a[f + 1] = 0

\* check_window counts exactly these frames.
LEMMA CheckWindowMeaning ==
  ASSUME NEW n \in Nat, NEW a \in Seq({0, 1}), Len(a) = n,
         NEW w \in 0..(n \div Window - 1)
  PROVE  /\ check_window(a, w) = Active <=> Cardinality(ActiveIn(a, w)) >= MinAct
         /\ check_window(a, w) = Silent <=> SilentIn(a, w)
         /\ check_window(a, w) = Silent => ~ (Cardinality(ActiveIn(a, w)) >= MinAct)
<1> USE SegmentAssumption
<1> DEFINE A == ActiveIn(a, w)
<1>1. LastFrame(w) \in Nat /\ w * Window \in Nat /\ LastFrame(w) < n
  BY WindowReceived
<1>2. ActiveFrames(a, w * Window, (w + 1) * Window) = Cardinality(A)
  BY DEF ActiveFrames, ActiveIn, LastFrame
<1>3. IsFiniteSet((w * Window)..LastFrame(w))
  BY <1>1, FS_Interval
<1>4. IsFiniteSet(A) /\ A \subseteq (w * Window)..LastFrame(w)
  BY <1>3, FS_Subset DEF ActiveIn
<1>5. Cardinality(A) \in Nat /\ (Cardinality(A) = 0 <=> A = {})
  BY <1>4, FS_CardinalityType, FS_EmptySet
<1>6. A = {} <=> SilentIn(a, w)
  <2>1. \A f \in (w * Window)..LastFrame(w) : a[f + 1] \in {0, 1}
    BY <1>1
  <2> QED
    BY <2>1 DEF ActiveIn, SilentIn
<1> HIDE DEF A
<1>7. check_window(a, w) = IF Cardinality(A) >= MinAct THEN Active
                           ELSE IF Cardinality(A) = 0 THEN Silent ELSE Mixed
  BY <1>2, <1>5 DEF check_window
<1> QED
  BY <1>5, <1>6, <1>7 DEF A

\* A frame that is added leaves the windows before it as they are.
LEMMA WindowsKept ==
  ASSUME NEW n \in Nat, NEW a \in Seq({0, 1}), Len(a) = n, NEW act \in {0, 1},
         NEW w \in 0..(n \div Window - 1)
  PROVE  /\ ActiveIn(Append(a, act), w) = ActiveIn(a, w)
         /\ SilentIn(Append(a, act), w) <=> SilentIn(a, w)
<1>1. LastFrame(w) \in Nat /\ w * Window \in Nat /\ LastFrame(w) < n
  BY WindowReceived
<1>2. \A f \in (w * Window)..LastFrame(w) : Append(a, act)[f + 1] = a[f + 1]
  BY <1>1
<1> QED
  BY <1>2 DEF ActiveIn, SilentIn
-----------------------------------------------------------------------------
\* Frame f lies in the segment numbered i of two lists.
In(sts, ends, f, i) == sts[i] <= f /\ (i <= Len(ends) => f <= ends[i])

\* Segment i of two lists runs on over frame f, by which it was long enough.
RunsOn(sts, ends, f, i) == f - sts[i] > MinClose /\ (i <= Len(ends) => f < ends[i])

\* The two properties of one window of an object, in these terms.
Covered(a, sts, ends, w) ==
  Cardinality(ActiveIn(a, w)) >= MinAct => \E i \in 1..Len(sts) : In(sts, ends, LastFrame(w), i)

Cut(a, sts, ends, w) ==
  SilentIn(a, w) => ~ \E i \in 1..Len(sts) : RunsOn(sts, ends, LastFrame(w), i)

\* Both of all windows: what the segments of a recording of n frames are.
Segmented(a, sts, ends, n) ==
  \A w \in 0..(n \div Window - 1) : Covered(a, sts, ends, w) /\ Cut(a, sts, ends, w)

LEMMA SegmentedMeaning ==
  Segmented(acts.acts_, acts.seg_sts_, acts.seg_ends_, Frames)
    <=> SpeechIsInSegments /\ ClosesAtFirstSilence
BY DEF Segmented, Covered, Cut, SpeechIsInSegments, ClosesAtFirstSilence, Windows, ActiveIn,
       SilentIn, In, RunsOn, InSegment, NClosed, NStarts

\* A start at a frame after a window, or an end of the open segment there, changes
\* nothing for the window.
LEMMA StartKeeps ==
  ASSUME NEW n \in Nat, NEW w \in 0..(n \div Window - 1), NEW a,
         NEW sts \in Seq(Nat), NEW ends \in Seq(Nat), Len(sts) = Len(ends),
         Covered(a, sts, ends, w), Cut(a, sts, ends, w)
  PROVE  Covered(a, Append(sts, n), ends, w) /\ Cut(a, Append(sts, n), ends, w)
<1> DEFINE s == Append(sts, n)
           l == LastFrame(w)
<1>1. /\ Len(s) = Len(sts) + 1
      /\ s[Len(sts) + 1] = n
      /\ \A i \in 1..Len(sts) : s[i] = sts[i] /\ sts[i] \in Nat
      /\ Len(sts) \in Nat
      /\ \A i \in 1..Len(s) : s[i] \in Nat
  OBVIOUS
<1>2. l \in Nat /\ l < n
  BY WindowReceived
<1> HIDE DEF s, l
<1>3. \A i \in 1..Len(sts) : In(s, ends, l, i) <=> In(sts, ends, l, i)
  BY <1>1 DEF In
<1>4. ASSUME NEW i \in 1..Len(s), RunsOn(s, ends, l, i)
      PROVE  i \in 1..Len(sts) /\ RunsOn(sts, ends, l, i)
  <2>1. i # Len(sts) + 1
    <3>1. s[i] < l
      BY <1>1, <1>2, <1>4, SegmentAssumption DEF RunsOn
    <3> QED
      BY <1>1, <1>2, <3>1
  <2>2. i \in 1..Len(sts)
    BY <1>1, <2>1
  <2> QED
    BY <1>1, <1>4, <2>2 DEF RunsOn
<1>5. 1..Len(sts) \subseteq 1..Len(s)
  BY <1>1
<1>6. Covered(a, s, ends, w)
  BY <1>3, <1>5 DEF Covered, l
<1>7. Cut(a, s, ends, w)
  BY <1>4 DEF Cut, l
<1> QED
  BY <1>6, <1>7 DEF s

LEMMA CloseKeeps ==
  ASSUME NEW n \in Nat, NEW w \in 0..(n \div Window - 1), NEW a, NEW f \in Nat, f >= n - 1,
         NEW sts \in Seq(Nat), NEW ends \in Seq(Nat), Len(sts) = Len(ends) + 1,
         Covered(a, sts, ends, w), Cut(a, sts, ends, w)
  PROVE  Covered(a, sts, Append(ends, f), w) /\ Cut(a, sts, Append(ends, f), w)
<1> DEFINE e == Append(ends, f)
           l == LastFrame(w)
<1>1. /\ Len(e) = Len(ends) + 1
      /\ e[Len(ends) + 1] = f
      /\ \A i \in 1..Len(ends) : e[i] = ends[i] /\ ends[i] \in Nat
      /\ Len(ends) \in Nat
  OBVIOUS
<1>2. l \in Nat /\ l < n
  BY WindowReceived
<1> HIDE DEF e, l
<1>3. ASSUME NEW i \in 1..Len(sts)
      PROVE  /\ In(sts, ends, l, i) => In(sts, e, l, i)
             /\ RunsOn(sts, e, l, i) => RunsOn(sts, ends, l, i)
  <2>1. CASE i = Len(ends) + 1
    BY <1>1, <1>2, <2>1 DEF In, RunsOn
  <2>2. CASE i \in 1..Len(ends)
    BY <1>1, <2>2 DEF In, RunsOn
  <2> QED
    BY <1>1, <2>1, <2>2
<1>4. Covered(a, sts, e, w)
  BY <1>3 DEF Covered, l
<1>5. Cut(a, sts, e, w)
  BY <1>3 DEF Cut, l
<1> QED
  BY <1>4, <1>5 DEF e
-----------------------------------------------------------------------------
\* What add_act decides at the end of a window: it starts a segment after an active
\* window if none is open, and closes the open one after a silent window if it is
\* long enough.
LEMMA AddActDecides ==
  ASSUME NEW a \in ActsObject, NEW act \in {0, 1}
  PROVE  LET b      == add_act(a, act)
             f      == Len(a.acts_)
             status == check_window(Append(a.acts_, act), f \div Window)
             starts == status = Active /\ Len(a.seg_sts_) = Len(a.seg_ends_)
             ends   == status = Silent /\ IsOpen(a) /\ f - Last(a.seg_sts_) > MinClose
         IN  IF (f + 1) % Window # 0
             THEN b.seg_sts_ = a.seg_sts_ /\ b.seg_ends_ = a.seg_ends_
             ELSE /\ b.seg_sts_ = IF starts THEN Append(a.seg_sts_, f) ELSE a.seg_sts_
                  /\ b.seg_ends_ = IF ends THEN Append(a.seg_ends_, f) ELSE a.seg_ends_
<1>1. Len(Append(a.acts_, act)) = Len(a.acts_) + 1
  BY DEF ActsObject
<1> QED
  BY <1>1 DEF add_act, StartsSegment, EndsSegment, ActsObject

\* The elements of a sequence of numbers are numbers.
LEMMA NumbersInside ==
  ASSUME NEW s \in Seq(Nat)
  PROVE  Len(s) \in Nat /\ \A i \in 1..Len(s) : s[i] \in Nat
OBVIOUS

\* After add_act, both properties hold of the window that it completes.
LEMMA NewWindow ==
  ASSUME NEW n \in Nat, NEW a \in Seq({0, 1}), Len(a) = n + 1, (n + 1) % Window = 0,
         NEW sts \in Seq(Nat), NEW ends \in Seq(Nat), Ordered(sts, ends, n, FALSE),
         NEW sts2, NEW ends2,
         LET status == check_window(a, n \div Window)
             starts == status = Active /\ Len(sts) = Len(ends)
             closes == status = Silent /\ Len(sts) = Len(ends) + 1 /\ n - sts[Len(sts)] > MinClose
         IN  /\ sts2 = IF starts THEN Append(sts, n) ELSE sts
             /\ ends2 = IF closes THEN Append(ends, n) ELSE ends
  PROVE  Covered(a, sts2, ends2, n \div Window) /\ Cut(a, sts2, ends2, n \div Window)
<1> USE SegmentAssumption
<1> DEFINE w == n \div Window
           status == check_window(a, w)
<1>1. w \in 0..((n + 1) \div Window - 1) /\ LastFrame(w) = n /\ w \in Nat
  <2>1. w \in Nat
    BY Division
  <2>2. (n + 1) \div Window = w + 1 /\ LastFrame(w) = n
    BY WindowCompleted
  <2> HIDE DEF w
  <2> QED
    BY <2>1, <2>2
<1>2. /\ status = Active <=> Cardinality(ActiveIn(a, w)) >= MinAct
      /\ status = Silent <=> SilentIn(a, w)
  <2>1. n + 1 \in Nat
    OBVIOUS
  <2> QED
    BY <1>1, <2>1, CheckWindowMeaning
<1>3. /\ Len(sts) \in Nat /\ Len(ends) \in Nat
      /\ Len(sts) \in {Len(ends), Len(ends) + 1}
      /\ \A i \in 1..Len(sts) : sts[i] \in Nat /\ sts[i] < n
      /\ \A i \in 1..Len(ends) : ends[i] \in Nat /\ ends[i] < n
  <2>1. /\ Len(sts) \in Nat /\ \A i \in 1..Len(sts) : sts[i] \in Nat
        /\ Len(ends) \in Nat /\ \A i \in 1..Len(ends) : ends[i] \in Nat
    BY NumbersInside
  <2> QED
    BY <2>1 DEF Ordered
<1>4. CASE status = Active
  <2>1. ends2 = ends /\ sts2 = IF Len(sts) = Len(ends) THEN Append(sts, n) ELSE sts
    BY <1>4
  <2>2. \E i \in 1..Len(sts2) : In(sts2, ends, n, i)
    <3>1. CASE Len(sts) = Len(ends)
      <4>1. /\ sts2 = Append(sts, n) /\ Len(sts2) = Len(ends) + 1
            /\ sts2[Len(ends) + 1] = n /\ Len(ends) + 1 \in 1..Len(sts2)
        BY <1>3, <2>1, <3>1
      <4>2. In(sts2, ends, n, Len(ends) + 1)
        BY <1>3, <4>1 DEF In
      <4> QED
        BY <4>1, <4>2
    <3>2. CASE Len(sts) = Len(ends) + 1
      <4>1. /\ sts2 = sts /\ Len(ends) + 1 \in 1..Len(sts)
            /\ sts[Len(ends) + 1] < n /\ sts[Len(ends) + 1] \in Nat
        BY <1>3, <2>1, <3>2
      <4>2. In(sts, ends, n, Len(ends) + 1)
        BY <1>3, <4>1 DEF In
      <4> QED
        BY <4>1, <4>2
    <3> QED
      BY <1>3, <3>1, <3>2
  <2>3. ~ SilentIn(a, w)
    BY <1>2, <1>4
  <2> QED
    BY <1>1, <2>1, <2>2, <2>3 DEF Covered, Cut
<1>5. CASE status # Active
  <2>1. sts2 = sts
    BY <1>5
  <2>2. ~ (Cardinality(ActiveIn(a, w)) >= MinAct)
    BY <1>2, <1>5
  <2>3. ASSUME SilentIn(a, w), NEW i \in 1..Len(sts), RunsOn(sts, ends2, n, i)
        PROVE  FALSE
    <3>1. status = Silent /\ n - sts[i] > MinClose
      BY <1>2, <2>3 DEF RunsOn
    <3>2. CASE i \in 1..Len(ends)
      <4>1. ends2 = ends \/ ends2 = Append(ends, n)
        OBVIOUS
      <4>2. /\ Len(Append(ends, n)) = Len(ends) + 1
            /\ Append(ends, n)[i] = ends[i]
        BY <1>3, <3>2
      <4>3. i <= Len(ends2) /\ ends2[i] = ends[i]
        BY <1>3, <3>2, <4>1, <4>2
      <4>4. n < ends2[i]
        BY <2>3, <4>3 DEF RunsOn
      <4>5. ends[i] \in Nat /\ ends[i] < n
        BY <1>3, <3>2
      <4>6. n < ends[i]
        BY <4>3, <4>4
      <4>7. \A x \in Nat : x < n => ~ (n < x)
        OBVIOUS
      <4> QED
        BY <4>5, <4>6, <4>7, Zenon
    <3>3. CASE Len(sts) = Len(ends) + 1 /\ i = Len(sts)
      <4>1. ends2 = Append(ends, n)
        BY <3>1, <3>3
      <4>2. i <= Len(ends2) /\ ends2[i] = n
        BY <1>3, <3>3, <4>1
      <4>3. n < ends2[i]
        BY <2>3, <4>2 DEF RunsOn
      <4> QED
        BY <4>2, <4>3
    <3> QED
      BY <1>3, <3>2, <3>3
  <2> QED
    BY <1>1, <2>1, <2>2, <2>3 DEF Covered, Cut
<1> QED
  BY <1>4, <1>5

\* Every recording is segmented as the two properties say.
LEMMA AlwaysSegmented == Spec => [](SpeechIsInSegments /\ ClosesAtFirstSilence)
<1> USE SegmentAssumption
<1> DEFINE a    == acts.acts_
           sts  == acts.seg_sts_
           ends == acts.seg_ends_
           n    == Len(acts.acts_)
           SInv == Segmented(a, sts, ends, n)
<1>1. Init => SInv
  <2>1. 0 \div Window = 0
    BY Division, DivisionUnique
  <2> QED
    BY <2>1, ResetEmpty DEF Init, Segmented
<1>2. ASSUME IInv, SInv, [Next]_vars
      PROVE  SInv'
  <2>1. /\ acts \in ActsObject
        /\ n \in Nat
        /\ a \in Seq({0, 1})
        /\ sts \in Seq(Nat)
        /\ ends \in Seq(Nat)
        /\ Ordered(sts, ends, n, ended)
        /\ IsOpen(acts) => n > 0
    BY <1>2, InvFacts DEF IInv, TypeOK, WellFormed, Frames, ActsObject
  <2>2. ASSUME NEW act \in {0, 1}, AddAct(act)
        PROVE  SInv'
    <3>1. acts' = add_act(acts, act) /\ ended = FALSE
      BY <2>1, <2>2 DEF AddAct, IInv, TypeOK
    <3>2. a' = Append(a, act) /\ n' = n + 1 /\ a' \in Seq({0, 1})
      <4>1. a' = Append(a, act)
        BY <2>1, <3>1, AddActCases
      <4> QED
        BY <2>1, <4>1
    <3>3. ASSUME NEW w \in 0..(n \div Window - 1)
          PROVE  Covered(a', sts', ends', w) /\ Cut(a', sts', ends', w)
      <4>1. Covered(a, sts, ends, w) /\ Cut(a, sts, ends, w)
        BY <1>2, <3>3 DEF Segmented
      <4>2. Covered(a', sts, ends, w) /\ Cut(a', sts, ends, w)
        BY <2>1, <3>2, <4>1, WindowsKept DEF Covered, Cut
      <4>3. CASE Len(sts) = Len(ends) /\ sts' = Append(sts, n) /\ ends' = ends
        BY <2>1, <4>2, <4>3, StartKeeps
      <4>4. CASE Len(sts) = Len(ends) + 1 /\ sts' = sts /\ ends' = Append(ends, n)
        <5>1. n >= n - 1
          BY <2>1
        <5> QED
          BY <2>1, <4>2, <4>4, <5>1, CloseKeeps
      <4> QED
        BY <2>1, <3>1, <4>2, <4>3, <4>4, AddActCases DEF IsOpen
    <3>4. CASE (n + 1) % Window # 0
      BY <2>1, <3>2, <3>3, <3>4, WindowCompleted DEF Segmented
    <3>5. CASE (n + 1) % Window = 0
      <4>1. Ordered(sts, ends, n, FALSE)
        BY <2>1, <3>1, Zenon
      <4>2. Covered(a', sts', ends', n \div Window) /\ Cut(a', sts', ends', n \div Window)
        <5> DEFINE status == check_window(a', n \div Window)
                   starts == status = Active /\ Len(sts) = Len(ends)
                   closes == /\ status = Silent
                             /\ Len(sts) = Len(ends) + 1
                             /\ n - sts[Len(sts)] > MinClose
        <5>1. /\ sts' = IF starts THEN Append(sts, n) ELSE sts
              /\ ends' = IF closes THEN Append(ends, n) ELSE ends
          BY <2>1, <3>1, <3>2, <3>5, AddActDecides DEF IsOpen, Last
        <5>2. a' \in Seq({0, 1}) /\ Len(a') = n + 1
          BY <3>2
        <5> QED
          BY <2>1, <3>5, <4>1, <5>1, <5>2, NewWindow
      <4>3. (n + 1) \div Window = n \div Window + 1 /\ n \div Window \in Nat
        BY <2>1, <3>5, WindowCompleted, Division
      <4>4. \A w \in 0..((n + 1) \div Window - 1) :
              Covered(a', sts', ends', w) /\ Cut(a', sts', ends', w)
        <5> DEFINE q == n \div Window
                   G(w) == Covered(a', sts', ends', w) /\ Cut(a', sts', ends', w)
        <5>1. (\A w \in 0..(q - 1) : G(w)) /\ G(q) /\ q \in Nat /\ (n + 1) \div Window = q + 1
          BY <3>3, <4>2, <4>3
        <5> HIDE DEF q, G
        <5>2. \A w \in 0..((q + 1) - 1) : G(w)
          BY <5>1
        <5> QED
          BY <5>1, <5>2 DEF G
      <4> QED
        BY <3>2, <4>4 DEF Segmented
    <3> QED
      BY <3>4, <3>5
  <2>3. ASSUME End
        PROVE  SInv'
    <3>1. acts' = end(acts)
      BY <2>3 DEF End
    <3>2. a' = a /\ n' = n /\ sts' = sts
      BY <2>1, <3>1, EndCases
    <3>3. CASE ends' = ends
      BY <1>2, <3>2, <3>3
    <3>4. CASE IsOpen(acts) /\ ends' = Append(ends, n - 1)
      <4>1. Len(sts) = Len(ends) + 1 /\ n - 1 \in Nat /\ n - 1 >= n - 1
        BY <2>1, <3>4 DEF IsOpen
      <4> QED
        BY <1>2, <2>1, <3>2, <3>4, <4>1, CloseKeeps DEF Segmented
    <3> QED
      BY <2>1, <3>1, <3>3, <3>4, EndCases
  <2>4. ASSUME Reset
        PROVE  SInv'
    <3>1. 0 \div Window = 0
      BY Division, DivisionUnique
    <3> QED
      BY <2>4, <3>1, ResetEmpty DEF Reset, Segmented
  <2>5. CASE UNCHANGED vars
    BY <1>2, <2>5 DEF vars
  <2> QED
    BY <1>2, <2>2, <2>3, <2>4, <2>5 DEF Next
<1>3. SInv <=> SpeechIsInSegments /\ ClosesAtFirstSilence
  BY SegmentedMeaning DEF Frames
<1> QED
  BY <1>1, <1>2, <1>3, Inductive, PTL DEF Spec

\* No speech is lost between segments: the last frame of every window with enough
\* active frames is in a segment.
THEOREM SpeechIsKept == Spec => []SpeechIsInSegments
BY AlwaysSegmented, PTL

\* A segment that is long enough ends with the first window that is silent.
THEOREM SilenceIsCutOff == Spec => []ClosesAtFirstSilence
BY AlwaysSegmented, PTL
=============================================================================
