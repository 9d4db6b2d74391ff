-------------------------- MODULE FitToBoundProofs --------------------------
(***************************************************************************)
(* decode fits an image into the caller's bound, for sizes and bounds of   *)
(* any extent.  The arithmetic is in module SharedLemmas; here it is       *)
(* carried along the path of a size: what the codec returns is the target  *)
(* already, and what the fallback returns becomes the target in the last   *)
(* resize.                                                                 *)
(***************************************************************************)
EXTENDS FitToBound, SharedLemmas

\* The size decode owes its caller.
Owed == IF IsEmpty(bound) THEN Oriented ELSE FitTarget(Oriented, bound)

\* Where the size stands at each point of decode.
OnTheWay ==
    /\ pc = "header" => resizes = 0
    /\ pc = "read" =>
           /\ resizes = 0
           /\ target = IF IsEmpty(bound) THEN Empty ELSE StoredTarget(Oriented, bound, rotated)
    /\ pc = "limit" => \/ image = Owed /\ resizes <= 1
                       \/ image = Oriented /\ resizes = 0
    /\ pc = "done" => image = Owed /\ resizes <= 1

IInv == TypeOK /\ OnTheWay

-----------------------------------------------------------------------------
(* Sizes                                                                   *)

\* The source and its orientation have area.
LEMMA SourceHasArea ==
    ASSUME TypeOK
    PROVE  HasArea(source) /\ HasArea(Oriented)
  BY ExtentsAssumption DEF TypeOK, Sizes, HasArea, Oriented, Transposed, Size

\* A bound has area, or there is none.
LEMMA BoundHasArea ==
    ASSUME TypeOK
    PROVE  /\ IsEmpty(bound) => bound = Empty
           /\ ~IsEmpty(bound) => HasArea(bound)
  <1>1. CASE bound = Empty
    BY <1>1 DEF Empty, IsEmpty, Size
  <1>2. CASE bound \in Sizes
    <2>1. HasArea(bound)
      BY <1>2, ExtentsAssumption DEF Sizes, HasArea
    <2> QED
      BY <2>1 DEF HasArea, IsEmpty
  <1> QED
    BY <1>1, <1>2 DEF TypeOK

\* Turning a size twice gives it back, and turning keeps its area.
LEMMA TurnedTwice ==
    ASSUME NEW size, HasArea(size)
    PROVE  /\ Transposed(Transposed(size)) = size
           /\ HasArea(Transposed(size))
  BY DEF HasArea, Transposed, Size

\* What decode owes has area, and fits.
LEMMA OwedFits ==
    ASSUME TypeOK
    PROVE  /\ HasArea(Owed)
           /\ Within(Owed, Oriented)
           /\ IsEmpty(bound) \/ Within(Owed, bound)
  <1>1. CASE IsEmpty(bound)
    BY <1>1, SourceHasArea DEF Owed, Within, HasArea
  <1>2. CASE ~IsEmpty(bound)
    BY <1>2, SourceHasArea, BoundHasArea, TargetFits DEF Owed
  <1> QED
    BY <1>1, <1>2

-----------------------------------------------------------------------------
(* The invariant                                                           *)

\* decode starts in the invariant.
LEMMA InitIInv == Init => IInv
  BY DEF Init, IInv, TypeOK, OnTheWay

\* Every step of decode keeps the invariant.
LEMMA NextIInv == IInv /\ [Next]_vars => IInv'
  <1> SUFFICES ASSUME IInv, [Next]_vars PROVE IInv'
    OBVIOUS
  <1> USE DEF IInv
  <1>1. CASE Target
    <2>1. target' \in Solid \cup {Empty}
      <3>1. CASE IsEmpty(bound)
        BY <1>1, <3>1 DEF Target
      <3>2. CASE ~IsEmpty(bound)
        <4>1. HasArea(FitTarget(Oriented, bound))
          BY <3>2, SourceHasArea, BoundHasArea, TargetFits
        <4>2. HasArea(StoredTarget(Oriented, bound, rotated))
          BY <4>1, TurnedTwice DEF StoredTarget
        <4> QED
          BY <1>1, <3>2, <4>2 DEF Target, HasArea, Solid
      <3> QED
        BY <3>1, <3>2
    <2>2. TypeOK'
      BY <1>1, <2>1 DEF Target, TypeOK
    <2>3. OnTheWay'
      BY <1>1 DEF Target, OnTheWay, Oriented
    <2> QED
      BY <2>2, <2>3
  <1>2. CASE CodecRead
    <2> DEFINE stored == IF IsEmpty(target) THEN source ELSE target
    <2>1. /\ image' = IF rotated THEN Transposed(stored) ELSE stored
          /\ resizes' \in {0, 1}
      BY <1>2 DEF CodecRead, OnTheWay
    <2>2. image' = Owed /\ HasArea(image')
      <3>1. CASE IsEmpty(bound)
        <4>1. stored = source
          BY <1>2, <3>1 DEF CodecRead, OnTheWay, Empty, IsEmpty, Size
        <4> QED
          BY <2>1, <3>1, <4>1, SourceHasArea DEF Owed, Oriented
      <3>2. CASE ~IsEmpty(bound)
        <4> DEFINE t == FitTarget(Oriented, bound)
        <4>1. HasArea(t)
          BY <3>2, SourceHasArea, BoundHasArea, TargetFits
        <4>2. target = IF rotated THEN Transposed(t) ELSE t
          BY <1>2, <3>2 DEF CodecRead, OnTheWay, StoredTarget
        <4> HIDE DEF t
        <4>3. HasArea(target) /\ Transposed(Transposed(t)) = t
          BY <4>1, <4>2, TurnedTwice
        <4>4. stored = target
          BY <4>3 DEF HasArea, IsEmpty
        <4> QED
          BY <2>1, <3>2, <4>1, <4>2, <4>3, <4>4 DEF Owed, t
      <3> QED
        BY <3>1, <3>2
    <2>3. TypeOK'
      BY <1>2, <2>1, <2>2 DEF CodecRead, TypeOK, HasArea, Solid
    <2>4. OnTheWay'
      BY <1>2, <2>1, <2>2 DEF CodecRead, OnTheWay, Owed, Oriented
    <2> QED
      BY <2>3, <2>4
  <1>3. CASE FallbackRead
    <2>1. image' = Oriented /\ HasArea(image')
      BY <1>3, SourceHasArea DEF FallbackRead, Oriented
    <2>2. TypeOK'
      BY <1>3, <2>1 DEF FallbackRead, TypeOK, HasArea, Solid
    <2>3. OnTheWay'
      BY <1>3, <2>1 DEF FallbackRead, OnTheWay, Oriented
    <2> QED
      BY <2>2, <2>3
  <1>4. CASE LimitToBound
    <2>1. CASE ~NeedsScaling(image, bound)
      <3>1. image = Owed /\ resizes <= 1
        <4>1. CASE IsEmpty(bound)
          BY <1>4, <4>1 DEF LimitToBound, OnTheWay, Owed
        <4>2. CASE ~IsEmpty(bound) /\ image # Owed
          <5>1. image = Oriented /\ resizes = 0 /\ Within(Oriented, bound)
            BY <1>4, <2>1, <4>2 DEF LimitToBound, OnTheWay, NeedsScaling
          <5> QED
            BY <4>2, <5>1, SourceHasArea, BoundHasArea, SmallImageKept DEF Owed
        <4>3. CASE image = Owed
          BY <1>4, <4>3 DEF LimitToBound, OnTheWay
        <4> QED
          BY <4>1, <4>2, <4>3
      <3>2. image' = image /\ resizes' = resizes
        BY <1>4, <2>1 DEF LimitToBound
      <3>3. TypeOK'
        BY <1>4, <3>1, <3>2 DEF LimitToBound, TypeOK
      <3>4. OnTheWay'
        BY <1>4, <3>1, <3>2 DEF LimitToBound, OnTheWay, Owed, Oriented
      <3> QED
        BY <3>3, <3>4
    <2>2. CASE NeedsScaling(image, bound)
      <3>1. ~IsEmpty(bound) /\ ~Within(image, bound)
        BY <2>2 DEF NeedsScaling
      <3>2. image = Oriented /\ resizes = 0
        BY <1>4, <3>1, OwedFits DEF LimitToBound, OnTheWay
      <3>3. image' = ScaledImage(Oriented, bound) /\ resizes' = 1
        BY <1>4, <2>2, <3>2 DEF LimitToBound
      <3>4. image' = Owed
        BY <3>1, <3>2, <3>3, SourceHasArea, BoundHasArea, ScalingIsFitting DEF Owed
      <3>5. TypeOK'
        BY <1>4, <3>3, <3>4, OwedFits DEF LimitToBound, TypeOK, HasArea, Solid
      <3>6. OnTheWay'
        BY <1>4, <3>3, <3>4 DEF LimitToBound, OnTheWay, Owed, Oriented
      <3> QED
        BY <3>5, <3>6
    <2> QED
      BY <2>1, <2>2
  <1>5. CASE UNCHANGED vars
    BY <1>5 DEF vars, TypeOK, OnTheWay, Owed, Oriented
  <1> QED
    BY <1>1, <1>2, <1>3, <1>4, <1>5 DEF Next, Terminating

\* The invariant holds on every path through decode.
THEOREM Invariance == Spec => []IInv
  <1> QED
    BY InitIInv, NextIInv, PTL DEF Spec

-----------------------------------------------------------------------------
(* What it says of decode                                                  *)

\* No codec and no QImage is ever asked for an image without pixels.
THEOREM TypeCorrect == Spec => []TypeOK
  <1>1. IInv => TypeOK
    BY DEF IInv
  <1> QED
    BY Invariance, <1>1, PTL

\* The image of decode fits the bound and is never larger than the source,
\* for every source, bound, orientation and decoder.
THEOREM ImageFitsBound == Spec => []FitsAndNeverUpscales
  <1>1. IInv => FitsAndNeverUpscales
    <2> SUFFICES ASSUME IInv, pc = "done"
                 PROVE  /\ ~IsEmpty(image)
                        /\ Within(image, Oriented)
                        /\ IF IsEmpty(bound) THEN image = Oriented ELSE Within(image, bound)
      BY DEF FitsAndNeverUpscales
    <2>1. TypeOK /\ image = Owed
      BY DEF IInv, OnTheWay
    <2>2. ~IsEmpty(image)
      BY <2>1, OwedFits DEF HasArea, IsEmpty
    <2>3. IsEmpty(bound) => image = Oriented
      BY <2>1 DEF Owed
    <2> QED
      BY <2>1, <2>2, <2>3, OwedFits
  <1> QED
    BY Invariance, <1>1, PTL

\* The image is the largest that fits, and its sides keep the ratio of the
\* source up to the rounding of one pixel.
THEOREM AspectIsKept == Spec => []AspectKept
  <1>1. IInv => AspectKept
    <2> SUFFICES ASSUME IInv, pc = "done", ~IsEmpty(bound)
                 PROVE  AspectKept
      BY DEF AspectKept
    <2>1. image = FitTarget(Oriented, bound) /\ HasArea(Oriented) /\ HasArea(bound)
      BY SourceHasArea, BoundHasArea DEF IInv, OnTheWay, Owed
    <2> QED
      BY <2>1, TargetKeepsAspect DEF AspectKept
  <1> QED
    BY Invariance, <1>1, PTL

\* The codec that scales while it decodes and the fallback that cannot give
\* images of the same size, and neither resamples twice.
THEOREM DecodersGiveOneSize == Spec => []DecodersAgree
  <1>1. IInv => DecodersAgree
    BY DEF IInv, OnTheWay, Owed, DecodersAgree
  <1> QED
    BY Invariance, <1>1, PTL

=============================================================================
