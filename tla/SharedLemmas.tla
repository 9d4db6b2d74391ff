---------------------------- MODULE SharedLemmas ----------------------------
(***************************************************************************)
(* Facts the proof modules share: the arithmetic of 64-bit products and    *)
(* quotients, what module Geometry returns for sizes of any extent, and    *)
(* induction over the data of a call.  The proofs about the calls cite     *)
(* these facts and never multiply themselves.                              *)
(***************************************************************************)
EXTENDS Geometry, WellFoundedInduction, TLAPS

-----------------------------------------------------------------------------
(* Induction and recursive functions                                       *)

\* Induction over the natural numbers, told of a set instead of a predicate: the
\* provers cannot instantiate the library's theorems with an operator.
LEMMA Induction ==
    ASSUME NEW P, 0 \in P, \A n \in Nat : n \in P => n + 1 \in P
    PROVE  Nat \subseteq P
<1> DEFINE R == OpToRel(<, Nat)
           T == {n \in Nat : n \notin P}
<1>1. SUFFICES ASSUME T # {} PROVE FALSE
    OBVIOUS
<1>2. IsWellFoundedOn(R, Nat)
    BY NatLessThanWellFounded
<1>3. T \subseteq Nat
    OBVIOUS
<1> HIDE DEF T, R
<1>4. PICK x \in T : \A y \in T : ~ (<<y, x>> \in R)
    BY <1>1, <1>2, <1>3, WFMin
<1>5. \A y \in T : ~(y < x)
    BY <1>3, <1>4 DEF R, OpToRel
<1>6. x \in Nat /\ x \notin P /\ x # 0
    BY <1>4 DEF T
<1>7. x - 1 \in Nat /\ x - 1 \in P
    BY <1>5, <1>6 DEF T
<1> QED
    BY <1>6, <1>7


\* A run applies the steps 1..n to base, one after the other.
IsRecursion(step, n, V) == step \in [1..n -> [V -> V]]
IsRun(f, base, step, n, V) ==
    f \in [0..n -> V] /\ f[0] = base /\ \A i \in 1..n : f[i] = step[i][f[i - 1]]

\* Steps that stay within a set have a run, however many there are.
LEMMA Recursion ==
    ASSUME NEW V, NEW base \in V, NEW n \in Nat, NEW step, IsRecursion(step, n, V)
    PROVE  \E f : IsRun(f, base, step, n, V)
<1> USE DEF IsRecursion
<1> DEFINE P == {m \in Nat : m <= n => \E f : IsRun(f, base, step, m, V)}
<1>1. 0 \in P
  <2> DEFINE f == [i \in 0..0 |-> base]
  <2>1. IsRun(f, base, step, 0, V)
    BY DEF IsRun
  <2> QED
    BY <2>1
<1>2. ASSUME NEW m \in Nat, m \in P PROVE m + 1 \in P
  <2>1. SUFFICES ASSUME m + 1 <= n PROVE \E f : IsRun(f, base, step, m + 1, V)
    OBVIOUS
  <2>2. PICK f : IsRun(f, base, step, m, V)
    BY <1>2, <2>1
  <2> DEFINE g == [i \in 0..(m + 1) |-> IF i <= m THEN f[i] ELSE step[i][f[m]]]
  <2>3. m + 1 \in 1..n /\ f[m] \in V
    BY <2>1, <2>2 DEF IsRun
  <2>4. step[m + 1][f[m]] \in V
    BY <2>3
  <2>5. g \in [0..(m + 1) -> V]
    BY <2>2, <2>4 DEF IsRun
  <2>6. g[0] = base
    BY <2>2 DEF IsRun
  <2>7. ASSUME NEW i \in 1..(m + 1) PROVE g[i] = step[i][g[i - 1]]
    BY <2>2 DEF IsRun
  <2> HIDE DEF g
  <2> QED
    BY <2>5, <2>6, <2>7 DEF IsRun
<1> HIDE DEF P
<1>3. Nat \subseteq P
    BY <1>1, <1>2, Induction
<1> QED
    BY <1>3 DEF P

-----------------------------------------------------------------------------
(* Arithmetic and geometry                                                 *)

\* A size with area, as the code asks for with QSize::isEmpty.
HasArea(size) == size \in [w : Nat \ {0}, h : Nat \ {0}]

\* The product of two natural numbers is one.
LEMMA ProductNatural ==
    ASSUME NEW a \in Nat, NEW b \in Nat
    PROVE  a * b \in Nat
  OBVIOUS

\* Integer division rounds down.
LEMMA Division ==
    ASSUME NEW a \in Nat, NEW b \in Nat \ {0}
    PROVE  /\ a \div b \in Nat
           /\ (a \div b) * b <= a
           /\ a < (a \div b + 1) * b
  OBVIOUS

\* A product grows with its factors.
LEMMA ProductGrows ==
    ASSUME NEW a \in Nat, NEW b \in Nat, NEW c \in Nat, a <= b
    PROVE  a * c <= b * c
  OBVIOUS

\* Only a smaller factor makes a smaller product.
LEMMA FactorBelow ==
    ASSUME NEW a \in Nat, NEW b \in Nat, NEW c \in Nat, a * c < b * c
    PROVE  a < b
  <1>1. CASE b <= a
    BY <1>1, ProductGrows
  <1> QED
    BY <1>1

\* The quotient of a product by one of its factors is the other.
LEMMA QuotientOfProduct ==
    ASSUME NEW a \in Nat, NEW b \in Nat \ {0}
    PROVE  (a * b) \div b = a
  <1> DEFINE q == (a * b) \div b
  <1>1. q \in Nat /\ q * b <= a * b /\ a * b < (q + 1) * b
    BY Division, ProductNatural
  <1> HIDE DEF q
  <1>2. a < q + 1
    BY <1>1, FactorBelow
  <1>3. CASE a < q
    <2>1. (a + 1) * b <= q * b
      BY <1>1, <1>3, ProductGrows
    <2>2. (a + 1) * b = a * b + b
      OBVIOUS
    <2> QED
      BY <1>1, <2>1, <2>2, ProductNatural
  <1> QED
    BY <1>1, <1>2, <1>3 DEF q

\* QSize::scaled keeps one side of the box, and the other is the quotient that
\* keeps the aspect, which fits.
LEMMA ScaledFits ==
    ASSUME NEW size, HasArea(size), NEW box, HasArea(box)
    PROVE  LET scaled == Scaled(size, box)
           IN  /\ scaled \in [w : Nat, h : Nat]
               /\ Within(scaled, box)
               /\ \/ /\ scaled.h = box.h
                     /\ scaled.w * size.h <= box.h * size.w
                     /\ box.h * size.w < (scaled.w + 1) * size.h
                  \/ /\ scaled.w = box.w
                     /\ scaled.h * size.w <= box.w * size.h
                     /\ box.w * size.h < (scaled.h + 1) * size.w
  <1> DEFINE rw == (box.h * size.w) \div size.h
             rh == (box.w * size.h) \div size.w
  <1>1. /\ size.w \in Nat \ {0} /\ size.h \in Nat \ {0}
        /\ box.w \in Nat \ {0} /\ box.h \in Nat \ {0}
    BY DEF HasArea
  <1>2. rw \in Nat /\ rw * size.h <= box.h * size.w /\ box.h * size.w < (rw + 1) * size.h
    BY <1>1, Division, ProductNatural
  <1>3. rh \in Nat /\ rh * size.w <= box.w * size.h /\ box.w * size.h < (rh + 1) * size.w
    BY <1>1, Division, ProductNatural
  <1> HIDE DEF rw, rh
  <1>4. CASE rw <= box.w
    <2>1. Scaled(size, box) = [w |-> rw, h |-> box.h]
      BY <1>4 DEF Scaled, Size, rw
    <2> QED
      BY <1>1, <1>2, <1>4, <2>1 DEF Within
  <1>5. CASE box.w < rw
    <2>1. Scaled(size, box) = [w |-> box.w, h |-> rh]
      BY <1>1, <1>2, <1>5 DEF Scaled, Size, rw, rh
    <2>2. box.w * size.h <= rw * size.h
      BY <1>1, <1>2, <1>5, ProductGrows
    <2>3. rh * size.w <= box.h * size.w
      BY <1>1, <1>2, <1>3, <2>2, ProductNatural
    <2>4. rh <= box.h
      <3> SUFFICES ASSUME box.h < rh PROVE FALSE
        BY <1>1, <1>3
      <3>1. (box.h + 1) * size.w <= rh * size.w
        BY <1>1, <1>3, ProductGrows
      <3>2. (box.h + 1) * size.w = box.h * size.w + size.w
        BY <1>1
      <3> QED
        BY <1>1, <1>3, <2>3, <3>1, <3>2, ProductNatural
    <2> QED
      BY <1>1, <1>3, <2>1, <2>4 DEF Within
  <1> QED
    BY <1>1, <1>2, <1>4, <1>5

\* The bound, cut to the image, has area and lies within both.
LEMMA BoxHasArea ==
    ASSUME NEW size, HasArea(size), NEW bound, HasArea(bound)
    PROVE  /\ HasArea(BoundedTo(bound, size))
           /\ Within(BoundedTo(bound, size), size)
           /\ Within(BoundedTo(bound, size), bound)
  BY DEF HasArea, BoundedTo, Lesser, Size, Within

\* A vanishing side is rounded up to one pixel, and nothing else changes.
LEMMA PixelFloor ==
    ASSUME NEW scaled \in [w : Nat, h : Nat], NEW box, HasArea(box), Within(scaled, box)
    PROVE  /\ HasArea(ExpandedTo(scaled, Pixel))
           /\ Within(ExpandedTo(scaled, Pixel), box)
           /\ ExpandedTo(scaled, Pixel).w = IF scaled.w = 0 THEN 1 ELSE scaled.w
           /\ ExpandedTo(scaled, Pixel).h = IF scaled.h = 0 THEN 1 ELSE scaled.h
  BY DEF HasArea, ExpandedTo, Greater, Pixel, Size, Within

\* The target asked of the codec has area, is within the bound and the image.
LEMMA TargetFits ==
    ASSUME NEW size, HasArea(size), NEW bound, HasArea(bound)
    PROVE  /\ HasArea(FitTarget(size, bound))
           /\ Within(FitTarget(size, bound), size)
           /\ Within(FitTarget(size, bound), bound)
  <1> DEFINE box == BoundedTo(bound, size)
             scaled == Scaled(size, box)
  <1>1. HasArea(box) /\ Within(box, size) /\ Within(box, bound)
    BY BoxHasArea
  <1>2. scaled \in [w : Nat, h : Nat] /\ Within(scaled, box)
    BY <1>1, ScaledFits
  <1>3. HasArea(FitTarget(size, bound)) /\ Within(FitTarget(size, bound), box)
    <2> HIDE DEF scaled, box
    <2>1. FitTarget(size, bound) = ExpandedTo(scaled, Pixel)
      BY DEF FitTarget, scaled, box
    <2> QED
      BY <1>1, <1>2, <2>1, PixelFloor
  <1> HIDE DEF box
  <1> QED
    BY <1>1, <1>3 DEF Within, HasArea

\* The target keeps the aspect of the image up to the rounding of one pixel,
\* and one side of it is as long as the bound and the image allow.
LEMMA TargetKeepsAspect ==
    ASSUME NEW size, HasArea(size), NEW bound, HasArea(bound)
    PROVE  LET box == BoundedTo(bound, size)
               target == FitTarget(size, bound)
           IN  \/ /\ target.h = box.h
                  /\ target.w * size.h <= box.h * size.w \/ target.w = 1
                  /\ box.h * size.w < (target.w + 1) * size.h
               \/ /\ target.w = box.w
                  /\ target.h * size.w <= box.w * size.h \/ target.h = 1
                  /\ box.w * size.h < (target.h + 1) * size.w
  <1> DEFINE box == BoundedTo(bound, size)
             scaled == Scaled(size, box)
             target == FitTarget(size, bound)
  <1>1. HasArea(box)
    BY BoxHasArea
  <1>2. /\ scaled \in [w : Nat, h : Nat]
        /\ Within(scaled, box)
        /\ \/ /\ scaled.h = box.h
              /\ scaled.w * size.h <= box.h * size.w
              /\ box.h * size.w < (scaled.w + 1) * size.h
           \/ /\ scaled.w = box.w
              /\ scaled.h * size.w <= box.w * size.h
              /\ box.w * size.h < (scaled.h + 1) * size.w
    BY <1>1, ScaledFits
  <1> HIDE DEF scaled, box
  <1>3. /\ target.w = IF scaled.w = 0 THEN 1 ELSE scaled.w
        /\ target.h = IF scaled.h = 0 THEN 1 ELSE scaled.h
    <2>1. target = ExpandedTo(scaled, Pixel)
      BY DEF FitTarget, scaled, box
    <2> QED
      BY <1>1, <1>2, <2>1, PixelFloor
  <1> HIDE DEF target
  <1>4. /\ size.w \in Nat \ {0} /\ size.h \in Nat \ {0}
        /\ box.w \in Nat \ {0} /\ box.h \in Nat \ {0}
    BY <1>1 DEF HasArea
  <1>5. CASE scaled.h = box.h /\ scaled.w * size.h <= box.h * size.w
             /\ box.h * size.w < (scaled.w + 1) * size.h
    <2>1. (scaled.w + 1) * size.h <= (target.w + 1) * size.h
      BY <1>2, <1>3, <1>4, ProductGrows
    <2>2. box.h * size.w \in Nat /\ (scaled.w + 1) * size.h \in Nat /\ (target.w + 1) * size.h \in Nat
      <3>1. box.h \in Nat /\ scaled.w + 1 \in Nat /\ target.w + 1 \in Nat
        BY <1>2, <1>3, <1>4
      <3> QED
        BY <1>4, <3>1, ProductNatural
    <2>3. target.h = box.h
      BY <1>3, <1>4, <1>5
    <2>4. target.w * size.h <= box.h * size.w \/ target.w = 1
      BY <1>3, <1>5
    <2>5. box.h * size.w < (target.w + 1) * size.h
      BY <1>5, <2>1, <2>2
    <2> QED
      BY <2>3, <2>4, <2>5 DEF box, target
  <1>6. CASE scaled.w = box.w /\ scaled.h * size.w <= box.w * size.h
             /\ box.w * size.h < (scaled.h + 1) * size.w
    <2>1. (scaled.h + 1) * size.w <= (target.h + 1) * size.w
      BY <1>2, <1>3, <1>4, ProductGrows
    <2>2. box.w * size.h \in Nat /\ (scaled.h + 1) * size.w \in Nat /\ (target.h + 1) * size.w \in Nat
      <3>1. box.w \in Nat /\ scaled.h + 1 \in Nat /\ target.h + 1 \in Nat
        BY <1>2, <1>3, <1>4
      <3> QED
        BY <1>4, <3>1, ProductNatural
    <2>3. target.w = box.w
      BY <1>3, <1>4, <1>6
    <2>4. target.h * size.w <= box.w * size.h \/ target.h = 1
      BY <1>3, <1>6
    <2>5. box.w * size.h < (target.h + 1) * size.w
      BY <1>6, <2>1, <2>2
    <2> QED
      BY <2>3, <2>4, <2>5 DEF box, target
  <1> QED
    BY <1>2, <1>5, <1>6

\* An image within the bound is asked for at its own size.
LEMMA SmallImageKept ==
    ASSUME NEW size, HasArea(size), NEW bound, HasArea(bound), Within(size, bound)
    PROVE  FitTarget(size, bound) = size
  <1>1. size.w \in Nat \ {0} /\ size.h \in Nat \ {0} /\ size = [w |-> size.w, h |-> size.h]
    BY DEF HasArea
  <1>2. BoundedTo(bound, size) = size
    <2>1. bound.w \in Nat /\ bound.h \in Nat
      BY DEF HasArea
    <2> QED
      BY <1>1, <2>1 DEF BoundedTo, Lesser, Size, Within
  <1>3. (size.h * size.w) \div size.h = size.w
    <2>1. size.h * size.w = size.w * size.h
      BY <1>1
    <2> QED
      BY <1>1, <2>1, QuotientOfProduct
  <1>4. Scaled(size, size) = size
    BY <1>1, <1>3 DEF Scaled, Size
  <1> QED
    BY <1>1, <1>2, <1>4 DEF FitTarget, ExpandedTo, Greater, Pixel, Size

\* Scaling an image that exceeds the bound down to the bound is the same as
\* asking the codec for the target: cutting the bound to the image first makes
\* no difference.
LEMMA ScalingIsFitting ==
    ASSUME NEW size, HasArea(size), NEW bound, HasArea(bound), ~Within(size, bound)
    PROVE  ScaledImage(size, bound) = FitTarget(size, bound)
  <1> DEFINE box == BoundedTo(bound, size)
  <1>1. /\ size.w \in Nat \ {0} /\ size.h \in Nat \ {0}
        /\ bound.w \in Nat \ {0} /\ bound.h \in Nat \ {0}
    BY DEF HasArea
  <1>2. box.w = Lesser(bound.w, size.w) /\ box.h = Lesser(bound.h, size.h)
    BY DEF BoundedTo, Size
  <1>3. bound = [w |-> bound.w, h |-> bound.h] /\ box = [w |-> box.w, h |-> box.h]
    BY DEF HasArea, BoundedTo, Size
  <1> HIDE DEF box
  <1>4. CASE bound.w < size.w /\ bound.h < size.h
    <2>1. box = bound
      BY <1>1, <1>2, <1>3, <1>4 DEF Lesser
    <2> QED
      BY <2>1 DEF FitTarget, ScaledImage, box
  <1>5. CASE size.w <= bound.w
    <2>1. bound.h < size.h
      BY <1>1, <1>5 DEF Within
    <2>2. box.h = bound.h /\ box.w = size.w
      BY <1>1, <1>2, <1>5, <2>1 DEF Lesser
    <2> DEFINE rw == (bound.h * size.w) \div size.h
    <2>3. rw \in Nat /\ rw * size.h <= bound.h * size.w
      BY <1>1, Division, ProductNatural
    <2> HIDE DEF rw
    <2>4. rw <= size.w
      <3> SUFFICES ASSUME size.w < rw PROVE FALSE
        BY <1>1, <2>3
      <3>1. (size.w + 1) * size.h <= rw * size.h
        BY <1>1, <2>3, ProductGrows
      <3>2. bound.h * size.w <= size.h * size.w
        BY <1>1, <2>1, ProductGrows
      <3>3. (size.w + 1) * size.h = size.h * size.w + size.h
        BY <1>1
      <3> QED
        BY <1>1, <2>3, <3>1, <3>2, <3>3, ProductNatural
    <2>5. Scaled(size, bound) = Size(rw, bound.h)
      BY <1>1, <1>5, <2>3, <2>4 DEF Scaled, rw
    <2>6. Scaled(size, box) = Size(rw, bound.h)
      BY <2>2, <2>4 DEF Scaled, rw
    <2> QED
      BY <2>5, <2>6 DEF FitTarget, ScaledImage, box
  <1>6. CASE bound.w < size.w /\ size.h <= bound.h
    <2>1. box.h = size.h /\ box.w = bound.w
      BY <1>1, <1>2, <1>6 DEF Lesser
    <2> DEFINE rw == (bound.h * size.w) \div size.h
    <2>2. rw \in Nat /\ bound.h * size.w < (rw + 1) * size.h
      BY <1>1, Division, ProductNatural
    <2> HIDE DEF rw
    <2>3. size.w <= rw
      <3> SUFFICES ASSUME rw < size.w PROVE FALSE
        BY <1>1, <2>2
      <3>1. (rw + 1) * size.h <= size.w * size.h
        BY <1>1, <2>2, ProductGrows
      <3>2. size.h * size.w <= bound.h * size.w
        BY <1>1, <1>6, ProductGrows
      <3>3. size.w * size.h = size.h * size.w
        BY <1>1
      <3> QED
        BY <1>1, <2>2, <3>1, <3>2, <3>3, ProductNatural
    <2>4. (size.h * size.w) \div size.h = size.w
      <3>1. size.h * size.w = size.w * size.h
        BY <1>1
      <3> QED
        BY <1>1, <3>1, QuotientOfProduct
    <2>5. Scaled(size, bound) = Size(bound.w, (bound.w * size.h) \div size.w)
      BY <1>1, <1>6, <2>2, <2>3 DEF Scaled, rw
    <2>6. Scaled(size, box) = Size(bound.w, (bound.w * size.h) \div size.w)
      BY <1>1, <1>6, <2>1, <2>4 DEF Scaled
    <2> QED
      BY <2>5, <2>6 DEF FitTarget, ScaledImage, box
  <1> QED
    BY <1>1, <1>4, <1>5, <1>6
=============================================================================
