------------------------------ MODULE Geometry ------------------------------
(***************************************************************************)
(* Sizes, the limits on them and the arithmetic decode uses to fit an image*)
(* into the caller's bound (src/image.cpp).  Products are taken in 64 bits *)
(* by the code and by Qt, so they cannot wrap for 32-bit extents.          *)
(***************************************************************************)
EXTENDS ImageTypes

Greater(a, b) == IF a >= b THEN a ELSE b

Size(w, h) == [w |-> w, h |-> h]

\* QSize(): any size without area is empty.
Empty == Size(0, 0)
IsEmpty(size) == size.w <= 0 \/ size.h <= 0

\* acceptableSize: the extent, the pixels, and 4 bytes for each of them.
AcceptableSize(size, limits) ==
    /\ ~IsEmpty(size)
    /\ size.w <= limits.extent /\ size.h <= limits.extent
    /\ size.w * size.h <= limits.pixels
    /\ size.w * size.h <= limits.decoded \div 4

-----------------------------------------------------------------------------
(* QSize and QImage arithmetic                                             *)

BoundedTo(a, b) == Size(Lesser(a.w, b.w), Lesser(a.h, b.h))
ExpandedTo(a, b) == Size(Greater(a.w, b.w), Greater(a.h, b.h))
Transposed(size) == Size(size.h, size.w)
Pixel == Size(1, 1)

\* QSize::scaled with Qt::KeepAspectRatio: the whole height of the box, if the
\* width that goes with it (rounded down) fits, or else the whole width.
Scaled(size, box) ==
    LET rw == (box.h * size.w) \div size.h
    IN  IF rw <= box.w THEN Size(rw, box.h)
                       ELSE Size(box.w, (box.w * size.h) \div size.w)

\* QImage::scaled rounds a vanishing side up to one pixel.
ScaledImage(size, box) == ExpandedTo(Scaled(size, box), Pixel)

Within(size, box) == size.w <= box.w /\ size.h <= box.h

-----------------------------------------------------------------------------
(* decode                                                                  *)

\* Faults: no floor of one pixel; a bound that enlarges.
FitTargetUnexpanded(oriented, bound) == Scaled(oriented, BoundedTo(bound, oriented))
FitTargetUpscaling(oriented, bound) == ExpandedTo(Scaled(oriented, bound), Pixel)

\* The size asked of the codec, for the image as it will be shown.
FitTarget(oriented, bound) == ExpandedTo(Scaled(oriented, BoundedTo(bound, oriented)), Pixel)

\* Fault: a target that is not turned for an image stored on its side.
StoredTargetUnturned(oriented, bound, transpose) == FitTarget(oriented, bound)

\* setScaledSize is in the coordinates of the stored image.
StoredTarget(oriented, bound, transpose) ==
    LET target == FitTarget(oriented, bound)
    IN  IF transpose THEN Transposed(target) ELSE target

\* Fault: only an image that exceeds the bound both ways is resized.
NeedsScalingBoth(size, bound) == ~IsEmpty(bound) /\ size.w > bound.w /\ size.h > bound.h

\* The last resize: only an image that exceeds a bound is scaled down to it.
NeedsScaling(size, bound) == ~IsEmpty(bound) /\ ~Within(size, bound)

=============================================================================
