----------------------------- MODULE FitToBound -----------------------------
(***************************************************************************)
(* The path of a size through decode (src/image.cpp): the target asked of  *)
(* the codec, the size of the image that comes back - from the codec, which*)
(* scales the stored image and then rotates it, or from the WebP fallback, *)
(* which does neither - and the last resize.                               *)
(***************************************************************************)
EXTENDS Geometry

CONSTANTS
    Extents  \* the widths and heights of sources and bounds

ASSUME ExtentsAssumption == Extents \subseteq Nat \ {0}

VARIABLES
    pc,      \* "header", "read", "limit", "done"
    source,  \* the size of the stored image, as the header reports it
    bound,   \* DecodeOptions::bound; Empty asks for full resolution
    rotated, \* the image is stored on its side and the policy is Apply
    target,  \* the size given to setScaledSize, Empty when none was
    image,   \* the size of the image
    resizes  \* history: how often the pixels were resampled

vars == <<pc, source, bound, rotated, target, image, resizes>>

Sizes == [w : Extents, h : Extents]
Oriented == IF rotated THEN Transposed(source) ELSE source

Init ==
    /\ pc = "header"
    /\ source \in Sizes
    /\ bound \in Sizes \cup {Empty}
    /\ rotated \in BOOLEAN
    /\ target = Empty
    /\ image = Empty
    /\ resizes = 0

Target ==
    /\ pc = "header"
    /\ pc' = "read"
    /\ target' = IF IsEmpty(bound) THEN Empty ELSE StoredTarget(Oriented, bound, rotated)
    /\ UNCHANGED <<source, bound, rotated, image, resizes>>

\* QImageReader::read: the stored image at the target size, then rotated.
CodecRead ==
    /\ pc = "read"
    /\ pc' = "limit"
    /\ LET stored == IF IsEmpty(target) THEN source ELSE target
       IN  /\ image' = IF rotated THEN Transposed(stored) ELSE stored
           /\ resizes' = IF stored = source THEN resizes ELSE resizes + 1
    /\ UNCHANGED <<source, bound, rotated, target>>

\* The codec fails; the fallback decodes a simple WebP, which has no
\* orientation, at full size.
FallbackRead ==
    /\ pc = "read"
    /\ ~rotated
    /\ pc' = "limit"
    /\ image' = source
    /\ UNCHANGED <<source, bound, rotated, target, resizes>>

LimitToBound ==
    /\ pc = "limit"
    /\ pc' = "done"
    /\ IF NeedsScaling(image, bound)
       THEN image' = ScaledImage(image, bound) /\ resizes' = resizes + 1
       ELSE UNCHANGED <<image, resizes>>
    /\ UNCHANGED <<source, bound, rotated, target>>

Terminating == pc = "done" /\ UNCHANGED vars

Next == Target \/ CodecRead \/ FallbackRead \/ LimitToBound \/ Terminating

Spec == Init /\ [][Next]_vars

-----------------------------------------------------------------------------
(* Properties                                                              *)

Solid == [w : Nat \ {0}, h : Nat \ {0}]

\* Every variable has its type; a size, once there is one, has area: neither
\* the codec nor QImage is ever asked for an image without pixels.
TypeOK ==
    /\ pc \in {"header", "read", "limit", "done"}
    /\ source \in Sizes
    /\ bound \in Sizes \cup {Empty}
    /\ rotated \in BOOLEAN
    /\ target \in Solid \cup {Empty}
    /\ image \in Solid \cup {Empty}
    /\ resizes \in Nat
    /\ pc \in {"limit", "done"} => image \in Solid

\* "Empty means full resolution.  Never upscale" (image.h): the image fits the
\* bound, never exceeds the source as it is shown, and has at least a pixel.
FitsAndNeverUpscales ==
    pc = "done" =>
        /\ ~IsEmpty(image)
        /\ Within(image, Oriented)
        /\ IF IsEmpty(bound) THEN image = Oriented ELSE Within(image, bound)

\* The image is the largest that fits, and its sides keep the ratio of the
\* source up to the rounding of one pixel.
AspectKept ==
    pc = "done" /\ ~IsEmpty(bound) =>
        LET box == BoundedTo(bound, Oriented)
        IN  \/ /\ image.h = box.h
               /\ image.w * Oriented.h <= box.h * Oriented.w \/ image.w = 1
               /\ box.h * Oriented.w < (image.w + 1) * Oriented.h
            \/ /\ image.w = box.w
               /\ image.h * Oriented.w <= box.w * Oriented.h \/ image.h = 1
               /\ box.w * Oriented.h < (image.h + 1) * Oriented.w

\* Whichever decoder produced the pixels, the same source and bound give the
\* same size, and no image is resampled twice.
DecodersAgree ==
    pc = "done" =>
        /\ image = IF IsEmpty(bound) THEN Oriented ELSE FitTarget(Oriented, bound)
        /\ resizes <= 1

=============================================================================
