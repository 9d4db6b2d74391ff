----------------------------- MODULE ImageTypes -----------------------------
(***************************************************************************)
(* Vocabulary shared by the models of HolonightImages: the outcomes of a   *)
(* public call (include/holonight_images/image.h) and the arithmetic of    *)
(* its comparisons.                                                        *)
(***************************************************************************)
EXTENDS Integers

\* enum class Outcome
Outcomes == {"Success", "Unsupported", "Damaged", "ResourceLimit", "IoFailure", "Cancelled"}

\* The value of an outcome variable before its call returned.
NoOutcome == "None"

\* What readMetadata answers, by the flag at its return.
MetadataOutcomes(cancelled) ==
    IF cancelled THEN {"Cancelled", "ResourceLimit", "IoFailure"}
    ELSE {"Success", "Damaged", "ResourceLimit", "IoFailure"}

\* std::min<qint64> and qMin
Lesser(a, b) == IF a <= b THEN a ELSE b

=============================================================================
