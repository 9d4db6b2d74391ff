---------------------------- MODULE RasterCalls ----------------------------
(***************************************************************************)
(* inspect and decode (src/image.cpp) called on the same file, in either   *)
(* order, each at most once.  One step is one access to something shared - *)
(* the caller's flag, the device, a decoder that reads the device - and the*)
(* local code up to the next access.                                       *)
(*                                                                         *)
(* A file is what the installed codecs and libwebp make of it; a device    *)
(* fault can strike in any step that reads.  Whether Device recorded it    *)
(* (deviceFailed) and whether it happened (faulty) are kept apart.         *)
(***************************************************************************)
EXTENDS Geometry

CONSTANTS
    Files,      \* what the decoders make of a file, see FileType
    LimitSets,  \* the limits of the caller that concern sizes
    Bounds      \* DecodeOptions::bound

\* QImageReader::ImageReaderError without a fault of the device.
ReaderErrors == {"UnknownError", "UnsupportedFormatError", "InvalidDataError"}

FileType ==
    [qt   : [readable : BOOLEAN,     \* QImageReader::canRead
             error    : ReaderErrors,   \* error() if it cannot
             format   : STRING,         \* format(), as the plugin calls it
             size     : [w : Int, h : Int],  \* size() of the header
             turned   : BOOLEAN,     \* transformation() rotates by 90 degrees
             pixels   : [w : Int, h : Int],  \* size of the frame, Empty if it cannot be decoded
             depth    : {1, 4, 8}],  \* bytes per pixel of the frame
     webp : [simple   : BOOLEAN,     \* the eligible RIFF form, with a header WebPGetInfo accepts
             size     : [w : Int, h : Int],
             whole    : BOOLEAN]]    \* WebPDecodeRGBAInto succeeds

\* canonicalFormat, of a name in lower case.
Canonical(format) ==
    CASE format \in {"jpg", "jpe"} -> "jpeg"
      [] format = "tif" -> "tiff"
      [] OTHER -> format

\* The kinds of file the model distinguishes have consistent facts: a simple
\* WebP file that the codec also understands has one size, and no orientation.
ASSUME FilesAssumption ==
    /\ Files \subseteq FileType
    /\ \A file \in Files : file.qt.readable /\ file.webp.simple =>
           /\ Canonical(file.qt.format) = "webp"
           /\ file.qt.size = file.webp.size
           /\ ~file.qt.turned
ASSUME LimitsAssumption == LimitSets \subseteq [extent : Int, pixels : Int, decoded : Int]
ASSUME BoundsAssumption == Bounds \subseteq [w : Int, h : Int]

VARIABLES
    file, limits, bound, policy,  \* the arguments both calls share
    admitted,     \* the limits are positive and size() is within inputBytes
    op,           \* the call that runs: "inspect", "decode" or "none"
    pc,           \* its next access
    cancelled,    \* the caller's flag of this call
    deviceFailed, \* Device::failed_
    verdict,      \* the outcome member of the result being built
    info,         \* header facts of the result being built
    image,        \* result.image, Null if none
    metadata,     \* outcome of the nested readMetadata
    faulty,       \* history: the device or the codec reported an I/O fault
    late,         \* history: expensive steps begun after the flag was set
    answers       \* history: the answer of each call

vars == <<file, limits, bound, policy, admitted, op, pc, cancelled, deviceFailed, verdict,
          info, image, metadata, faulty, late, answers>>
arguments == <<file, limits, bound, policy, admitted>>

Null == [w |-> 0, h |-> 0, depth |-> 0]
Frame(size, depth) == [w |-> size.w, h |-> size.h, depth |-> depth]
FrameSize(frame) == Size(frame.w, frame.h)

NoFacts == [format |-> "", size |-> Empty, oriented |-> Empty, turned |-> FALSE,
            outcome |-> "Success"]
NoAnswer == [outcome |-> NoOutcome, info |-> NoFacts, image |-> Null, metadata |-> NoOutcome,
             clean |-> FALSE]

Init ==
    /\ file \in Files
    /\ limits \in LimitSets
    /\ bound \in Bounds
    /\ policy \in {"Apply", "Ignore"}
    /\ admitted \in BOOLEAN
    /\ op = "none"
    /\ pc = "idle"
    /\ cancelled = FALSE
    /\ deviceFailed = FALSE
    /\ verdict = "Success"
    /\ info = NoFacts
    /\ image = Null
    /\ metadata = NoOutcome
    /\ faulty = FALSE
    /\ late = 0
    /\ answers = [call \in {"inspect", "decode"} |-> NoAnswer]

\* The caller starts one of the calls, with a flag of its choice.
Begin(call) ==
    /\ pc = "idle"
    /\ answers[call] = NoAnswer
    /\ op' = call
    /\ pc' = "entry"
    /\ cancelled' \in BOOLEAN
    /\ deviceFailed' = FALSE
    /\ verdict' = "Success"
    /\ info' = NoFacts
    /\ image' = Null
    /\ metadata' = NoOutcome
    /\ faulty' = FALSE
    /\ late' = 0
    /\ UNCHANGED <<arguments, answers>>

\* The caller's other thread.
RequestCancel ==
    /\ pc # "idle"
    /\ ~cancelled
    /\ cancelled' = TRUE
    /\ UNCHANGED <<arguments, op, pc, deviceFailed, verdict, info, image, metadata,
                   faulty, late, answers>>

-----------------------------------------------------------------------------
(* Parts of a step                                                         *)

At(call, point) == op = call /\ pc = point
Goto(point) == pc' = point /\ UNCHANGED <<op, answers>>

\* An expensive step begun now is late if the flag is already set.
Expensive == late' = IF cancelled THEN late + 1 ELSE late

\* The device may fail in this step; then Device records it.
DeviceWorks == UNCHANGED <<deviceFailed, faulty>>
DeviceFails == deviceFailed' = TRUE /\ faulty' = TRUE

\* return result, after a fault of this very step or without one.
Return(outcome, frame, fault) ==
    /\ faulty' = (faulty \/ fault)
    /\ pc' = "idle"
    /\ op' = "none"
    /\ verdict' = outcome
    /\ image' = frame
    /\ answers' = [answers EXCEPT ![op] =
           [outcome |-> outcome, info |-> info, image |-> frame, metadata |-> metadata,
            clean |-> ~faulty' /\ ~cancelled]]

Undecided == {"Unsupported", "Damaged"}
Fail(outcome, fault) == Return(outcome, Null, fault) /\ UNCHANGED <<info, metadata>>

\* Fault: the device's failure is not looked at.
SettledWithoutDevice == IF cancelled THEN "Cancelled" ELSE verdict

\* if (device.failed()) ...; if (cancelled.load()) ...
Settled == CASE cancelled -> "Cancelled"
             [] ~cancelled /\ deviceFailed -> "IoFailure"
             [] OTHER -> verdict

-----------------------------------------------------------------------------
(* Both calls                                                              *)

\* prepare: the poll ...
PollEntry ==
    /\ pc = "entry"
    /\ IF cancelled THEN Fail("Cancelled", FALSE)
       ELSE Goto("prepare") /\ UNCHANGED <<verdict, info, image, metadata, faulty>>
    /\ UNCHANGED <<arguments, cancelled, deviceFailed, late>>

\* ... then isOpen, isReadable, isSequential and seek(0), then the limits.
Prepare ==
    /\ pc = "prepare"
    /\ \/ Fail("IoFailure", TRUE)
       \/ ~admitted /\ Fail("ResourceLimit", FALSE)
       \/ /\ admitted
          /\ Goto("header")
          /\ UNCHANGED <<verdict, info, image, metadata, faulty>>
    /\ UNCHANGED <<arguments, cancelled, deviceFailed, late>>

\* Fault: errors other than an unknown format are not translated.
ReaderErrorPassed(error) == IF error = "UnsupportedFormatError" THEN "Unsupported" ELSE error

\* readerError
ReaderError(error) ==
    CASE error = "UnsupportedFormatError" -> "Unsupported"
      [] error \in {"FileNotFoundError", "DeviceError"} -> "IoFailure"
      [] OTHER -> "Damaged"

Unreadable(error) == [NoFacts EXCEPT !.format = Canonical(file.qt.format), !.outcome = ReaderError(error)]

Orient(size, turned) == IF policy = "Apply" /\ turned THEN Transposed(size) ELSE size

\* header: what a codec that reads the file without a fault reports.
HeaderFacts ==
    LET qt == file.qt
    IN  IF ~qt.readable THEN Unreadable(qt.error)
        ELSE [format   |-> Canonical(qt.format),
              size     |-> qt.size,
              oriented |-> Orient(qt.size, qt.turned),
              turned   |-> qt.turned,
              outcome  |-> CASE IsEmpty(qt.size) -> "Damaged"
                             [] ~IsEmpty(qt.size) /\ ~AcceptableSize(qt.size, limits) -> "ResourceLimit"
                             [] OTHER -> "Success"]

\* A fault may go unnoticed by the codec, or look like any kind of bad image.
Header ==
    /\ pc = "header"
    /\ Expensive
    /\ \/ DeviceWorks /\ info' = HeaderFacts
       \/ /\ DeviceFails
          /\ info' \in {HeaderFacts} \cup {Unreadable(error) : error \in ReaderErrors \cup {"DeviceError"}}
    /\ verdict' = info'.outcome
    /\ Goto(IF op = "inspect" THEN "gate" ELSE "poll")
    /\ UNCHANGED <<arguments, cancelled, image, metadata>>

-----------------------------------------------------------------------------
(* inspect                                                                 *)

\* The poll in front of the header-only fallback.
Gate ==
    /\ At("inspect", "gate")
    /\ Goto(IF ~cancelled /\ verdict \in Undecided THEN "webp" ELSE "settle")
    /\ UNCHANGED <<arguments, cancelled, deviceFailed, verdict, info, image, metadata,
                   faulty, late>>

WebPFacts == [info EXCEPT !.format = "webp", !.size = file.webp.size, !.oriented = file.webp.size,
                  !.outcome = IF AcceptableSize(file.webp.size, limits) THEN "Success" ELSE "ResourceLimit"]

\* seek(0) and peek(32); a fault may cut the bytes short, or come with the
\* seek back that ends the peek.
InspectSimpleWebP ==
    /\ At("inspect", "webp")
    /\ Expensive
    /\ \/ DeviceWorks /\ info' = IF file.webp.simple THEN WebPFacts ELSE info
       \/ DeviceFails /\ info' \in {info} \cup IF file.webp.simple THEN {WebPFacts} ELSE {}
    /\ verdict' = info'.outcome
    /\ Goto("settle")
    /\ UNCHANGED <<arguments, cancelled, image, metadata>>

\* The device's fault, the poll, and the caller's wish for metadata.
SettleInspection ==
    /\ At("inspect", "settle")
    /\ verdict' = Settled
    /\ \/ verdict' = "Success" /\ Goto("metadata")
       \/ Goto("final")
    /\ UNCHANGED <<arguments, cancelled, deviceFailed, info, image, metadata, faulty, late>>

\* readMetadata, a call of its own with the same flag and a Device of its own:
\* its answers are those of module ReadMetadata.
NestedMetadata ==
    /\ At("inspect", "metadata")
    /\ Expensive
    /\ metadata' \in MetadataOutcomes(cancelled)
    /\ Goto("final")
    /\ UNCHANGED <<arguments, cancelled, deviceFailed, verdict, info, image, faulty>>

FinalInspection ==
    /\ At("inspect", "final")
    /\ Return(IF cancelled THEN "Cancelled" ELSE verdict, Null, FALSE)
    /\ UNCHANGED <<arguments, cancelled, deviceFailed, info, metadata, late>>

Inspect == Gate \/ InspectSimpleWebP \/ SettleInspection \/ NestedMetadata \/ FinalInspection

-----------------------------------------------------------------------------
(* decode                                                                  *)

\* Fault: no poll between the header and the frame.
HeaderVerdictUnpolled == verdict

HeaderVerdict == IF cancelled THEN "Cancelled" ELSE verdict

\* The poll after the header; the target size is computed behind it.
PollHeader ==
    /\ At("decode", "poll")
    /\ verdict' = HeaderVerdict
    /\ Goto(IF verdict' = "Success" THEN "read" ELSE "guard")
    /\ UNCHANGED <<arguments, cancelled, deviceFailed, info, image, metadata, faulty, late>>

\* What the codec makes of the frame: scaled as asked before it is rotated,
\* unless the frame is not of the size the header promised.
CodecFrame ==
    LET qt == file.qt
        turns == policy = "Apply" /\ qt.turned
        stored == IF IsEmpty(bound) \/ qt.pixels # qt.size THEN qt.pixels
                  ELSE StoredTarget(info.oriented, bound, policy = "Apply" /\ info.turned)
    IN  IF IsEmpty(qt.pixels) THEN Null
        ELSE Frame(IF turns THEN Transposed(stored) ELSE stored, qt.depth)

ReadFrame ==
    /\ At("decode", "read")
    /\ Expensive
    /\ \/ DeviceWorks /\ image' = CodecFrame
       \/ DeviceFails /\ image' \in {Null, CodecFrame}
    /\ \/ image' # Null /\ UNCHANGED verdict
       \/ image' = Null /\ verdict' \in {ReaderError(error) : error \in ReaderErrors}
       \/ image' = Null /\ faulty' /\ verdict' = ReaderError("DeviceError")
    /\ Goto("guard")
    /\ UNCHANGED <<arguments, cancelled, info, metadata>>

\* !device.failed() && !cancelled.load() && (Unsupported || Damaged)
Guard ==
    /\ At("decode", "guard")
    /\ Goto(IF ~deviceFailed /\ ~cancelled /\ verdict \in Undecided THEN "fallback" ELSE "settle")
    /\ UNCHANGED <<arguments, cancelled, deviceFailed, verdict, info, image, metadata,
                   faulty, late>>

\* Fault: the fallback is tried again as long as it brings nothing.
AfterFallbackRetry == "guard"

AfterFallback == "settle"

\* simpleWebPFallback returns frame, with its out parameter limited; decode
\* adopts what it found.
FallbackReturns(frame, limited) ==
    /\ image' = frame
    /\ verdict' = CASE frame # Null -> "Success"
                    [] frame = Null /\ limited -> "ResourceLimit"
                    [] OTHER -> verdict
    /\ info' = IF frame = Null THEN info
               ELSE [info EXCEPT !.format = "webp", !.size = FrameSize(frame),
                                 !.oriented = FrameSize(frame), !.outcome = "Success"]
    /\ Goto(AfterFallback)

FallbackGoes(point) == Goto(point) /\ UNCHANGED <<image, verdict, info>>

\* The fallback's entry poll.
FallbackEntry ==
    /\ At("decode", "fallback")
    /\ IF cancelled THEN FallbackReturns(Null, FALSE) ELSE FallbackGoes("fetch")
    /\ UNCHANGED <<arguments, cancelled, deviceFailed, metadata, faulty, late>>

\* seek(0), peek(20) and the read of the file.  A file that is not eligible is
\* turned away by its tags here, or by its sizes in the next step.
Fetch ==
    /\ At("decode", "fetch")
    /\ Expensive
    /\ \/ DeviceWorks /\ FallbackGoes("examine")
       \/ DeviceWorks /\ ~file.webp.simple /\ FallbackReturns(Null, FALSE)
       \/ DeviceFails /\ (FallbackGoes("examine") \/ FallbackReturns(Null, FALSE))
    /\ UNCHANGED <<arguments, cancelled, metadata>>

\* Fault: a size beyond the limits is not told from damage.
BeyondLimitsUntold == FALSE

\* resourceLimit, the out parameter of the fallback.
BeyondLimits == ~AcceptableSize(file.webp.size, limits)

\* The poll behind the read, the RIFF sizes, the header and the size limits.
Examine ==
    /\ At("decode", "examine")
    /\ IF cancelled \/ ~file.webp.simple THEN FallbackReturns(Null, FALSE)
       ELSE IF AcceptableSize(file.webp.size, limits) THEN FallbackGoes("allocate")
       ELSE FallbackReturns(Null, BeyondLimits)
    /\ UNCHANGED <<arguments, cancelled, deviceFailed, metadata, faulty, late>>

\* The poll before the frame is allocated.
PollAllocate ==
    /\ At("decode", "allocate")
    /\ IF cancelled THEN FallbackReturns(Null, FALSE) ELSE FallbackGoes("pixels")
    /\ UNCHANGED <<arguments, cancelled, deviceFailed, metadata, faulty, late>>

\* The allocation, which may fail, and WebPDecodeRGBAInto.
DecodePixels ==
    /\ At("decode", "pixels")
    /\ Expensive
    /\ \/ FallbackReturns(Null, FALSE)
       \/ file.webp.whole /\ FallbackGoes("keep")
    /\ UNCHANGED <<arguments, cancelled, deviceFailed, metadata, faulty>>

\* The fallback's last poll.
Keep ==
    /\ At("decode", "keep")
    /\ FallbackReturns(IF cancelled THEN Null ELSE Frame(file.webp.size, 4), FALSE)
    /\ UNCHANGED <<arguments, cancelled, deviceFailed, metadata, faulty, late>>

\* Fault: the header's limits are trusted for the frame.
FrameAcceptableByHeader(frame) == AcceptableSize(info.size, limits)

FrameAcceptable(frame) ==
    /\ frame.w * frame.h * frame.depth <= limits.decoded
    /\ AcceptableSize(FrameSize(frame), limits)

\* The device's fault, the poll, and the limits on the frame there is.
SettleDecode ==
    /\ At("decode", "settle")
    /\ verdict' = IF Settled = "Success" /\ ~FrameAcceptable(image) THEN "ResourceLimit" ELSE Settled
    /\ Goto(IF verdict' = "Success" /\ NeedsScaling(FrameSize(image), bound) THEN "scale" ELSE "final")
    /\ UNCHANGED <<arguments, cancelled, deviceFailed, info, image, metadata, faulty, late>>

\* image.scaled with SmoothTransformation widens small pixels to four bytes; it
\* returns a null image when the memory cannot be had.
Scale ==
    /\ At("decode", "scale")
    /\ Expensive
    /\ image' \in {Frame(ScaledImage(FrameSize(image), bound), Greater(image.depth, 4)), Null}
    /\ Goto("final")
    /\ UNCHANGED <<arguments, cancelled, deviceFailed, verdict, info, metadata, faulty>>

FinalDecode ==
    /\ At("decode", "final")
    /\ LET outcome == IF cancelled THEN "Cancelled" ELSE verdict
       IN  Return(outcome, IF outcome = "Success" THEN image ELSE Null, FALSE)
    /\ UNCHANGED <<arguments, cancelled, deviceFailed, info, metadata, late>>

Fallback == FallbackEntry \/ Fetch \/ Examine \/ PollAllocate \/ DecodePixels \/ Keep

Decode == PollHeader \/ ReadFrame \/ Guard \/ Fallback \/ SettleDecode \/ Scale \/ FinalDecode

Step == PollEntry \/ Prepare \/ Header \/ Inspect \/ Decode

Terminating ==
    /\ pc = "idle"
    /\ \A call \in DOMAIN answers : answers[call] # NoAnswer
    /\ UNCHANGED vars

Next == (\E call \in {"inspect", "decode"} : Begin(call)) \/ RequestCancel \/ Step \/ Terminating

\* The thread in the call runs, and the codecs return.
Spec == Init /\ [][Next]_vars /\ WF_vars(Step)

-----------------------------------------------------------------------------
(* Properties                                                              *)

Points == {"idle", "entry", "prepare", "header", "gate", "webp", "settle", "metadata", "final",
           "poll", "read", "guard", "fallback", "fetch", "examine", "allocate", "pixels", "keep",
           "scale"}

\* Every variable has its type.
TypeOK ==
    /\ op \in {"none", "inspect", "decode"}
    /\ pc \in Points /\ (pc = "idle" <=> op = "none")
    /\ {cancelled, deviceFailed, faulty} \subseteq BOOLEAN
    /\ verdict \in Outcomes
    /\ info.outcome \in Outcomes
    /\ metadata \in Outcomes \cup {NoOutcome}
    /\ late \in Nat
    /\ image \in [w : Nat, h : Nat, depth : {0, 1, 4, 8}]
    /\ \A call \in DOMAIN answers : answers[call].outcome \in Outcomes \cup {NoOutcome}

Inspected == answers["inspect"]
Decoded == answers["decode"]
Delivered == Decoded.outcome = "Success" /\ Decoded.image # Null

\* The image of a successful decode is within the limits and within the bound,
\* whichever decoder produced it and however often it was scaled: neither a
\* codec whose frame is not what its header promised, nor the widening of
\* pixels by the last scaling, gets past the limits.
SuccessWithinLimits ==
    Delivered =>
        /\ Decoded.image.w * Decoded.image.h * Decoded.image.depth <= limits.decoded
        /\ AcceptableSize(FrameSize(Decoded.image), limits)
        /\ IsEmpty(bound) \/ Within(FrameSize(Decoded.image), bound)

\* A frame of the size the header promised is delivered upright, at the size
\* that fits the bound, from either decoder.
PromisedSize ==
    Delivered /\ file.qt.pixels \in {file.qt.size, Empty} =>
        FrameSize(Decoded.image) =
            IF IsEmpty(bound) THEN Decoded.info.oriented ELSE FitTarget(Decoded.info.oriented, bound)

\* inspect foretells decode: without faults and cancellation, what inspect
\* turns away is turned away by decode with the same outcome, and what both
\* accept has the same header facts.
InspectForetellsDecode ==
    Inspected.clean /\ Decoded.clean =>
        /\ Inspected.outcome # "Success" => Decoded.outcome = Inspected.outcome
        /\ Decoded.outcome = "Success" =>
               [Decoded.info EXCEPT !.outcome = "Success"] = Inspected.info

\* Once the flag is set, at most one more expensive step is begun.
CancelLatency == late <= 1

\* Both calls keep the promise common to all calls; a cancellation seen by the
\* nested metadata call is never swallowed.
Contract == INSTANCE CallContract WITH
    phase <- IF pc = "idle" THEN "idle" ELSE "running",
    failed <- faulty,
    outcome <- IF pc = "idle" /\ \E call \in DOMAIN answers : answers[call] # NoAnswer
               THEN verdict ELSE NoOutcome,
    output <- pc = "idle" /\ image # Null

ImplementsContract == Contract!Spec

\* Every call that was begun returns.
Returns == pc # "idle" ~> pc = "idle"

-----------------------------------------------------------------------------
(* Statements of the repository that the code does not keep                *)

\* tests/image_test.cpp and fuzz/decode.cpp: the image of a decode is null
\* exactly when its outcome is not Success.
SuccessHasImage == Decoded.outcome = "Success" => Decoded.image # Null

\* README.md: "decode reports the same header facts" as inspect.
SameHeaderFacts ==
    Inspected.clean /\ Decoded.clean =>
        /\ Decoded.info.format = Inspected.info.format
        /\ Decoded.info.size = Inspected.info.size
        /\ Decoded.info.oriented = Inspected.info.oriented

=============================================================================
