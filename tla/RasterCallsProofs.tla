------------------------- MODULE RasterCallsProofs -------------------------
(***************************************************************************)
(* inspect and decode for every file, limit and bound: types, cancellation *)
(* latency, the limits on what is delivered, the size that was promised,   *)
(* what inspect foretells of decode, and the refinement of CallContract.   *)
(***************************************************************************)
EXTENDS RasterCalls, SharedLemmas

Calls == {"inspect", "decode"}
Extent == [w : Int, h : Int]
Names == {"", "webp", "jpeg", "tiff"} \cup {f.qt.format : f \in Files}
Facts == [format : Names, size : Extent, oriented : Extent, turned : BOOLEAN, outcome : Outcomes]

InspectOnly == {"gate", "webp", "metadata"}
Fallbacks == {"fallback", "fetch", "examine", "allocate", "pixels", "keep"}
DecodeOnly == {"poll", "read", "guard", "scale"} \cup Fallbacks

Frames == [w : Nat, h : Nat, depth : {0, 1, 4, 8}]

\* The arguments are arguments, the facts are facts, and a call is only where
\* its own code can be.
Shape ==
    /\ file \in Files /\ limits \in LimitSets /\ bound \in Bounds
    /\ policy \in {"Apply", "Ignore"}
    /\ admitted \in BOOLEAN
    /\ info \in Facts
    /\ answers = [call \in Calls |-> answers[call]]
    /\ pc \in InspectOnly => op = "inspect"
    /\ pc \in DecodeOnly => op = "decode"
    /\ op = "inspect" \/ pc \in {"entry", "prepare", "header", "poll", "read"} => image = Null

\* What is known of the file where decode goes on to use it.
Known ==
    /\ pc \in {"gate", "poll", "read", "guard"} => info = HeaderFacts \/ info.outcome # "Success"
    /\ pc \in {"gate", "webp", "poll"} => verdict = info.outcome
    /\ pc = "read" => verdict = "Success" /\ info.outcome = "Success"
    /\ pc \in {"allocate", "pixels", "keep"} =>
           file.webp.simple /\ AcceptableSize(file.webp.size, limits)
    /\ pc = "scale" =>
           /\ image # Null
           /\ FrameAcceptable(image)
           /\ NeedsScaling(FrameSize(image), bound)

\* Every expensive step has a poll right before it that the flag cannot pass.
Latency ==
    /\ late \in {0, 1}
    /\ ~cancelled => late = 0
    /\ pc \in {"entry", "prepare", "header", "webp", "metadata", "read", "fetch", "pixels", "scale"}
           => late = 0

\* A fault is in the device's record until the verdict takes it up; the
\* verdict never invents a fault or a cancellation.
Verdicts ==
    pc # "idle" =>
        /\ faulty = deviceFailed
        /\ pc \in {"entry", "prepare", "header"} => ~faulty /\ verdict = "Success" /\ info = NoFacts
        /\ verdict = "Cancelled" => cancelled
        /\ verdict = "IoFailure" => faulty
        /\ pc \in {"metadata", "scale"} => verdict = "Success"
        /\ pc \in {"metadata", "scale", "final"} /\ faulty => verdict \in {"IoFailure", "Cancelled"}
        /\ pc = "fallback" => ~faulty
        /\ pc \in Fallbacks => verdict \in Undecided

\* The size decode owes for the facts it reports.
Owed == IF IsEmpty(bound) THEN info.oriented ELSE FitTarget(info.oriented, bound)
FrameKept == file.qt.pixels \in {file.qt.size, Empty}

\* An image on its way to a successful answer.
Delivery ==
    op = "decode" /\ verdict = "Success" =>
        /\ pc \in {"guard", "settle"} /\ FrameKept =>
               HasArea(info.oriented) /\ FrameSize(image) \in {info.oriented, Owed}
        /\ pc = "scale" /\ FrameKept => FrameSize(image) = info.oriented
        /\ pc = "final" /\ image # Null =>
               /\ FrameAcceptable(image)
               /\ IsEmpty(bound) \/ Within(FrameSize(image), bound)
               /\ FrameKept => FrameSize(image) = Owed

\* What inspect finds out about a file when nothing disturbs it.
Foretold ==
    IF HeaderFacts.outcome \in Undecided /\ file.webp.simple
    THEN [format |-> "webp", size |-> file.webp.size, oriented |-> file.webp.size,
          turned |-> HeaderFacts.turned,
          outcome |-> IF AcceptableSize(file.webp.size, limits) THEN "Success" ELSE "ResourceLimit"]
    ELSE HeaderFacts

\* An undisturbed call follows what the header and the fallback tell.
Course ==
    pc # "idle" /\ ~faulty /\ ~cancelled =>
        /\ pc \notin {"entry", "prepare"} => admitted
        /\ pc \in {"gate", "webp", "poll", "read", "guard"} \cup Fallbacks => info = HeaderFacts
        /\ pc = "webp" => verdict \in Undecided
        /\ op = "inspect" /\ pc \in {"settle", "metadata", "final"} =>
               info = Foretold /\ verdict = Foretold.outcome
        /\ pc \in {"guard"} \cup Fallbacks =>
               HeaderFacts.outcome = "Success" \/ verdict = HeaderFacts.outcome
        /\ pc \in {"settle", "scale", "final"} /\ op = "decode" =>
               /\ verdict = "Success" => info = Foretold
               /\ Foretold.outcome = "Success" \/ verdict = Foretold.outcome

\* So do the answers of undisturbed calls.
Told ==
    /\ Inspected.clean =>
        IF admitted THEN Inspected.outcome = Foretold.outcome /\ Inspected.info = Foretold
        ELSE Inspected.outcome = "ResourceLimit"
    /\ Decoded.clean =>
        IF admitted
        THEN /\ Decoded.outcome = "Success" => Decoded.info = Foretold
             /\ Foretold.outcome = "Success" \/ Decoded.outcome = Foretold.outcome
        ELSE Decoded.outcome = "ResourceLimit"

Answers == SuccessWithinLimits /\ PromisedSize

IInv == TypeOK /\ Shape /\ Known /\ Latency /\ Verdicts /\ Delivery /\ Answers /\ Course /\ Told

-----------------------------------------------------------------------------
(* Facts about the parts of a step                                         *)

\* What a return leaves: the answer of the call that ran, and no other change
\* to the answers.
LEMMA ReturnAnswers ==
    ASSUME Shape, op \in Calls, NEW o, NEW frame, NEW fault, Return(o, frame, fault)
    PROVE  /\ pc' = "idle" /\ op' = "none" /\ verdict' = o /\ image' = frame
           /\ answers'[op].outcome = o
           /\ answers'[op].info = info
           /\ answers'[op].image = frame
           /\ answers'[op].metadata = metadata
           /\ answers'[op].clean = (~faulty' /\ ~cancelled)
           /\ \A call \in Calls \ {op} : answers'[call] = answers[call]
           /\ answers' = [call \in Calls |-> answers'[call]]
  BY DEF Return, Shape, Calls

\* The parts of a file have their types.
LEMMA FileTyped ==
    ASSUME Shape
    PROVE  /\ file.qt.readable \in BOOLEAN /\ file.qt.error \in ReaderErrors
           /\ file.qt.size \in Extent /\ file.qt.turned \in BOOLEAN /\ file.qt.pixels \in Extent
           /\ file.qt.depth \in {1, 4, 8}
           /\ file.webp.simple \in BOOLEAN /\ file.webp.size \in Extent /\ file.webp.whole \in BOOLEAN
           /\ limits \in [extent : Int, pixels : Int, decoded : Int] /\ bound \in Extent
           /\ Canonical(file.qt.format) \in Names
  <1>1. file \in FileType
    BY FilesAssumption DEF Shape
  <1>2. file.qt \in [readable : BOOLEAN, error : ReaderErrors, format : STRING, size : [w : Int, h : Int],
                     turned : BOOLEAN, pixels : [w : Int, h : Int], depth : {1, 4, 8}]
    BY <1>1 DEF FileType
  <1>3. file.webp \in [simple : BOOLEAN, size : [w : Int, h : Int], whole : BOOLEAN]
    BY <1>1 DEF FileType
  <1>4. limits \in [extent : Int, pixels : Int, decoded : Int] /\ bound \in Extent
    BY LimitsAssumption, BoundsAssumption DEF Shape, Extent
  <1>5. Canonical(file.qt.format) \in {"jpeg", "tiff", file.qt.format}
    BY DEF Canonical
  <1>6. Canonical(file.qt.format) \in Names
    BY <1>5 DEF Names, Shape
  <1> QED
    BY <1>2, <1>3, <1>4, <1>6 DEF Extent

\* The facts of a file that no codec reads.
LEMMA UnreadableFacts ==
    ASSUME Shape, NEW error \in ReaderErrors \cup {"DeviceError"}
    PROVE  /\ Unreadable(error) \in Facts
           /\ Unreadable(error).outcome = ReaderError(error)
           /\ ReaderError(error) \in Undecided \cup {"IoFailure"}
           /\ ReaderError(error) = "IoFailure" => error = "DeviceError"
           /\ Unreadable(error).turned = FALSE
  <1>2. ReaderError(error) \in Undecided \cup {"IoFailure"}
    BY DEF ReaderError, ReaderErrors, Undecided
  <1>3. ReaderError(error) = "IoFailure" => error = "DeviceError"
    BY DEF ReaderError, ReaderErrors
  <1>4. NoFacts \in Facts
    BY DEF NoFacts, Facts, Names, Empty, Size, Extent, Outcomes
  <1>5. Canonical(file.qt.format) \in Names /\ ReaderError(error) \in Outcomes
    BY <1>2, FileTyped DEF Outcomes, Undecided
  <1>6. /\ Unreadable(error) \in Facts
        /\ Unreadable(error).outcome = ReaderError(error)
        /\ Unreadable(error).turned = NoFacts.turned
    BY <1>4, <1>5 DEF Unreadable, Facts
  <1> QED
    BY <1>2, <1>3, <1>6 DEF NoFacts

\* What the header says is a set of facts.
LEMMA HeaderFactsTyped ==
    ASSUME Shape
    PROVE  /\ HeaderFacts \in Facts
           /\ HeaderFacts.outcome \in {"Success", "ResourceLimit"} \cup Undecided
           /\ HeaderFacts.outcome = "Success" =>
                  /\ file.qt.readable
                  /\ AcceptableSize(file.qt.size, limits)
                  /\ HeaderFacts.size = file.qt.size
                  /\ HeaderFacts.oriented = Orient(file.qt.size, file.qt.turned)
                  /\ HeaderFacts.turned = file.qt.turned
                  /\ HeaderFacts.format = Canonical(file.qt.format)
  <1>1. CASE ~file.qt.readable
    <2>1. HeaderFacts = Unreadable(file.qt.error)
      BY <1>1 DEF HeaderFacts
    <2> QED
      BY <2>1, FileTyped, UnreadableFacts DEF ReaderErrors, Undecided, ReaderError
  <1>2. CASE file.qt.readable
    <2> DEFINE o == CASE IsEmpty(file.qt.size) -> "Damaged"
                      [] ~IsEmpty(file.qt.size) /\ ~AcceptableSize(file.qt.size, limits) -> "ResourceLimit"
                      [] OTHER -> "Success"
    <2>1. HeaderFacts = [format |-> Canonical(file.qt.format), size |-> file.qt.size,
                         oriented |-> Orient(file.qt.size, file.qt.turned),
                         turned |-> file.qt.turned, outcome |-> o]
      BY <1>2 DEF HeaderFacts
    <2>2. o \in {"Damaged", "ResourceLimit", "Success"}
      OBVIOUS
    <2>3. o = "Success" => AcceptableSize(file.qt.size, limits)
      OBVIOUS
    <2> HIDE DEF o
    <2>4. Orient(file.qt.size, file.qt.turned) \in Extent
      BY FileTyped DEF Orient, Transposed, Size, Extent
    <2> QED
      BY <1>2, <2>1, <2>2, <2>3, <2>4, FileTyped DEF Facts, Outcomes, Undecided
  <1> QED
    BY <1>1, <1>2, FileTyped

\* A size within the limits has area.
LEMMA AcceptableHasArea ==
    ASSUME NEW size \in Extent, NEW l, AcceptableSize(size, l)
    PROVE  HasArea(size)
  BY DEF AcceptableSize, IsEmpty, HasArea, Extent

\* A frame has the size it is made from.
LEMMA FrameOfSize ==
    ASSUME NEW size, HasArea(size), NEW depth \in {1, 4, 8}
    PROVE  /\ Frame(size, depth) \in Frames
           /\ Frame(size, depth) # Null
           /\ FrameSize(Frame(size, depth)) = size
  BY DEF HasArea, Frame, Frames, Null, FrameSize, Size

\* The bound has area, or there is none.
LEMMA BoundHasArea ==
    ASSUME Shape, ~IsEmpty(bound)
    PROVE  HasArea(bound)
  BY FileTyped DEF IsEmpty, HasArea, Extent

\* What the codec delivers for a header within the limits: a frame with area,
\* and of the size decode owes if it is what the header promised.
LEMMA CodecFrameSize ==
    ASSUME Shape, info = HeaderFacts, info.outcome = "Success", CodecFrame # Null
    PROVE  /\ CodecFrame \in Frames
           /\ HasArea(info.oriented)
           /\ FrameKept => FrameSize(CodecFrame) = Owed
  <1> DEFINE qt == file.qt
             turns == policy = "Apply" /\ qt.turned
             fit == FitTarget(info.oriented, bound)
             scales == ~IsEmpty(bound) /\ qt.pixels = qt.size
             stored == IF ~scales THEN qt.pixels ELSE IF turns THEN Transposed(fit) ELSE fit
  <1>1. /\ qt.size \in Extent /\ qt.pixels \in Extent /\ qt.depth \in {1, 4, 8}
        /\ AcceptableSize(qt.size, limits)
        /\ info.oriented = IF turns THEN Transposed(qt.size) ELSE qt.size
        /\ info.turned = qt.turned
    BY FileTyped, HeaderFactsTyped DEF Orient
  <1>2. ~IsEmpty(qt.pixels) /\ CodecFrame = Frame(IF turns THEN Transposed(stored) ELSE stored, qt.depth)
    BY <1>1 DEF CodecFrame, StoredTarget
  <1>3. HasArea(qt.pixels)
    BY <1>1, <1>2 DEF IsEmpty, HasArea, Extent
  <1>4. HasArea(qt.size)
    BY <1>1, AcceptableHasArea
  <1>5. HasArea(info.oriented)
    BY <1>1, <1>4 DEF HasArea, Transposed, Size
  <1> DEFINE shown == IF turns THEN Transposed(stored) ELSE stored
  <1>6. CASE scales
    <2>1. HasArea(fit)
      BY <1>5, <1>6, BoundHasArea, TargetFits
    <2> HIDE DEF fit
    <2>2. shown = fit
      BY <1>6, <2>1 DEF HasArea, Transposed, Size
    <2>3. CodecFrame \in Frames /\ FrameSize(CodecFrame) = fit
      BY <1>1, <1>2, <2>1, <2>2, FrameOfSize
    <2> QED
      BY <1>5, <1>6, <2>3 DEF Owed, fit
  <1>7. CASE ~scales
    <2>1. HasArea(shown)
      BY <1>3, <1>7 DEF HasArea, Transposed, Size
    <2>2. CodecFrame \in Frames /\ FrameSize(CodecFrame) = shown
      BY <1>1, <1>2, <2>1, FrameOfSize
    <2>3. FrameKept => qt.pixels = qt.size
      BY <1>2 DEF FrameKept, IsEmpty, Empty, Size
    <2>4. FrameKept => shown = info.oriented /\ IsEmpty(bound)
      BY <1>1, <1>7, <2>3
    <2> QED
      BY <1>5, <2>2, <2>4 DEF Owed
  <1> QED
    BY <1>6, <1>7

\* The last scaling keeps a frame within the limits, though it may widen its
\* pixels, and brings it to the size that fits the bound.
LEMMA ScaledFrame ==
    ASSUME Shape, NEW frame \in Frames, FrameAcceptable(frame), NeedsScaling(FrameSize(frame), bound)
    PROVE  LET scaled == Frame(ScaledImage(FrameSize(frame), bound), Greater(frame.depth, 4))
           IN  /\ scaled \in Frames
               /\ FrameAcceptable(scaled)
               /\ Within(FrameSize(scaled), bound)
               /\ FrameSize(scaled) = FitTarget(FrameSize(frame), bound)
  <1> DEFINE size == FrameSize(frame)
             fit == FitTarget(size, bound)
             depth == Greater(frame.depth, 4)
             scaled == Frame(fit, depth)
  <1>1. AcceptableSize(size, limits) /\ frame.w * frame.h * frame.depth <= limits.decoded
    BY DEF FrameAcceptable
  <1>2. size.w = frame.w /\ size.h = frame.h /\ size \in Extent
    BY DEF FrameSize, Size, Frames, Extent
  <1>3. HasArea(size) /\ HasArea(bound) /\ ~Within(size, bound)
    BY <1>1, <1>2, AcceptableHasArea, BoundHasArea DEF NeedsScaling
  <1>4. HasArea(fit) /\ Within(fit, size) /\ Within(fit, bound)
    BY <1>3, TargetFits
  <1>5. ScaledImage(size, bound) = fit
    BY <1>3, ScalingIsFitting
  <1>6. depth \in {4, 8} /\ (depth = 8 => frame.depth = 8)
    BY DEF Frames, Greater
  <1> HIDE DEF fit, depth
  <1>7. scaled \in Frames /\ FrameSize(scaled) = fit
    BY <1>4, <1>6, FrameOfSize
  <1> DEFINE area == fit.w * fit.h
             full == size.w * size.h
  <1>8. area \in Nat /\ full \in Nat /\ area <= full
    <2>1. /\ fit.w \in Nat /\ fit.h \in Nat /\ size.w \in Nat /\ size.h \in Nat
          /\ fit.w <= size.w /\ fit.h <= size.h
      BY <1>3, <1>4 DEF HasArea, Within
    <2>2. fit.w * fit.h <= size.w * fit.h
      BY <2>1, ProductGrows
    <2>3. fit.h * size.w <= size.h * size.w
      BY <2>1, ProductGrows
    <2>4. fit.h * size.w = size.w * fit.h /\ size.h * size.w = size.w * size.h
      BY <2>1
    <2> QED
      BY <2>1, <2>2, <2>3, <2>4, ProductNatural
  <1> HIDE DEF area, full
  <1>9. AcceptableSize(fit, limits)
    BY <1>1, <1>3, <1>4, <1>8, FileTyped DEF AcceptableSize, HasArea, Within, IsEmpty, area, full
  <1>10. area * depth <= limits.decoded
    <2>1. limits.decoded \in Int
      BY FileTyped
    <2>2. CASE depth = 4
      <3>1. full <= limits.decoded \div 4
        BY <1>1 DEF AcceptableSize, full
      <3> QED
        BY <1>8, <2>1, <2>2, <3>1
    <2>3. CASE depth = 8
      <3>1. full * 8 <= limits.decoded
        BY <1>1, <1>2, <1>6, <2>3 DEF full
      <3> QED
        BY <1>8, <2>1, <2>3, <3>1
    <2> QED
      BY <1>6, <2>2, <2>3
  <1>11. FrameAcceptable(scaled)
    <2>1. scaled.w = fit.w /\ scaled.h = fit.h /\ scaled.depth = depth
      BY DEF Frame
    <2> HIDE DEF scaled
    <2> QED
      BY <1>7, <1>9, <1>10, <2>1 DEF FrameAcceptable, area
  <1> QED
    BY <1>4, <1>5, <1>7, <1>11 DEF depth, fit

\* The facts that a WebP decoder adds to those of the header.
LEMMA WebPInfo ==
    ASSUME NEW i \in Facts, NEW size \in Extent, NEW o \in Outcomes
    PROVE  LET new == [i EXCEPT !.format = "webp", !.size = size, !.oriented = size, !.outcome = o]
           IN  /\ new \in Facts
               /\ new = [format |-> "webp", size |-> size, oriented |-> size, turned |-> i.turned,
                         outcome |-> o]
  <1> DEFINE new == [i EXCEPT !.format = "webp", !.size = size, !.oriented = size, !.outcome = o]
  <1>1. /\ new \in Facts
        /\ new.format = "webp" /\ new.size = size /\ new.oriented = size
        /\ new.turned = i.turned /\ new.outcome = o
    BY DEF Facts, Names
  <1> HIDE DEF new
  <1>2. new = [format |-> new.format, size |-> new.size, oriented |-> new.oriented,
               turned |-> new.turned, outcome |-> new.outcome]
    BY <1>1 DEF Facts
  <1> QED
    BY <1>1, <1>2 DEF new

\* What the two decoders of WebP report.
LEMMA WebPFactsTyped ==
    ASSUME Shape
    PROVE  /\ WebPFacts \in Facts
           /\ WebPFacts.outcome \in {"Success", "ResourceLimit"}
           /\ WebPFacts = [format |-> "webp", size |-> file.webp.size, oriented |-> file.webp.size,
                           turned |-> info.turned,
                           outcome |-> IF AcceptableSize(file.webp.size, limits) THEN "Success"
                                       ELSE "ResourceLimit"]
  <1> DEFINE o == IF AcceptableSize(file.webp.size, limits) THEN "Success" ELSE "ResourceLimit"
  <1>1. o \in Outcomes /\ o \in {"Success", "ResourceLimit"}
    BY DEF Outcomes
  <1>2. info \in Facts /\ file.webp.size \in Extent
    BY FileTyped DEF Shape
  <1>3. WebPFacts = [info EXCEPT !.format = "webp", !.size = file.webp.size, !.oriented = file.webp.size,
                                 !.outcome = o]
    BY DEF WebPFacts
  <1> HIDE DEF o
  <1>4. WebPFacts \in Facts /\ WebPFacts = [format |-> "webp", size |-> file.webp.size,
                          oriented |-> file.webp.size, turned |-> info.turned, outcome |-> o]
    BY <1>1, <1>2, <1>3, WebPInfo
  <1> QED
    BY <1>1, <1>4 DEF o

\* What decode adopts when its fallback returns.
LEMMA FallbackAdopted ==
    ASSUME TypeOK, Shape, pc \in Fallbacks, NEW frame, NEW limited \in BOOLEAN,
           frame = Null \/ (HasArea(file.webp.size) /\ frame = Frame(file.webp.size, 4)),
           FallbackReturns(frame, limited)
    PROVE  /\ image' = frame /\ image' \in Frames
           /\ info' \in Facts
           /\ pc' = "settle" /\ op' = op /\ answers' = answers
           /\ frame = Null => info' = info /\ verdict' = IF limited THEN "ResourceLimit" ELSE verdict
           /\ frame # Null =>
                  /\ verdict' = "Success"
                  /\ info' = [format |-> "webp", size |-> file.webp.size, oriented |-> file.webp.size,
                              turned |-> info.turned, outcome |-> "Success"]
                  /\ FrameSize(image') = file.webp.size
           /\ verdict' \in Outcomes
  <1>1. pc' = "settle" /\ op' = op /\ answers' = answers /\ image' = frame
    BY DEF FallbackReturns, Goto, AfterFallback
  <1>2. CASE frame = Null
    <2>1. info' = info /\ verdict' = IF limited THEN "ResourceLimit" ELSE verdict
      BY <1>2 DEF FallbackReturns
    <2>2. Null \in Frames
      BY DEF Null, Frames
    <2> QED
      BY <1>1, <1>2, <2>1, <2>2 DEF Shape, TypeOK, Outcomes
  <1>3. CASE frame # Null
    <2>1. frame \in Frames /\ FrameSize(frame) = file.webp.size
      BY <1>3, FrameOfSize
    <2>2. verdict' = "Success"
      BY <1>3 DEF FallbackReturns
    <2>3. info' = [info EXCEPT !.format = "webp", !.size = file.webp.size,
                               !.oriented = file.webp.size, !.outcome = "Success"]
      BY <1>3, <2>1 DEF FallbackReturns
    <2>4. info \in Facts /\ file.webp.size \in Extent /\ "Success" \in Outcomes
      BY FileTyped DEF Shape, Outcomes
    <2>5. info' \in Facts /\ info' = [format |-> "webp", size |-> file.webp.size,
               oriented |-> file.webp.size, turned |-> info.turned, outcome |-> "Success"]
      BY <2>3, <2>4, WebPInfo
    <2> QED
      BY <1>1, <1>3, <2>1, <2>2, <2>4, <2>5
  <1> QED
    BY <1>2, <1>3

\* Behind the read of a file, the fallback reports its size limit only for a
\* size beyond the limits.
LEMMA ExamineReturns ==
    ASSUME Examine
    PROVE  \/ FallbackReturns(Null, FALSE) /\ (cancelled \/ ~file.webp.simple)
           \/ /\ FallbackGoes("allocate")
              /\ ~cancelled /\ file.webp.simple /\ AcceptableSize(file.webp.size, limits)
           \/ /\ FallbackReturns(Null, TRUE)
              /\ ~cancelled /\ file.webp.simple /\ ~AcceptableSize(file.webp.size, limits)
  <1>1. CASE cancelled \/ ~file.webp.simple
    BY <1>1 DEF Examine
  <1>2. CASE ~cancelled /\ file.webp.simple /\ AcceptableSize(file.webp.size, limits)
    BY <1>2 DEF Examine
  <1>3. CASE ~cancelled /\ file.webp.simple /\ ~AcceptableSize(file.webp.size, limits)
    <2>1. FallbackReturns(Null, BeyondLimits)
      BY <1>3 DEF Examine
    <2>2. BeyondLimits
      BY <1>3 DEF BeyondLimits
    <2> QED
      BY <1>3, <2>1, <2>2 DEF FallbackReturns
  <1> QED
    BY <1>1, <1>2, <1>3

-----------------------------------------------------------------------------
(* The invariant                                                           *)

\* The calls start in the invariant.
LEMMA InitIInv == Init => IInv
  <1> SUFFICES ASSUME Init PROVE IInv
    OBVIOUS
  <1>1. NoFacts \in Facts /\ Null \in Frames
    BY DEF NoFacts, Facts, Names, Empty, Size, Extent, Outcomes, Null, Frames
  <1>2. Shape
    BY <1>1 DEF Init, Shape, Calls, InspectOnly, DecodeOnly, Fallbacks
  <1>3. \A call \in Calls : answers[call] = NoAnswer
    BY DEF Init, Calls
  <1>4. TypeOK
    BY <1>1, <1>3 DEF Init, TypeOK, Points, Outcomes, NoOutcome, NoFacts, NoAnswer, Calls, Frames
  <1>5. ~Inspected.clean /\ ~Decoded.clean /\ ~Delivered
    BY <1>3 DEF Inspected, Decoded, Delivered, NoAnswer, NoOutcome, Calls
  <1>6. Known /\ Latency /\ Verdicts /\ Delivery
    BY DEF Init, Known, Latency, Verdicts, Delivery
  <1>7. Answers
    BY <1>5 DEF Answers, SuccessWithinLimits, PromisedSize
  <1>8. Course /\ Told
    BY <1>5 DEF Init, Course, Told
  <1> QED
    BY <1>2, <1>4, <1>6, <1>7, <1>8 DEF IInv

FlagsOK == {cancelled, deviceFailed, faulty} \subseteq BOOLEAN

\* The flags stay Boolean.
LEMMA FlagsTyped == FlagsOK /\ [Next]_vars => FlagsOK'
  <1> SUFFICES ASSUME FlagsOK, [Next]_vars PROVE FlagsOK'
    OBVIOUS
  <1> USE DEF FlagsOK
  <1>1. cancelled' \in BOOLEAN
    BY DEF Next, Step, Inspect, Decode, Fallback, vars, Begin, RequestCancel, PollEntry, Prepare, Header,
       Gate, InspectSimpleWebP, SettleInspection, NestedMetadata, FinalInspection, PollHeader, ReadFrame,
       Guard, FallbackEntry, Fetch, Examine, PollAllocate, DecodePixels, Keep, SettleDecode, Scale,
       FinalDecode, Terminating
  <1>2. deviceFailed' \in BOOLEAN
    BY DEF Next, Step, Inspect, Decode, Fallback, vars, Begin, RequestCancel, PollEntry, Prepare, Header,
       Gate, InspectSimpleWebP, SettleInspection, NestedMetadata, FinalInspection, PollHeader, ReadFrame,
       Guard, FallbackEntry, Fetch, Examine, PollAllocate, DecodePixels, Keep, SettleDecode, Scale,
       FinalDecode, Terminating, DeviceWorks, DeviceFails
  <1>3. faulty' \in BOOLEAN
    BY DEF Next, Step, Inspect, Decode, Fallback, vars, Begin, RequestCancel, PollEntry, Prepare, Header,
       Gate, InspectSimpleWebP, SettleInspection, NestedMetadata, FinalInspection, PollHeader, ReadFrame,
       Guard, FallbackEntry, Fetch, Examine, PollAllocate, DecodePixels, Keep, SettleDecode, Scale,
       FinalDecode, Terminating, DeviceWorks, DeviceFails, Fail, Return
  <1> QED
    BY <1>1, <1>2, <1>3

\* A return keeps the types.
LEMMA ReturnTyped ==
    ASSUME TypeOK, Shape, FlagsOK', op \in Calls, NEW o \in Outcomes, NEW frame \in Frames, NEW fault,
           Return(o, frame, fault), UNCHANGED <<arguments, late, info, metadata>>
    PROVE  TypeOK' /\ Shape'
  <1>1. /\ pc' = "idle" /\ op' = "none" /\ verdict' = o /\ image' = frame
        /\ answers'[op].outcome = o
        /\ \A call \in Calls \ {op} : answers'[call] = answers[call]
        /\ answers' = [call \in Calls |-> answers'[call]]
    BY ReturnAnswers
  <1>2. DOMAIN answers = Calls /\ DOMAIN answers' = Calls
    BY <1>1 DEF Shape
  <1>3. \A call \in DOMAIN answers' : answers'[call].outcome \in Outcomes \cup {NoOutcome}
    BY <1>1, <1>2 DEF TypeOK
  <1>4. {cancelled', deviceFailed', faulty'} \subseteq BOOLEAN
    BY DEF FlagsOK
  <1>5. TypeOK'
    BY <1>1, <1>3, <1>4 DEF TypeOK, Points, Frames
  <1>6. Shape'
    BY <1>1 DEF Shape, arguments, InspectOnly, DecodeOnly, Fallbacks
  <1> QED
    BY <1>5, <1>6

\* Every step keeps the types.
LEMMA NextShape == IInv /\ [Next]_vars => TypeOK' /\ Shape'
  <1> SUFFICES ASSUME IInv, [Next]_vars PROVE TypeOK' /\ Shape'
    OBVIOUS
  <1>0. TypeOK /\ Shape /\ Known
    BY DEF IInv
  <1>f. FlagsOK'
    BY <1>0, FlagsTyped DEF FlagsOK, TypeOK
  <1>a. answers = [call \in Calls |-> answers[call]]
        /\ \A call \in Calls : answers[call].outcome \in Outcomes \cup {NoOutcome}
    BY <1>0 DEF TypeOK, Shape
  <1>n. NoFacts \in Facts /\ Null \in Frames
    BY DEF NoFacts, Facts, Names, Empty, Size, Extent, Outcomes, Null, Frames
  <1> USE DEF Points, Outcomes, NoOutcome, InspectOnly, DecodeOnly, Fallbacks, Calls, Frames, Goto, At,
              arguments
  <1>1. ASSUME NEW call \in {"inspect", "decode"}, Begin(call)
        PROVE  TypeOK' /\ Shape'
    BY <1>0, <1>n, <1>1 DEF Begin, TypeOK, Shape, NoFacts
  <1>2. CASE RequestCancel
    BY <1>0, <1>2 DEF RequestCancel, TypeOK, Shape
  <1>3. CASE PollEntry
    BY <1>0, <1>n, <1>3 DEF PollEntry, Fail, Return, TypeOK, Shape
  <1>4. CASE Prepare
    <2>1. /\ UNCHANGED <<file, limits, bound, policy, admitted, info, metadata, late, cancelled>>
          /\ op \in Calls /\ pc = "prepare"
      BY <1>0, <1>4 DEF Prepare, Fail, TypeOK
    <2>2. CASE Fail("IoFailure", TRUE)
      <3>1. Return("IoFailure", Null, TRUE)
        BY <2>2 DEF Fail
      <3>2. "IoFailure" \in Outcomes
        OBVIOUS
      <3> QED
        BY <1>0, <1>f, <1>n, <2>1, <3>1, <3>2, ReturnTyped
    <2>3. CASE Fail("ResourceLimit", FALSE)
      <3>1. Return("ResourceLimit", Null, FALSE)
        BY <2>3 DEF Fail
      <3>2. "ResourceLimit" \in Outcomes
        OBVIOUS
      <3> QED
        BY <1>0, <1>f, <1>n, <2>1, <3>1, <3>2, ReturnTyped
    <2>4. CASE Goto("header") /\ UNCHANGED <<verdict, info, image, metadata, faulty>>
      BY <1>0, <1>f, <2>1, <2>4 DEF TypeOK, Shape, FlagsOK
    <2> QED
      BY <1>4, <2>2, <2>3, <2>4 DEF Prepare
  <1>5. CASE Header
    <2>1. info' \in Facts
      BY <1>0, <1>5, HeaderFactsTyped, UnreadableFacts DEF Header
    <2>2. info'.outcome \in Outcomes
      BY <2>1 DEF Facts
    <2>3. /\ pc = "header" /\ pc' \in {"gate", "poll"} /\ verdict' = info'.outcome
          /\ pc' = "gate" => op = "inspect"
          /\ pc' = "poll" => op = "decode"
          /\ late' \in Nat
          /\ UNCHANGED <<arguments, op, answers, image, metadata>>
      BY <1>0, <1>5 DEF Header, Expensive, TypeOK
    <2> QED
      BY <1>0, <1>f, <2>1, <2>2, <2>3 DEF TypeOK, Shape, FlagsOK
  <1>6. CASE Gate
    BY <1>0, <1>6 DEF Gate, TypeOK, Shape
  <1>7. CASE InspectSimpleWebP
    <2>1. info' \in Facts /\ info'.outcome \in Outcomes
      <3>1. info' \in {info, WebPFacts}
        BY <1>7 DEF InspectSimpleWebP
      <3>2. info' \in Facts
        BY <1>0, <3>1, WebPFactsTyped DEF Shape
      <3> QED
        BY <3>2 DEF Facts
    <2>2. /\ op = "inspect" /\ pc = "webp" /\ pc' = "settle" /\ verdict' = info'.outcome
          /\ late' \in Nat
          /\ UNCHANGED <<arguments, op, answers, image, metadata>>
      BY <1>0, <1>7 DEF InspectSimpleWebP, Expensive, TypeOK
    <2> QED
      BY <1>0, <1>f, <2>1, <2>2 DEF TypeOK, Shape, FlagsOK
  <1>8. CASE SettleInspection
    BY <1>0, <1>8 DEF SettleInspection, Settled, TypeOK, Shape
  <1>9. CASE NestedMetadata
    BY <1>0, <1>9 DEF NestedMetadata, MetadataOutcomes, Expensive, TypeOK, Shape
  <1>10. CASE FinalInspection
    BY <1>0, <1>n, <1>10, ZenonT(60) DEF FinalInspection, Return, TypeOK, Shape
  <1>11. CASE PollHeader
    BY <1>0, <1>11 DEF PollHeader, HeaderVerdict, TypeOK, Shape
  <1>12. CASE ReadFrame
    <2>1. image' \in Frames
      <3>1. image' \in {Null, CodecFrame}
        BY <1>12 DEF ReadFrame
      <3>2. info = HeaderFacts /\ info.outcome = "Success"
        BY <1>0, <1>12 DEF ReadFrame, Known
      <3> QED
        BY <1>0, <1>n, <3>1, <3>2, CodecFrameSize
    <2>2. verdict' \in Outcomes
      <3>1. \/ verdict' = verdict
            \/ \E error \in ReaderErrors \cup {"DeviceError"} : verdict' = ReaderError(error)
        BY <1>12 DEF ReadFrame
      <3>2. \A error \in ReaderErrors \cup {"DeviceError"} : ReaderError(error) \in Outcomes
        BY <1>0, UnreadableFacts DEF Undecided
      <3> QED
        BY <1>0, <3>1, <3>2 DEF TypeOK
    <2>3. /\ op = "decode" /\ pc' = "guard" /\ late' \in Nat
          /\ UNCHANGED <<arguments, op, answers, info, metadata>>
      BY <1>0, <1>12 DEF ReadFrame, Expensive, TypeOK
    <2> QED
      BY <1>0, <1>f, <2>1, <2>2, <2>3 DEF TypeOK, Shape, FlagsOK
  <1>13. CASE Guard
    BY <1>0, <1>13 DEF Guard, TypeOK, Shape
  <1>14. CASE FallbackEntry
    <2>1. CASE FallbackReturns(Null, FALSE)
      BY <1>0, <1>f, <1>14, <2>1, FallbackAdopted, ZenonT(60) DEF FallbackEntry, TypeOK, Shape, FlagsOK
    <2>2. CASE FallbackGoes("fetch")
      BY <1>0, <1>f, <1>14, <2>2 DEF FallbackEntry, FallbackGoes, TypeOK, Shape, FlagsOK
    <2> QED
      BY <1>14, <2>1, <2>2 DEF FallbackEntry
  <1>15. CASE Fetch
    <2>0. late' \in Nat /\ op = "decode" /\ pc \in Fallbacks /\ UNCHANGED <<arguments, cancelled, metadata>>
      BY <1>0, <1>15 DEF Fetch, Expensive, TypeOK
    <2>1. CASE FallbackReturns(Null, FALSE)
      BY <1>0, <1>f, <2>0, <2>1, FallbackAdopted DEF TypeOK, Shape, FlagsOK
    <2>2. CASE FallbackGoes("examine")
      BY <1>0, <1>f, <2>0, <2>2 DEF FallbackGoes, TypeOK, Shape, FlagsOK
    <2> QED
      BY <1>15, <2>1, <2>2 DEF Fetch
  <1>16. CASE Examine
    <2>0. op = "decode" /\ pc \in Fallbacks /\ UNCHANGED <<arguments, cancelled, metadata, late>>
      BY <1>16 DEF Examine
    <2>1. CASE FallbackReturns(Null, FALSE)
      BY <1>0, <1>f, <2>0, <2>1, FallbackAdopted DEF TypeOK, Shape, FlagsOK
    <2>2. CASE FallbackGoes("allocate")
      BY <1>0, <1>f, <2>0, <2>2 DEF FallbackGoes, TypeOK, Shape, FlagsOK
    <2>3. CASE FallbackReturns(Null, TRUE)
      BY <1>0, <1>f, <2>0, <2>3, FallbackAdopted DEF TypeOK, Shape, FlagsOK
    <2> QED
      BY <1>16, <2>1, <2>2, <2>3, ExamineReturns DEF Examine
  <1>17. CASE PollAllocate
    <2>1. CASE FallbackReturns(Null, FALSE)
      BY <1>0, <1>f, <1>17, <2>1, FallbackAdopted, ZenonT(60) DEF PollAllocate, TypeOK, Shape, FlagsOK
    <2>2. CASE FallbackGoes("pixels")
      BY <1>0, <1>f, <1>17, <2>2 DEF PollAllocate, FallbackGoes, TypeOK, Shape, FlagsOK
    <2> QED
      BY <1>17, <2>1, <2>2 DEF PollAllocate
  <1>18. CASE DecodePixels
    <2>0. late' \in Nat /\ op = "decode" /\ pc \in Fallbacks /\ UNCHANGED <<arguments, cancelled, metadata>>
      BY <1>0, <1>18 DEF DecodePixels, Expensive, TypeOK
    <2>1. CASE FallbackReturns(Null, FALSE)
      BY <1>0, <1>f, <2>0, <2>1, FallbackAdopted DEF TypeOK, Shape, FlagsOK
    <2>2. CASE FallbackGoes("keep")
      BY <1>0, <1>f, <2>0, <2>2 DEF FallbackGoes, TypeOK, Shape, FlagsOK
    <2> QED
      BY <1>18, <2>1, <2>2 DEF DecodePixels
  <1>19. CASE Keep
    <2>1. PICK frame \in {Null, Frame(file.webp.size, 4)} : FallbackReturns(frame, FALSE)
      BY <1>19 DEF Keep
    <2>2. HasArea(file.webp.size)
      BY <1>0, <1>19, FileTyped, AcceptableHasArea DEF Keep, Known
    <2>3. op = "decode" /\ pc \in Fallbacks /\ UNCHANGED <<arguments, cancelled, metadata, late>>
      BY <1>19 DEF Keep
    <2>4. /\ image' \in Frames /\ info' \in Facts /\ verdict' \in Outcomes
          /\ pc' = "settle" /\ op' = op /\ answers' = answers
      BY <1>0, <2>1, <2>2, <2>3, FallbackAdopted
    <2> QED
      BY <1>0, <1>f, <2>3, <2>4 DEF TypeOK, Shape, FlagsOK, Facts
  <1>20. CASE SettleDecode
    BY <1>0, <1>20 DEF SettleDecode, Settled, TypeOK, Shape
  <1>21. CASE Scale
    BY <1>0, <1>n, <1>21, ScaledFrame DEF Scale, Known, TypeOK, Shape, Expensive
  <1>22. CASE FinalDecode
    BY <1>0, <1>n, <1>22, ZenonT(60) DEF FinalDecode, Return, TypeOK, Shape
  <1>23. CASE UNCHANGED vars
    BY <1>0, <1>23 DEF vars, TypeOK, Shape
  <1> QED
    BY <1>1, <1>2, <1>3, <1>4, <1>5, <1>6, <1>7, <1>8, <1>9, <1>10, <1>11, <1>12, <1>13, <1>14, <1>15,
       <1>16, <1>17, <1>18, <1>19, <1>20, <1>21, <1>22, <1>23
       DEF Next, Step, Inspect, Decode, Fallback, Terminating

\* No expensive step is begun behind a poll that saw the flag.
LEMMA NextLatency == IInv /\ [Next]_vars => Latency'
  <1> SUFFICES ASSUME IInv, [Next]_vars PROVE Latency'
    OBVIOUS
  <1>0. Latency /\ Shape /\ {cancelled, deviceFailed, faulty} \subseteq BOOLEAN
    BY DEF IInv, TypeOK
  <1> USE DEF Goto, At, Expensive, FallbackReturns, AfterFallback, FallbackGoes, Fail, Return
  <1>1. ASSUME NEW call \in {"inspect", "decode"}, Begin(call)
        PROVE  Latency'
    BY <1>0, <1>1 DEF Begin, Latency
  <1>2. CASE RequestCancel
    BY <1>0, <1>2 DEF RequestCancel, Latency
  <1>3. CASE PollEntry
    BY <1>0, <1>3 DEF PollEntry, Latency
  <1>4. CASE Prepare
    BY <1>0, <1>4 DEF Prepare, Latency
  <1>5. CASE Header
    BY <1>0, <1>5 DEF Header, Latency
  <1>6. CASE Gate
    BY <1>0, <1>6 DEF Gate, Latency
  <1>7. CASE InspectSimpleWebP
    BY <1>0, <1>7 DEF InspectSimpleWebP, Latency
  <1>8. CASE SettleInspection
    BY <1>0, <1>8 DEF SettleInspection, Settled, Latency
  <1>9. CASE NestedMetadata
    BY <1>0, <1>9 DEF NestedMetadata, Latency
  <1>10. CASE FinalInspection
    BY <1>0, <1>10 DEF FinalInspection, Latency
  <1>11. CASE PollHeader
    BY <1>0, <1>11 DEF PollHeader, HeaderVerdict, Latency
  <1>12. CASE ReadFrame
    BY <1>0, <1>12 DEF ReadFrame, Latency
  <1>13. CASE Guard
    BY <1>0, <1>13 DEF Guard, Latency
  <1>14. CASE FallbackEntry
    BY <1>0, <1>14 DEF FallbackEntry, Latency
  <1>15. CASE Fetch
    BY <1>0, <1>15 DEF Fetch, Latency
  <1>16. CASE Examine
    BY <1>0, <1>16 DEF Examine, Latency
  <1>17. CASE PollAllocate
    BY <1>0, <1>17 DEF PollAllocate, Latency
  <1>18. CASE DecodePixels
    BY <1>0, <1>18 DEF DecodePixels, Latency
  <1>19. CASE Keep
    BY <1>0, <1>19 DEF Keep, Latency
  <1>20. CASE SettleDecode
    BY <1>0, <1>20 DEF SettleDecode, Settled, Latency
  <1>21. CASE Scale
    BY <1>0, <1>21 DEF Scale, Latency
  <1>22. CASE FinalDecode
    BY <1>0, <1>22 DEF FinalDecode, Latency
  <1>23. CASE UNCHANGED vars
    BY <1>0, <1>23 DEF vars, Latency
  <1> QED
    BY <1>1, <1>2, <1>3, <1>4, <1>5, <1>6, <1>7, <1>8, <1>9, <1>10, <1>11, <1>12, <1>13, <1>14, <1>15,
       <1>16, <1>17, <1>18, <1>19, <1>20, <1>21, <1>22, <1>23
       DEF Next, Step, Inspect, Decode, Fallback, Terminating

\* What a file is, and what decode owes for it, changes with no step of a call.
LEMMA ArgumentsKept ==
    ASSUME UNCHANGED arguments
    PROVE  /\ HeaderFacts' = HeaderFacts
           /\ Foretold' = Foretold
           /\ FrameKept' = FrameKept
           /\ info' = info => Owed' = Owed
           /\ image' = image => FrameAcceptable(image)' = FrameAcceptable(image)
           /\ image' = image => NeedsScaling(FrameSize(image), bound)' = NeedsScaling(FrameSize(image), bound)
  <1>1. HeaderFacts' = HeaderFacts
    BY DEF arguments, HeaderFacts, Unreadable, Orient
  <1>2. Foretold' = Foretold
    BY <1>1 DEF arguments, Foretold
  <1>3. FrameKept' = FrameKept
    BY DEF arguments, FrameKept
  <1>4. info' = info => Owed' = Owed
    BY DEF arguments, Owed
  <1>5. image' = image => FrameAcceptable(image)' = FrameAcceptable(image)
    BY DEF arguments, FrameAcceptable
  <1>6. image' = image => NeedsScaling(FrameSize(image), bound)' = NeedsScaling(FrameSize(image), bound)
    BY DEF arguments, NeedsScaling
  <1> QED
    BY <1>1, <1>2, <1>3, <1>4, <1>5, <1>6

\* Every step keeps what is known of the file.
LEMMA NextKnown == IInv /\ [Next]_vars => Known'
  <1> SUFFICES ASSUME IInv, [Next]_vars PROVE Known'
    OBVIOUS
  <1>0. Known /\ Shape /\ TypeOK
    BY DEF IInv
  <1> USE DEF Goto, At, AfterFallback, FallbackReturns, FallbackGoes, Fail, Return
  <1>1. ASSUME NEW call \in {"inspect", "decode"}, Begin(call)
        PROVE  Known'
    BY <1>0, <1>1 DEF Begin, Known
  <1>2. CASE RequestCancel
    <2>1. UNCHANGED <<arguments, op, pc, verdict, info, image>>
      BY <1>2 DEF RequestCancel
    <2>2. UNCHANGED file /\ UNCHANGED limits
      BY <2>1 DEF arguments
    <2> QED
      BY <1>0, <2>1, <2>2, ArgumentsKept DEF Known
  <1>3. CASE PollEntry
    BY <1>0, <1>3 DEF PollEntry, arguments, Known
  <1>4. CASE Prepare
    BY <1>0, <1>4 DEF Prepare, arguments, Known
  <1>5. CASE Header
    <2>1. info' = HeaderFacts \/ info'.outcome # "Success"
      <3>1. \A error \in ReaderErrors \cup {"DeviceError"} : Unreadable(error).outcome # "Success"
        BY <1>0, UnreadableFacts DEF Undecided
      <3> QED
        BY <1>5, <3>1 DEF Header
    <2>2. HeaderFacts' = HeaderFacts
      BY <1>5 DEF Header, arguments, HeaderFacts, Unreadable, Orient
    <2>3. pc' \in {"gate", "poll"} /\ verdict' = info'.outcome
      BY <1>5 DEF Header
    <2> QED
      BY <2>1, <2>2, <2>3 DEF Known
  <1>6. CASE Gate
    BY <1>0, <1>6 DEF Gate, arguments, Known
  <1>7. CASE InspectSimpleWebP
    BY <1>0, <1>7 DEF InspectSimpleWebP, arguments, Known
  <1>8. CASE SettleInspection
    BY <1>0, <1>8 DEF SettleInspection, arguments, Known
  <1>9. CASE NestedMetadata
    BY <1>0, <1>9 DEF NestedMetadata, arguments, Known
  <1>10. CASE FinalInspection
    BY <1>0, <1>10 DEF FinalInspection, arguments, Known
  <1>11. CASE PollHeader
    <2>1. /\ pc = "poll" /\ pc' \in {"read", "guard"} /\ info' = info /\ UNCHANGED arguments
          /\ pc' = "read" => verdict' = "Success"
          /\ verdict' \in {"Cancelled", verdict}
      BY <1>11 DEF PollHeader, HeaderVerdict
    <2> QED
      BY <1>0, <2>1, ArgumentsKept DEF Known
  <1>12. CASE ReadFrame
    <2>1. HeaderFacts' = HeaderFacts /\ info' = info /\ pc' = "guard"
      BY <1>12 DEF ReadFrame, arguments, HeaderFacts, Unreadable, Orient
    <2> QED
      BY <1>0, <1>12, <2>1 DEF ReadFrame, Known
  <1>13. CASE Guard
    BY <1>0, <1>13 DEF Guard, arguments, Known
  <1>14. CASE FallbackEntry
    BY <1>0, <1>14 DEF FallbackEntry, arguments, Known
  <1>15. CASE Fetch
    BY <1>0, <1>15 DEF Fetch, arguments, Known
  <1>16. CASE Examine
    BY <1>0, <1>16, ExamineReturns DEF Examine, Known, arguments
  <1>17. CASE PollAllocate
    BY <1>0, <1>17 DEF PollAllocate, arguments, Known
  <1>18. CASE DecodePixels
    BY <1>0, <1>18 DEF DecodePixels, arguments, Known
  <1>19. CASE Keep
    BY <1>0, <1>19 DEF Keep, arguments, Known
  <1>20. CASE SettleDecode
    <2>1. pc' \in {"scale", "final"} /\ image' = image /\ UNCHANGED arguments
      BY <1>20 DEF SettleDecode
    <2>2. pc' = "scale" => verdict' = "Success" /\ NeedsScaling(FrameSize(image), bound)
      BY <1>20 DEF SettleDecode
    <2>3. verdict' = "Success" => FrameAcceptable(image)
      BY <1>20 DEF SettleDecode
    <2>4. FrameAcceptable(image) => image # Null
      BY DEF FrameAcceptable, AcceptableSize, Null, FrameSize, Size, IsEmpty
    <2> QED
      BY <2>1, <2>2, <2>3, <2>4, ArgumentsKept DEF Known
  <1>21. CASE Scale
    BY <1>0, <1>21 DEF Scale, arguments, Known
  <1>22. CASE FinalDecode
    BY <1>0, <1>22 DEF FinalDecode, arguments, Known
  <1>23. CASE UNCHANGED vars
    <2>1. UNCHANGED <<arguments, op, pc, verdict, info, image>>
      BY <1>23 DEF vars, arguments
    <2>2. UNCHANGED file /\ UNCHANGED limits
      BY <2>1 DEF arguments
    <2> QED
      BY <1>0, <2>1, <2>2, ArgumentsKept DEF Known
  <1> QED
    BY <1>1, <1>2, <1>3, <1>4, <1>5, <1>6, <1>7, <1>8, <1>9, <1>10, <1>11, <1>12, <1>13, <1>14, <1>15,
       <1>16, <1>17, <1>18, <1>19, <1>20, <1>21, <1>22, <1>23
       DEF Next, Step, Inspect, Decode, Fallback, Terminating

\* The device records its faults, all of them and for good.
LEMMA DeviceStep ==
    ASSUME faulty = deviceFailed, deviceFailed \in BOOLEAN, DeviceWorks \/ DeviceFails
    PROVE  /\ faulty' = deviceFailed'
           /\ faulty => faulty'
           /\ DeviceFails => faulty'
           /\ DeviceWorks => faulty' = faulty
  BY DEF DeviceWorks, DeviceFails

\* Every step keeps the verdict honest about faults and cancellation.
LEMMA NextVerdicts == IInv /\ [Next]_vars => Verdicts'
  <1> SUFFICES ASSUME IInv, [Next]_vars PROVE Verdicts'
    OBVIOUS
  <1>0. Verdicts /\ Known /\ Shape /\ {cancelled, deviceFailed, faulty} \subseteq BOOLEAN
    BY DEF IInv, TypeOK
  <1>d. pc # "idle" /\ (DeviceWorks \/ DeviceFails) =>
           /\ faulty' = deviceFailed'
           /\ faulty => faulty'
           /\ DeviceFails => faulty'
           /\ DeviceWorks => faulty' = faulty
    BY <1>0, DeviceStep DEF Verdicts
  <1> USE DEF Goto, At, AfterFallback, FallbackReturns, FallbackGoes, Fail, Return, Settled,
              Fallbacks, Undecided
  <1>1. ASSUME NEW call \in {"inspect", "decode"}, Begin(call)
        PROVE  Verdicts'
    BY <1>0, <1>1 DEF Begin, Verdicts
  <1>2. CASE RequestCancel
    BY <1>0, <1>2 DEF RequestCancel, Verdicts
  <1>3. CASE PollEntry
    BY <1>0, <1>3 DEF PollEntry, Verdicts
  <1>4. CASE Prepare
    BY <1>0, <1>4 DEF Prepare, Verdicts
  <1>5. CASE Header
    <2>0. pc = "header" /\ (DeviceWorks \/ DeviceFails) /\ UNCHANGED cancelled
      BY <1>5 DEF Header
    <2>1. info'.outcome # "Cancelled"
      <3>1. \/ info' = HeaderFacts
            \/ \E error \in ReaderErrors \cup {"DeviceError"} : info' = Unreadable(error)
        BY <1>5 DEF Header
      <3>2. \A error \in ReaderErrors \cup {"DeviceError"} : Unreadable(error).outcome # "Cancelled"
        BY <1>0, UnreadableFacts
      <3> QED
        BY <1>0, <3>1, <3>2, HeaderFactsTyped
    <2>2. info'.outcome = "IoFailure" => faulty'
      <3>1. info' = HeaderFacts \/ DeviceFails
        BY <1>5 DEF Header
      <3> QED
        BY <1>0, <1>d, <2>0, <3>1, HeaderFactsTyped
    <2>3. verdict' = info'.outcome /\ pc' \in {"gate", "poll"}
      BY <1>5 DEF Header
    <2> QED
      BY <1>d, <2>0, <2>1, <2>2, <2>3 DEF Verdicts
  <1>6. CASE Gate
    BY <1>0, <1>6 DEF Gate, Verdicts
  <1>7. CASE InspectSimpleWebP
    <2>1. pc = "webp" /\ (DeviceWorks \/ DeviceFails) /\ UNCHANGED cancelled
      BY <1>7 DEF InspectSimpleWebP
    <2>2. verdict' = info'.outcome /\ pc' = "settle"
      BY <1>7 DEF InspectSimpleWebP
    <2>3. info' \in {info, WebPFacts}
      BY <1>7 DEF InspectSimpleWebP
    <2> QED
      BY <1>0, <1>d, <2>1, <2>2, <2>3, WebPFactsTyped DEF Known, Verdicts
  <1>8. CASE SettleInspection
    BY <1>0, <1>8 DEF SettleInspection, Verdicts
  <1>9. CASE NestedMetadata
    BY <1>0, <1>9 DEF NestedMetadata, Verdicts
  <1>10. CASE FinalInspection
    BY <1>0, <1>10 DEF FinalInspection, Verdicts
  <1>11. CASE PollHeader
    BY <1>0, <1>11 DEF PollHeader, HeaderVerdict, Verdicts
  <1>12. CASE ReadFrame
    <2>1. pc = "read" /\ (DeviceWorks \/ DeviceFails) /\ UNCHANGED cancelled
      BY <1>12 DEF ReadFrame
    <2>2. pc' = "guard"
      BY <1>12 DEF ReadFrame
    <2>3. \/ verdict' = verdict
          \/ \E error \in ReaderErrors : verdict' = ReaderError(error)
          \/ faulty' /\ verdict' = ReaderError("DeviceError")
      BY <1>12 DEF ReadFrame
    <2>4. verdict' # "Cancelled" /\ (verdict' = "IoFailure" => faulty')
      BY <1>0, <1>d, <2>1, <2>3, UnreadableFacts DEF Known, ReaderErrors
    <2> QED
      BY <1>d, <2>1, <2>2, <2>4 DEF Verdicts
  <1>13. CASE Guard
    BY <1>0, <1>13 DEF Guard, Verdicts
  <1>14. CASE FallbackEntry
    BY <1>0, <1>14 DEF FallbackEntry, Verdicts
  <1>15. CASE Fetch
    <2>1. /\ pc = "fetch" /\ (DeviceWorks \/ DeviceFails) /\ UNCHANGED <<cancelled, verdict>>
          /\ pc' \in {"examine", "settle"}
      BY <1>15 DEF Fetch
    <2> QED
      BY <1>0, <1>d, <2>1 DEF Verdicts
  <1>16. CASE Examine
    BY <1>0, <1>16, ExamineReturns DEF Examine, Verdicts
  <1>17. CASE PollAllocate
    BY <1>0, <1>17 DEF PollAllocate, Verdicts
  <1>18. CASE DecodePixels
    BY <1>0, <1>18 DEF DecodePixels, Verdicts
  <1>19. CASE Keep
    BY <1>0, <1>19 DEF Keep, Verdicts
  <1>20. CASE SettleDecode
    BY <1>0, <1>20 DEF SettleDecode, Verdicts
  <1>21. CASE Scale
    BY <1>0, <1>21 DEF Scale, Verdicts
  <1>22. CASE FinalDecode
    BY <1>0, <1>22 DEF FinalDecode, Verdicts
  <1>23. CASE UNCHANGED vars
    BY <1>0, <1>23 DEF vars, Verdicts
  <1> QED
    BY <1>1, <1>2, <1>3, <1>4, <1>5, <1>6, <1>7, <1>8, <1>9, <1>10, <1>11, <1>12, <1>13, <1>14, <1>15,
       <1>16, <1>17, <1>18, <1>19, <1>20, <1>21, <1>22, <1>23
       DEF Next, Step, Inspect, Decode, Fallback, Terminating

\* What decode owes has area and is within the bound.
LEMMA OwedFits ==
    ASSUME Shape, HasArea(info.oriented)
    PROVE  /\ IsEmpty(bound) \/ Within(Owed, bound)
           /\ ~IsEmpty(bound) /\ Within(info.oriented, bound) => Owed = info.oriented
  <1>1. CASE IsEmpty(bound)
    BY <1>1
  <1>2. CASE ~IsEmpty(bound)
    BY <1>2, BoundHasArea, TargetFits, SmallImageKept DEF Owed
  <1> QED
    BY <1>1, <1>2

\* Every step brings the image closer to what decode owes.
LEMMA NextDelivery == IInv /\ [Next]_vars => Delivery'
  <1> SUFFICES ASSUME IInv, [Next]_vars PROVE Delivery'
    OBVIOUS
  <1>0. Delivery /\ Known /\ Shape /\ Verdicts /\ TypeOK
    BY DEF IInv
  <1>s. UNCHANGED <<arguments, op, pc, verdict, info, image>> => Delivery'
    <2> SUFFICES ASSUME UNCHANGED <<arguments, op, pc, verdict, info, image>> PROVE Delivery'
      OBVIOUS
    <2>1. UNCHANGED bound
      BY DEF arguments
    <2> QED
      BY <1>0, <2>1, ArgumentsKept DEF Delivery
  <1> USE DEF Goto, At, AfterFallback, Fail, Return
  <1>1. ASSUME NEW call \in {"inspect", "decode"}, Begin(call)
        PROVE  Delivery'
    BY <1>0, <1>1 DEF Begin, Delivery
  <1>2. CASE RequestCancel
    BY <1>s, <1>2 DEF RequestCancel
  <1>3. CASE PollEntry
    <2>1. op' # "decode" \/ pc' \notin {"guard", "settle", "scale", "final"}
      BY <1>0, <1>3 DEF PollEntry, Shape
    <2> QED
      BY <2>1 DEF Delivery
  <1>4. CASE Prepare
    <2>1. op' # "decode" \/ pc' \notin {"guard", "settle", "scale", "final"}
      BY <1>0, <1>4 DEF Prepare, Shape
    <2> QED
      BY <2>1 DEF Delivery
  <1>5. CASE Header
    <2>1. op' # "decode" \/ pc' \notin {"guard", "settle", "scale", "final"}
      BY <1>0, <1>5 DEF Header, Shape
    <2> QED
      BY <2>1 DEF Delivery
  <1>6. CASE Gate
    <2>1. op' # "decode" \/ pc' \notin {"guard", "settle", "scale", "final"}
      BY <1>0, <1>6 DEF Gate, Shape
    <2> QED
      BY <2>1 DEF Delivery
  <1>7. CASE InspectSimpleWebP
    <2>1. op' # "decode" \/ pc' \notin {"guard", "settle", "scale", "final"}
      BY <1>0, <1>7 DEF InspectSimpleWebP, Shape
    <2> QED
      BY <2>1 DEF Delivery
  <1>8. CASE SettleInspection
    <2>1. op' # "decode" \/ pc' \notin {"guard", "settle", "scale", "final"}
      BY <1>0, <1>8 DEF SettleInspection, Shape
    <2> QED
      BY <2>1 DEF Delivery
  <1>9. CASE NestedMetadata
    <2>1. op' # "decode" \/ pc' \notin {"guard", "settle", "scale", "final"}
      BY <1>0, <1>9 DEF NestedMetadata, Shape
    <2> QED
      BY <2>1 DEF Delivery
  <1>10. CASE FinalInspection
    <2>1. op' # "decode" \/ pc' \notin {"guard", "settle", "scale", "final"}
      BY <1>0, <1>10 DEF FinalInspection, Shape
    <2> QED
      BY <2>1 DEF Delivery
  <1>11. CASE PollHeader
    <2>1. pc' = "read" \/ (pc' = "guard" /\ verdict' # "Success")
      BY <1>11 DEF PollHeader
    <2> QED
      BY <2>1 DEF Delivery
  <1>12. CASE ReadFrame
    <2>1. UNCHANGED <<arguments, info>> /\ pc' = "guard"
      BY <1>12 DEF ReadFrame
    <2>2. info = HeaderFacts /\ info.outcome = "Success"
      BY <1>0, <1>12 DEF ReadFrame, Known
    <2>3. verdict' = "Success" => image' # Null
      <3>1. \A error \in ReaderErrors \cup {"DeviceError"} : ReaderError(error) # "Success"
        BY <1>0, UnreadableFacts DEF Undecided
      <3> QED
        BY <1>12, <3>1 DEF ReadFrame
    <2>4. image' \in {Null, CodecFrame}
      BY <1>12 DEF ReadFrame
    <2>5. verdict' = "Success" /\ FrameKept => HasArea(info.oriented) /\ FrameSize(image') = Owed
      BY <1>0, <2>2, <2>3, <2>4, CodecFrameSize
    <2> QED
      BY <2>1, <2>5, ArgumentsKept DEF Delivery
  <1>13. CASE Guard
    <2>1. UNCHANGED <<arguments, op, verdict, info, image>> /\ pc = "guard" /\ pc' \in {"fallback", "settle"}
      BY <1>13 DEF Guard
    <2> QED
      BY <1>0, <2>1, ArgumentsKept DEF Delivery
  <1>14. CASE FallbackEntry
    <2>1. CASE pc' # "settle"
      BY <1>0, <1>14, <2>1 DEF FallbackEntry, FallbackGoes, FallbackReturns, Delivery
    <2>2. CASE pc' = "settle"
      <3>1. verdict' # "Success"
        BY <1>0, <1>14, <2>2 DEF FallbackEntry, FallbackGoes, FallbackReturns, Verdicts, Fallbacks, Undecided
      <3> QED
        BY <3>1 DEF Delivery
    <2> QED
      BY <2>1, <2>2
  <1>15. CASE Fetch
    <2>1. CASE pc' # "settle"
      BY <1>0, <1>15, <2>1 DEF Fetch, FallbackGoes, FallbackReturns, Delivery
    <2>2. CASE pc' = "settle"
      <3>1. verdict' # "Success"
        BY <1>0, <1>15, <2>2 DEF Fetch, FallbackGoes, FallbackReturns, Verdicts, Fallbacks, Undecided
      <3> QED
        BY <3>1 DEF Delivery
    <2> QED
      BY <2>1, <2>2
  <1>16. CASE Examine
    <2>1. CASE pc' # "settle"
      BY <1>0, <1>16, <2>1, ExamineReturns DEF Examine, FallbackGoes, FallbackReturns, Delivery
    <2>2. CASE pc' = "settle"
      <3>1. verdict' # "Success"
        BY <1>0, <1>16, <2>2, ExamineReturns DEF Examine, FallbackGoes, FallbackReturns, Verdicts, Fallbacks, Undecided
      <3> QED
        BY <3>1 DEF Delivery
    <2> QED
      BY <2>1, <2>2
  <1>17. CASE PollAllocate
    <2>1. CASE pc' # "settle"
      BY <1>0, <1>17, <2>1 DEF PollAllocate, FallbackGoes, FallbackReturns, Delivery
    <2>2. CASE pc' = "settle"
      <3>1. verdict' # "Success"
        BY <1>0, <1>17, <2>2 DEF PollAllocate, FallbackGoes, FallbackReturns, Verdicts, Fallbacks, Undecided
      <3> QED
        BY <3>1 DEF Delivery
    <2> QED
      BY <2>1, <2>2
  <1>18. CASE DecodePixels
    <2>1. CASE pc' # "settle"
      BY <1>0, <1>18, <2>1 DEF DecodePixels, FallbackGoes, FallbackReturns, Delivery
    <2>2. CASE pc' = "settle"
      <3>1. verdict' # "Success"
        BY <1>0, <1>18, <2>2 DEF DecodePixels, FallbackGoes, FallbackReturns, Verdicts, Fallbacks, Undecided
      <3> QED
        BY <3>1 DEF Delivery
    <2> QED
      BY <2>1, <2>2
  <1>19. CASE Keep
    <2>1. CASE cancelled
      <3>1. verdict' # "Success"
        BY <1>0, <1>19, <2>1 DEF Keep, FallbackReturns, Verdicts, Fallbacks, Undecided
      <3> QED
        BY <3>1 DEF Delivery
    <2>2. CASE ~cancelled
      <3> DEFINE frame == Frame(file.webp.size, 4)
      <3>1. FallbackReturns(frame, FALSE) /\ pc \in Fallbacks
        BY <1>19, <2>2 DEF Keep, Fallbacks
      <3>2. HasArea(file.webp.size)
        BY <1>0, <1>19, FileTyped, AcceptableHasArea DEF Keep, Known
      <3>3. frame # Null
        BY <3>2, FrameOfSize
      <3>f. frame = Frame(file.webp.size, 4)
        OBVIOUS
      <3> HIDE DEF frame
      <3>4. info'.oriented = file.webp.size /\ FrameSize(image') = file.webp.size /\ pc' = "settle"
        <4>1. /\ info' = [format |-> "webp", size |-> file.webp.size, oriented |-> file.webp.size,
                          turned |-> info.turned, outcome |-> "Success"]
              /\ FrameSize(image') = file.webp.size /\ pc' = "settle"
          BY <1>0, <3>1, <3>2, <3>3, <3>f, FallbackAdopted
        <4> QED
          BY <4>1
      <3> QED
        BY <3>2, <3>4 DEF Delivery
    <2> QED
      BY <2>1, <2>2
  <1>20. CASE SettleDecode
    <2>0. /\ UNCHANGED <<arguments, op, info, image>> /\ pc = "settle" /\ op = "decode"
          /\ pc' = IF verdict' = "Success" /\ NeedsScaling(FrameSize(image), bound) THEN "scale" ELSE "final"
      BY <1>20 DEF SettleDecode
    <2>1. UNCHANGED bound
      BY <2>0 DEF arguments
    <2> SUFFICES ASSUME verdict' = "Success" PROVE Delivery'
      BY DEF Delivery
    <2>2. FrameAcceptable(image) /\ verdict = "Success"
      BY <1>20 DEF SettleDecode, Settled
    <2>3. FrameKept => HasArea(info.oriented) /\ FrameSize(image) \in {info.oriented, Owed}
      BY <1>0, <2>0, <2>2 DEF Delivery
    <2>4. CASE NeedsScaling(FrameSize(image), bound)
      <3>1. FrameKept => FrameSize(image) = info.oriented
        BY <1>0, <2>3, <2>4, OwedFits DEF NeedsScaling
      <3> QED
        BY <2>0, <2>4, <3>1, ArgumentsKept DEF Delivery
    <2>5. CASE ~NeedsScaling(FrameSize(image), bound)
      <3>1. IsEmpty(bound) \/ Within(FrameSize(image), bound)
        BY <2>5 DEF NeedsScaling
      <3>2. FrameKept => FrameSize(image) = Owed
        BY <1>0, <2>3, <3>1, OwedFits DEF Owed
      <3> QED
        BY <2>0, <2>1, <2>2, <2>5, <3>1, <3>2, ArgumentsKept DEF Delivery
    <2> QED
      BY <2>4, <2>5
  <1>21. CASE Scale
    <2> DEFINE scaled == Frame(ScaledImage(FrameSize(image), bound), Greater(image.depth, 4))
    <2>0. UNCHANGED <<arguments, op, info, verdict>> /\ pc = "scale" /\ op = "decode" /\ pc' = "final"
      BY <1>21 DEF Scale
    <2>1. UNCHANGED bound /\ UNCHANGED limits
      BY <2>0 DEF arguments
    <2>2. image' \in {scaled, Null}
      BY <1>21 DEF Scale
    <2>3. image \in Frames /\ FrameAcceptable(image) /\ NeedsScaling(FrameSize(image), bound)
      BY <1>0, <2>0 DEF TypeOK, Frames, Known
    <2>4. /\ FrameAcceptable(scaled)
          /\ Within(FrameSize(scaled), bound)
          /\ FrameSize(scaled) = FitTarget(FrameSize(image), bound)
      BY <1>0, <2>3, ScaledFrame
    <2> HIDE DEF scaled
    <2>5. verdict = "Success" /\ FrameKept => FrameSize(scaled) = Owed
      BY <1>0, <2>0, <2>3, <2>4 DEF Delivery, NeedsScaling, Owed
    <2>6. image' # Null => FrameAcceptable(image)'
      BY <2>1, <2>2, <2>4 DEF FrameAcceptable
    <2> QED
      BY <2>0, <2>1, <2>2, <2>4, <2>5, <2>6, ArgumentsKept DEF Delivery
  <1>22. CASE FinalDecode
    <2>1. op' # "decode" \/ pc' \notin {"guard", "settle", "scale", "final"}
      BY <1>0, <1>22 DEF FinalDecode, Shape
    <2> QED
      BY <2>1 DEF Delivery
  <1>23. CASE UNCHANGED vars
    BY <1>s, <1>23 DEF vars, arguments
  <1> QED
    BY <1>1, <1>2, <1>3, <1>4, <1>5, <1>6, <1>7, <1>8, <1>9, <1>10, <1>11, <1>12, <1>13, <1>14, <1>15,
       <1>16, <1>17, <1>18, <1>19, <1>20, <1>21, <1>22, <1>23
       DEF Next, Step, Inspect, Decode, Fallback, Terminating

\* Delivered answers stay what they are.
LEMMA AnswersKept ==
    ASSUME Answers, UNCHANGED arguments, Decoded' = Decoded
    PROVE  Answers'
  <1>1. SuccessWithinLimits'
    BY DEF arguments, Answers, SuccessWithinLimits, Delivered
  <1>2. PromisedSize'
    BY DEF arguments, Answers, PromisedSize, Delivered
  <1> QED
    BY <1>1, <1>2 DEF Answers

\* A call that fails delivers nothing.
LEMMA FailureDelivers ==
    ASSUME Answers, Shape, op \in Calls, UNCHANGED arguments, NEW o, o # "Success", NEW frame, NEW fault,
           Return(o, frame, fault)
    PROVE  Answers'
  <1>1. answers'[op].outcome = o /\ \A call \in Calls \ {op} : answers'[call] = answers[call]
    BY ReturnAnswers
  <1>2. CASE op = "inspect"
    BY <1>1, <1>2, AnswersKept DEF Decoded, Calls
  <1>3. CASE op = "decode"
    <2>1. ~Delivered'
      BY <1>1, <1>3 DEF Delivered, Decoded
    <2> QED
      BY <2>1 DEF Answers, SuccessWithinLimits, PromisedSize
  <1> QED
    BY <1>2, <1>3 DEF Calls

\* Every answer decode gives is within the limits and of the size it owes.
LEMMA NextAnswers == IInv /\ [Next]_vars => Answers'
  <1> SUFFICES ASSUME IInv, [Next]_vars PROVE Answers'
    OBVIOUS
  <1>0. Answers /\ Shape /\ TypeOK /\ Delivery
    BY DEF IInv
  <1>a. ASSUME UNCHANGED arguments, UNCHANGED answers PROVE Answers'
    BY <1>0, <1>a, AnswersKept DEF Decoded
  <1>o. pc # "idle" => op \in Calls
    BY <1>0 DEF TypeOK, Calls
  <1> USE DEF Goto, At, FallbackReturns, FallbackGoes
  <1>1. ASSUME NEW call \in {"inspect", "decode"}, Begin(call)
        PROVE  Answers'
    BY <1>a, <1>1 DEF Begin
  <1>2. CASE RequestCancel
    BY <1>a, <1>2 DEF RequestCancel
  <1>3. CASE PollEntry
    <2>1. CASE cancelled
      <3>1. Return("Cancelled", Null, FALSE) /\ pc # "idle" /\ UNCHANGED arguments
        BY <1>3, <2>1 DEF PollEntry, Fail
      <3> QED
        BY <1>0, <1>o, <3>1, FailureDelivers
    <2>2. CASE ~cancelled
      BY <1>a, <1>3, <2>2 DEF PollEntry
    <2> QED
      BY <2>1, <2>2
  <1>4. CASE Prepare
    <2>1. pc # "idle" /\ UNCHANGED arguments
      BY <1>4 DEF Prepare
    <2>2. \/ Return("IoFailure", Null, TRUE)
          \/ Return("ResourceLimit", Null, FALSE)
          \/ UNCHANGED answers
      BY <1>4 DEF Prepare, Fail
    <2>3. CASE Return("IoFailure", Null, TRUE)
      BY <1>0, <1>o, <2>1, <2>3, FailureDelivers
    <2>4. CASE Return("ResourceLimit", Null, FALSE)
      BY <1>0, <1>o, <2>1, <2>4, FailureDelivers
    <2> QED
      BY <1>a, <2>1, <2>2, <2>3, <2>4
  <1>5. CASE Header
    BY <1>a, <1>5 DEF Header
  <1>6. CASE Gate
    BY <1>a, <1>6 DEF Gate
  <1>7. CASE InspectSimpleWebP
    BY <1>a, <1>7 DEF InspectSimpleWebP
  <1>8. CASE SettleInspection
    BY <1>a, <1>8 DEF SettleInspection
  <1>9. CASE NestedMetadata
    BY <1>a, <1>9 DEF NestedMetadata
  <1>10. CASE FinalInspection
    <2>1. op = "inspect" /\ UNCHANGED arguments
      BY <1>10 DEF FinalInspection
    <2>2. Decoded' = Decoded
      BY <1>0, <1>10, <2>1, ReturnAnswers DEF FinalInspection, Decoded, Calls
    <2> QED
      BY <1>0, <2>1, <2>2, AnswersKept
  <1>11. CASE PollHeader
    BY <1>a, <1>11 DEF PollHeader
  <1>12. CASE ReadFrame
    BY <1>a, <1>12 DEF ReadFrame
  <1>13. CASE Guard
    BY <1>a, <1>13 DEF Guard
  <1>14. CASE FallbackEntry
    BY <1>a, <1>14 DEF FallbackEntry
  <1>15. CASE Fetch
    BY <1>a, <1>15 DEF Fetch
  <1>16. CASE Examine
    BY <1>a, <1>16, ExamineReturns DEF Examine
  <1>17. CASE PollAllocate
    BY <1>a, <1>17 DEF PollAllocate
  <1>18. CASE DecodePixels
    BY <1>a, <1>18 DEF DecodePixels
  <1>19. CASE Keep
    BY <1>a, <1>19 DEF Keep
  <1>20. CASE SettleDecode
    BY <1>a, <1>20 DEF SettleDecode
  <1>21. CASE Scale
    BY <1>a, <1>21 DEF Scale
  <1>22. CASE FinalDecode
    <2>0. op = "decode" /\ pc = "final" /\ UNCHANGED <<arguments, info>>
      BY <1>22 DEF FinalDecode
    <2>1. CASE cancelled \/ verdict # "Success"
      <3>1. PICK o \in {"Cancelled", verdict} : o # "Success" /\ Return(o, Null, FALSE)
        BY <1>22, <2>1 DEF FinalDecode
      <3> QED
        BY <1>0, <1>o, <2>0, <3>1, FailureDelivers
    <2>2. CASE ~cancelled /\ verdict = "Success"
      <3>1. Return("Success", image, FALSE)
        BY <1>22, <2>2 DEF FinalDecode
      <3>2. Decoded'.image = image /\ Decoded'.info = info /\ Decoded'.outcome = "Success"
        BY <1>0, <1>o, <2>0, <3>1, ReturnAnswers DEF Decoded
      <3>3. UNCHANGED file /\ UNCHANGED limits /\ UNCHANGED bound
        BY <2>0 DEF arguments
      <3> SUFFICES ASSUME image # Null PROVE Answers'
        BY <3>2 DEF Answers, SuccessWithinLimits, PromisedSize, Delivered
      <3>4. /\ FrameAcceptable(image)
            /\ IsEmpty(bound) \/ Within(FrameSize(image), bound)
            /\ FrameKept => FrameSize(image) = Owed
        BY <1>0, <2>0, <2>2 DEF Delivery
      <3>5. SuccessWithinLimits'
        BY <3>2, <3>3, <3>4 DEF SuccessWithinLimits, FrameAcceptable
      <3>6. PromisedSize'
        BY <3>2, <3>3, <3>4 DEF PromisedSize, FrameKept, Owed
      <3> QED
        BY <3>5, <3>6 DEF Answers
    <2> QED
      BY <2>1, <2>2
  <1>23. CASE UNCHANGED vars
    BY <1>a, <1>23 DEF vars, arguments
  <1> QED
    BY <1>1, <1>2, <1>3, <1>4, <1>5, <1>6, <1>7, <1>8, <1>9, <1>10, <1>11, <1>12, <1>13, <1>14, <1>15,
       <1>16, <1>17, <1>18, <1>19, <1>20, <1>21, <1>22, <1>23
       DEF Next, Step, Inspect, Decode, Fallback, Terminating

\* What inspect foretells is the header where the codec accepts it, and the
\* fallback's facts where it is undecided; for a simple WebP file that both
\* understand the two are the same.
LEMMA ForetoldFacts ==
    ASSUME Shape
    PROVE  /\ HeaderFacts.outcome = "Success" => Foretold = HeaderFacts
           /\ ~file.webp.simple => Foretold = HeaderFacts
           /\ HeaderFacts.outcome \notin Undecided => Foretold = HeaderFacts
           /\ HeaderFacts.outcome \in Undecided /\ file.webp.simple /\ info = HeaderFacts => Foretold = WebPFacts
           /\ file.webp.simple /\ AcceptableSize(file.webp.size, limits)
              /\ HeaderFacts.outcome \in {"Success"} \cup Undecided =>
                  /\ Foretold.outcome = "Success"
                  /\ Foretold = [format |-> "webp", size |-> file.webp.size, oriented |-> file.webp.size,
                                turned |-> HeaderFacts.turned, outcome |-> "Success"]
           /\ file.webp.simple /\ ~AcceptableSize(file.webp.size, limits)
              /\ HeaderFacts.outcome \in {"Success"} \cup Undecided =>
                  Foretold.outcome \in {"ResourceLimit", "Success"}
  <1>1. HeaderFacts.outcome = "Success" => Foretold = HeaderFacts
    BY DEF Foretold, Undecided
  <1>2. HeaderFacts.outcome \in Undecided /\ file.webp.simple /\ info = HeaderFacts => Foretold = WebPFacts
    BY WebPFactsTyped DEF Foretold
  <1>3. file.webp.simple /\ HeaderFacts.outcome = "Success" =>
            HeaderFacts = [format |-> "webp", size |-> file.webp.size, oriented |-> file.webp.size,
                           turned |-> HeaderFacts.turned, outcome |-> "Success"]
    <2> SUFFICES ASSUME file.webp.simple, HeaderFacts.outcome = "Success"
                 PROVE  HeaderFacts = [format |-> "webp", size |-> file.webp.size,
                                       oriented |-> file.webp.size, turned |-> HeaderFacts.turned,
                                       outcome |-> "Success"]
      OBVIOUS
    <2>1. /\ HeaderFacts \in Facts /\ file.qt.readable
          /\ HeaderFacts.size = file.qt.size
          /\ HeaderFacts.oriented = Orient(file.qt.size, file.qt.turned)
          /\ HeaderFacts.format = Canonical(file.qt.format)
      BY HeaderFactsTyped
    <2>2. Canonical(file.qt.format) = "webp" /\ file.qt.size = file.webp.size /\ ~file.qt.turned
      BY <2>1, FilesAssumption DEF Shape
    <2>3. HeaderFacts.oriented = file.webp.size
      BY <2>1, <2>2 DEF Orient
    <2>4. HeaderFacts = [format |-> HeaderFacts.format, size |-> HeaderFacts.size,
                         oriented |-> HeaderFacts.oriented, turned |-> HeaderFacts.turned,
                         outcome |-> HeaderFacts.outcome]
      BY <2>1 DEF Facts
    <2> QED
      BY <2>1, <2>2, <2>3, <2>4
  <1>4. ~file.webp.simple \/ HeaderFacts.outcome \notin Undecided => Foretold = HeaderFacts
    BY DEF Foretold
  <1>5. HeaderFacts.outcome \in Undecided /\ file.webp.simple =>
            Foretold = [format |-> "webp", size |-> file.webp.size, oriented |-> file.webp.size,
                        turned |-> HeaderFacts.turned,
                        outcome |-> IF AcceptableSize(file.webp.size, limits) THEN "Success"
                                    ELSE "ResourceLimit"]
    BY DEF Foretold
  <1> QED
    BY <1>1, <1>2, <1>3, <1>4, <1>5

\* A call that is undisturbed behind a step was undisturbed before it.
LEMMA QuietBefore ==
    ASSUME IInv, Step, pc' # "idle", ~faulty', ~cancelled'
    PROVE  pc # "idle" /\ ~faulty /\ ~cancelled
  <1>0. (pc # "idle" => faulty = deviceFailed) /\ Shape /\ {cancelled, deviceFailed, faulty} \subseteq BOOLEAN
    BY DEF IInv, Verdicts, TypeOK
  <1>1. pc # "idle"
    BY <1>0 DEF Step, Inspect, Decode, Fallback, PollEntry, Prepare, Header, Gate, InspectSimpleWebP,
       SettleInspection, NestedMetadata, FinalInspection, PollHeader, ReadFrame, Guard, FallbackEntry,
       Fetch, Examine, PollAllocate, DecodePixels, Keep, SettleDecode, Scale, FinalDecode, At
  <1>2. cancelled' = cancelled
    BY DEF Step, Inspect, Decode, Fallback, PollEntry, Prepare, Header, Gate, InspectSimpleWebP,
       SettleInspection, NestedMetadata, FinalInspection, PollHeader, ReadFrame, Guard, FallbackEntry,
       Fetch, Examine, PollAllocate, DecodePixels, Keep, SettleDecode, Scale, FinalDecode
  <1>3. \/ faulty' = faulty
        \/ DeviceWorks \/ DeviceFails
    BY DEF Step, Inspect, Decode, Fallback, PollEntry, Prepare, Header, Gate, InspectSimpleWebP,
       SettleInspection, NestedMetadata, FinalInspection, PollHeader, ReadFrame, Guard, FallbackEntry,
       Fetch, Examine, PollAllocate, DecodePixels, Keep, SettleDecode, Scale, FinalDecode, Fail, Return
  <1>4. faulty => faulty'
    BY <1>0, <1>1, <1>3, DeviceStep
  <1> QED
    BY <1>1, <1>2, <1>4

\* An undisturbed step leads from what was foretold to what was foretold.
LEMMA NextCourse == IInv /\ [Next]_vars => Course'
  <1> SUFFICES ASSUME IInv, [Next]_vars, pc' # "idle", ~faulty', ~cancelled' PROVE Course'
    BY DEF Course
  <1>0. Course /\ Known /\ Shape /\ Verdicts /\ TypeOK
    BY DEF IInv
  <1>q. Step => pc # "idle" /\ ~faulty /\ ~cancelled
    BY QuietBefore
  <1>w. pc # "idle" /\ (DeviceWorks \/ DeviceFails) => DeviceWorks /\ ~DeviceFails
    BY <1>0, DeviceStep DEF Verdicts, TypeOK
  <1>k. UNCHANGED arguments => HeaderFacts' = HeaderFacts /\ Foretold' = Foretold /\ admitted' = admitted
    BY ArgumentsKept DEF arguments
  <1>s. ASSUME UNCHANGED <<arguments, op, pc, verdict, info>>, pc # "idle" => ~faulty /\ ~cancelled
        PROVE  Course'
    BY <1>0, <1>s, <1>k DEF Course
  <1> USE DEF Goto, At, AfterFallback, Step, Inspect, Decode, Fallback
  <1>c. pc \in Fallbacks /\ ~faulty /\ ~cancelled =>
            /\ info = HeaderFacts /\ admitted /\ verdict \in Undecided
            /\ HeaderFacts.outcome = "Success" \/ verdict = HeaderFacts.outcome
    BY <1>0 DEF Course, Verdicts, Fallbacks
  <1>f. ASSUME pc \in Fallbacks, op = "decode", ~faulty, ~cancelled, UNCHANGED arguments,
               UNCHANGED <<op, info, verdict>>, pc' \in Fallbacks
        PROVE  Course'
    BY <1>c, <1>f, <1>k DEF Course, Fallbacks
  <1>n. ASSUME pc \in Fallbacks, op = "decode", ~faulty, ~cancelled, UNCHANGED arguments,
               FallbackReturns(Null, FALSE),
               ~file.webp.simple \/ AcceptableSize(file.webp.size, limits)
        PROVE  Course'
    <2>1. info' = info /\ verdict' = verdict /\ pc' = "settle" /\ op' = op
      BY <1>0, <1>n, FallbackAdopted
    <2>2. HeaderFacts.outcome \in {"Success"} \cup Undecided
      BY <1>c, <1>n
    <2>3. Foretold.outcome = "Success" \/ verdict = Foretold.outcome
      BY <1>0, <1>c, <1>n, <2>2, ForetoldFacts
    <2> QED
      BY <1>c, <1>k, <1>n, <2>1, <2>3 DEF Course, Fallbacks, Undecided
  <1>b. ASSUME pc \in Fallbacks, op = "decode", ~faulty, ~cancelled, UNCHANGED arguments,
               FallbackReturns(Null, TRUE), file.webp.simple, ~AcceptableSize(file.webp.size, limits)
        PROVE  Course'
    <2>1. info' = info /\ verdict' = "ResourceLimit" /\ pc' = "settle" /\ op' = op
      BY <1>0, <1>b, FallbackAdopted
    <2>2. HeaderFacts.outcome \in {"Success"} \cup Undecided
      BY <1>c, <1>b
    <2>3. Foretold.outcome \in {"Success", "ResourceLimit"}
      BY <1>0, <1>b, <2>2, ForetoldFacts
    <2> QED
      BY <1>c, <1>k, <1>b, <2>1, <2>3 DEF Course, Fallbacks
  <1>1. ASSUME NEW call \in {"inspect", "decode"}, Begin(call)
        PROVE  Course'
    BY <1>1 DEF Begin, Course, Fallbacks
  <1>2. CASE RequestCancel
    BY <1>2 DEF RequestCancel
  <1>3. CASE PollEntry
    <2>0. pc # "idle" /\ ~faulty /\ ~cancelled /\ UNCHANGED arguments
      BY <1>q, <1>3 DEF PollEntry
    <2> QED
      BY <1>0, <1>k, <1>3, <2>0 DEF PollEntry, Fail, Return, Course, Fallbacks, Undecided
  <1>4. CASE Prepare
    <2>0. pc # "idle" /\ ~faulty /\ ~cancelled /\ UNCHANGED arguments
      BY <1>q, <1>4 DEF Prepare
    <2> QED
      BY <1>0, <1>k, <1>4, <2>0 DEF Prepare, Fail, Return, Course, Fallbacks, Undecided
  <1>5. CASE Header
    <2>0. pc # "idle" /\ ~faulty /\ ~cancelled /\ UNCHANGED arguments
      BY <1>q, <1>5 DEF Header
    <2>1. info' = HeaderFacts /\ verdict' = info'.outcome /\ UNCHANGED op /\ pc = "header"
          /\ pc' = IF op = "inspect" THEN "gate" ELSE "poll"
      BY <1>w, <1>5, <2>0 DEF Header
    <2> QED
      BY <1>0, <1>k, <2>0, <2>1 DEF Course, Fallbacks
  <1>6. CASE Gate
    <2>0. pc # "idle" /\ ~faulty /\ ~cancelled /\ UNCHANGED arguments
      BY <1>q, <1>6 DEF Gate
    <2>1. /\ UNCHANGED <<op, info, verdict>> /\ op = "inspect" /\ pc = "gate"
          /\ pc' = IF verdict \in Undecided THEN "webp" ELSE "settle"
      BY <1>6, <2>0 DEF Gate
    <2>2. info = HeaderFacts /\ verdict = HeaderFacts.outcome /\ admitted
      BY <1>0, <2>0, <2>1 DEF Course, Known
    <2> QED
      BY <1>0, <1>k, <2>0, <2>1, <2>2, ForetoldFacts DEF Course, Fallbacks
  <1>7. CASE InspectSimpleWebP
    <2>0. pc # "idle" /\ ~faulty /\ ~cancelled /\ UNCHANGED arguments
      BY <1>q, <1>7 DEF InspectSimpleWebP
    <2>1. /\ UNCHANGED op /\ op = "inspect" /\ pc = "webp" /\ pc' = "settle"
          /\ info' = (IF file.webp.simple THEN WebPFacts ELSE info) /\ verdict' = info'.outcome
      BY <1>w, <1>7, <2>0 DEF InspectSimpleWebP
    <2>2. info = HeaderFacts /\ HeaderFacts.outcome \in Undecided /\ admitted
      BY <1>0, <2>0, <2>1 DEF Course, Known
    <2>3. info' = Foretold
      BY <1>0, <2>1, <2>2, ForetoldFacts
    <2> QED
      BY <1>k, <2>0, <2>1, <2>2, <2>3 DEF Course, Fallbacks
  <1>8. CASE SettleInspection
    <2>0. pc # "idle" /\ ~faulty /\ ~cancelled /\ UNCHANGED arguments
      BY <1>q, <1>8 DEF SettleInspection
    <2>1. verdict' = verdict /\ UNCHANGED <<op, info>> /\ op = "inspect" /\ pc = "settle" /\ pc' \in {"metadata", "final"}
      BY <1>0, <1>8, <2>0 DEF SettleInspection, Settled, Verdicts
    <2> QED
      BY <1>0, <1>k, <2>0, <2>1 DEF Course, Fallbacks
  <1>9. CASE NestedMetadata
    <2>0. pc # "idle" /\ ~faulty /\ ~cancelled /\ UNCHANGED arguments
      BY <1>q, <1>9 DEF NestedMetadata
    <2>1. UNCHANGED <<op, info, verdict>> /\ op = "inspect" /\ pc = "metadata" /\ pc' = "final"
      BY <1>9 DEF NestedMetadata
    <2> QED
      BY <1>0, <1>k, <2>0, <2>1 DEF Course, Fallbacks
  <1>10. CASE FinalInspection
    <2>1. pc' = "idle"
      BY <1>10 DEF FinalInspection, Return
    <2> QED
      BY <2>1
  <1>11. CASE PollHeader
    <2>0. pc # "idle" /\ ~faulty /\ ~cancelled /\ UNCHANGED arguments
      BY <1>q, <1>11 DEF PollHeader
    <2>1. /\ verdict' = verdict /\ UNCHANGED <<op, info>> /\ op = "decode" /\ pc = "poll"
          /\ pc' \in {"read", "guard"}
      BY <1>11, <2>0 DEF PollHeader, HeaderVerdict
    <2>2. info = HeaderFacts /\ verdict = HeaderFacts.outcome /\ admitted
      BY <1>0, <2>0, <2>1 DEF Course, Known
    <2> QED
      BY <1>k, <2>0, <2>1, <2>2 DEF Course, Fallbacks
  <1>12. CASE ReadFrame
    <2>0. pc # "idle" /\ ~faulty /\ ~cancelled /\ UNCHANGED arguments
      BY <1>q, <1>12 DEF ReadFrame
    <2>1. UNCHANGED <<op, info>> /\ op = "decode" /\ pc = "read" /\ pc' = "guard"
      BY <1>12 DEF ReadFrame
    <2>2. info = HeaderFacts /\ HeaderFacts.outcome = "Success" /\ admitted
      BY <1>0, <2>0, <2>1 DEF Course, Known
    <2> QED
      BY <1>k, <2>0, <2>1, <2>2 DEF Course, Fallbacks
  <1>13. CASE Guard
    <2>0. pc # "idle" /\ ~faulty /\ ~cancelled /\ UNCHANGED arguments
      BY <1>q, <1>13 DEF Guard
    <2>1. /\ UNCHANGED <<op, info, verdict>> /\ op = "decode" /\ pc = "guard"
          /\ pc' = IF verdict \in Undecided THEN "fallback" ELSE "settle"
      BY <1>0, <1>13, <2>0 DEF Guard, Verdicts
    <2>2. /\ info = HeaderFacts /\ admitted
          /\ HeaderFacts.outcome = "Success" \/ verdict = HeaderFacts.outcome
      BY <1>0, <2>0, <2>1 DEF Course
    <2>3. CASE pc' = "fallback"
      BY <1>k, <2>0, <2>1, <2>2, <2>3 DEF Course, Fallbacks
    <2>4. CASE pc' = "settle"
      <3>1. Foretold = HeaderFacts
        BY <1>0, <2>1, <2>2, <2>4, ForetoldFacts
      <3> QED
        BY <1>k, <2>0, <2>1, <2>2, <2>4, <3>1 DEF Course, Fallbacks
    <2> QED
      BY <2>1, <2>3, <2>4
  <1>14. CASE FallbackEntry
    <2>0. pc # "idle" /\ ~faulty /\ ~cancelled /\ UNCHANGED arguments
      BY <1>q, <1>14 DEF FallbackEntry
    <2>1. op = "decode" /\ pc \in Fallbacks
      BY <1>14 DEF FallbackEntry, Fallbacks
    <2>2. CASE FallbackGoes("fetch")
      BY <1>f, <2>0, <2>1, <2>2 DEF FallbackGoes, Fallbacks
    <2> QED
      BY <1>14, <2>0, <2>2 DEF FallbackEntry
  <1>15. CASE Fetch
    <2>0. pc # "idle" /\ ~faulty /\ ~cancelled /\ UNCHANGED arguments
      BY <1>q, <1>15 DEF Fetch
    <2>1. op = "decode" /\ pc \in Fallbacks
      BY <1>15 DEF Fetch, Fallbacks
    <2>2. CASE FallbackGoes("examine")
      BY <1>f, <2>0, <2>1, <2>2 DEF FallbackGoes, Fallbacks
    <2>3. CASE ~file.webp.simple /\ FallbackReturns(Null, FALSE)
      BY <1>n, <2>0, <2>1, <2>3
    <2> QED
      BY <1>w, <1>15, <2>0, <2>2, <2>3 DEF Fetch
  <1>16. CASE Examine
    <2>0. pc # "idle" /\ ~faulty /\ ~cancelled /\ UNCHANGED arguments
      BY <1>q, <1>16 DEF Examine
    <2>1. op = "decode" /\ pc \in Fallbacks
      BY <1>16 DEF Examine, Fallbacks
    <2>2. CASE FallbackGoes("allocate")
      BY <1>f, <2>0, <2>1, <2>2 DEF FallbackGoes, Fallbacks
    <2>3. CASE ~file.webp.simple /\ FallbackReturns(Null, FALSE)
      BY <1>n, <2>0, <2>1, <2>3
    <2>4. CASE FallbackReturns(Null, TRUE) /\ file.webp.simple /\ ~AcceptableSize(file.webp.size, limits)
      BY <1>b, <2>0, <2>1, <2>4
    <2> QED
      BY <1>16, <2>0, <2>2, <2>3, <2>4, ExamineReturns
  <1>17. CASE PollAllocate
    <2>0. pc # "idle" /\ ~faulty /\ ~cancelled /\ UNCHANGED arguments
      BY <1>q, <1>17 DEF PollAllocate
    <2>1. op = "decode" /\ pc \in Fallbacks
      BY <1>17 DEF PollAllocate, Fallbacks
    <2>2. CASE FallbackGoes("pixels")
      BY <1>f, <2>0, <2>1, <2>2 DEF FallbackGoes, Fallbacks
    <2> QED
      BY <1>17, <2>0, <2>2 DEF PollAllocate
  <1>18. CASE DecodePixels
    <2>0. pc # "idle" /\ ~faulty /\ ~cancelled /\ UNCHANGED arguments
      BY <1>q, <1>18 DEF DecodePixels
    <2>1. op = "decode" /\ pc \in Fallbacks
      BY <1>18 DEF DecodePixels, Fallbacks
    <2>2. CASE FallbackGoes("keep")
      BY <1>f, <2>0, <2>1, <2>2 DEF FallbackGoes, Fallbacks
    <2>3. CASE FallbackReturns(Null, FALSE)
      <3>1. file.webp.simple /\ AcceptableSize(file.webp.size, limits)
        BY <1>0, <1>18 DEF DecodePixels, Known
      <3> QED
        BY <1>n, <2>0, <2>1, <2>3, <3>1
    <2> QED
      BY <1>18, <2>2, <2>3 DEF DecodePixels
  <1>19. CASE Keep
    <2>0. pc # "idle" /\ ~faulty /\ ~cancelled /\ UNCHANGED arguments
      BY <1>q, <1>19 DEF Keep
    <2>1. op = "decode" /\ pc \in Fallbacks
      BY <1>19 DEF Keep, Fallbacks
    <2>2. file.webp.simple /\ AcceptableSize(file.webp.size, limits)
      BY <1>0, <1>19 DEF Keep, Known
    <2>3. HasArea(file.webp.size)
      BY <1>0, <2>2, FileTyped, AcceptableHasArea
    <2>4. FallbackReturns(Frame(file.webp.size, 4), FALSE)
      BY <1>19, <2>0 DEF Keep
    <2>5. info' = [format |-> "webp", size |-> file.webp.size, oriented |-> file.webp.size,
                   turned |-> info.turned, outcome |-> "Success"]
          /\ pc' = "settle" /\ op' = op
      <3> DEFINE frame == Frame(file.webp.size, 4)
      <3>1. frame # Null /\ frame = Frame(file.webp.size, 4)
        BY <2>3, FrameOfSize
      <3>2. FallbackReturns(frame, FALSE)
        BY <2>4
      <3> HIDE DEF frame
      <3> QED
        BY <1>0, <2>1, <2>3, <3>1, <3>2, FallbackAdopted
    <2>6. Foretold = info' /\ Foretold.outcome = "Success"
      BY <1>0, <1>c, <2>0, <2>1, <2>2, <2>5, ForetoldFacts
    <2>7. admitted
      BY <1>c, <2>0, <2>1
    <2> QED
      BY <1>k, <2>0, <2>1, <2>5, <2>6, <2>7 DEF Course, Fallbacks
  <1>20. CASE SettleDecode
    <2>0. pc # "idle" /\ ~faulty /\ ~cancelled /\ UNCHANGED arguments
      BY <1>q, <1>20 DEF SettleDecode
    <2>1. /\ UNCHANGED <<op, info>> /\ op = "decode" /\ pc = "settle" /\ pc' \in {"scale", "final"}
          /\ verdict' = verdict \/ (verdict = "Success" /\ verdict' = "ResourceLimit")
      BY <1>0, <1>20, <2>0 DEF SettleDecode, Settled, Verdicts
    <2> QED
      BY <1>0, <1>k, <2>0, <2>1 DEF Course, Fallbacks
  <1>21. CASE Scale
    <2>0. pc # "idle" /\ ~faulty /\ ~cancelled /\ UNCHANGED arguments
      BY <1>q, <1>21 DEF Scale
    <2>1. UNCHANGED <<op, info, verdict>> /\ op = "decode" /\ pc = "scale" /\ pc' = "final"
      BY <1>21 DEF Scale
    <2> QED
      BY <1>0, <1>k, <2>0, <2>1 DEF Course, Fallbacks
  <1>22. CASE FinalDecode
    <2>1. pc' = "idle"
      BY <1>22 DEF FinalDecode, Return
    <2> QED
      BY <2>1
  <1>23. CASE UNCHANGED vars
    <2>1. UNCHANGED <<arguments, op, pc, verdict, info, faulty, cancelled>>
      BY <1>23 DEF vars, arguments
    <2> QED
      BY <1>s, <2>1
  <1> QED
    BY <1>1, <1>2, <1>3, <1>4, <1>5, <1>6, <1>7, <1>8, <1>9, <1>10, <1>11, <1>12, <1>13, <1>14, <1>15,
       <1>16, <1>17, <1>18, <1>19, <1>20, <1>21, <1>22, <1>23
       DEF Next, Step, Inspect, Decode, Fallback, Terminating

\* A return that says what was foretold keeps the answers true.
LEMMA ReturnTold ==
    ASSUME Told, Shape, op \in Calls, UNCHANGED arguments, NEW o, NEW frame, NEW fault,
           Return(o, frame, fault),
           ~faulty' /\ ~cancelled =>
               IF ~admitted THEN o = "ResourceLimit"
               ELSE IF op = "inspect" THEN o = Foretold.outcome /\ info = Foretold
               ELSE /\ o = "Success" => info = Foretold
                    /\ Foretold.outcome = "Success" \/ o = Foretold.outcome
    PROVE  Told'
  <1>1. /\ answers'[op].outcome = o /\ answers'[op].info = info
        /\ answers'[op].clean => ~faulty' /\ ~cancelled
        /\ \A call \in Calls \ {op} : answers'[call] = answers[call]
    BY ReturnAnswers
  <1>2. Foretold' = Foretold /\ admitted' = admitted
    BY ArgumentsKept DEF arguments
  <1>3. CASE op = "inspect"
    <2>1. Decoded' = Decoded /\ Inspected' = answers'[op]
      BY <1>1, <1>3 DEF Inspected, Decoded, Calls
    <2> QED
      BY <1>1, <1>2, <1>3, <2>1 DEF Told
  <1>4. CASE op = "decode"
    <2>1. Inspected' = Inspected /\ Decoded' = answers'[op]
      BY <1>1, <1>4 DEF Inspected, Decoded, Calls
    <2> QED
      BY <1>1, <1>2, <1>4, <2>1 DEF Told
  <1> QED
    BY <1>3, <1>4 DEF Calls

\* Every answer of an undisturbed call says what was foretold.
LEMMA NextTold == IInv /\ [Next]_vars => Told'
  <1> SUFFICES ASSUME IInv, [Next]_vars PROVE Told'
    OBVIOUS
  <1>0. Told /\ Course /\ Shape /\ TypeOK /\ Verdicts
    BY DEF IInv
  <1>a. ASSUME UNCHANGED arguments, UNCHANGED answers PROVE Told'
    <2>1. Foretold' = Foretold /\ admitted' = admitted /\ Inspected' = Inspected /\ Decoded' = Decoded
      BY <1>a, ArgumentsKept DEF arguments, Inspected, Decoded
    <2> QED
      BY <1>0, <2>1 DEF Told
  <1>o. pc # "idle" => op \in Calls
    BY <1>0 DEF TypeOK, Calls
  <1> USE DEF Goto, At, FallbackReturns, FallbackGoes
  <1>1. ASSUME NEW call \in {"inspect", "decode"}, Begin(call)
        PROVE  Told'
    BY <1>a, <1>1 DEF Begin
  <1>2. CASE RequestCancel
    BY <1>a, <1>2 DEF RequestCancel
  <1>3. CASE PollEntry
    <2>1. CASE cancelled
      <3>1. Return("Cancelled", Null, FALSE) /\ pc # "idle" /\ UNCHANGED arguments
        BY <1>3, <2>1 DEF PollEntry, Fail
      <3> QED
        BY <1>0, <1>o, <2>1, <3>1, ReturnTold
    <2>2. CASE ~cancelled
      BY <1>a, <1>3, <2>2 DEF PollEntry
    <2> QED
      BY <2>1, <2>2
  <1>4. CASE Prepare
    <2>1. pc # "idle" /\ UNCHANGED arguments
      BY <1>4 DEF Prepare
    <2>2. \/ Return("IoFailure", Null, TRUE)
          \/ ~admitted /\ Return("ResourceLimit", Null, FALSE)
          \/ UNCHANGED answers
      BY <1>4 DEF Prepare, Fail
    <2>3. CASE Return("IoFailure", Null, TRUE)
      <3>1. faulty'
        BY <2>3 DEF Return
      <3> QED
        BY <1>0, <1>o, <2>1, <2>3, <3>1, ReturnTold
    <2>4. CASE ~admitted /\ Return("ResourceLimit", Null, FALSE)
      BY <1>0, <1>o, <2>1, <2>4, ReturnTold
    <2> QED
      BY <1>a, <2>1, <2>2, <2>3, <2>4
  <1>5. CASE Header
    BY <1>a, <1>5 DEF Header
  <1>6. CASE Gate
    BY <1>a, <1>6 DEF Gate
  <1>7. CASE InspectSimpleWebP
    BY <1>a, <1>7 DEF InspectSimpleWebP
  <1>8. CASE SettleInspection
    BY <1>a, <1>8 DEF SettleInspection
  <1>9. CASE NestedMetadata
    BY <1>a, <1>9 DEF NestedMetadata
  <1>10. CASE FinalInspection
    <2>1. op = "inspect" /\ pc = "final" /\ UNCHANGED arguments
      BY <1>10 DEF FinalInspection
    <2>2. PICK o : /\ o = (IF cancelled THEN "Cancelled" ELSE verdict)
                   /\ Return(o, Null, FALSE)
      BY <1>10 DEF FinalInspection
    <2>3. ~faulty' /\ ~cancelled => admitted /\ o = Foretold.outcome /\ info = Foretold
      <3>1. ~faulty' => ~faulty
        BY <2>2 DEF Return
      <3> QED
        BY <1>0, <2>1, <2>2, <3>1 DEF Course
    <2> QED
      BY <1>0, <1>o, <2>1, <2>2, <2>3, ReturnTold
  <1>11. CASE PollHeader
    BY <1>a, <1>11 DEF PollHeader
  <1>12. CASE ReadFrame
    BY <1>a, <1>12 DEF ReadFrame
  <1>13. CASE Guard
    BY <1>a, <1>13 DEF Guard
  <1>14. CASE FallbackEntry
    BY <1>a, <1>14 DEF FallbackEntry
  <1>15. CASE Fetch
    BY <1>a, <1>15 DEF Fetch
  <1>16. CASE Examine
    BY <1>a, <1>16, ExamineReturns DEF Examine
  <1>17. CASE PollAllocate
    BY <1>a, <1>17 DEF PollAllocate
  <1>18. CASE DecodePixels
    BY <1>a, <1>18 DEF DecodePixels
  <1>19. CASE Keep
    BY <1>a, <1>19 DEF Keep
  <1>20. CASE SettleDecode
    BY <1>a, <1>20 DEF SettleDecode
  <1>21. CASE Scale
    BY <1>a, <1>21 DEF Scale
  <1>22. CASE FinalDecode
    <2>1. op = "decode" /\ pc = "final" /\ UNCHANGED arguments
      BY <1>22 DEF FinalDecode
    <2>2. PICK o, frame : /\ o = (IF cancelled THEN "Cancelled" ELSE verdict)
                          /\ Return(o, frame, FALSE)
      BY <1>22 DEF FinalDecode
    <2>3. ~faulty' /\ ~cancelled =>
              /\ admitted
              /\ o = "Success" => info = Foretold
              /\ Foretold.outcome = "Success" \/ o = Foretold.outcome
      <3>1. ~faulty' => ~faulty
        BY <2>2 DEF Return
      <3> QED
        BY <1>0, <2>1, <2>2, <3>1 DEF Course
    <2> QED
      BY <1>0, <1>o, <2>1, <2>2, <2>3, ReturnTold
  <1>23. CASE UNCHANGED vars
    BY <1>a, <1>23 DEF vars, arguments
  <1> QED
    BY <1>1, <1>2, <1>3, <1>4, <1>5, <1>6, <1>7, <1>8, <1>9, <1>10, <1>11, <1>12, <1>13, <1>14, <1>15,
       <1>16, <1>17, <1>18, <1>19, <1>20, <1>21, <1>22, <1>23
       DEF Next, Step, Inspect, Decode, Fallback, Terminating

\* Every step keeps the invariant.
LEMMA NextIInv == IInv /\ [Next]_vars => IInv'
  <1> QED
    BY NextShape, NextKnown, NextLatency, NextVerdicts, NextDelivery, NextAnswers, NextCourse, NextTold
       DEF IInv

\* The invariant holds throughout both calls.
THEOREM Invariance == Spec => []IInv
  <1> QED
    BY InitIInv, NextIInv, PTL DEF Spec

-----------------------------------------------------------------------------
(* What it says of inspect and decode                                      *)

\* Every variable has its type: in particular no frame without pixels is ever
\* scaled, and a call is always at one of its own points.
THEOREM TypeCorrect == Spec => []TypeOK
  <1>1. IInv => TypeOK
    BY DEF IInv
  <1> QED
    BY Invariance, <1>1, PTL

\* Once the flag is set, at most one more expensive step is begun.
THEOREM CancelsPromptly == Spec => []CancelLatency
  <1>1. IInv => CancelLatency
    BY DEF IInv, Latency, CancelLatency
  <1> QED
    BY Invariance, <1>1, PTL

\* The image of a successful decode is within the limits and the bound,
\* whichever decoder produced it, and though the last scaling widens pixels.
THEOREM LimitsKept == Spec => []SuccessWithinLimits
  <1>1. IInv => SuccessWithinLimits
    BY DEF IInv, Answers
  <1> QED
    BY Invariance, <1>1, PTL

\* A frame of the size its header promised is delivered upright, at the size
\* that fits the bound.
THEOREM PromiseKept == Spec => []PromisedSize
  <1>1. IInv => PromisedSize
    BY DEF IInv, Answers
  <1> QED
    BY Invariance, <1>1, PTL

\* What inspect turns away, decode turns away with the same outcome, and what
\* both accept has the same header facts.
THEOREM InspectionForetells == Spec => []InspectForetellsDecode
  <1>1. IInv => InspectForetellsDecode
    <2> SUFFICES ASSUME IInv, Inspected.clean, Decoded.clean
                 PROVE  /\ Inspected.outcome # "Success" => Decoded.outcome = Inspected.outcome
                        /\ Decoded.outcome = "Success" =>
                               [Decoded.info EXCEPT !.outcome = "Success"] = Inspected.info
      BY DEF InspectForetellsDecode
    <2>1. Told /\ Shape
      BY DEF IInv
    <2>2. CASE ~admitted
      BY <2>1, <2>2 DEF Told
    <2>3. CASE admitted
      <3>1. Inspected.outcome # "Success" => Decoded.outcome = Inspected.outcome
        BY <2>1, <2>3 DEF Told
      <3>2. ASSUME Decoded.outcome = "Success"
            PROVE  [Decoded.info EXCEPT !.outcome = "Success"] = Inspected.info
        <4>1. Foretold.outcome = "Success" /\ Decoded.info = Foretold /\ Inspected.info = Foretold
          BY <2>1, <2>3, <3>2 DEF Told
        <4>2. Foretold \in Facts
          <5>1. HeaderFacts \in Facts
            BY <2>1, HeaderFactsTyped
          <5> QED
            BY <2>1, <5>1, FileTyped DEF Foretold, Facts, Names, Outcomes
        <4>3. [Foretold EXCEPT !.outcome = "Success"] = Foretold
          BY <4>1, <4>2 DEF Facts
        <4> QED
          BY <4>1, <4>3
      <3> QED
        BY <3>1, <3>2
    <2> QED
      BY <2>2, <2>3
  <1> QED
    BY Invariance, <1>1, PTL

-----------------------------------------------------------------------------
(* The refinement                                                          *)

Answered == \E call \in DOMAIN answers : answers[call] # NoAnswer

\* Initial states map to initial states.
LEMMA InitRefines == Init => Contract!Init
  <1> SUFFICES ASSUME Init PROVE Contract!Init
    OBVIOUS
  <1>1. pc = "idle" /\ image = Null /\ cancelled = FALSE /\ faulty = FALSE /\ ~Answered
    BY DEF Init, Answered
  <1>2. (pc = "idle" /\ image # Null) = FALSE
    BY <1>1
  <1> QED
    BY <1>1, <1>2 DEF Contract!Init, Contract!NoOutcome, NoOutcome, Answered

\* A return is a return of the contract, if its outcome keeps the promise.
LEMMA ReturnRefines ==
    ASSUME TypeOK, Shape, pc # "idle", NEW o \in Outcomes, NEW frame, NEW fault, Return(o, frame, fault),
           UNCHANGED cancelled, faulty' \in BOOLEAN, faulty => faulty',
           frame # Null => o = "Success",
           o = "Success" => ~cancelled,
           o = "Cancelled" => cancelled,
           faulty' => o \in {"IoFailure", "Cancelled"},
           o = "IoFailure" => faulty'
    PROVE  Contract!Return
  <1>1. op \in Calls
    BY DEF TypeOK, Calls
  <1>2. pc' = "idle" /\ verdict' = o /\ image' = frame /\ answers'[op].outcome = o
        /\ answers' = [call \in Calls |-> answers'[call]]
    BY <1>1, ReturnAnswers
  <1>3. answers'[op] # NoAnswer /\ op \in DOMAIN answers'
    BY <1>1, <1>2 DEF NoAnswer, NoOutcome, Outcomes
  <1>4. Answered'
    BY <1>3 DEF Answered
  <1>5. (pc' = "idle" /\ image' # Null) = (frame # Null)
    BY <1>2
  <1>6. faulty' \in {faulty, TRUE}
    BY DEF TypeOK
  <1> QED
    BY <1>2, <1>4, <1>5, <1>6 DEF Contract!Return, Contract!Promise, Contract!Outcomes, Outcomes, Answered

\* A step inside a call is a fault of the device for the contract, or nothing.
LEMMA InnerStepRefines ==
    ASSUME pc # "idle", pc' # "idle", UNCHANGED cancelled, faulty' = faulty \/ faulty' = TRUE
    PROVE  Contract!DeviceFault \/ UNCHANGED Contract!vars
  BY DEF Contract!DeviceFault, Contract!vars

ContractStep == Contract!Next \/ UNCHANGED Contract!vars

\* Every step maps to a step of the contract or to a stutter.
LEMMA NextRefines == IInv /\ IInv' /\ [Next]_vars => [Contract!Next]_(Contract!vars)
  <1> SUFFICES ASSUME IInv, IInv', [Next]_vars PROVE [Contract!Next]_(Contract!vars)
    OBVIOUS
  <1> SUFFICES ContractStep
    BY DEF ContractStep
  <1>0. TypeOK /\ Shape /\ Verdicts /\ FlagsOK /\ FlagsOK'
    BY DEF IInv, TypeOK, FlagsOK
  <1>b. faulty' \in BOOLEAN /\ cancelled' \in BOOLEAN /\ cancelled \in BOOLEAN
    BY <1>0 DEF FlagsOK
  <1>i. ASSUME pc # "idle", pc' # "idle", UNCHANGED cancelled,
               UNCHANGED faulty \/ DeviceWorks \/ DeviceFails
        PROVE  ContractStep
    BY <1>i, InnerStepRefines DEF ContractStep, Contract!Next, DeviceWorks, DeviceFails
  <1>r. Contract!Return => ContractStep
    BY DEF ContractStep, Contract!Next
  <1> USE DEF At, Goto, FallbackGoes, FallbackReturns, AfterFallback
  <1>1. ASSUME NEW call \in {"inspect", "decode"}, Begin(call)
        PROVE  ContractStep
    <2>1. pc = "idle" /\ pc' = "entry" /\ cancelled' \in BOOLEAN /\ faulty' = FALSE
      BY <1>1 DEF Begin
    <2>2. (pc' = "idle" /\ image' # Null) = FALSE
      BY <2>1
    <2>3. Contract!Begin
      BY <2>1, <2>2 DEF Contract!Begin, Contract!NoOutcome, NoOutcome
    <2> QED
      BY <2>3 DEF ContractStep, Contract!Next
  <1>2. CASE RequestCancel
    <2>1. Contract!RequestCancel
      BY <1>2 DEF RequestCancel, Contract!RequestCancel
    <2> QED
      BY <2>1 DEF ContractStep, Contract!Next
  <1>3. CASE PollEntry
    <2>1. CASE cancelled
      <3>1. Return("Cancelled", Null, FALSE) /\ pc = "entry" /\ UNCHANGED cancelled
        BY <1>3, <2>1 DEF PollEntry, Fail
      <3>2. faulty => faulty'
        BY <3>1 DEF Return
      <3> QED
        BY <1>0, <1>b, <1>r, <2>1, <3>1, <3>2, ReturnRefines DEF Outcomes
    <2>2. CASE ~cancelled
      BY <1>i, <1>3, <2>2 DEF PollEntry
    <2> QED
      BY <2>1, <2>2
  <1>4. CASE Prepare
    <2>0. pc = "prepare" /\ ~faulty /\ UNCHANGED cancelled
      BY <1>0, <1>4 DEF Prepare, Verdicts
    <2>1. CASE Return("IoFailure", Null, TRUE)
      <3>1. faulty'
        BY <2>1 DEF Return
      <3> QED
        BY <1>0, <1>b, <1>r, <2>0, <2>1, <3>1, ReturnRefines DEF Outcomes
    <2>2. CASE Return("ResourceLimit", Null, FALSE)
      <3>1. ~faulty'
        BY <2>0, <2>2 DEF Return
      <3> QED
        BY <1>0, <1>b, <1>r, <2>0, <2>2, <3>1, ReturnRefines DEF Outcomes
    <2>3. CASE pc' = "header" /\ UNCHANGED faulty
      BY <1>i, <2>0, <2>3
    <2> QED
      BY <1>4, <2>1, <2>2, <2>3 DEF Prepare, Fail
  <1>5. CASE Header
    BY <1>i, <1>5 DEF Header
  <1>6. CASE Gate
    BY <1>i, <1>6 DEF Gate
  <1>7. CASE InspectSimpleWebP
    BY <1>i, <1>7 DEF InspectSimpleWebP
  <1>8. CASE SettleInspection
    BY <1>i, <1>8 DEF SettleInspection
  <1>9. CASE NestedMetadata
    BY <1>i, <1>9 DEF NestedMetadata
  <1>10. CASE FinalInspection
    <2>0. pc = "final" /\ UNCHANGED cancelled
      BY <1>10 DEF FinalInspection
    <2>1. PICK o, frame : /\ o = (IF cancelled THEN "Cancelled" ELSE verdict)
                          /\ frame # Null => o = "Success"
                          /\ Return(o, frame, FALSE)
      BY <1>10 DEF FinalInspection
    <2>2. /\ o \in Outcomes
          /\ o = "Success" => ~cancelled
          /\ o = "Cancelled" => cancelled
          /\ faulty => o \in {"IoFailure", "Cancelled"}
          /\ o = "IoFailure" => faulty
      BY <1>0, <2>0, <2>1 DEF Verdicts, TypeOK, Outcomes
    <2>3. (faulty => faulty') /\ (faulty' => faulty)
      BY <2>1 DEF Return
    <2> QED
      BY <1>0, <1>b, <1>r, <2>0, <2>1, <2>2, <2>3, ReturnRefines
  <1>11. CASE PollHeader
    BY <1>i, <1>11 DEF PollHeader
  <1>12. CASE ReadFrame
    BY <1>i, <1>12 DEF ReadFrame
  <1>13. CASE Guard
    BY <1>i, <1>13 DEF Guard
  <1>14. CASE FallbackEntry
    BY <1>i, <1>14 DEF FallbackEntry
  <1>15. CASE Fetch
    BY <1>i, <1>15 DEF Fetch
  <1>16. CASE Examine
    BY <1>i, <1>16, ExamineReturns DEF Examine
  <1>17. CASE PollAllocate
    BY <1>i, <1>17 DEF PollAllocate
  <1>18. CASE DecodePixels
    BY <1>i, <1>18 DEF DecodePixels
  <1>19. CASE Keep
    BY <1>i, <1>19 DEF Keep
  <1>20. CASE SettleDecode
    BY <1>i, <1>20 DEF SettleDecode
  <1>21. CASE Scale
    BY <1>i, <1>21 DEF Scale
  <1>22. CASE FinalDecode
    <2>0. pc = "final" /\ UNCHANGED cancelled
      BY <1>22 DEF FinalDecode
    <2>1. PICK o, frame : /\ o = (IF cancelled THEN "Cancelled" ELSE verdict)
                          /\ frame # Null => o = "Success"
                          /\ Return(o, frame, FALSE)
      BY <1>22 DEF FinalDecode
    <2>2. /\ o \in Outcomes
          /\ o = "Success" => ~cancelled
          /\ o = "Cancelled" => cancelled
          /\ faulty => o \in {"IoFailure", "Cancelled"}
          /\ o = "IoFailure" => faulty
      BY <1>0, <2>0, <2>1 DEF Verdicts, TypeOK, Outcomes
    <2>3. (faulty => faulty') /\ (faulty' => faulty)
      BY <2>1 DEF Return
    <2> QED
      BY <1>0, <1>b, <1>r, <2>0, <2>1, <2>2, <2>3, ReturnRefines
  <1>23. CASE UNCHANGED vars
    <2>1. UNCHANGED Contract!vars
      BY <1>23 DEF vars, Contract!vars
    <2> QED
      BY <2>1 DEF ContractStep
  <1> QED
    BY <1>1, <1>2, <1>3, <1>4, <1>5, <1>6, <1>7, <1>8, <1>9, <1>10, <1>11, <1>12, <1>13, <1>14, <1>15,
       <1>16, <1>17, <1>18, <1>19, <1>20, <1>21, <1>22, <1>23
       DEF Next, Step, Inspect, Decode, Fallback, Terminating

\* Every behaviour of inspect and decode is one the contract allows.
THEOREM Refinement == Spec => ImplementsContract
  <1>1. Spec => Contract!Init /\ [][Contract!Next]_(Contract!vars)
    BY InitRefines, NextRefines, Invariance, PTL DEF Spec
  <1> QED
    BY <1>1, PTL DEF ImplementsContract, Contract!Spec

=============================================================================
