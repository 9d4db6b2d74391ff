------------------------------ MODULE SvgCalls ------------------------------
(***************************************************************************)
(* inspectSvg and rasterizeSvg (src/svg.cpp): the resource policy is judged*)
(* over the whole document before a renderer sees a byte of it, and again  *)
(* for every call.  A document is the sequence of tokens the XML reader    *)
(* yields, each with what the policy's string matching makes of it.  One   *)
(* step is one poll of the flag or one expensive call of the renderer, with*)
(* the local code behind it.                                               *)
(***************************************************************************)
EXTENDS Geometry, Sequences, SequencesExt

CONSTANTS
    Documents,    \* [tokens, loads, facts]: tokens, whether Qt loads them, declared sizes
    Bounds,       \* SvgRenderOptions::bound
    OutputBudgets \* SvgRenderOptions::outputBytes

ReferenceKinds == {"Fragment", "EmbeddedRaster", "LocalFile", "External", "Invalid"}
Reasons == {"None", "LocalImageReference", "ExternalReference", "Stylesheet",
            "EntityDeclaration", "UnsupportedCss", "InvalidEmbeddedImage"}

\* A reference is a fragment, "data:" or something for QUrl, with what the code
\* asks of each: whether the scheme is in lower case, an image type and base64
\* are declared, the text is base64, the bytes are of that type, and decode;
\* whether it is a URL at all, relative, of a local file, and names a host.
Fragment == [form |-> "fragment"]
Data(lower, declared, base64, matching, decodes) ==
    [form |-> "data", lower |-> lower, declared |-> declared, base64 |-> base64,
     matching |-> matching, decodes |-> decodes]
Url(valid, relative, file, host) ==
    [form |-> "url", valid |-> valid, relative |-> relative, file |-> file, host |-> host]

\* A check is one attribute or style element the policy looks at: a href or
\* src, an xml:base or an animated reference, or CSS text.
Href(ref, image) == [what |-> "href", ref |-> ref, image |-> image]
Redirect == [what |-> "redirect"]
\* CSS text: with an escape or an open comment, with an @import, with url()
\* references of these kinds, ending in a url( that is never closed.
Css(opaque, import, urls, cut) ==
    [what |-> "css", opaque |-> opaque, import |-> import, urls |-> urls, cut |-> cut]

\* An attribute width or height: absent or empty, a length in pixels, or one
\* the code cannot read as such (50%, 2em).
Absent == [unit |-> "none"]
Pixels(n) == [unit |-> "px", value |-> n]
Relative == [unit |-> "other"]

Dtd(entities) == [what |-> "dtd", entities |-> entities]
StylesheetInstruction == [what |-> "instruction"]
Element(svg, checks) == [what |-> "element", svg |-> svg, checks |-> checks]
OtherToken == [what |-> "other"]
XmlError == [what |-> "error"]

ReferenceType ==
    [form : {"fragment"}]
    \cup [form : {"data"}, lower : BOOLEAN, declared : BOOLEAN, base64 : BOOLEAN,
          matching : BOOLEAN, decodes : BOOLEAN]
    \cup [form : {"url"}, valid : BOOLEAN, relative : BOOLEAN, file : BOOLEAN, host : BOOLEAN]
CheckType ==
    [what : {"href"}, ref : ReferenceType, image : BOOLEAN]
    \cup [what : {"redirect"}]
    \cup [what : {"css"}, opaque : BOOLEAN, import : BOOLEAN, urls : Seq(ReferenceType), cut : BOOLEAN]
TokenType ==
    [what : {"dtd"}, entities : BOOLEAN]
    \cup [what : {"element"}, svg : BOOLEAN, checks : Seq(CheckType)]
    \cup [what : {"instruction", "other", "error"}]
Sizes == [w : Int, h : Int]
LengthType == [unit : {"none", "other"}] \cup [unit : {"px"}, value : Int]
FactType == [default : Sizes, viewBox : Sizes, boxed : BOOLEAN, width : LengthType, height : LengthType]
DocumentType == [tokens : Seq(TokenType), loads : BOOLEAN, facts : FactType]

\* The reader stops at an error, and a document without a root element is one.
ASSUME DocumentsAssumption ==
    \A document \in Documents :
        LET tokens == document.tokens
        IN  /\ document \in DocumentType
            /\ \A i \in DOMAIN tokens : tokens[i] = XmlError => i = Len(tokens)
            /\ \E i \in DOMAIN tokens : tokens[i].what \in {"element", "error"}
ASSUME BoundsAssumption == Bounds \subseteq Sizes
ASSUME OutputAssumption == OutputBudgets \subseteq Int

VARIABLES
    document,  \* the bytes of the caller
    op,        \* "inspect" or "rasterize"
    bound, outputBytes,
    pc,        \* the next access
    cancelled, \* the caller's flag
    read,      \* tokens read
    root,      \* the root element was read
    outcome,   \* SvgInspection::outcome of the result being built
    reason,    \* SvgInspection::resourceReason
    size,      \* the pixel size of the image being rendered
    image,     \* the returned image has pixels
    loaded,    \* history: a renderer was given the document
    late       \* history: expensive calls begun after the flag was set

vars == <<document, op, bound, outputBytes, pc, cancelled, read, root, outcome, reason, size,
          image, loaded, late>>
arguments == <<document, op, bound, outputBytes>>

Init ==
    /\ document \in Documents
    /\ op \in {"inspect", "rasterize"}
    /\ bound \in Bounds
    /\ outputBytes \in OutputBudgets
    /\ pc = "entry"
    /\ cancelled \in BOOLEAN
    /\ read = 0
    /\ root = FALSE
    /\ outcome = "Damaged"
    /\ reason = "None"
    /\ size = Empty
    /\ image = FALSE
    /\ loaded = FALSE
    /\ late = 0

-----------------------------------------------------------------------------
(* The policy                                                              *)

\* Fault: the trial decode is left to Qt.
EmbeddableUndecoded(ref) == ref.lower /\ ref.declared /\ ref.base64 /\ ref.matching

\* What classifySvgReference demands of data before it calls it an image.
Embeddable(ref) == ref.lower /\ ref.declared /\ ref.base64 /\ ref.matching /\ ref.decodes

\* classifySvgReference
Classify(ref) ==
    CASE ref.form = "fragment" -> "Fragment"
      [] ref.form = "data" -> IF Embeddable(ref) THEN "EmbeddedRaster" ELSE "Invalid"
      [] ref.form = "url" /\ ~ref.valid -> "Invalid"
      [] ref.form = "url" /\ ref.valid ->
             IF (ref.relative \/ ref.file) /\ ~ref.host THEN "LocalFile" ELSE "External"

\* reference: what a reference of this kind is rejected for, if it is.
ReferenceReasons(kind, isImage) ==
    CASE kind = "Fragment" -> IF isImage THEN <<"ExternalReference">> ELSE <<>>
      [] kind = "EmbeddedRaster" -> IF isImage THEN <<>> ELSE <<"ExternalReference">>
      [] kind = "LocalFile" -> IF isImage THEN <<"LocalImageReference">> ELSE <<"ExternalReference">>
      [] kind = "External" -> <<"ExternalReference">>
      [] kind = "Invalid" -> <<"InvalidEmbeddedImage">>

\* css: the first of the conservative rules, or every url() in turn.
CssReasons(css) ==
    CASE css.opaque -> <<"UnsupportedCss">>
      [] ~css.opaque /\ css.import -> <<"Stylesheet">>
      [] OTHER -> FlattenSeq([i \in DOMAIN css.urls |-> ReferenceReasons(Classify(css.urls[i]), FALSE)])
                  \o (IF css.cut THEN <<"UnsupportedCss">> ELSE <<>>)

CheckReasons(check) ==
    CASE check.what = "href" -> ReferenceReasons(Classify(check.ref), check.image)
      [] check.what = "redirect" -> <<"ExternalReference">>
      [] check.what = "css" -> CssReasons(check)

\* Everything a token is rejected for, in the order of the code.
TokenReasons(token) ==
    CASE token.what = "dtd" -> IF token.entities THEN <<"EntityDeclaration">> ELSE <<>>
      [] token.what = "instruction" -> <<"Stylesheet">>
      [] token.what = "element" ->
             FlattenSeq([i \in DOMAIN token.checks |-> CheckReasons(token.checks[i])])
      [] OTHER -> <<>>

\* Fault: the first reason stays, even a local image.
RejectedOnce(before, next) == IF before = "None" THEN next ELSE before

\* reject: an unsafe reason replaces a local image, and nothing else does.
Rejected(before, next) == IF before \in {"None", "LocalImageReference"} THEN next ELSE before

\* reject, for everything a token is rejected for, in turn.
RejectedInTurn(before, reasons) ==
    LET kept[i \in 0..Len(reasons)] ==
            IF i = 0 THEN before ELSE Rejected(kept[i - 1], reasons[i])
    IN  kept[Len(reasons)]

-----------------------------------------------------------------------------
(* Sizes.  Lengths are whole units here and doubles in the code.           *)

Usable(s) == s.w > 0 /\ s.h > 0

\* pixelLength
PixelsOr(length, other) == IF length.unit = "px" THEN length.value ELSE other

\* svgDocumentSize, after the attributes width and height had their say: only
\* without either is the viewBox taken for Qt's default size.
DocumentSize(facts) ==
    LET natural == IF facts.boxed /\ facts.width = Absent /\ facts.height = Absent
                   THEN facts.viewBox ELSE facts.default
        declared == Size(PixelsOr(facts.width, natural.w), PixelsOr(facts.height, natural.h))
    IN  IF Usable(declared) THEN declared
        ELSE IF Usable(facts.viewBox) THEN facts.viewBox ELSE Empty

\* qRound64 of a / b.
Rounded(a, b) == (2 * a + b) \div (2 * b)
Clamped(value, low, high) == Greater(low, Lesser(value, high))

\* svgPixelSize: one scale for both sides, the smaller one.
PixelSize(doc, box) ==
    IF ~Usable(doc) \/ IsEmpty(box) THEN Empty
    ELSE IF box.w * doc.h <= box.h * doc.w
         THEN Size(box.w, Clamped(Rounded(doc.h * box.w, doc.w), 1, box.h))
         ELSE Size(Clamped(Rounded(doc.w * box.h, doc.h), 1, box.w), box.h)

-----------------------------------------------------------------------------
(* The calls                                                               *)

Return(result) == pc' = "done" /\ outcome' = result
Goto(point) == pc' = point /\ UNCHANGED outcome
Expensive == late' = IF cancelled THEN late + 1 ELSE late

Entry ==
    /\ pc = "entry"
    /\ IF cancelled THEN Return("Cancelled") ELSE Goto("tokens")
    /\ UNCHANGED <<arguments, cancelled, read, root, reason, size, image, loaded, late>>

\* Fault: a rejection that leaves the outcome alone.
VerdictKept(reasons) == outcome

\* reject: the outcome of a token with these reasons.
Verdict(reasons) == IF reasons = <<>> THEN outcome ELSE "Unsupported"

\* Fault: the reader only gets on behind an element.
ReadNextElement == IF document.tokens[read + 1].what = "element" THEN read + 1 ELSE read

ReadNext == read + 1

\* readNext, the poll, and the checks of one token.  A root that is not svg
\* ends the call at once, with the outcome so far.
ReadToken ==
    /\ pc = "tokens"
    /\ read < Len(document.tokens)
    /\ read' = ReadNext
    /\ LET token == document.tokens[read + 1]
           foreign == token.what = "element" /\ ~root /\ ~token.svg
           reasons == IF foreign THEN <<>> ELSE TokenReasons(token)
       IN  \/ cancelled /\ Return("Cancelled") /\ UNCHANGED <<root, reason>>
           \/ ~cancelled /\ foreign /\ Return(outcome) /\ UNCHANGED <<root, reason>>
           \/ /\ ~cancelled /\ ~foreign
              /\ root' = (root \/ token.what = "element")
              /\ reason' = RejectedInTurn(reason, reasons)
              /\ outcome' = Verdict(reasons)
              /\ UNCHANGED pc
    /\ UNCHANGED <<arguments, cancelled, size, image, loaded, late>>

HasError == document.tokens # <<>> /\ Last(document.tokens).what = "error"

\* Fault: documents with local images are loaded.
PolicyKeptButLocal == reason \in {"None", "LocalImageReference"}

PolicyKept == reason = "None"

\* The end of the document: damage, unless its cause was declared entities;
\* then the policy; only then the renderer.
Judge ==
    /\ pc = "tokens"
    /\ read = Len(document.tokens)
    /\ \/ /\ HasError \/ ~root
          /\ Return(IF reason # "EntityDeclaration" THEN "Damaged" ELSE outcome)
       \/ ~HasError /\ root /\ ~PolicyKept /\ Return(outcome)
       \/ ~HasError /\ root /\ PolicyKept /\ Goto("load")
    /\ UNCHANGED <<arguments, cancelled, read, root, reason, size, image, loaded, late>>

LoadRenderer ==
    /\ pc = "load"
    /\ Expensive
    /\ loaded' = TRUE
    /\ IF document.loads THEN Goto("facts") ELSE Return(outcome)
    /\ UNCHANGED <<arguments, cancelled, read, root, reason, size, image>>

\* Fault: bytes taken for pixels.
BeyondBudgetInPixels(pixels) ==
    IsEmpty(pixels) \/ outputBytes <= 0 \/ pixels.w * pixels.h > outputBytes

BeyondBudget(pixels) ==
    IsEmpty(pixels) \/ outputBytes <= 0 \/ pixels.w * pixels.h > outputBytes \div 4

\* Faults: no poll behind the renderer, none behind the rendering.
NeverSeen == FALSE

\* The polls behind QSvgRenderer::load and behind render.
SeenAfterLoad == cancelled
SeenAfterRender == cancelled

\* The poll behind the renderer, the sizes and, in rasterizeSvg, the budget and
\* the allocation of the image, which may fail.
Facts ==
    /\ pc = "facts"
    /\ LET doc == DocumentSize(document.facts)
           pixels == PixelSize(doc, bound)
       IN  \/ SeenAfterLoad /\ Return("Cancelled") /\ UNCHANGED size
           \/ ~SeenAfterLoad /\ ~Usable(doc) /\ Return(outcome) /\ UNCHANGED size
           \/ /\ ~SeenAfterLoad /\ Usable(doc)
              /\ \/ op = "inspect" /\ Return("Success") /\ UNCHANGED size
                 \/ op = "rasterize" /\ Return("ResourceLimit") /\ UNCHANGED size
                 \/ /\ op = "rasterize" /\ ~BeyondBudget(pixels)
                    /\ pc' = "render" /\ outcome' = "Success"
                    /\ size' = pixels
    /\ UNCHANGED <<arguments, cancelled, read, root, reason, image, loaded, late>>

Render ==
    /\ pc = "render"
    /\ Expensive
    /\ Goto("rendered")
    /\ UNCHANGED <<arguments, cancelled, read, root, reason, size, image, loaded>>

\* The last poll: the image is handed over, or dropped.
HandOver ==
    /\ pc = "rendered"
    /\ IF SeenAfterRender THEN Return("Cancelled") ELSE Return(outcome)
    /\ image' = ~SeenAfterRender
    /\ UNCHANGED <<arguments, cancelled, read, root, reason, size, loaded, late>>

RequestCancel ==
    /\ pc # "done"
    /\ ~cancelled
    /\ cancelled' = TRUE
    /\ UNCHANGED <<arguments, pc, read, root, outcome, reason, size, image, loaded, late>>

Step == Entry \/ ReadToken \/ Judge \/ LoadRenderer \/ Facts \/ Render \/ HandOver

Terminating == pc = "done" /\ UNCHANGED vars

Next == Step \/ RequestCancel \/ Terminating

\* The caller's thread runs, and Qt's renderer returns.
Spec == Init /\ [][Next]_vars /\ WF_vars(Step)

-----------------------------------------------------------------------------
(* Properties                                                              *)

\* Every variable has its type.
TypeOK ==
    /\ pc \in {"entry", "tokens", "load", "facts", "render", "rendered", "done"}
    /\ {cancelled, root, image, loaded} \subseteq BOOLEAN
    /\ read \in 0..Len(document.tokens)
    /\ outcome \in Outcomes
    /\ reason \in Reasons
    /\ (reason # "None" /\ pc # "done" => outcome = "Unsupported")
    /\ size \in [w : Nat, h : Nat]
    /\ late \in Nat

\* All a document would be rejected for, token by token.
AllReasons == FlattenSeq([i \in DOMAIN document.tokens |-> TokenReasons(document.tokens[i])])
Unsafe(r) == r # "LocalImageReference"

\* "Resource validation always precedes loading a renderer" (svg.h): a renderer
\* is only ever given a well-formed document without a single rejection.
RendererSeesOnlySafe == loaded => AllReasons = <<>> /\ ~HasError /\ root

\* The references of a document, apart from its CSS and within it.
ChecksOf(i) == IF document.tokens[i].what = "element" THEN ToSet(document.tokens[i].checks) ELSE {}
AllChecks == UNION {ChecksOf(i) : i \in DOMAIN document.tokens}
Hrefs == {check \in AllChecks : check.what = "href"}
CssUrls == UNION {ToSet(check.urls) : check \in {c \in AllChecks : c.what = "css"}}

\* How Qt's loader takes the href of an image: as data only behind a scheme in
\* lower case and if the bytes decode, otherwise as the name of a file.
OpensFile(ref) == ~(ref.form = "data" /\ ref.lower /\ ref.base64 /\ ref.decodes)

\* "Reject damaged data here, before the SVG loader can take that fallback"
\* (svg.cpp): nothing in a document that is loaded makes Qt open a file, and
\* what is no image only refers to the document itself.
NoFileFallback ==
    loaded =>
        /\ \A check \in Hrefs : IF check.image THEN ~OpensFile(check.ref) ELSE check.ref = Fragment
        /\ CssUrls \subseteq {Fragment}

\* What remains of these reasons: the first unsafe one, or a local image.
FirstUnsafe(reasons, r) ==
    \/ r = "LocalImageReference" /\ \A i \in DOMAIN reasons : ~Unsafe(reasons[i])
    \/ \E i \in DOMAIN reasons :
           /\ r = reasons[i]
           /\ Unsafe(reasons[i])
           /\ \A j \in 1..(i - 1) : ~Unsafe(reasons[j])

\* What a document without an SVG root is rejected for: what stands in front of
\* the token the call ended at, a root that is not SVG or an error.
PrologReasons == FlattenSeq([i \in 1..(read - 1) |-> TokenReasons(document.tokens[i])])

\* "Only an exclusively LocalImageReference rejection is eligible for Viewer's
\* local path" (svg.h): of a rejected document, read to its end or to a root
\* that is not SVG, the reason is the first unsafe one, and a local image only
\* if there is nothing else.
ReasonIsFirstUnsafe ==
    pc = "done" /\ outcome = "Unsupported" =>
        FirstUnsafe(IF root THEN AllReasons ELSE PrologReasons, reason)

\* The image is within the caller's bytes and bound, touches the bound, and has
\* the ratio of the document up to half a pixel.
ImageFits ==
    image =>
        LET doc == DocumentSize(document.facts)
        IN  /\ size.w * size.h * 4 <= outputBytes
            /\ Within(size, bound)
            /\ size.w = bound.w \/ size.h = bound.h
            /\ \/ size.w = 1 \/ size.h = 1
               \/ /\ 2 * (size.w * doc.h - size.h * doc.w) <= Greater(doc.w, doc.h)
                  /\ 2 * (size.h * doc.w - size.w * doc.h) <= Greater(doc.w, doc.h)

\* Once the flag is set, at most one expensive call of the renderer is begun.
CancelLatency == late <= 1

\* Both calls keep the promise common to all calls; they touch no device.
Contract == INSTANCE CallContract WITH
    phase <- IF pc = "done" THEN "idle" ELSE "running",
    failed <- FALSE,
    outcome <- IF pc = "done" THEN outcome ELSE NoOutcome,
    output <- image

ImplementsContract == Contract!Spec

\* The call returns.
Returns == <>(pc = "done")

=============================================================================
