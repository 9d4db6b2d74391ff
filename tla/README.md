# HoloNight Images: specifications

TLA+ specifications of the library in this repository, the TLC configurations
that check them, and TLAPS proofs. `PROJECT.json` lists the runs, the mutants,
the map from definitions to source lines, the findings, the hazards and the
theorems.

## The system

The library is a set of synchronous calls. It starts no thread and keeps no
state between calls. What makes it hard is what a call shares with the world
while it runs:

- **the flag**: a `const std::atomic_bool&` another thread of the caller may set
  at any moment; it is polled between operations, never waited for;
- **the device**: an open `QIODevice` of which the library has exclusive access,
  but behind which another process may write the file. `size()` can be stale,
  reads can be short, reads and seeks can fail;
- **the codecs**: Qt's image handlers, libwebp, libexif and `QSvgRenderer`. They
  read through the device, may hide its faults or report them as damaged images,
  may deliver frames that are not what their header promised, may run out of
  memory, and cannot be interrupted.

| Component | State it keeps (during a call) | Operations | Correct if |
|---|---|---|---|
| call contract (`image.h`, `device.h`) | the flag, `Device::failed_`, the outcome | every public call | only Success has an output; Success is never answered after a flag the last poll could see; a fault of the device is never passed off as a property of the image; IoFailure and Cancelled are never invented |
| `loadSvg` (`svg.cpp`) | position, bytes kept, last count | one bounded read loop | budget kept under a lying `size()`, whole document or none, refusals justified, prompt cancel, returns |
| `inspect`, `decode` (`image.cpp`) | outcome, header facts, image | header, frame, fallback for simple WebP, last resize, nested `readMetadata` | limits hold for the frame delivered, both calls agree, cancel and fault precedence |
| fitting (`image.cpp` 209-218, 250-252) | target, image size | target, codec scaling, rotation, resize | fits, never upscales, keeps the ratio, one resampling |
| metadata scanners (`metadata.cpp`) | position, records visited, TIFF bytes | JPEG, PNG, WebP record loops; TIFF read whole | whole EXIF blocks only, first one found within budgets |
| SVG policy and rendering (`svg.cpp`) | reason, outcome, root seen, renderer | token loop, judge, load, sizes, render | renderer only sees accepted documents, an unsafe reason wins over a local image, output budget |
| EXIF facts (`parseExif`) | none | tag lookups in a libexif structure | coordinates in pairs and in range, numbers finite, a bad tag costs only the facts that need it |
| `classifySvgReference` | none | judges one reference: fragment, embedded data, local or remote | nothing that is accepted makes Qt open a file |
| `canonicalFormat`, `supportedSuffixes` | none | names of formats | one name for each format, whoever read it |
| acceptance launcher (`scripts/ci/container.py`) | snapshot, its index, working tree | snapshot, run, copy back | only formatted files are touched, a failure leaves no trace, nothing is lost |
| `providers.py`, `quality.py`, `fuzz-local.py`, fuzz harnesses, tests, CMake | files | sequences of subprocesses | - |

How they interact: `inspect` calls `readMetadata` with the same flag and its
own `Device`; `decode` runs the codec first and then, when it did not understand
the file, the fallback on the same `Device`; `rasterizeSvg` repeats the whole
validation of `inspectSvg` before it renders; the policy of both calls
`classifySvgReference` for every reference it meets; `readMetadata` hands the
block it found to `parseExif`; a consumer feeds the bytes of `loadSvg` to
either SVG call. All share `Outcome` and its precedence, Cancelled over
IoFailure over the rest.

The behaviours that are hard to test are listed, each at its line, as the
hazards of `PROJECT.json`, with the properties that cover them: a flag set
between any two polls, sizes checked and then out of date, faults that surface
as something else, off-by-ones at a budget, two implementations that must agree
(codec and fallback, `inspect` and `decode`), and loops only a budget ends. The
launcher is the one part of the repository that writes files of the developer,
who may edit them meanwhile, and that can be killed half way.

## Modules

All detailed modules follow one scheme. `pc` names the next access to something
shared - the flag, the device, a decoder that reads it - and an action is that
access together with the local code up to the next one. Two accesses of one
call are therefore always separate steps if another party can act in between
and the code behind could tell. The exceptions are accesses that do not admit
more outcomes when they are split: `isOpen`/`isReadable`/`isSequential`/`seek`,
`seek`+`peek`, the reads of a signature, a codec's many reads in one library
call. Operators headed "Fault:" are mutations the runs are validated against; no
specification uses them. Most of them mutate an operator that names one decision
of the code (`SeenInLoop`, `MoreRecords`, `HeaderVerdict`, `PolicyKept`).

| Module | Models | Correspondence |
|---|---|---|
| `ImageTypes` | `Outcome` | `NoOutcome` stands for a call that has not returned |
| `CallContract` | the abstract specification of every call | `Begin`, `RequestCancel`, `DeviceFault`, `Return`; `Promise` is the relation between answer, flag and fault |
| `LoadSvg` | `loadSvg` | `pos` is what was taken out of the device, `bytes` what was kept; `content` is the file, which `Resize` changes at any time; `claimed` is whatever `size()` says |
| `Geometry` | `acceptableSize`, target size, need for a resize; Qt's `scaled`, `boundedTo`, `expandedTo` | integer arithmetic as in Qt (division rounds down) |
| `FitToBound` | the path of a size through `decode` | codec and fallback as alternative reads |
| `RasterCalls` | `inspect` and `decode` on one file, in either order | `verdict` is the `outcome` member, `info` the header facts, `image` the frame, `deviceFailed` is `Device::failed_`; `faulty`, `late` and `answers` are history variables |
| `ReadMetadata` | `readMetadata` and the scanners | a file is a layout of records; `pos` is the device's position; a payload is the range of the file it was taken from |
| `SvgCalls` | `inspectSvg`, `rasterizeSvg`, `classifySvgReference` | a document is its sequence of tokens with what the string matching makes of them; a reference is what the classification asks of it (fragment, the five questions about embedded data, the parts of a URL); a width or height is absent, pixels, or a length the code cannot read; `reason`, `outcome`, `root` as in `validate` |
| `ExifFacts` | `parseExif` and its helpers | a payload is its length and its entries by tag; an entry has the format, components, size and values libexif reports; an optional is a set of at most one value, a coordinate an exact fraction |
| `FormatLauncher` | `container.py format` | `tree` is the working tree, `work` the snapshot, `index` what `git add` recorded; a version is the edit it stems from and whether it is formatted; `List` may name tracked files that were deleted, as `--cached` does; `Edit` is the developer, `Abort` the end of the process at any step |

`RasterCalls`, `ReadMetadata`, `LoadSvg` and `SvgCalls` instantiate
`CallContract`; `FitToBound` and `RasterCalls` share `Geometry`. The nested
metadata call in `RasterCalls` is represented by the answers `ReadMetadata`
gives: `MetadataOutcomes` in `ImageTypes` lists them, `RasterCalls` takes one of
them, and the type invariant of `ReadMetadata` says that there is no other. Every `MC*` module is its
specification with the constants of the run; every `*Proofs` module is its
specification with the theorems about it, and `SharedLemmas` holds the lemmas
several of them use.

## What the runs show

| Run | Bounds | Shows |
|---|---|---|
| `load_svg` | budgets -1, 0, 1, 3, 4, 5; buffer of 3 bytes; files up to 7 bytes | at, below and above the budget and the buffer: one read, several reads, short reads, growth beyond the budget, truncation in between |
| `fit_to_bound` | sides out of 1, 2, 3, 5, 7, 8, 40 | all pairs of ratio and bound, with slivers whose short side rounds to nothing |
| `raster_calls` | 14 files, one of each kind the code tells apart, with the names and errors Qt gives; two limit sets; no bound, a square, a strip | every order of polls, faults and codec results for both calls |
| `read_metadata` | 12 layouts with up to five records; budgets of 2 and 3 records, 7 and 8 bytes; TIFF budget 3 and 6; chunk of 4 bytes; growth by up to 3 | files cut off at every byte, budgets met exactly and missed by one |
| `svg_calls` | two checks in every combination the policy tells apart, doctypes, instructions and errors around them; 23 references, as an image, another href and in CSS; seven sets of sizes; three bounds; three budgets | the policy, the classification, the sizes and the cancellation of both calls |
| `exif_facts` | every combination of seven latitudes, seven longitudes and twelve references; altitudes and their references in 18 forms; each other tag damaged in three ways; a payload cut off at each of its ten lengths | coordinates at and right behind their limits, fields that contradict each other, and the facts left without each tag |
| `format_launcher` | two files the formatter owns and one it does not, each absent, formatted or not; two edits or deletions | the developer before, between and after any two steps of the launcher, which may end at each |
| `scale_allocation`, `header_facts`, `tiff_bound`, `exif_length`, `format_edits` | as above; a length of 3 bits in `exif_length` | five statements of the repository the code does not keep, see below |

The bounds are small because the code is uniform in what they bound: a loop has
the first, a middle and the last iteration, and a budget is met, missed by one
or not met. The safety properties do not rest on the bounds at all: they are
proved (see Proofs).

Where the states of the library's calls come from: the flag may be set before any step, the device may
fail in any step that touches it, and the file may change before any step. In `exif_facts` they are the payloads: the
function is sequential, and the question is about its inputs.
Deadlock is checked everywhere; `Terminating` is the return to the caller.

### Properties worth a remark

- `WholeDocument` and `WithinBudget` together are why the read loop asks for
  one byte more than the budget: a request within the budget would cut a
  document silently (that is one of the mutants).
- `CancelLatency` counts expensive operations begun after the flag was set. One
  is unavoidable, since the flag can be set right behind a poll; three device
  accesses are what one JPEG record takes in `ReadMetadata`.
- `SuccessWithinLimits` holds although the last resize may widen the pixels of
  a frame to four bytes behind the check of the limits: the resize only happens
  if the image exceeds the bound, and the check demanded four bytes per pixel
  for the larger image.
- `InspectForetellsDecode` compares the two calls when nothing disturbed them:
  the two fallbacks are separate code and must agree.
- `FindsFirstExif` compares the scanner with an answer computed from the layout,
  without a position or a loop: `Reached` is the EXIF record behind records a
  scan may pass, `AnswerTo` what its length and the end of the file make of it. A
  file of no known kind, or one cut off in its signature, has no metadata.
- `ReasonIsFirstUnsafe` looks at the rejections of the whole document at once,
  or, for a document without an SVG root, at those of its prolog:
  `FirstUnsafe` is the first that is not a local image, or a local image if all
  of them are. `RejectedInTurn` is what the calls of `reject` leave one by one.
- `NoFileFallback` speaks of Qt, not of the policy: the loader of an SVG image
  takes an `href` whose embedded data it cannot decode for the name of a file.
  `OpensFile` says when that is, without `Classify`.
- `BestEffort` takes every tag away in turn and compares all facts; the one
  dependence it admits is the sign of the altitude. `PositionWhole` checks the
  sign of a coordinate against its own reference in the payload.
- `NothingLost` holds although `copy2` truncates the target before it writes it:
  a content that was there when the launcher began is then still in the snapshot.
  `OthersUntouched` holds at every moment, not only at the end.
- `FailureLeavesTree`: until the container has ended without an error and every
  file of the snapshot is formatted, no byte has been written to the tree. It
  thus speaks of every way to end early: a file deleted between the look at it
  and its copy, a formatter that gives up, also behind the last file, a kill.
- `TypeOK` of `ExifFacts`: what stands behind an entry's size or components is
  neither a fraction nor a count there, so a fact made of it has no type.
- `ImplementsContract` is the refinement of `CallContract`. In `LoadSvg` the
  fault that `Position` and `Read` report and the return are one step, which is
  why `Return` of the contract admits a last fault. It also says that a
  cancelled nested metadata call surfaces: `inspect` could otherwise answer
  Success behind the poll that saw the flag.

### Findings

1. `decode` does not look at the result of its last `scaled()`
   (`image.cpp:252`). When Qt cannot allocate the scaled image, the call answers
   Success with a null image; the tests and the fuzz harness require an image of
   every Success.
2. When the fallback turns a WebP file away for its size, `decode` keeps the
   format and the empty size of the codec that failed, `inspect` reports those
   of the fallback; the README says both report the same header facts.
3. `tiffPayload` compares the size of the file with the budget once and then
   reads to the end; a file that grows in between is taken into memory beyond
   `tiffMetadataBytes`, while the README calls the extraction bounded.
4. `parseExif` casts the payload's size to `unsigned int` (`metadata.cpp:246`).
   The budgets are 64-bit: a caller who admits 4 GiB or more has a longer payload
   truncated, while the comments at lines 34 and 186 say that blocks are
   skipped, not truncated.
5. `container.py` copies a formatted file over the one in the working tree
   without looking at it (line 141). An edit made to that file after its
   snapshot is overwritten, while the comment at line 136 says that the
   caller's other edits are preserved.

## Fairness

Only the thread inside the call is fair: `WF_vars(Step)`. The code never
blocks, waits or yields, and a codec that is called returns, so a thread the
scheduler keeps running takes its next step. Nothing is assumed of the flag
(it may never be set), of the device (it may fail or not), or of whoever writes
the file. `Returns` of `LoadSvg` therefore holds even for a file that grows as
fast as it is read: the budget ends the loop. `Returns` of `ReadMetadata`
assumes a file that stops growing (`size` is bounded by the layout), for
`tiffPayload` has no such end. `ExifFacts` and `FormatLauncher` state no
liveness: the first is one function without a loop of its own, and nothing
makes the launcher finish.

## Proofs

TLAPS proves, for every value of the constants, every safety property the
passing runs check, and that `LoadSvg`, `RasterCalls`, `ReadMetadata` and
`SvgCalls` implement `CallContract`. Each component has a proof module of its
own, laid out alike: the inductive invariant `IInv` with its named parts, lemmas
about the operators, `InitIInv`, one lemma per part with a step per action,
`Invariance`, and the theorems.

| Module | Theorems | What the invariant adds to the types |
|---|---|---|
| `LoadSvgProofs` | `TypeCorrect`, `BudgetKept`, `DocumentsWhole`, `RefusalsJustified`, `CancelsPromptly`, `Refinement` | the device stands right behind the bytes kept, save between a read and the step that judges it |
| `ReadMetadataProofs` | `TypeCorrect`, `CancelsPromptly`, `WholeBlocksOnly`, `FirstExifIsFound`, `Refinement` | as long as no access failed, the device stands where the layout has the record at hand (`Aligned`), and all records behind it can be passed (`Passed`) |
| `RasterCallsProofs` | `TypeCorrect`, `CancelsPromptly`, `LimitsKept`, `PromiseKept`, `InspectionForetells`, `Refinement` | what is known of the file at each point (`Known`), what an undisturbed call must find (`Course`, `Told`), the size an image has on its way (`Delivery`) |
| `SvgCallsProofs` | `TypeCorrect`, `CancelsPromptly`, `ValidationPrecedesRenderer`, `ReasonIsTold`, `ImageIsFitting`, `NoFileIsOpened`, `Refinement` | the reason speaks for all tokens read so far (`Vetted`), or for the prolog (`Unrooted`), the size is the one the budget admits (`Fitted`) |
| `FitToBoundProofs` | `TypeCorrect`, `ImageFitsBound`, `AspectIsKept`, `DecodersGiveOneSize` | the size stands at the source's or at the target at each point (`OnTheWay`) |
| `ExifFactsProofs` | `TypeCorrect`, `PositionsWhole`, `MetadataIsBestEffort` | the facts are those of the tags loaded so far |
| `FormatLauncherProofs` | `TypeCorrect`, `OthersKept`, `FailuresLeaveTree`, `EditsKept`, `QuietRunsFormat` | what may be written and when (`Writes`, `Formats`), what the snapshot stems from (`Stems`), how far an undisturbed run has come (`Progress`) |
| `SharedLemmas` | none: induction, recursive functions, the arithmetic of `Geometry` | - |

None of the properties is inductive as it stands. The arguments:

- **Budgets and documents** (`LoadSvgProofs`). A read requests at most one byte
  more than the rest of the budget (`RequestBounds`), so the byte that breaks
  the budget is seen before it is kept.
- **Scanning** (`ReadMetadataProofs`). `Starts` adds up the extents of the
  records (`StartsAddUp`) and so increases (`StartsIncrease`); what stands at an
  aligned position is therefore the record at hand and no other (`AtRecord`,
  `BehindMarker`), and skipping what the code skips leads to the next record
  (`ToTheNext`). This is where a forgotten CRC or padding byte would break the
  proof. `WholeBlock` follows from where the device stands when a block is read,
  whatever was written since: files only grow. `FindsFirstExif` needs the part
  `Passed`: an EXIF record a scan could still reach is the record at hand or
  behind it (`ReachedBehind`), so the scan may give up exactly when nothing is
  ahead (`ScanExpects`). A fault strikes any step; the invariant then only claims
  that the device remembers it (`Faults`), which is why the payload is dropped.
- **Two implementations** (`RasterCallsProofs`). `Foretold` is what an
  undisturbed `inspect` finds, computed from the file. Both calls are shown to
  end there, with the assumption that Qt and libwebp agree on the simple files
  both understand (`FilesAssumption`).
- **Limits** (`RasterCallsProofs`, `FitToBoundProofs`). The lemmas of
  `SharedLemmas` say what `scaled` with a kept ratio returns for sides of any
  extent: it has area, fits its box, fills one side of it and does not grow. The
  last resize thus never makes an image larger than the one that was checked
  at four bytes per pixel.
- **Policy** (`SvgCallsProofs`). `AllReasons` is flattened from the tokens;
  the lemmas on `FlattenSeq` let it grow token by token, `RejectedInTurnJudges`
  shows that calling `reject` in turn leaves the first unsafe reason, and
  `NoFileIsOpened` compares `Classify` with what Qt does, reference by reference.
- **Launcher** (`FormatLauncherProofs`). Nothing is copied back before every file
  of the snapshot is formatted by a container that succeeded (`formatter`, a
  history variable), and a file is only truncated while its content
  is in the snapshot.
- **Refinements.** A step that ends a call is `Return` of the contract, where
  the faults and flags it promises are parts of `IInv`; others are
  `RequestCancel`, `DeviceFault` or stutters.

Induction over data, which `Starts`, `FlattenSeq` and `RejectedInTurn` need, is
done on sets: `Induction` in `SharedLemmas` says that a set which holds 0 and is
closed under the successor holds every natural number, from the
well-foundedness of `<`. `Recursion` derives from it that a function which is
defined step by step exists, so the recursive functions of the models satisfy
their equations.

The proofs rest on the named assumptions of the modules alone, which TLC
evaluates in the runs:

- `LoadSvg`: budgets are integers, the buffer has a byte, file sizes are naturals.
- `ReadMetadata`: records are records of their container (no markers in a PNG, a
  length that is not negative there), an EXIF segment of a JPEG file holds its
  header, limits are positive (others are refused in `prepare`, as `admitted`
  has it), a chunk has a byte.
- `RasterCalls`: limits and bounds are integers; the agreement of Qt and libwebp.
- `SvgCalls`: documents are documents, the reader stops at an error and a
  document without a root is one; bounds and budgets are integers.
- `FitToBound`: sides are positive. `ExifFacts`: values have the types libexif
  gives them (its rationals are unsigned), the cast has a width. `FormatLauncher`:
  owned files are files, and the number of edits is a number.

What is only model-checked: `Returns` of `LoadSvg`, `RasterCalls`,
`ReadMetadata` and `SvgCalls`, since liveness is out of the prover's reach, and
the five disagreements, which are counterexamples.

## Limits of the models

- A flag is never cleared during a call; a call has its own flag.
- Inside one library call (a codec's header or frame, `QSvgRenderer::load`) the
  reads are not told apart: a fault strikes during the call or not, and the
  codec may then report anything it could report.
- `QImageReader` reports `DeviceError` or `FileNotFoundError` only after a fault
  of the device: it is given one that is open and readable.
- After a failed `seek` back behind a fill byte the scanner stands inside a
  record. The model lets it give up there; the code may read the next bytes as
  a marker if they look like one. The answer is IoFailure in either case.
- A WebP chunk in front of others that lacks its padding byte puts the scanner
  inside the next chunk; the model lets it give up there, as for the fill bytes.
  The last chunk without padding is a file cut off by one byte.
- The case of the word `base64` in the header of embedded data is not told apart,
  and what the CSS patterns match is part of the document.
- `ExifFacts` takes libexif's entries as loaded (it may repair some on loading),
  and compares fractions where the code rounds to doubles: a coordinate within
  a rounding error of its limit may be judged otherwise.
- In `FormatLauncher` a copy into the snapshot is one step: an edit in the
  middle of it could be copied in half. The loop over providers is left out, as
  `scripts/ci/providers.json` is `[]`, and there are no submodules.
- SVG lengths are whole numbers; the code computes in doubles, so the model says
  nothing about rounding of huge or non-finite lengths.
- Integer widths: the products of `acceptableSize` are 64-bit in the code and
  cannot wrap for 32-bit sides, so the models use unbounded integers.
- Codec memory limits and allocation ceilings are left out, apart from an
  allocation that fails.

## Not modelled

`supportedSuffixes` (a list made from the installed plugins, without state),
`providers.py` and `fuzz-local.py` (straight sequences of subprocesses), the
other modes of `container.py` (they write nothing back), the build files, and
the tests and fuzz harnesses: the latter are clients whose scripted faults (a
second read or seek that fails, a flag set by a read, tight limits) are among
the environments of the models, and whose assertions are statements the models
are compared with.

## Plan

Done: `CallContract`, `LoadSvg`, `FitToBound`, `RasterCalls`, `ReadMetadata`,
`SvgCalls`, `ExifFacts`, `FormatLauncher`, and the proofs of their safety
properties and refinements. To come, in this order:

1. The agreement of `RasterCalls` and `FitToBound` as a refinement: the path of
   a size through `decode` is the one `FitToBound` describes.
2. The composition of `loadSvg` and `rasterizeSvg` as a consumer calls them.
