---------------------------- MODULE ReadMetadata ----------------------------
(***************************************************************************)
(* readMetadata (src/metadata.cpp): finds the EXIF block of a file.  JPEG, *)
(* PNG and WebP files are sequences of records that are skipped until one  *)
(* holds EXIF, within a budget of records and of bytes; a TIFF file is     *)
(* read whole.  The file may still be being written while it is read: its  *)
(* records are fixed, but only the first size bytes exist yet.             *)
(*                                                                         *)
(* Bytes are positions: a payload is the range of the file it was taken    *)
(* from.  One step is one access to the flag or to the device; what other  *)
(* accesses of the same record could tell apart, a fault, strikes any step.*)
(***************************************************************************)
EXTENDS ImageTypes, Sequences

CONSTANTS
    Files,      \* layouts: the kind of container and its records
    LimitSets,  \* the limits of the caller that concern metadata
    ChunkBytes, \* one read of a TIFF file, 1 MiB in the code
    GrowBytes   \* bound on what is written to the file at a time

\* A record is a JPEG segment, a PNG or a WebP chunk.  "fill" is one byte 0xff
\* in front of a JPEG marker, "standalone" a marker without a length, "stop" a
\* marker or chunk behind which no metadata is looked for, "app1" a JPEG APP1
\* segment that is not EXIF.  A length of -1 is a length field below 2.
Tags == {"fill", "standalone", "stop", "app1", "other", "exif"}
Records == [tag : Tags, n : Int]
FileType == [kind : {"jpeg", "png", "webp", "tiff", "unknown"}, records : Seq(Records), tail : Nat]
LimitType == [records : Nat \ {0}, block : Nat \ {0}, tiff : Nat \ {0}]

ExifHeader == 6  \* "Exif\0\0"

ASSUME FilesAssumption ==
    \A file \in Files :
        /\ file \in FileType
        /\ \A i \in DOMAIN file.records :
               IF file.kind = "jpeg"
               THEN file.records[i].tag = "exif" => file.records[i].n >= ExifHeader
               ELSE file.records[i].n >= 0 /\ file.records[i].tag \in {"stop", "other", "exif"}
ASSUME LimitsAssumption == LimitSets \subseteq LimitType
ASSUME ChunkAssumption == ChunkBytes \in Nat \ {0}
ASSUME GrowAssumption == GrowBytes \in Nat

-----------------------------------------------------------------------------
(* The layout of a file                                                    *)

SignatureBytes(file) ==
    CASE file.kind = "jpeg" -> 2
      [] file.kind = "png" -> 8
      [] file.kind = "webp" -> 12
      [] file.kind = "tiff" -> 4
      [] OTHER -> 0

\* Bytes of a record before its data: marker and length, or length and type.
HeadBytes(file) == IF file.kind = "jpeg" THEN 4 ELSE 8

\* Bytes behind the data of a record: the CRC of PNG, the padding of WebP.
FootBytes(file, n) ==
    CASE file.kind = "png" -> 4
      [] file.kind = "webp" -> n % 2
      [] OTHER -> 0

Extent(file, record) ==
    CASE record.tag = "fill" -> 1
      [] record.tag = "standalone" -> 2
      [] record.tag \notin {"fill", "standalone"} /\ record.n < 0 -> HeadBytes(file)
      [] OTHER -> HeadBytes(file) + record.n + FootBytes(file, record.n)

\* Where the records start; the last value is where they end.
Starts(file) ==
    LET start[i \in 1..(Len(file.records) + 1)] ==
            IF i = 1 THEN SignatureBytes(file)
            ELSE start[i - 1] + Extent(file, file.records[i - 1])
    IN  start

TotalBytes(file) == Starts(file)[Len(file.records) + 1] + file.tail

Range(from, length) == [from |-> from, to |-> from + length]
Nothing == Range(0, 0)
DataOf(file, i) == Range(Starts(file)[i] + HeadBytes(file), file.records[i].n)

-----------------------------------------------------------------------------

VARIABLES
    file, limits,  \* the file and the caller's limits
    admitted,      \* the limits are positive and size() is within inputBytes
    size,          \* bytes of the file that exist now
    pc,            \* the next access
    cancelled,     \* the caller's flag
    deviceFailed,  \* Device::failed_
    pos,           \* position of the device
    visited,       \* records counted against metadataRecords
    length,        \* length of the record at hand
    data,          \* bytes of a TIFF file taken so far
    verdict,       \* outcome, as payload() leaves it
    found,         \* what payload() returned
    outcome,       \* the returned MetadataResult::outcome
    payload,       \* what the returned facts were parsed from
    faulty,        \* history: the device reported a fault
    opened,        \* history: size of a TIFF file when it was compared with the budget
    steady,        \* history: the file did not change during the call
    late           \* history: device accesses begun after the flag was set

vars == <<file, limits, admitted, size, pc, cancelled, deviceFailed, pos, visited, length, data, verdict,
          found, outcome, payload, faulty, opened, steady, late>>
world == <<file, limits, admitted, size, steady, cancelled>>
scan == <<visited, length, data, opened>>
answer == <<outcome, payload>>

Init ==
    /\ file \in Files
    /\ limits \in LimitSets
    /\ admitted \in BOOLEAN
    /\ size \in 0..TotalBytes(file)
    /\ pc = "entry"
    /\ cancelled \in BOOLEAN
    /\ deviceFailed = FALSE
    /\ pos = 0
    /\ visited = 0
    /\ length = 0
    /\ data = 0
    /\ verdict = "Success"
    /\ found = Nothing
    /\ outcome = NoOutcome
    /\ payload = Nothing
    /\ faulty = FALSE
    /\ opened = 0
    /\ steady = TRUE
    /\ late = 0

\* The flag is set by the caller's other thread.
RequestCancel ==
    /\ pc # "done"
    /\ ~cancelled
    /\ cancelled' = TRUE
    /\ UNCHANGED <<file, limits, admitted, size, pc, deviceFailed, pos, scan, verdict, found, answer,
                   faulty, steady, late>>

\* Whoever writes the file writes more of it.
Grow ==
    /\ pc # "done"
    /\ size' \in (size + 1)..Lesser(size + GrowBytes, TotalBytes(file))
    /\ steady' = FALSE
    /\ UNCHANGED <<file, limits, admitted, pc, cancelled, deviceFailed, pos, scan, verdict, found, answer,
                   faulty, late>>

-----------------------------------------------------------------------------
(* Parts of a step                                                         *)

Goto(point) == pc' = point /\ UNCHANGED <<verdict, found, answer>>

\* payload() returns: nothing, or a range, with the outcome it assigned.
Finish(result, range) ==
    /\ pc' = "settle"
    /\ verdict' = result
    /\ found' = range
    /\ UNCHANGED answer
GiveUp == Finish(verdict, Nothing)

Return(result, range) ==
    /\ pc' = "done"
    /\ outcome' = result
    /\ payload' = range
    /\ UNCHANGED <<verdict, found>>

\* An access to the device, which fails or not.
Access == late' = IF cancelled THEN late + 1 ELSE late
DeviceWorks == UNCHANGED <<deviceFailed, faulty>>
DeviceFails == deviceFailed' = TRUE /\ faulty' = TRUE

\* Fault: what a read yields is not counted.
AvailableInPart(n) == pos < size

\* readExactly(n) succeeds.
Available(n) == pos + n <= size

\* What stands at the position; nothing does, when it is inside a record.
Here == {i \in DOMAIN file.records : Starts(file)[i] = pos}
Record == file.records[CHOOSE i \in Here : TRUE]

-----------------------------------------------------------------------------
(* readMetadata                                                            *)

PollEntry ==
    /\ pc = "entry"
    /\ IF cancelled THEN Return("Cancelled", Nothing) ELSE Goto("prepare")
    /\ UNCHANGED <<world, deviceFailed, pos, scan, faulty, late>>

\* isOpen, isReadable, isSequential and seek(0); then the limits and size().
Prepare ==
    /\ pc = "prepare"
    /\ \/ Return("IoFailure", Nothing) /\ faulty' = TRUE
       \/ ~admitted /\ Return("ResourceLimit", Nothing) /\ UNCHANGED faulty
       \/ admitted /\ Goto("signature") /\ UNCHANGED faulty
    /\ UNCHANGED <<world, deviceFailed, pos, scan, late>>

\* payload: seek(0) and two or three reads.
Signature ==
    /\ pc = "signature"
    /\ Access
    /\ \/ /\ DeviceWorks
          /\ IF Available(SignatureBytes(file)) /\ file.kind # "unknown"
             THEN /\ pos' = SignatureBytes(file)
                  /\ Goto(IF file.kind = "tiff" THEN "tiff" ELSE "poll")
             ELSE GiveUp /\ UNCHANGED pos
       \/ DeviceFails /\ GiveUp /\ UNCHANGED pos
    /\ UNCHANGED <<world, scan>>

\* Fault: the device's failure is not looked at.
FaultOverlooked == FALSE

\* device.failed()
FaultSeen == deviceFailed

\* The poll behind payload(), then failed(), then the facts.
Settle ==
    /\ pc = "settle"
    /\ \/ cancelled /\ Return("Cancelled", Nothing)
       \/ ~cancelled /\ FaultSeen /\ Return("IoFailure", Nothing)
       \/ ~cancelled /\ ~FaultSeen /\ Return(verdict, found)
    /\ UNCHANGED <<world, deviceFailed, pos, scan, faulty, late>>

-----------------------------------------------------------------------------
(* jpegPayload, pngPayload and webpPayload                                 *)

\* Fault: the flag is not looked at between records.
MoreRecordsUncancelled == visited < limits.records

\* The loop condition: the budget of records, then the flag.
MoreRecords == visited < limits.records /\ ~cancelled

PollRecord ==
    /\ pc = "poll"
    /\ IF MoreRecords THEN Goto("record") ELSE GiveUp
    /\ UNCHANGED <<world, deviceFailed, pos, scan, faulty, late>>

NextRecord == Goto("poll") /\ visited' = visited + 1

\* A JPEG marker: two bytes.
ReadMarker ==
    /\ pc = "record"
    /\ file.kind = "jpeg"
    /\ Access
    /\ \/ /\ DeviceWorks
          /\ Available(2) /\ Here # {}
          /\ pos' = pos + 2
          /\ \/ Record.tag = "fill" /\ Goto("fill") /\ UNCHANGED <<visited, length>>
             \/ Record.tag = "stop" /\ GiveUp /\ UNCHANGED <<visited, length>>
             \/ Record.tag = "standalone" /\ NextRecord /\ UNCHANGED length
             \/ /\ Record.tag \in {"app1", "other", "exif"}
                /\ Goto("length")
                /\ length' = Record.n
                /\ UNCHANGED visited
       \/ ~(Available(2) /\ Here # {}) /\ DeviceWorks /\ GiveUp /\ UNCHANGED <<pos, visited, length>>
       \/ DeviceFails /\ GiveUp /\ UNCHANGED <<pos, visited, length>>
    /\ UNCHANGED <<world, data, opened>>

\* seek(pos - 1) behind a fill byte, its result unread: after a failure the
\* loop goes on behind the byte it wanted to see again.
SeekBack ==
    /\ pc = "fill"
    /\ Access
    /\ \/ DeviceWorks /\ pos' = pos - 1
       \/ DeviceFails /\ UNCHANGED pos
    /\ NextRecord
    /\ UNCHANGED <<world, length, data, opened>>

\* The tag of the segment whose marker was just read.
SegmentTag == file.records[CHOOSE i \in DOMAIN file.records : Starts(file)[i] = pos - 2].tag

\* The two length bytes of a JPEG segment and, in an APP1 segment, a peek at
\* its first six.  The peek seeks back; where that fails it stays behind them.
ReadLength ==
    /\ pc = "length"
    /\ Access
    /\ \/ /\ DeviceWorks
          /\ Available(2) /\ length >= 0
          /\ pos' = pos + 2
          /\ Goto(IF SegmentTag = "exif" /\ Available(2 + ExifHeader) THEN "block" ELSE "skip")
       \/ DeviceWorks /\ ~(Available(2) /\ length >= 0) /\ GiveUp /\ UNCHANGED pos
       \/ DeviceFails /\ GiveUp /\ UNCHANGED pos
       \/ /\ DeviceFails
          /\ Available(2 + ExifHeader) /\ length >= ExifHeader
          /\ SegmentTag \in {"app1", "exif"}
          /\ pos' \in {pos + 2, pos + 2 + ExifHeader}
          /\ (Goto("block") \/ Goto("skip"))
    /\ UNCHANGED <<world, scan>>

\* The eight bytes of length and type of a PNG or WebP chunk.
ReadHeader ==
    /\ pc = "record"
    /\ file.kind \in {"png", "webp"}
    /\ Access
    /\ \/ /\ DeviceWorks
          /\ Available(8) /\ Here # {}
          /\ pos' = pos + 8
          /\ length' = Record.n
          /\ \/ Record.tag = "stop" /\ GiveUp
             \/ Record.tag = "exif" /\ Goto("block")
             \/ Record.tag \notin {"stop", "exif"} /\ Goto("skip")
       \/ ~(Available(8) /\ Here # {}) /\ DeviceWorks /\ GiveUp /\ UNCHANGED <<pos, length>>
       \/ DeviceFails /\ GiveUp /\ UNCHANGED <<pos, length>>
    /\ UNCHANGED <<world, visited, data, opened>>

\* Fault: the CRC or the padding is forgotten.
SkipBytesBare(n) == n

\* Bytes to skip for a record of n bytes of data.
SkipBytes(n) == n + FootBytes(file, n)

\* Fault: no comparison with what is left of the file.
SkippableBlindly(n) == TRUE

\* skip: never beyond what size() reports.
Skippable(n) == n >= 0 /\ n <= size - pos

Skip ==
    /\ pc = "skip"
    /\ Access
    /\ \/ /\ DeviceWorks
          /\ Skippable(SkipBytes(length))
          /\ pos' = pos + SkipBytes(length)
          /\ NextRecord
       \/ DeviceWorks /\ ~Skippable(SkipBytes(length)) /\ GiveUp /\ UNCHANGED <<pos, visited>>
       \/ DeviceFails /\ GiveUp /\ UNCHANGED <<pos, visited>>
    /\ UNCHANGED <<world, length, data, opened>>

Oversized(n) == n > limits.block

\* block: the whole block or nothing.
ReadBlock ==
    /\ pc = "block"
    /\ \/ Oversized(length) /\ Finish("ResourceLimit", Nothing) /\ UNCHANGED <<deviceFailed, faulty, pos, late>>
       \/ length <= 0 /\ Finish("Damaged", Nothing) /\ UNCHANGED <<deviceFailed, faulty, pos, late>>
       \/ /\ length > 0 /\ ~Oversized(length)
          /\ Access
          /\ \/ DeviceWorks /\ Available(length)
                /\ Finish(verdict, Range(pos, length)) /\ pos' = pos + length
             \/ DeviceWorks /\ ~Available(length) /\ GiveUp /\ UNCHANGED pos
             \/ DeviceFails /\ GiveUp /\ UNCHANGED pos
    /\ UNCHANGED <<world, scan>>

-----------------------------------------------------------------------------
(* tiffPayload                                                             *)

\* The only comparison with tiffMetadataBytes, and seek(0).
OpenTiff ==
    /\ pc = "tiff"
    /\ Access
    /\ \/ size > limits.tiff /\ DeviceWorks /\ Finish("ResourceLimit", Nothing) /\ UNCHANGED pos
       \/ size <= limits.tiff /\ DeviceWorks /\ Goto("tiff_loop") /\ pos' = 0
       \/ size <= limits.tiff /\ DeviceFails /\ GiveUp /\ UNCHANGED pos
    /\ opened' = size
    /\ UNCHANGED <<world, visited, length, data>>

\* atEnd() asks the device for its size.
TiffAtEnd ==
    /\ pc = "tiff_loop"
    /\ IF pos >= size THEN Finish(verdict, Range(0, data)) ELSE Goto("tiff_read")
    /\ UNCHANGED <<world, deviceFailed, pos, scan, faulty, late>>

\* Fault: an empty part does not end the loop.
NoMore(part) == FALSE

\* part.isEmpty(): nothing was read, whatever the reason.
IsLast(part) == part = 0

\* One chunk, empty where the device fails.
ReadChunk ==
    /\ pc = "tiff_read"
    /\ Access
    /\ \/ DeviceWorks /\ length' = Lesser(ChunkBytes, size - pos)
       \/ DeviceFails /\ length' = 0
    /\ pos' = pos + length'
    /\ IF IsLast(length') THEN GiveUp ELSE Goto("tiff_poll")
    /\ UNCHANGED <<world, visited, data, opened>>

\* The poll behind the read, and the append.
AppendChunk ==
    /\ pc = "tiff_poll"
    /\ \/ cancelled /\ GiveUp /\ UNCHANGED data
       \/ ~cancelled /\ Goto("tiff_loop") /\ data' = data + length
    /\ UNCHANGED <<world, deviceFailed, pos, visited, length, opened, faulty, late>>

-----------------------------------------------------------------------------

Scan == PollRecord \/ ReadMarker \/ SeekBack \/ ReadLength \/ ReadHeader \/ Skip \/ ReadBlock
Tiff == OpenTiff \/ TiffAtEnd \/ ReadChunk \/ AppendChunk

Step == PollEntry \/ Prepare \/ Signature \/ Settle \/ Scan \/ Tiff

Terminating == pc = "done" /\ UNCHANGED vars

Next == Step \/ RequestCancel \/ Grow \/ Terminating

\* The caller's thread runs.
Spec == Init /\ [][Next]_vars /\ WF_vars(Step)

-----------------------------------------------------------------------------
(* Properties                                                              *)

Points == {"entry", "prepare", "signature", "poll", "record", "fill", "length", "skip", "block",
           "tiff", "tiff_loop", "tiff_read", "tiff_poll", "settle", "done"}

\* Every variable has its type: the device never stands behind the bytes that
\* exist, a range never ends before it starts, and the answer is one inspect
\* reckons with.
TypeOK ==
    /\ pc \in Points
    /\ size \in 0..TotalBytes(file)
    /\ {cancelled, deviceFailed, faulty, steady, admitted} \subseteq BOOLEAN
    /\ pos \in 0..size
    /\ visited \in 0..limits.records
    /\ {data, late, opened} \subseteq Nat
    /\ length \in Int
    /\ verdict \in {"Success", "ResourceLimit", "Damaged"}
    /\ outcome \in IF pc = "done" THEN MetadataOutcomes(cancelled) ELSE {NoOutcome}
    /\ \A range \in {found, payload} : range.from \in Nat /\ range.to \in Nat /\ range.from <= range.to

\* libexif never sees partial offsets: what is parsed is a whole EXIF block of
\* the file within the budgets, or a whole TIFF file - whatever was written
\* to the file, and whatever failed, while it was read.
WholeBlock ==
    payload # Nothing =>
        IF file.kind = "tiff" THEN payload.from = 0 /\ payload.to >= opened
        ELSE \E i \in DOMAIN file.records :
                 /\ file.records[i].tag = "exif"
                 /\ payload = DataOf(file, i)
                 /\ payload.to <= size
                 /\ i <= limits.records
                 /\ file.records[i].n <= limits.block

\* The records a scan gets past.
Passable(record) ==
    /\ record.tag \notin {"stop", "exif"}
    /\ record.tag \in {"app1", "other"} => record.n >= 0

\* The EXIF records a scan gets to; there is one at most.
Reached ==
    {i \in DOMAIN file.records :
        /\ file.records[i].tag = "exif"
        /\ i <= limits.records
        /\ \A j \in 1..(i - 1) : Passable(file.records[j])
        /\ Starts(file)[i] + HeadBytes(file) <= size}

\* What it should make of one: a JPEG segment is known by its first bytes.
AnswerTo(i) ==
    LET n == file.records[i].n
        known == file.kind = "jpeg" => DataOf(file, i).from + ExifHeader <= size
    IN  CASE known /\ n > limits.block -> <<"ResourceLimit", Nothing>>
          [] n = 0 -> <<"Damaged", Nothing>>
          [] n > 0 /\ n <= limits.block /\ DataOf(file, i).to <= size -> <<"Success", DataOf(file, i)>>
          [] OTHER -> <<"Success", Nothing>>

\* What a call that is left alone should answer, told from the layout.
Expected ==
    CASE ~admitted -> <<"ResourceLimit", Nothing>>
      [] admitted /\ (size < SignatureBytes(file) \/ file.kind = "unknown") -> <<"Success", Nothing>>
      [] admitted /\ size >= SignatureBytes(file) /\ file.kind = "tiff" ->
             IF size > limits.tiff THEN <<"ResourceLimit", Nothing>> ELSE <<"Success", Range(0, size)>>
      [] OTHER -> IF Reached = {} THEN <<"Success", Nothing>>
                  ELSE AnswerTo(CHOOSE i \in Reached : TRUE)

\* Without faults, cancellation and writers the first EXIF block is found where
\* the layout has it, at the last record the budget admits too, and is refused
\* exactly when it exceeds the budget of bytes.
FindsFirstExif ==
    pc = "done" /\ ~faulty /\ ~cancelled /\ steady => <<outcome, payload>> = Expected

\* Once the flag is set, no more than the accesses of one record are begun:
\* its marker, its length with the peek, and its data or the skip over them.
CancelLatency == late <= 3

\* The call keeps the promise common to all calls.
Contract == INSTANCE CallContract WITH
    phase <- IF pc = "done" THEN "idle" ELSE "running",
    failed <- faulty,
    output <- payload # Nothing

ImplementsContract == Contract!Spec

\* The call returns, from a file that reaches its end.
Returns == <>(pc = "done")

-----------------------------------------------------------------------------
(* A statement of the repository that the code does not keep               *)

\* README.md: "classic TIFF extraction is bounded"; metadata.cpp: "Oversized
\* files are skipped, not truncated".
TiffWithinBudget == file.kind = "tiff" => data <= limits.tiff

=============================================================================
