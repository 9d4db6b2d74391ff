------------------------- MODULE ReadMetadataProofs -------------------------
(***************************************************************************)
(* What TLAPS proves of readMetadata, for files of any length with any     *)
(* records, any limits, and whatever is written to the file meanwhile.     *)
(***************************************************************************)
EXTENDS ReadMetadata, SharedLemmas

-----------------------------------------------------------------------------
(* The inductive invariant                                                 *)

RecordCount == Len(file.records)
Start(i) == Starts(file)[i]

\* The record at hand, and where its data starts.
Current == visited + 1
CurrentRecord == file.records[Current]
CurrentData == Start(Current) + HeadBytes(file)

\* The arguments of a call stay what they were.
Inputs == file \in Files /\ limits \in LimitSets

\* The accesses of one record, or of one chunk, are all that is begun behind
\* the flag.
Latency ==
    /\ late \in 0..3
    /\ ~cancelled => late = 0
    /\ pc \in {"entry", "prepare", "signature", "record"} => late = 0
    /\ pc \in {"fill", "length", "tiff"} => late <= 1
    /\ pc \in {"skip", "block", "tiff_loop", "tiff_read"} => late <= 2

\* A fault is remembered by the device, and by the answer.
Faults ==
    /\ pc # "done" => faulty = deviceFailed
    /\ pc \in {"entry", "prepare", "signature"} => ~deviceFailed
    /\ pc = "done" /\ faulty => outcome \in {"IoFailure", "Cancelled"}
    /\ pc = "done" /\ outcome = "IoFailure" => faulty
    /\ pc = "done" /\ outcome = "Success" => ~cancelled
    /\ pc = "done" /\ outcome = "Cancelled" => cancelled

\* Nothing is found before the end, and only Success comes with a payload.
Delivery ==
    /\ pc \notin {"settle", "done"} => verdict = "Success" /\ found = Nothing
    /\ pc # "done" => payload = Nothing
    /\ found # Nothing => verdict = "Success"
    /\ payload # Nothing => outcome = "Success" /\ payload = found /\ ~deviceFailed

\* Which points belong to which kind of file, and the budget of records there.
Course ==
    /\ pc \in {"poll", "record", "fill", "length", "skip", "block"} => file.kind \in {"jpeg", "png", "webp"}
    /\ pc \in {"fill", "length"} => file.kind = "jpeg"
    /\ pc \in {"tiff", "tiff_loop", "tiff_read", "tiff_poll"} => file.kind = "tiff"
    /\ pc \in {"record", "fill", "length", "skip", "block"} => visited < limits.records
    /\ pc \in {"entry", "prepare", "signature", "tiff"} => visited = 0 /\ data = 0
    /\ pc \in {"entry", "prepare", "signature"} => pos = 0
    /\ pc = "fill" => pos >= 2
    /\ pc = "tiff_read" => pos < size
    /\ pc = "tiff_poll" => length > 0

\* As long as no access failed, the device stands where the layout has it: at
\* a record, behind its marker, or at its data.
Aligned ==
    ~deviceFailed =>
        /\ pc \in {"poll", "record"} => visited <= RecordCount /\ pos = Start(Current)
        /\ pc \in {"fill", "length", "skip", "block"} => Current <= RecordCount
        /\ pc = "fill" => CurrentRecord.tag = "fill" /\ pos = Start(Current) + 2
        /\ pc = "length" =>
               /\ CurrentRecord.tag \in {"app1", "other", "exif"}
               /\ length = CurrentRecord.n
               /\ pos = Start(Current) + 2
        /\ pc \in {"skip", "block"} =>
               /\ length = CurrentRecord.n
               /\ pos = CurrentData
               /\ CurrentRecord.tag \in {"app1", "other", "exif"}
               /\ file.kind = "jpeg" => length >= 0
        /\ pc = "block" =>
               /\ CurrentRecord.tag = "exif"
               /\ file.kind = "jpeg" => CurrentData + ExifHeader <= size
        /\ pc = "skip" /\ CurrentRecord.tag = "exif" =>
               file.kind = "jpeg" /\ (steady => CurrentData + ExifHeader > size)

\* A TIFF file is taken from its start without a gap.
Gapless ==
    file.kind = "tiff" /\ ~deviceFailed =>
        /\ pc \in {"tiff_loop", "tiff_read", "tiff_poll"} => opened <= size /\ opened <= limits.tiff
        /\ pc \in {"tiff_loop", "tiff_read"} => pos = data
        /\ pc = "tiff_poll" => pos = data + length
        /\ steady /\ pc \in {"tiff_loop", "tiff_read", "tiff_poll"} => opened = size

\* What was found is the block the layout has.
Found ==
    ~deviceFailed /\ found # Nothing =>
        IF file.kind = "tiff" THEN found.from = 0 /\ found.to >= opened
        ELSE /\ Current <= RecordCount
             /\ CurrentRecord.tag = "exif"
             /\ found = DataOf(file, Current)
             /\ found.to <= size
             /\ Current <= limits.records
             /\ CurrentRecord.n <= limits.block

\* All records behind the device can be passed, in a file nobody writes.
Passed ==
    steady /\ ~deviceFailed /\ pc \in {"poll", "record", "fill", "length", "skip", "block"} =>
        \A i \in 1..visited : Passable(file.records[i])

\* A call that is not admitted, or whose file is too short, gets nowhere.
Entered ==
    /\ pc \notin {"entry", "prepare", "done"} => admitted
    /\ pc \in {"poll", "record", "fill", "length", "skip", "block", "tiff", "tiff_loop", "tiff_read", "tiff_poll"}
           => size >= SignatureBytes(file)

\* payload(), when it is left alone, ends with what the layout calls for.
Told == pc = "settle" /\ ~deviceFailed /\ ~cancelled /\ steady => <<verdict, found>> = Expected

IInv == TypeOK /\ Inputs /\ Latency /\ Faults /\ Delivery /\ Course /\ Aligned /\ Gapless /\ Found
        /\ WholeBlock /\ Passed /\ Entered /\ Told /\ FindsFirstExif

-----------------------------------------------------------------------------
(* The layout                                                              *)

\* A record takes at least one byte of the file.
LEMMA ExtentPositive ==
    ASSUME NEW f \in Files, NEW i \in DOMAIN f.records
    PROVE  Extent(f, f.records[i]) \in Nat \ {0}
<1>1. f.records[i] \in Records /\ f \in FileType
  BY FilesAssumption DEF FileType
<1>2. f.records[i].n \in Int /\ HeadBytes(f) \in {4, 8}
  BY <1>1 DEF Records, HeadBytes
<1>3. \A n \in Nat : FootBytes(f, n) \in Nat
  BY DEF FootBytes
<1> QED
  BY <1>2, <1>3 DEF Extent

\* Starts adds up the extents, however many records there are.
LEMMA StartsAddUp ==
    ASSUME NEW f \in Files
    PROVE  /\ Len(f.records) \in Nat
           /\ \A i \in 1..(Len(f.records) + 1) : Starts(f)[i] \in Nat
           /\ Starts(f)[1] = SignatureBytes(f)
           /\ \A i \in 1..Len(f.records) :
                  Starts(f)[i + 1] = Starts(f)[i] + Extent(f, f.records[i])
<1> DEFINE n == Len(f.records)
           extent(i) == Extent(f, f.records[i])
           step == [i \in 1..n |-> [v \in Nat |-> v + extent(i)]]
           base == SignatureBytes(f)
<1>1. f.records \in Seq(Records) /\ n \in Nat /\ DOMAIN f.records = 1..n /\ base \in Nat
  BY FilesAssumption DEF FileType, SignatureBytes
<1>2. \A i \in 1..n : extent(i) \in Nat
  BY <1>1, ExtentPositive
<1> HIDE DEF n, extent, base
<1>3. IsRecursion(step, n, Nat)
  BY <1>2 DEF IsRecursion
<1>4. PICK g : IsRun(g, base, step, n, Nat)
  <2> HIDE DEF step
  <2> QED
    BY <1>1, <1>3, Recursion
<1>5. g \in [0..n -> Nat] /\ g[0] = base
  BY <1>4 DEF IsRun
<1>6. ASSUME NEW i \in 1..n PROVE g[i] = g[i - 1] + extent(i)
  <2>1. g[i - 1] \in Nat
    <3>1. i - 1 \in 0..n
      BY <1>1
    <3> QED
      BY <1>5, <3>1
  <2>2. g[i] = step[i][g[i - 1]]
    BY <1>4 DEF IsRun
  <2> QED
    BY <2>1, <2>2
<1> HIDE DEF step
<1> DEFINE h == [i \in 1..(n + 1) |-> g[i - 1]]
           start[i \in 1..(n + 1)] == IF i = 1 THEN base ELSE start[i - 1] + extent(i - 1)
<1>7. h = [i \in 1..(n + 1) |-> IF i = 1 THEN base ELSE h[i - 1] + extent(i - 1)]
  <2>1. ASSUME NEW i \in 1..(n + 1)
        PROVE  h[i] = IF i = 1 THEN base ELSE h[i - 1] + extent(i - 1)
    <3>1. CASE i = 1
      BY <1>5, <3>1
    <3>2. CASE i # 1
      <4>1. i - 1 \in 1..n /\ i - 1 \in 1..(n + 1)
        BY <1>1, <3>2
      <4>2. g[i - 1] = g[(i - 1) - 1] + extent(i - 1)
        BY <1>6, <4>1
      <4> QED
        BY <3>2, <4>1, <4>2
    <3> QED
      BY <3>1, <3>2
  <2>2. h = [i \in 1..(n + 1) |-> h[i]]
    OBVIOUS
  <2> HIDE DEF h
  <2> QED
    BY <2>1, <2>2, Zenon
<1>8. start = [i \in 1..(n + 1) |-> IF i = 1 THEN base ELSE start[i - 1] + extent(i - 1)]
  <2> HIDE DEF h
  <2> QED
    BY <1>7, Zenon
<1>9. Starts(f) = start
  BY DEF Starts, n, extent, base
<1> HIDE DEF start
<1> DEFINE P == {m \in Nat : m <= n => start[m + 1] = g[m]}
<1>10. 0 \in P
  BY <1>1, <1>5, <1>8
<1>11. ASSUME NEW m \in Nat, m \in P PROVE m + 1 \in P
  <2>1. SUFFICES ASSUME m + 1 <= n PROVE start[m + 2] = g[m + 1]
    OBVIOUS
  <2>2. /\ m + 2 \in 1..(n + 1) /\ m + 2 # 1 /\ (m + 2) - 1 = m + 1
        /\ m + 1 \in 1..n /\ (m + 1) - 1 = m /\ start[m + 1] = g[m]
    BY <1>1, <1>11, <2>1
  <2>3. start[m + 2] = start[m + 1] + extent(m + 1)
    BY <1>8, <2>2
  <2>4. g[m + 1] = g[m] + extent(m + 1)
    BY <1>6, <2>2
  <2> QED
    BY <2>2, <2>3, <2>4
<1>12. Nat \subseteq P
  <2> HIDE DEF P
  <2> QED
    BY <1>10, <1>11, Induction
<1>13. ASSUME NEW i \in 1..(n + 1) PROVE start[i] = g[i - 1] /\ start[i] \in Nat
  <2>1. i - 1 \in Nat /\ i - 1 <= n /\ (i - 1) + 1 = i
    BY <1>1
  <2>2. i - 1 \in P
    BY <1>12, <2>1
  <2>3. start[i] = g[i - 1]
    BY <2>1, <2>2
  <2> QED
    BY <1>5, <2>1, <2>3
<1>14. ASSUME NEW i \in 1..n PROVE start[i + 1] = start[i] + extent(i)
  <2>1. i \in 1..(n + 1) /\ i + 1 \in 1..(n + 1) /\ (i + 1) - 1 = i
    BY <1>1
  <2> QED
    BY <1>6, <1>13, <2>1
<1>15. start[1] = base
  <2>1. 1 \in 1..(n + 1)
    BY <1>1
  <2> QED
    BY <1>8, <2>1
<1>16. Len(f.records) = n /\ SignatureBytes(f) = base /\ \A i \in 1..n : Extent(f, f.records[i]) = extent(i)
  BY DEF n, extent, base
<1> QED
  BY <1>1, <1>9, <1>13, <1>14, <1>15, <1>16

\* A record starts behind all records before it, and within the file.
LEMMA StartsIncrease ==
    ASSUME NEW f \in Files, NEW i \in 1..(Len(f.records) + 1), NEW j \in 1..(Len(f.records) + 1), i < j
    PROVE  i \in 1..Len(f.records) /\ Starts(f)[i + 1] <= Starts(f)[j] /\ Starts(f)[i] < Starts(f)[j]
<1> DEFINE n == Len(f.records)
           start == Starts(f)
           P == {m \in Nat : i + 1 + m <= n + 1 => start[i + 1] <= start[i + 1 + m]}
<1>1. /\ n \in Nat
      /\ \A k \in 1..(n + 1) : start[k] \in Nat
      /\ \A k \in 1..n : start[k + 1] = start[k] + Extent(f, f.records[k])
  BY StartsAddUp
<1>2. \A k \in 1..n : Extent(f, f.records[k]) \in Nat \ {0}
  <2>1. DOMAIN f.records = 1..n
    BY FilesAssumption DEF FileType
  <2> QED
    BY <2>1, ExtentPositive
<1> HIDE DEF n, start
<1>0. i \in 1..n /\ i \in Nat /\ j \in Nat /\ j <= n + 1
  BY <1>1 DEF n
<1>3. 0 \in P
  <2>1. i + 1 + 0 = i + 1 /\ i + 1 \in 1..(n + 1)
    BY <1>0, <1>1
  <2> QED
    BY <1>1, <2>1
<1>4. ASSUME NEW m \in Nat, m \in P PROVE m + 1 \in P
  <2>1. SUFFICES ASSUME i + 1 + (m + 1) <= n + 1 PROVE start[i + 1] <= start[i + 1 + (m + 1)]
    OBVIOUS
  <2>2. /\ i + 1 + m \in 1..n /\ i + 1 + (m + 1) = (i + 1 + m) + 1
        /\ i + 1 \in 1..(n + 1) /\ i + 1 + m \in 1..(n + 1)
    BY <1>0, <1>1, <2>1
  <2>3. start[i + 1] <= start[i + 1 + m]
    BY <1>4, <2>2
  <2>4. start[(i + 1 + m) + 1] = start[i + 1 + m] + Extent(f, f.records[i + 1 + m])
    BY <1>1, <2>2
  <2>5. /\ Extent(f, f.records[i + 1 + m]) \in Nat
        /\ start[i + 1] \in Nat /\ start[i + 1 + m] \in Nat
    BY <1>1, <1>2, <2>2
  <2> QED
    BY <2>2, <2>3, <2>4, <2>5
<1>5. start[i + 1] <= start[j]
  <2>1. j - (i + 1) \in Nat /\ i + 1 + (j - (i + 1)) = j
    BY <1>0
  <2>2. j - (i + 1) \in P
    <3> HIDE DEF P
    <3> QED
      BY <1>3, <1>4, <2>1, Induction
  <2> QED
    BY <1>0, <2>1, <2>2
<1>6. start[i] < start[i + 1]
  <2>1. i \in 1..(n + 1)
    BY <1>0, <1>1
  <2> QED
    BY <1>0, <1>1, <1>2, <2>1
<1>7. start[i] \in Nat /\ start[i + 1] \in Nat /\ start[j] \in Nat
  <2>1. i \in 1..(n + 1) /\ i + 1 \in 1..(n + 1) /\ j \in 1..(n + 1)
    BY <1>0, <1>1
  <2> QED
    BY <1>1, <2>1
<1> QED
  BY <1>0, <1>5, <1>6, <1>7 DEF n, start

-----------------------------------------------------------------------------
(* The invariant: types, polls, faults and answers                         *)

\* What is known of the arguments of a call.
LEMMA InputTypes ==
    ASSUME Inputs
    PROVE  /\ RecordCount \in Nat /\ DOMAIN file.records = 1..RecordCount
           /\ \A i \in DOMAIN file.records : file.records[i] \in Records
           /\ file.kind \in {"jpeg", "png", "webp", "tiff", "unknown"}
           /\ HeadBytes(file) = IF file.kind = "jpeg" THEN 4 ELSE 8
           /\ SignatureBytes(file) \in Nat
           /\ TotalBytes(file) \in Nat
           /\ limits.records \in Nat \ {0} /\ limits.block \in Nat \ {0} /\ limits.tiff \in Nat \ {0}
<1>1. file \in FileType /\ limits \in LimitType
  BY FilesAssumption, LimitsAssumption DEF Inputs
<1>2. RecordCount \in Nat /\ DOMAIN file.records = 1..RecordCount
  BY <1>1 DEF FileType, RecordCount
<1>3. Starts(file)[RecordCount + 1] \in Nat
  <2>1. RecordCount + 1 \in 1..(RecordCount + 1)
    BY <1>2
  <2> QED
    BY <2>1, StartsAddUp DEF Inputs, RecordCount
<1>4. TotalBytes(file) \in Nat
  BY <1>1, <1>3 DEF FileType, TotalBytes, RecordCount
<1> QED
  BY <1>1, <1>2, <1>4 DEF FileType, LimitType, HeadBytes, SignatureBytes

\* The types, one by one: of the flags, of the device, of the scan, and of the
\* answer.
IsRange(range) == range.from \in Nat /\ range.to \in Nat /\ range.from <= range.to
FlagTypes ==
    /\ cancelled \in BOOLEAN /\ deviceFailed \in BOOLEAN /\ faulty \in BOOLEAN
    /\ steady \in BOOLEAN /\ admitted \in BOOLEAN
DeviceTypes == size \in Nat /\ size <= TotalBytes(file) /\ pos \in Nat /\ pos <= size
ScanTypes ==
    /\ pc \in Points
    /\ visited \in Nat /\ visited <= limits.records
    /\ length \in Int
    /\ data \in Nat /\ late \in Nat /\ opened \in Nat
AnswerTypes ==
    /\ verdict \in {"Success", "ResourceLimit", "Damaged"}
    /\ pc # "done" => outcome = NoOutcome
    /\ pc = "done" /\ cancelled => outcome \in {"Cancelled", "ResourceLimit", "IoFailure"}
    /\ pc = "done" /\ ~cancelled => outcome \in {"Success", "Damaged", "ResourceLimit", "IoFailure"}
    /\ IsRange(found) /\ IsRange(payload)
Types == FlagTypes /\ DeviceTypes /\ ScanTypes /\ AnswerTypes

\* They are what TypeOK says.
LEMMA TypesAreTypeOK == Inputs => (TypeOK <=> Types)
<1> SUFFICES ASSUME Inputs PROVE TypeOK <=> Types
  OBVIOUS
<1>1. TotalBytes(file) \in Nat /\ limits.records \in Nat
  BY InputTypes
<1>2. TypeOK => Types
  BY <1>1 DEF TypeOK, Types, FlagTypes, DeviceTypes, ScanTypes, AnswerTypes, MetadataOutcomes, IsRange
<1>3. Types => TypeOK
  BY <1>1 DEF TypeOK, Types, FlagTypes, DeviceTypes, ScanTypes, AnswerTypes, MetadataOutcomes, IsRange
<1> QED
  BY <1>2, <1>3

\* The arguments stay.
LEMMA NextInputs == Inputs /\ [Next]_vars => Inputs' /\ file' = file /\ limits' = limits
  BY DEF Inputs, Next, Step, Scan, Tiff, PollEntry, Prepare, Signature, Settle, PollRecord, ReadMarker,
         SeekBack, ReadLength, ReadHeader, Skip, ReadBlock, OpenTiff, TiffAtEnd, ReadChunk, AppendChunk,
         RequestCancel, Grow, Terminating, world, vars

\* A call begins with the invariant.
LEMMA InitIInv == Init => IInv
<1> SUFFICES ASSUME Init PROVE IInv
  OBVIOUS
<1>1. Inputs
  BY DEF Init, Inputs
<1>2. size \in Nat /\ size <= TotalBytes(file)
  BY <1>1, InputTypes DEF Init
<1>3. Types
  <2>1. limits.records \in Nat
    BY <1>1, InputTypes
  <2>2. IsRange(Nothing)
    BY DEF IsRange, Nothing, Range
  <2>3. IsRange(found) /\ IsRange(payload)
    BY <2>2 DEF Init
  <2>4. pc \in Points /\ (pc # "done" => outcome = NoOutcome) /\ pc # "done"
    BY DEF Init, Points
  <2>5. /\ cancelled \in BOOLEAN /\ deviceFailed \in BOOLEAN /\ faulty \in BOOLEAN
        /\ steady \in BOOLEAN /\ admitted \in BOOLEAN
    BY DEF Init
  <2>6. pos \in Nat /\ pos <= size /\ visited \in Nat /\ visited <= limits.records
    BY <1>2, <2>1 DEF Init
  <2>7. /\ data \in Nat /\ late \in Nat /\ opened \in Nat /\ length \in Int
        /\ verdict \in {"Success", "ResourceLimit", "Damaged"}
    BY DEF Init
  <2> QED
    BY <1>2, <2>3, <2>4, <2>5, <2>6, <2>7 DEF Types, FlagTypes, DeviceTypes, ScanTypes, AnswerTypes
<1>4. TypeOK
  BY <1>1, <1>3, TypesAreTypeOK
<1>5. Latency /\ Faults /\ Delivery
  <2>1. Latency
    BY DEF Init, Latency
  <2>2. Faults
    BY DEF Init, Faults
  <2>3. Delivery
    BY DEF Init, Delivery
  <2> QED
    BY <2>1, <2>2, <2>3
<1>6. Course /\ Gapless /\ Passed
  BY DEF Init, Course, Gapless, Passed
<1>7. Aligned
  BY DEF Init, Aligned
<1>8. Found /\ WholeBlock
  BY DEF Init, Found, WholeBlock
<1>9. Entered /\ Told /\ FindsFirstExif
  BY DEF Init, Entered, Told, FindsFirstExif
<1> QED
  BY <1>1, <1>4, <1>5, <1>6, <1>7, <1>8, <1>9 DEF IInv

\* Behind the flag no more than the accesses of one record are begun.
LEMMA NextLatency == IInv /\ [Next]_vars => Latency'
<1> SUFFICES ASSUME IInv, [Next]_vars PROVE Latency'
  OBVIOUS
<1>0. Latency /\ cancelled \in BOOLEAN
  BY DEF IInv, TypeOK
<1> USE DEF Latency, Access, Goto, GiveUp, Finish, Return, world, answer, scan
<1>1. CASE PollEntry
  BY <1>0, <1>1 DEF PollEntry
<1>2. CASE Prepare
  BY <1>0, <1>2 DEF Prepare
<1>3. CASE Signature
  BY <1>0, <1>3 DEF Signature, Available
<1>4. CASE Settle
  BY <1>0, <1>4 DEF Settle, FaultSeen
<1>5. CASE PollRecord
  BY <1>0, <1>5 DEF PollRecord, MoreRecords
<1>6. CASE ReadMarker
  BY <1>0, <1>6 DEF ReadMarker, Available, NextRecord
<1>7. CASE SeekBack
  BY <1>0, <1>7 DEF SeekBack, NextRecord
<1>8. CASE ReadLength
  BY <1>0, <1>8 DEF ReadLength, Available
<1>9. CASE ReadHeader
  BY <1>0, <1>9 DEF ReadHeader, Available
<1>10. CASE Skip
  BY <1>0, <1>10 DEF Skip, Skippable, NextRecord
<1>11. CASE ReadBlock
  BY <1>0, <1>11 DEF ReadBlock, Available, Oversized
<1>12. CASE OpenTiff
  BY <1>0, <1>12 DEF OpenTiff
<1>13. CASE TiffAtEnd
  BY <1>0, <1>13 DEF TiffAtEnd
<1>14. CASE ReadChunk
  BY <1>0, <1>14 DEF ReadChunk, IsLast
<1>15. CASE AppendChunk
  BY <1>0, <1>15 DEF AppendChunk
<1>16. CASE RequestCancel
  BY <1>0, <1>16 DEF RequestCancel
<1>17. CASE Grow
  BY <1>0, <1>17 DEF Grow
<1>18. CASE UNCHANGED vars
  BY <1>0, <1>18 DEF vars
<1> QED
  BY <1>1, <1>2, <1>3, <1>4, <1>5, <1>6, <1>7, <1>8, <1>9,
     <1>10, <1>11, <1>12, <1>13, <1>14, <1>15, <1>16, <1>17, <1>18
     DEF Next, Step, Scan, Tiff, Terminating

\* The steps keep to the points of their kind of file, and to the budget.
LEMMA NextCourse == IInv /\ [Next]_vars => Course'
<1> SUFFICES ASSUME IInv, [Next]_vars PROVE Course'
  OBVIOUS
<1>0. /\ Course /\ pos \in Nat /\ size \in Nat
      /\ file.kind \in {"jpeg", "png", "webp", "tiff", "unknown"} /\ limits.records \in Nat \ {0}
      /\ ChunkBytes \in Nat \ {0}
  BY InputTypes, TypesAreTypeOK, ChunkAssumption DEF IInv, Types, FlagTypes, DeviceTypes, ScanTypes, AnswerTypes
<1> USE DEF Course, Access, Goto, GiveUp, Finish, Return, world, answer, scan
<1>1. CASE PollEntry
  BY <1>0, <1>1 DEF PollEntry
<1>2. CASE Prepare
  BY <1>0, <1>2 DEF Prepare
<1>3. CASE Signature
  BY <1>0, <1>3 DEF Signature, Available
<1>4. CASE Settle
  BY <1>0, <1>4 DEF Settle, FaultSeen
<1>5. CASE PollRecord
  BY <1>0, <1>5 DEF PollRecord, MoreRecords
<1>6. CASE ReadMarker
  BY <1>0, <1>6 DEF ReadMarker, Available, NextRecord
<1>7. CASE SeekBack
  BY <1>0, <1>7 DEF SeekBack, NextRecord
<1>8. CASE ReadLength
  BY <1>0, <1>8 DEF ReadLength, Available
<1>9. CASE ReadHeader
  BY <1>0, <1>9 DEF ReadHeader, Available
<1>10. CASE Skip
  BY <1>0, <1>10 DEF Skip, Skippable, NextRecord
<1>11. CASE ReadBlock
  BY <1>0, <1>11 DEF ReadBlock, Available, Oversized
<1>12. CASE OpenTiff
  BY <1>0, <1>12 DEF OpenTiff
<1>13. CASE TiffAtEnd
  BY <1>0, <1>13 DEF TiffAtEnd
<1>14. CASE ReadChunk
  BY <1>0, <1>14 DEF ReadChunk, IsLast, Lesser
<1>15. CASE AppendChunk
  BY <1>0, <1>15 DEF AppendChunk
<1>16. CASE RequestCancel
  BY <1>0, <1>16 DEF RequestCancel
<1>17. CASE Grow
  BY <1>0, <1>17 DEF Grow
<1>18. CASE UNCHANGED vars
  BY <1>0, <1>18 DEF vars
<1> QED
  BY <1>1, <1>2, <1>3, <1>4, <1>5, <1>6, <1>7, <1>8, <1>9,
     <1>10, <1>11, <1>12, <1>13, <1>14, <1>15, <1>16, <1>17, <1>18
     DEF Next, Step, Scan, Tiff, Terminating

\* A fault reaches the answer.
LEMMA NextFaults == IInv /\ [Next]_vars => Faults'
<1> SUFFICES ASSUME IInv, [Next]_vars PROVE Faults'
  OBVIOUS
<1>0. /\ Faults /\ cancelled \in BOOLEAN /\ deviceFailed \in BOOLEAN /\ faulty \in BOOLEAN
      /\ verdict \in {"Success", "ResourceLimit", "Damaged"}
  BY TypesAreTypeOK DEF IInv, Types, FlagTypes, DeviceTypes, ScanTypes, AnswerTypes
<1> USE DEF Faults, Access, DeviceWorks, DeviceFails, Goto, GiveUp, Finish, Return, world, answer, scan
<1>1. CASE PollEntry
  BY <1>0, <1>1 DEF PollEntry
<1>2. CASE Prepare
  BY <1>0, <1>2 DEF Prepare
<1>3. CASE Signature
  BY <1>0, <1>3 DEF Signature, Available
<1>4. CASE Settle
  BY <1>0, <1>4 DEF Settle, FaultSeen
<1>5. CASE PollRecord
  BY <1>0, <1>5 DEF PollRecord, MoreRecords
<1>6. CASE ReadMarker
  BY <1>0, <1>6 DEF ReadMarker, Available, NextRecord
<1>7. CASE SeekBack
  BY <1>0, <1>7 DEF SeekBack, NextRecord
<1>8. CASE ReadLength
  BY <1>0, <1>8 DEF ReadLength, Available
<1>9. CASE ReadHeader
  BY <1>0, <1>9 DEF ReadHeader, Available
<1>10. CASE Skip
  BY <1>0, <1>10 DEF Skip, Skippable, NextRecord
<1>11. CASE ReadBlock
  BY <1>0, <1>11 DEF ReadBlock, Available, Oversized
<1>12. CASE OpenTiff
  BY <1>0, <1>12 DEF OpenTiff
<1>13. CASE TiffAtEnd
  BY <1>0, <1>13 DEF TiffAtEnd
<1>14. CASE ReadChunk
  BY <1>0, <1>14 DEF ReadChunk, IsLast
<1>15. CASE AppendChunk
  BY <1>0, <1>15 DEF AppendChunk
<1>16. CASE RequestCancel
  BY <1>0, <1>16 DEF RequestCancel
<1>17. CASE Grow
  BY <1>0, <1>17 DEF Grow
<1>18. CASE UNCHANGED vars
  BY <1>0, <1>18 DEF vars
<1> QED
  BY <1>1, <1>2, <1>3, <1>4, <1>5, <1>6, <1>7, <1>8, <1>9,
     <1>10, <1>11, <1>12, <1>13, <1>14, <1>15, <1>16, <1>17, <1>18
     DEF Next, Step, Scan, Tiff, Terminating

\* Nothing is delivered before the end, and nothing but what was found.
LEMMA NextDelivery == IInv /\ [Next]_vars => Delivery'
<1> SUFFICES ASSUME IInv, [Next]_vars PROVE Delivery'
  OBVIOUS
<1>0. Delivery /\ Faults /\ verdict \in {"Success", "ResourceLimit", "Damaged"}
  BY TypesAreTypeOK DEF IInv, Types, FlagTypes, DeviceTypes, ScanTypes, AnswerTypes
<1> USE DEF Delivery, Access, DeviceWorks, DeviceFails, Goto, GiveUp, Finish, Return, world, answer, scan
<1>1. CASE PollEntry
  BY <1>0, <1>1 DEF PollEntry
<1>2. CASE Prepare
  BY <1>0, <1>2 DEF Prepare
<1>3. CASE Signature
  BY <1>0, <1>3 DEF Signature, Available
<1>4. CASE Settle
  <2>1. CASE ~cancelled /\ ~FaultSeen /\ Return(verdict, found)
    BY <1>0, <1>4, <2>1 DEF Settle, FaultSeen
  <2>2. CASE ~(~cancelled /\ ~FaultSeen /\ Return(verdict, found))
    BY <1>0, <1>4, <2>2 DEF Settle, FaultSeen
  <2> QED
    BY <2>1, <2>2
<1>5. CASE PollRecord
  BY <1>0, <1>5 DEF PollRecord, MoreRecords
<1>6. CASE ReadMarker
  BY <1>0, <1>6 DEF ReadMarker, Available, NextRecord
<1>7. CASE SeekBack
  BY <1>0, <1>7 DEF SeekBack, NextRecord
<1>8. CASE ReadLength
  BY <1>0, <1>8 DEF ReadLength, Available
<1>9. CASE ReadHeader
  BY <1>0, <1>9 DEF ReadHeader, Available
<1>10. CASE Skip
  BY <1>0, <1>10 DEF Skip, Skippable, NextRecord
<1>11. CASE ReadBlock
  BY <1>0, <1>11 DEF ReadBlock, Available, Oversized
<1>12. CASE OpenTiff
  BY <1>0, <1>12 DEF OpenTiff
<1>13. CASE TiffAtEnd
  BY <1>0, <1>13 DEF TiffAtEnd
<1>14. CASE ReadChunk
  BY <1>0, <1>14 DEF ReadChunk, IsLast
<1>15. CASE AppendChunk
  BY <1>0, <1>15 DEF AppendChunk
<1>16. CASE RequestCancel
  BY <1>0, <1>16 DEF RequestCancel
<1>17. CASE Grow
  BY <1>0, <1>17 DEF Grow
<1>18. CASE UNCHANGED vars
  BY <1>0, <1>18 DEF vars
<1> QED
  BY <1>1, <1>2, <1>3, <1>4, <1>5, <1>6, <1>7, <1>8, <1>9,
     <1>10, <1>11, <1>12, <1>13, <1>14, <1>15, <1>16, <1>17, <1>18
     DEF Next, Step, Scan, Tiff, Terminating

\* Flags stay flags.
LEMMA NextFlagTypes == IInv /\ [Next]_vars => FlagTypes'
<1> SUFFICES ASSUME IInv, [Next]_vars PROVE FlagTypes'
  OBVIOUS
<1>0. FlagTypes
  BY TypesAreTypeOK DEF IInv, Types
<1> USE DEF FlagTypes, DeviceWorks, DeviceFails, Access, Goto, GiveUp, Finish, Return, world, answer, scan
<1>1. CASE PollEntry
  BY <1>0, <1>1 DEF PollEntry
<1>2. CASE Prepare
  BY <1>0, <1>2 DEF Prepare
<1>3. CASE Signature
  BY <1>0, <1>3 DEF Signature, Available
<1>4. CASE Settle
  BY <1>0, <1>4 DEF Settle, FaultSeen
<1>5. CASE PollRecord
  BY <1>0, <1>5 DEF PollRecord, MoreRecords
<1>6. CASE ReadMarker
  BY <1>0, <1>6 DEF ReadMarker, Available, NextRecord
<1>7. CASE SeekBack
  BY <1>0, <1>7 DEF SeekBack, NextRecord
<1>8. CASE ReadLength
  BY <1>0, <1>8 DEF ReadLength, Available
<1>9. CASE ReadHeader
  BY <1>0, <1>9 DEF ReadHeader, Available
<1>10. CASE Skip
  BY <1>0, <1>10 DEF Skip, Skippable, NextRecord
<1>11. CASE ReadBlock
  BY <1>0, <1>11 DEF ReadBlock, Available, Oversized
<1>12. CASE OpenTiff
  BY <1>0, <1>12 DEF OpenTiff
<1>13. CASE TiffAtEnd
  BY <1>0, <1>13 DEF TiffAtEnd
<1>14. CASE ReadChunk
  BY <1>0, <1>14 DEF ReadChunk, IsLast
<1>15. CASE AppendChunk
  BY <1>0, <1>15 DEF AppendChunk
<1>16. CASE RequestCancel
  BY <1>0, <1>16 DEF RequestCancel
<1>17. CASE Grow
  BY <1>0, <1>17 DEF Grow
<1>18. CASE UNCHANGED vars
  BY <1>0, <1>18 DEF vars
<1> QED
  BY <1>1, <1>2, <1>3, <1>4, <1>5, <1>6, <1>7, <1>8, <1>9,
     <1>10, <1>11, <1>12, <1>13, <1>14, <1>15, <1>16, <1>17, <1>18
     DEF Next, Step, Scan, Tiff, Terminating

\* The counters stay counters, and visited within the budget.
LEMMA NextScanTypes == IInv /\ [Next]_vars => ScanTypes'
<1> SUFFICES ASSUME IInv, [Next]_vars PROVE ScanTypes'
  OBVIOUS
<1>0. /\ ScanTypes /\ DeviceTypes /\ Course /\ limits.records \in Nat /\ late' \in Nat /\ ChunkBytes \in Nat
      /\ \A i \in DOMAIN file.records : file.records[i].n \in Int
  <2>1. \A i \in DOMAIN file.records : file.records[i].n \in Int
    BY InputTypes DEF IInv, Records
  <2>2. late' \in Nat
    BY NextLatency DEF Latency
  <2> QED
    BY <2>1, <2>2, InputTypes, TypesAreTypeOK, ChunkAssumption DEF IInv, Types
<1>00. Here # {} => Record.n \in Int
  BY <1>0 DEF Here, Record
<1> USE DEF ScanTypes, DeviceTypes, Points, Course, Goto, GiveUp, Finish, Return, world, answer, scan
<1>1. CASE PollEntry
  BY <1>0, <1>00, <1>1 DEF PollEntry
<1>2. CASE Prepare
  BY <1>0, <1>00, <1>2 DEF Prepare
<1>3. CASE Signature
  BY <1>0, <1>00, <1>3 DEF Signature, Available
<1>4. CASE Settle
  BY <1>0, <1>00, <1>4 DEF Settle, FaultSeen
<1>5. CASE PollRecord
  BY <1>0, <1>00, <1>5 DEF PollRecord, MoreRecords
<1>6. CASE ReadMarker
  BY <1>0, <1>00, <1>6 DEF ReadMarker, Available, NextRecord
<1>7. CASE SeekBack
  BY <1>0, <1>00, <1>7 DEF SeekBack, NextRecord
<1>8. CASE ReadLength
  BY <1>0, <1>00, <1>8 DEF ReadLength, Available, ExifHeader
<1>9. CASE ReadHeader
  BY <1>0, <1>00, <1>9 DEF ReadHeader, Available
<1>10. CASE Skip
  BY <1>0, <1>00, <1>10 DEF Skip, SkipBytes, FootBytes, Skippable, NextRecord
<1>11. CASE ReadBlock
  BY <1>0, <1>00, <1>11 DEF ReadBlock, Available, Oversized
<1>12. CASE OpenTiff
  BY <1>0, <1>00, <1>12 DEF OpenTiff
<1>13. CASE TiffAtEnd
  BY <1>0, <1>00, <1>13 DEF TiffAtEnd
<1>14. CASE ReadChunk
  BY <1>0, <1>00, <1>14 DEF ReadChunk, IsLast, Lesser
<1>15. CASE AppendChunk
  BY <1>0, <1>00, <1>15 DEF AppendChunk
<1>16. CASE RequestCancel
  BY <1>0, <1>00, <1>16 DEF RequestCancel
<1>17. CASE Grow
  BY <1>0, <1>00, <1>17 DEF Grow, Lesser
<1>18. CASE UNCHANGED vars
  BY <1>0, <1>00, <1>18 DEF vars
<1> QED
  BY <1>1, <1>2, <1>3, <1>4, <1>5, <1>6, <1>7, <1>8, <1>9,
     <1>10, <1>11, <1>12, <1>13, <1>14, <1>15, <1>16, <1>17, <1>18
     DEF Next, Step, Scan, Tiff, Terminating

\* The device never stands behind the bytes that exist.
LEMMA NextDeviceTypes == IInv /\ [Next]_vars => DeviceTypes'
<1> SUFFICES ASSUME IInv, [Next]_vars PROVE DeviceTypes'
  OBVIOUS
<1>0. /\ DeviceTypes /\ length \in Int /\ pc \in Points /\ Course /\ SignatureBytes(file) \in Nat
      /\ TotalBytes(file) \in Nat /\ GrowBytes \in Nat /\ ChunkBytes \in Nat /\ file' = file
  BY InputTypes, TypesAreTypeOK, NextInputs, ChunkAssumption, GrowAssumption DEF IInv, Types, ScanTypes
<1> USE DEF DeviceTypes, Course, Goto, GiveUp, Finish, Return, world, answer, scan, DeviceWorks, DeviceFails
<1>1. CASE PollEntry
  BY <1>0, <1>1 DEF PollEntry
<1>2. CASE Prepare
  BY <1>0, <1>2 DEF Prepare
<1>3. CASE Signature
  BY <1>0, <1>3 DEF Signature, Available
<1>4. CASE Settle
  BY <1>0, <1>4 DEF Settle, FaultSeen
<1>5. CASE PollRecord
  BY <1>0, <1>5 DEF PollRecord, MoreRecords
<1>6. CASE ReadMarker
  BY <1>0, <1>6 DEF ReadMarker, Available, NextRecord
<1>7. CASE SeekBack
  BY <1>0, <1>7 DEF SeekBack, NextRecord
<1>8. CASE ReadLength
  BY <1>0, <1>8 DEF ReadLength, Available, ExifHeader
<1>9. CASE ReadHeader
  BY <1>0, <1>9 DEF ReadHeader, Available
<1>10. CASE Skip
  BY <1>0, <1>10 DEF Skip, SkipBytes, FootBytes, Skippable, NextRecord
<1>11. CASE ReadBlock
  BY <1>0, <1>11 DEF ReadBlock, Available, Oversized
<1>12. CASE OpenTiff
  BY <1>0, <1>12 DEF OpenTiff
<1>13. CASE TiffAtEnd
  BY <1>0, <1>13 DEF TiffAtEnd
<1>14. CASE ReadChunk
  BY <1>0, <1>14 DEF ReadChunk, IsLast, Lesser
<1>15. CASE AppendChunk
  BY <1>0, <1>15 DEF AppendChunk
<1>16. CASE RequestCancel
  BY <1>0, <1>16 DEF RequestCancel
<1>17. CASE Grow
  BY <1>0, <1>17 DEF Grow, Lesser
<1>18. CASE UNCHANGED vars
  BY <1>0, <1>18 DEF vars
<1> QED
  BY <1>1, <1>2, <1>3, <1>4, <1>5, <1>6, <1>7, <1>8, <1>9,
     <1>10, <1>11, <1>12, <1>13, <1>14, <1>15, <1>16, <1>17, <1>18
     DEF Next, Step, Scan, Tiff, Terminating

\* The answer is one inspect reckons with.
LEMMA NextAnswerTypes == IInv /\ [Next]_vars => AnswerTypes'
<1> SUFFICES ASSUME IInv, [Next]_vars PROVE AnswerTypes'
  OBVIOUS
<1>0. /\ AnswerTypes /\ FlagTypes /\ pos \in Nat /\ length \in Int /\ data \in Nat
      /\ Faults
  BY TypesAreTypeOK DEF IInv, Types, DeviceTypes, ScanTypes
<1>00. IsRange(Nothing) /\ IsRange(Range(0, data)) /\ (length > 0 => IsRange(Range(pos, length)))
  BY <1>0 DEF IsRange, Nothing, Range
<1> USE DEF AnswerTypes, FlagTypes, Goto, GiveUp, Finish, Return, world, answer, scan
<1>1. CASE PollEntry
  BY <1>0, <1>00, <1>1 DEF PollEntry
<1>2. CASE Prepare
  BY <1>0, <1>00, <1>2 DEF Prepare
<1>3. CASE Signature
  BY <1>0, <1>00, <1>3 DEF Signature, Available
<1>4. CASE Settle
  BY <1>0, <1>00, <1>4 DEF Settle, FaultSeen
<1>5. CASE PollRecord
  BY <1>0, <1>00, <1>5 DEF PollRecord, MoreRecords
<1>6. CASE ReadMarker
  BY <1>0, <1>00, <1>6 DEF ReadMarker, Available, NextRecord
<1>7. CASE SeekBack
  BY <1>0, <1>00, <1>7 DEF SeekBack, NextRecord
<1>8. CASE ReadLength
  BY <1>0, <1>00, <1>8 DEF ReadLength, Available
<1>9. CASE ReadHeader
  BY <1>0, <1>00, <1>9 DEF ReadHeader, Available
<1>10. CASE Skip
  BY <1>0, <1>00, <1>10 DEF Skip, Skippable, NextRecord
<1>11. CASE ReadBlock
  BY <1>0, <1>00, <1>11 DEF ReadBlock, Available, Oversized
<1>12. CASE OpenTiff
  BY <1>0, <1>00, <1>12 DEF OpenTiff
<1>13. CASE TiffAtEnd
  BY <1>0, <1>00, <1>13 DEF TiffAtEnd
<1>14. CASE ReadChunk
  BY <1>0, <1>00, <1>14 DEF ReadChunk, IsLast
<1>15. CASE AppendChunk
  BY <1>0, <1>00, <1>15 DEF AppendChunk
<1>16. CASE RequestCancel
  BY <1>0, <1>00, <1>16 DEF RequestCancel
<1>17. CASE Grow
  BY <1>0, <1>00, <1>17 DEF Grow
<1>18. CASE UNCHANGED vars
  BY <1>0, <1>00, <1>18 DEF vars
<1> QED
  BY <1>1, <1>2, <1>3, <1>4, <1>5, <1>6, <1>7, <1>8, <1>9,
     <1>10, <1>11, <1>12, <1>13, <1>14, <1>15, <1>16, <1>17, <1>18
     DEF Next, Step, Scan, Tiff, Terminating

\* The types are kept.
LEMMA NextTypeOK == IInv /\ [Next]_vars => TypeOK'
<1> SUFFICES ASSUME IInv, [Next]_vars PROVE TypeOK'
  OBVIOUS
<1>1. Types'
  BY NextFlagTypes, NextScanTypes, NextDeviceTypes, NextAnswerTypes DEF Types
<1>2. Inputs'
  BY NextInputs DEF IInv
<1>3. (Inputs => (TypeOK <=> Types))'
  BY TypesAreTypeOK, PTL
<1> QED
  BY <1>1, <1>2, <1>3

-----------------------------------------------------------------------------
(* The invariant: where the device stands                                  *)

\* Only the record at hand starts where a scan that is aligned stands.
LEMMA AtRecord ==
    ASSUME Inputs, visited \in Nat, visited <= RecordCount, pos = Start(Current)
    PROVE  /\ Here # {} <=> Current <= RecordCount
           /\ Here # {} => Record = CurrentRecord
<1>1. RecordCount \in Nat /\ DOMAIN file.records = 1..RecordCount /\ file \in Files
  BY InputTypes DEF Inputs
<1>2. Current \in 1..(RecordCount + 1)
  BY <1>1 DEF Current
<1>3. ASSUME NEW i \in Here PROVE i = Current /\ Current <= RecordCount
  <2>1. i \in 1..RecordCount /\ i \in 1..(RecordCount + 1) /\ Start(i) = Start(Current)
    BY <1>1, <1>3 DEF Here, Start
  <2>2. ~(i < Current)
    <3>1. SUFFICES ASSUME i < Current PROVE Start(i) < Start(Current)
      <4>1. Start(i) \in Nat
        BY <1>1, <2>1, StartsAddUp DEF RecordCount, Start
      <4> QED
        BY <2>1, <4>1
    <3> QED
      BY <1>1, <1>2, <2>1, <3>1, StartsIncrease DEF RecordCount, Start
  <2>3. ~(Current < i)
    <3>1. SUFFICES ASSUME Current < i PROVE Start(Current) < Start(i)
      <4>1. Start(i) \in Nat
        BY <1>1, <2>1, StartsAddUp DEF RecordCount, Start
      <4> QED
        BY <2>1, <4>1
    <3> QED
      BY <1>1, <1>2, <2>1, <3>1, StartsIncrease DEF RecordCount, Start
  <2> QED
    BY <1>1, <1>2, <2>1, <2>2, <2>3
<1>4. Current <= RecordCount => Current \in Here
  BY <1>1, <1>2 DEF Here, Start
<1>5. Here # {} => Record = CurrentRecord
  <2>1. SUFFICES ASSUME Here # {} PROVE (CHOOSE i \in Here : TRUE) = Current
    BY DEF Record, CurrentRecord
  <2> QED
    BY <1>3, <2>1
<1> QED
  BY <1>3, <1>4, <1>5

\* Behind the marker of the record at hand, its tag is the segment's.
LEMMA BehindMarker ==
    ASSUME Inputs, visited \in Nat, Current <= RecordCount, pos \in Int, pos = Start(Current) + 2
    PROVE  SegmentTag = CurrentRecord.tag
<1>1. RecordCount \in Nat /\ DOMAIN file.records = 1..RecordCount /\ file \in Files
  BY InputTypes DEF Inputs
<1>2. Current \in 1..RecordCount /\ Current \in 1..(RecordCount + 1)
  BY <1>1 DEF Current
<1>3. \A i \in 1..(RecordCount + 1) : Start(i) \in Nat
  BY <1>1, StartsAddUp DEF RecordCount, Start
<1>4. pos - 2 = Start(Current)
  BY <1>2, <1>3
<1>5. ASSUME NEW i \in DOMAIN file.records, Starts(file)[i] = pos - 2 PROVE i = Current
  <2>1. i \in 1..RecordCount /\ i \in 1..(RecordCount + 1) /\ Start(i) = Start(Current) /\ Start(i) \in Nat
    <3>1. i \in 1..RecordCount /\ i \in 1..(RecordCount + 1)
      BY <1>1
    <3> QED
      BY <1>3, <1>4, <1>5, <3>1 DEF Start
  <2>2. i < Current => Start(i) < Start(Current)
    BY <1>1, <1>2, <2>1, StartsIncrease DEF RecordCount, Start
  <2>3. Current < i => Start(Current) < Start(i)
    BY <1>1, <1>2, <2>1, StartsIncrease DEF RecordCount, Start
  <2> QED
    BY <1>1, <1>2, <2>1, <2>2, <2>3
<1>6. Current \in DOMAIN file.records /\ Starts(file)[Current] = pos - 2
  BY <1>1, <1>2, <1>4 DEF Start
<1>7. (CHOOSE i \in DOMAIN file.records : Starts(file)[i] = pos - 2) = Current
  BY <1>5, <1>6
<1> QED
  BY <1>7 DEF SegmentTag, CurrentRecord

\* How far it is from the record at hand to the next.
LEMMA ToTheNext ==
    ASSUME Inputs, visited \in Nat, Current <= RecordCount
    PROVE  /\ CurrentRecord \in Records
           /\ Start(Current) \in Nat /\ Start(Current + 1) \in Nat
           /\ CurrentRecord.tag = "fill" => Start(Current + 1) = Start(Current) + 1
           /\ CurrentRecord.tag = "standalone" => Start(Current + 1) = Start(Current) + 2
           /\ CurrentRecord.tag \in {"app1", "other", "exif"} /\ CurrentRecord.n >= 0 =>
                  Start(Current + 1) = CurrentData + SkipBytes(CurrentRecord.n)
           /\ file.kind # "jpeg" => CurrentRecord.n >= 0 /\ CurrentRecord.tag \in {"stop", "other", "exif"}
           /\ CurrentRecord.tag = "exif" => CurrentRecord.n >= 0
<1>1. RecordCount \in Nat /\ DOMAIN file.records = 1..RecordCount /\ file \in Files
  BY InputTypes DEF Inputs
<1>2. Current \in 1..RecordCount /\ Current \in 1..(RecordCount + 1) /\ Current + 1 \in 1..(RecordCount + 1)
  BY <1>1 DEF Current
<1>3. CurrentRecord \in Records
  BY <1>1, <1>2, InputTypes DEF CurrentRecord
<1>4. Start(Current) \in Nat /\ Start(Current + 1) \in Nat
  BY <1>1, <1>2, StartsAddUp DEF RecordCount, Start
<1>5. Start(Current + 1) = Start(Current) + Extent(file, CurrentRecord)
  BY <1>1, <1>2, StartsAddUp DEF RecordCount, Start, CurrentRecord
<1>6. /\ file.kind # "jpeg" => CurrentRecord.n >= 0 /\ CurrentRecord.tag \in {"stop", "other", "exif"}
      /\ CurrentRecord.tag = "exif" => CurrentRecord.n >= 0
  <2>1. IF file.kind = "jpeg"
        THEN CurrentRecord.tag = "exif" => CurrentRecord.n >= 6
        ELSE CurrentRecord.n >= 0 /\ CurrentRecord.tag \in {"stop", "other", "exif"}
    BY <1>1, <1>2, FilesAssumption DEF CurrentRecord, ExifHeader
  <2>2. CurrentRecord.n \in Int
    BY <1>3 DEF Records
  <2> QED
    BY <2>1, <2>2
<1>7. CurrentRecord.n \in Int /\ HeadBytes(file) \in Nat
  BY <1>3 DEF Records, HeadBytes
<1>8. CurrentRecord.tag \in {"app1", "other", "exif"} /\ CurrentRecord.n >= 0 =>
          Start(Current + 1) = CurrentData + SkipBytes(CurrentRecord.n)
  <2>1. SUFFICES ASSUME CurrentRecord.tag \in {"app1", "other", "exif"}, CurrentRecord.n >= 0
                 PROVE  Start(Current + 1) = CurrentData + SkipBytes(CurrentRecord.n)
    OBVIOUS
  <2>2. FootBytes(file, CurrentRecord.n) \in Nat
    BY <1>7, <2>1 DEF FootBytes
  <2>3. Extent(file, CurrentRecord) = HeadBytes(file) + CurrentRecord.n + FootBytes(file, CurrentRecord.n)
    BY <1>7, <2>1 DEF Extent
  <2> QED
    BY <1>4, <1>5, <1>7, <2>2, <2>3 DEF CurrentData, SkipBytes
<1>9. /\ CurrentRecord.tag = "fill" => Start(Current + 1) = Start(Current) + 1
      /\ CurrentRecord.tag = "standalone" => Start(Current + 1) = Start(Current) + 2
  <2>1. CurrentRecord.tag = "fill" => Extent(file, CurrentRecord) = 1
    BY DEF Extent
  <2>2. CurrentRecord.tag = "standalone" => Extent(file, CurrentRecord) = 2
    BY DEF Extent
  <2> QED
    BY <1>5, <2>1, <2>2
<1> QED
  BY <1>3, <1>4, <1>6, <1>8, <1>9

\* As long as no access fails, the device stays where the layout has it.
LEMMA NextAligned == IInv /\ [Next]_vars => Aligned'
<1> SUFFICES ASSUME IInv, [Next]_vars PROVE Aligned'
  OBVIOUS
<1>0. /\ Aligned /\ Course /\ Inputs /\ file' = file /\ RecordCount \in Nat
      /\ pos \in Nat /\ size \in Nat /\ visited \in Nat /\ length \in Int
  BY InputTypes, TypesAreTypeOK, NextInputs DEF IInv, Types, DeviceTypes, ScanTypes
<1> USE DEF Aligned, Course, Goto, GiveUp, Finish, Return, world, answer, scan, DeviceWorks, DeviceFails, RecordCount, Start, Current, CurrentRecord, CurrentData
<1>1. CASE PollEntry
  BY <1>0, <1>1 DEF PollEntry
<1>2. CASE Prepare
  BY <1>0, <1>2 DEF Prepare
<1>3. CASE Signature
  <2>1. visited = 0 /\ Starts(file)[1] = SignatureBytes(file) /\ 0 + 1 = 1
    BY <1>0, <1>3, StartsAddUp DEF Signature, Inputs
  <2> QED
    BY <1>0, <1>3, <2>1 DEF Signature, Available
<1>4. CASE Settle
  BY <1>0, <1>4 DEF Settle, FaultSeen
<1>5. CASE PollRecord
  BY <1>0, <1>5 DEF PollRecord, MoreRecords
<1>6. CASE ReadMarker
  <2>1. SUFFICES ASSUME ~deviceFailed' PROVE Aligned'
    OBVIOUS
  <2>2. ~deviceFailed /\ pc = "record" /\ file.kind = "jpeg"
    BY <1>6, <2>1 DEF ReadMarker
  <2>3. visited <= RecordCount /\ pos = Start(Current)
    BY <1>0, <2>2
  <2>4. Here # {} => Current <= RecordCount /\ Record = CurrentRecord
    BY <1>0, <2>3, AtRecord
  <2>5. Current <= RecordCount => /\ CurrentRecord \in Records
                                  /\ Start(Current) \in Nat /\ Start(Current + 1) \in Nat
                                  /\ CurrentRecord.tag = "standalone" => Start(Current + 1) = Start(Current) + 2
    BY <1>0, ToTheNext
  <2> QED
    BY <1>0, <1>6, <2>2, <2>3, <2>4, <2>5 DEF ReadMarker, NextRecord
<1>7. CASE SeekBack
  <2>1. SUFFICES ASSUME ~deviceFailed' PROVE Aligned'
    OBVIOUS
  <2>2. ~deviceFailed /\ pc = "fill" /\ pos' = pos - 1
    BY <1>7, <2>1 DEF SeekBack
  <2>3. Current <= RecordCount /\ CurrentRecord.tag = "fill" /\ pos = Start(Current) + 2
    BY <1>0, <2>2
  <2>4. Start(Current) \in Nat /\ Start(Current + 1) = Start(Current) + 1
    BY <1>0, <2>3, ToTheNext
  <2> QED
    BY <1>0, <1>7, <2>2, <2>3, <2>4 DEF SeekBack, NextRecord
<1>8. CASE ReadLength
  <2>1. SUFFICES ASSUME ~deviceFailed' PROVE Aligned'
    OBVIOUS
  <2>2. ~deviceFailed /\ pc = "length" /\ file.kind = "jpeg"
    BY <1>0, <1>8, <2>1 DEF ReadLength
  <2>3. /\ Current <= RecordCount /\ CurrentRecord.tag \in {"app1", "other", "exif"}
        /\ length = CurrentRecord.n /\ pos = Start(Current) + 2
    BY <1>0, <2>2
  <2>4. SegmentTag = CurrentRecord.tag
    BY <1>0, <2>3, BehindMarker
  <2>5. Start(Current) \in Nat /\ HeadBytes(file) = 4
    BY <1>0, <2>2, <2>3, ToTheNext DEF HeadBytes
  <2>6. /\ deviceFailed' = deviceFailed /\ visited' = visited /\ size' = size /\ length' = length
        /\ steady' = steady
    BY <1>8, <2>1 DEF ReadLength
  <2>7. CASE pc' = "settle"
    BY <1>0, <2>6, <2>7
  <2>8. CASE pc' # "settle"
    <3>1. /\ length >= 0 /\ pos' = pos + 2 /\ pos' = CurrentData
          /\ pc' = IF CurrentRecord.tag = "exif" /\ pos + 8 <= size THEN "block" ELSE "skip"
      BY <1>8, <2>1, <2>3, <2>4, <2>5, <2>8 DEF ReadLength, Available, ExifHeader
    <3>2. CurrentData + ExifHeader = pos + 8
      BY <2>3, <2>5 DEF ExifHeader
    <3> QED
      BY <1>0, <2>2, <2>3, <2>6, <3>1, <3>2
  <2> QED
    BY <2>7, <2>8
<1>9. CASE ReadHeader
  <2>1. SUFFICES ASSUME ~deviceFailed' PROVE Aligned'
    OBVIOUS
  <2>2. ~deviceFailed /\ pc = "record" /\ file.kind \in {"png", "webp"}
    BY <1>9, <2>1 DEF ReadHeader
  <2>3. visited <= RecordCount /\ pos = Start(Current)
    BY <1>0, <2>2
  <2>4. Here # {} => Current <= RecordCount /\ Record = CurrentRecord
    BY <1>0, <2>3, AtRecord
  <2>5. Current <= RecordCount => CurrentRecord.tag \in {"stop", "other", "exif"}
    BY <1>0, <2>2, ToTheNext
  <2>6. HeadBytes(file) = 8
    BY <2>2 DEF HeadBytes
  <2> QED
    BY <1>0, <1>9, <2>2, <2>3, <2>4, <2>5, <2>6 DEF ReadHeader
<1>10. CASE Skip
  <2>1. SUFFICES ASSUME ~deviceFailed' PROVE Aligned'
    OBVIOUS
  <2>2. ~deviceFailed /\ pc = "skip"
    BY <1>10, <2>1 DEF Skip
  <2>3. /\ Current <= RecordCount /\ CurrentRecord.tag \in {"app1", "other", "exif"}
        /\ length = CurrentRecord.n /\ pos = CurrentData /\ (file.kind = "jpeg" => length >= 0)
    BY <1>0, <2>2
  <2>4. length >= 0
    BY <1>0, <2>3, ToTheNext
  <2>5. Start(Current + 1) = pos + SkipBytes(length)
    BY <1>0, <2>3, <2>4, ToTheNext
  <2> QED
    BY <1>0, <1>10, <2>2, <2>3, <2>5 DEF Skip, NextRecord
<1>11. CASE ReadBlock
  BY <1>0, <1>11 DEF ReadBlock, Available, Oversized
<1>12. CASE OpenTiff
  BY <1>0, <1>12 DEF OpenTiff
<1>13. CASE TiffAtEnd
  BY <1>0, <1>13 DEF TiffAtEnd
<1>14. CASE ReadChunk
  BY <1>0, <1>14 DEF ReadChunk, IsLast
<1>15. CASE AppendChunk
  BY <1>0, <1>15 DEF AppendChunk
<1>16. CASE RequestCancel
  BY <1>0, <1>16 DEF RequestCancel
<1>17. CASE Grow
  <2>1. size' \in Nat /\ size < size' /\ steady' = FALSE
    <3>1. GrowBytes \in Nat /\ TotalBytes(file) \in Nat
      BY <1>0, InputTypes, GrowAssumption
    <3> QED
      BY <1>0, <1>17, <3>1 DEF Grow, Lesser
  <2> QED
    BY <1>0, <1>17, <2>1 DEF Grow, ExifHeader
<1>18. CASE UNCHANGED vars
  BY <1>0, <1>18 DEF vars
<1> QED
  BY <1>1, <1>2, <1>3, <1>4, <1>5, <1>6, <1>7, <1>8, <1>9,
     <1>10, <1>11, <1>12, <1>13, <1>14, <1>15, <1>16, <1>17, <1>18
     DEF Next, Step, Scan, Tiff, Terminating

\* A TIFF file is taken from its start without a gap.
LEMMA NextGapless == IInv /\ [Next]_vars => Gapless'
<1> SUFFICES ASSUME IInv, [Next]_vars PROVE Gapless'
  OBVIOUS
<1>0. /\ Gapless /\ Course /\ Inputs /\ file' = file /\ limits' = limits /\ limits.tiff \in Nat
      /\ pos \in Nat /\ size \in Nat /\ data \in Nat /\ length \in Int /\ opened \in Nat /\ ChunkBytes \in Nat \ {0}
  BY InputTypes, TypesAreTypeOK, NextInputs, ChunkAssumption DEF IInv, Types, DeviceTypes, ScanTypes
<1> USE DEF Gapless, Course, Goto, GiveUp, Finish, Return, world, answer, scan, DeviceWorks, DeviceFails
<1>1. CASE PollEntry
  BY <1>0, <1>1 DEF PollEntry
<1>2. CASE Prepare
  BY <1>0, <1>2 DEF Prepare
<1>3. CASE Signature
  BY <1>0, <1>3 DEF Signature, Available
<1>4. CASE Settle
  BY <1>0, <1>4 DEF Settle, FaultSeen
<1>5. CASE PollRecord
  BY <1>0, <1>5 DEF PollRecord, MoreRecords
<1>6. CASE ReadMarker
  BY <1>0, <1>6 DEF ReadMarker, Available, NextRecord
<1>7. CASE SeekBack
  BY <1>0, <1>7 DEF SeekBack, NextRecord
<1>8. CASE ReadLength
  BY <1>0, <1>8 DEF ReadLength, Available
<1>9. CASE ReadHeader
  BY <1>0, <1>9 DEF ReadHeader, Available
<1>10. CASE Skip
  BY <1>0, <1>10 DEF Skip, Skippable, NextRecord
<1>11. CASE ReadBlock
  BY <1>0, <1>11 DEF ReadBlock, Available, Oversized
<1>12. CASE OpenTiff
  BY <1>0, <1>12 DEF OpenTiff
<1>13. CASE TiffAtEnd
  BY <1>0, <1>13 DEF TiffAtEnd
<1>14. CASE ReadChunk
  BY <1>0, <1>14 DEF ReadChunk, IsLast, Lesser
<1>15. CASE AppendChunk
  BY <1>0, <1>15 DEF AppendChunk
<1>16. CASE RequestCancel
  BY <1>0, <1>16 DEF RequestCancel
<1>17. CASE Grow
  <2>1. size' \in Nat /\ size < size' /\ steady' = FALSE
    <3>1. GrowBytes \in Nat /\ TotalBytes(file) \in Nat
      BY <1>0, InputTypes, GrowAssumption
    <3> QED
      BY <1>0, <1>17, <3>1 DEF Grow, Lesser
  <2> QED
    BY <1>0, <1>17, <2>1 DEF Grow
<1>18. CASE UNCHANGED vars
  BY <1>0, <1>18 DEF vars
<1> QED
  BY <1>1, <1>2, <1>3, <1>4, <1>5, <1>6, <1>7, <1>8, <1>9,
     <1>10, <1>11, <1>12, <1>13, <1>14, <1>15, <1>16, <1>17, <1>18
     DEF Next, Step, Scan, Tiff, Terminating

\* What is found is the block the layout has, whole.
LEMMA NextFound == IInv /\ [Next]_vars => Found'
<1> SUFFICES ASSUME IInv, [Next]_vars PROVE Found'
  OBVIOUS
<1>0. /\ Found /\ Delivery /\ Course /\ Gapless /\ Aligned /\ Inputs
      /\ file' = file /\ limits' = limits /\ RecordCount \in Nat
      /\ limits.records \in Nat /\ limits.block \in Nat
      /\ pos \in Nat /\ size \in Nat /\ visited \in Nat /\ length \in Int /\ data \in Nat /\ opened \in Nat
      /\ IsRange(found)
  BY InputTypes, TypesAreTypeOK, NextInputs DEF IInv, Types, DeviceTypes, ScanTypes, AnswerTypes
<1> USE DEF Found, Delivery, Course, Goto, GiveUp, Finish, Return, world, answer, scan, DeviceWorks, DeviceFails, RecordCount, Current, CurrentRecord
<1>1. CASE PollEntry
  BY <1>0, <1>1 DEF PollEntry
<1>2. CASE Prepare
  BY <1>0, <1>2 DEF Prepare
<1>3. CASE Signature
  BY <1>0, <1>3 DEF Signature, Available
<1>4. CASE Settle
  BY <1>0, <1>4 DEF Settle, FaultSeen
<1>5. CASE PollRecord
  BY <1>0, <1>5 DEF PollRecord, MoreRecords
<1>6. CASE ReadMarker
  BY <1>0, <1>6 DEF ReadMarker, Available, NextRecord
<1>7. CASE SeekBack
  BY <1>0, <1>7 DEF SeekBack, NextRecord
<1>8. CASE ReadLength
  BY <1>0, <1>8 DEF ReadLength, Available
<1>9. CASE ReadHeader
  BY <1>0, <1>9 DEF ReadHeader, Available
<1>10. CASE Skip
  BY <1>0, <1>10 DEF Skip, Skippable, NextRecord
<1>11. CASE ReadBlock
  <2>1. SUFFICES ASSUME ~deviceFailed', found' # Nothing PROVE Found'
    OBVIOUS
  <2>2. /\ pc = "block" /\ length > 0 /\ length <= limits.block /\ pos + length <= size
        /\ found' = Range(pos, length) /\ ~deviceFailed
        /\ visited' = visited /\ size' = size
    BY <1>0, <1>11, <2>1 DEF ReadBlock, Oversized, Available
  <2>3. /\ Current <= RecordCount /\ length = CurrentRecord.n /\ CurrentRecord.tag = "exif"
        /\ pos = CurrentData /\ file.kind # "tiff"
    BY <1>0, <2>2 DEF Aligned
  <2>4. found' = DataOf(file, Current) /\ found'.to = pos + length
    BY <2>2, <2>3 DEF DataOf, Range, CurrentData, Start
  <2> QED
    BY <1>0, <2>2, <2>3, <2>4
<1>12. CASE OpenTiff
  BY <1>0, <1>12 DEF OpenTiff
<1>13. CASE TiffAtEnd
  <2>1. SUFFICES ASSUME ~deviceFailed', found' # Nothing PROVE Found'
    OBVIOUS
  <2>2. /\ pc = "tiff_loop" /\ pos >= size /\ found' = Range(0, data) /\ ~deviceFailed
        /\ opened' = opened /\ file.kind = "tiff"
    BY <1>0, <1>13, <2>1 DEF TiffAtEnd
  <2>3. pos = data /\ opened <= size
    BY <1>0, <2>2 DEF Gapless
  <2>4. found'.from = 0 /\ found'.to = data
    BY <1>0, <2>2 DEF Range
  <2> QED
    BY <1>0, <2>2, <2>3, <2>4
<1>14. CASE ReadChunk
  BY <1>0, <1>14 DEF ReadChunk, IsLast
<1>15. CASE AppendChunk
  BY <1>0, <1>15 DEF AppendChunk
<1>16. CASE RequestCancel
  BY <1>0, <1>16 DEF RequestCancel
<1>17. CASE Grow
  <2>1. size' \in Nat /\ size < size' /\ steady' = FALSE
    <3>1. GrowBytes \in Nat /\ TotalBytes(file) \in Nat
      BY <1>0, InputTypes, GrowAssumption
    <3> QED
      BY <1>0, <1>17, <3>1 DEF Grow, Lesser
  <2> QED
    BY <1>0, <1>17, <2>1 DEF Grow, IsRange
<1>18. CASE UNCHANGED vars
  BY <1>0, <1>18 DEF vars
<1> QED
  BY <1>1, <1>2, <1>3, <1>4, <1>5, <1>6, <1>7, <1>8, <1>9,
     <1>10, <1>11, <1>12, <1>13, <1>14, <1>15, <1>16, <1>17, <1>18
     DEF Next, Step, Scan, Tiff, Terminating

\* What is parsed was found.
LEMMA NextWholeBlock == IInv /\ [Next]_vars => WholeBlock'
<1> SUFFICES ASSUME IInv, [Next]_vars PROVE WholeBlock'
  OBVIOUS
<1>0. /\ WholeBlock /\ Found /\ Delivery /\ Inputs /\ file' = file /\ limits' = limits
      /\ RecordCount \in Nat /\ DOMAIN file.records = 1..RecordCount /\ visited \in Nat
  BY InputTypes, TypesAreTypeOK, NextInputs DEF IInv, Types, DeviceTypes, ScanTypes
<1> USE DEF Delivery, Goto, GiveUp, Finish, Return, world, answer, scan, WholeBlock
<1>1. CASE PollEntry
  BY <1>0, <1>1 DEF PollEntry
<1>2. CASE Prepare
  BY <1>0, <1>2 DEF Prepare
<1>3. CASE Signature
  BY <1>0, <1>3 DEF Signature, Available
<1>4. CASE Settle
  <2>1. SUFFICES ASSUME payload' # Nothing PROVE WholeBlock'
    OBVIOUS
  <2>2. /\ payload' = found /\ ~deviceFailed /\ size' = size /\ opened' = opened
    BY <1>0, <1>4, <2>1 DEF Settle, FaultSeen
  <2>3. CASE file.kind = "tiff"
    BY <1>0, <2>1, <2>2, <2>3 DEF Found
  <2>4. CASE file.kind # "tiff"
    <3>1. /\ Current <= RecordCount /\ CurrentRecord.tag = "exif" /\ found = DataOf(file, Current)
          /\ found.to <= size /\ Current <= limits.records /\ CurrentRecord.n <= limits.block
      BY <1>0, <2>1, <2>2, <2>4 DEF Found
    <3>2. Current \in DOMAIN file.records
      BY <1>0, <3>1 DEF Current
    <3> QED
      BY <1>0, <2>2, <2>4, <3>1, <3>2 DEF CurrentRecord
  <2> QED
    BY <2>3, <2>4
<1>5. CASE PollRecord
  BY <1>0, <1>5 DEF PollRecord, MoreRecords
<1>6. CASE ReadMarker
  BY <1>0, <1>6 DEF ReadMarker, Available, NextRecord
<1>7. CASE SeekBack
  BY <1>0, <1>7 DEF SeekBack, NextRecord
<1>8. CASE ReadLength
  BY <1>0, <1>8 DEF ReadLength, Available
<1>9. CASE ReadHeader
  BY <1>0, <1>9 DEF ReadHeader, Available
<1>10. CASE Skip
  BY <1>0, <1>10 DEF Skip, Skippable, NextRecord
<1>11. CASE ReadBlock
  BY <1>0, <1>11 DEF ReadBlock, Available, Oversized
<1>12. CASE OpenTiff
  BY <1>0, <1>12 DEF OpenTiff
<1>13. CASE TiffAtEnd
  BY <1>0, <1>13 DEF TiffAtEnd
<1>14. CASE ReadChunk
  BY <1>0, <1>14 DEF ReadChunk, IsLast
<1>15. CASE AppendChunk
  BY <1>0, <1>15 DEF AppendChunk
<1>16. CASE RequestCancel
  BY <1>0, <1>16 DEF RequestCancel
<1>17. CASE Grow
  BY <1>0, <1>17 DEF Grow
<1>18. CASE UNCHANGED vars
  BY <1>0, <1>18 DEF vars
<1> QED
  BY <1>1, <1>2, <1>3, <1>4, <1>5, <1>6, <1>7, <1>8, <1>9,
     <1>10, <1>11, <1>12, <1>13, <1>14, <1>15, <1>16, <1>17, <1>18
     DEF Next, Step, Scan, Tiff, Terminating

\* Every record the device gets past can be passed, in a file nobody writes.
LEMMA NextPassed == IInv /\ [Next]_vars => Passed'
<1> SUFFICES ASSUME IInv, [Next]_vars PROVE Passed'
  OBVIOUS
<1>0. /\ Passed /\ Aligned /\ Course /\ Inputs /\ file' = file /\ RecordCount \in Nat
      /\ pos \in Nat /\ size \in Nat /\ visited \in Nat /\ length \in Int
  BY InputTypes, TypesAreTypeOK, NextInputs DEF IInv, Types, DeviceTypes, ScanTypes
<1>00. (visited + 1) \in Nat /\ \A i \in 1..(visited + 1) : i \in 1..visited \/ i = visited + 1
  BY <1>0
<1> USE DEF Passed, Course, Goto, GiveUp, Finish, Return, world, answer, scan, DeviceWorks, DeviceFails
<1>1. CASE PollEntry
  BY <1>0, <1>1 DEF PollEntry
<1>2. CASE Prepare
  BY <1>0, <1>2 DEF Prepare
<1>3. CASE Signature
  BY <1>0, <1>3 DEF Signature, Available
<1>4. CASE Settle
  BY <1>0, <1>4 DEF Settle, FaultSeen
<1>5. CASE PollRecord
  BY <1>0, <1>5 DEF PollRecord, MoreRecords
<1>6. CASE ReadMarker
  <2>1. SUFFICES ASSUME ~deviceFailed', steady' PROVE Passed'
    OBVIOUS
  <2>2. ~deviceFailed /\ steady /\ pc = "record"
    BY <1>6, <2>1 DEF ReadMarker
  <2>3. visited <= RecordCount /\ pos = Start(Current)
    BY <1>0, <2>2 DEF Aligned
  <2>4. Here # {} => Record = file.records[visited + 1]
    BY <1>0, <2>3, AtRecord DEF CurrentRecord, Current
  <2>5. visited' = visited \/ (visited' = visited + 1 /\ Here # {} /\ Record.tag = "standalone")
    <3>1. CASE Here = {}
      BY <1>6, <3>1 DEF ReadMarker
    <3>2. CASE Here # {}
      BY <1>6, <3>2 DEF ReadMarker, NextRecord
    <3> QED
      BY <3>1, <3>2
  <2> QED
    BY <1>0, <1>00, <2>2, <2>4, <2>5 DEF Passable
<1>7. CASE SeekBack
  <2>1. SUFFICES ASSUME ~deviceFailed', steady' PROVE Passed'
    OBVIOUS
  <2>2. ~deviceFailed /\ steady /\ pc = "fill" /\ visited' = visited + 1
    BY <1>7, <2>1 DEF SeekBack, NextRecord
  <2>3. file.records[visited + 1].tag = "fill"
    BY <1>0, <2>2 DEF Aligned, CurrentRecord, Current
  <2> QED
    BY <1>0, <1>00, <2>2, <2>3 DEF Passable
<1>8. CASE ReadLength
  BY <1>0, <1>8 DEF ReadLength, Available
<1>9. CASE ReadHeader
  BY <1>0, <1>9 DEF ReadHeader, Available
<1>10. CASE Skip
  <2>1. SUFFICES ASSUME ~deviceFailed', steady' PROVE Passed'
    OBVIOUS
  <2>2. ~deviceFailed /\ steady /\ pc = "skip" /\ size' = size
    BY <1>10, <2>1 DEF Skip
  <2>3. CASE visited' = visited
    BY <1>0, <2>2, <2>3
  <2>4. CASE visited' # visited
    <3>1. visited' = visited + 1 /\ Skippable(SkipBytes(length))
      BY <1>10, <2>4 DEF Skip, NextRecord
    <3>2. /\ Current <= RecordCount /\ CurrentRecord.tag \in {"app1", "other", "exif"}
          /\ length = CurrentRecord.n /\ pos = CurrentData /\ (file.kind = "jpeg" => length >= 0)
          /\ CurrentRecord.tag = "exif" => file.kind = "jpeg" /\ CurrentData + ExifHeader > size
      BY <1>0, <2>2 DEF Aligned
    <3>3. length >= 0
      BY <1>0, <3>2, ToTheNext
    <3>4. CurrentRecord.tag = "exif" => length >= ExifHeader /\ SkipBytes(length) = length
      <4>1. Current \in DOMAIN file.records
        BY <1>0, <3>2, InputTypes DEF Current
      <4> QED
        BY <1>0, <3>2, <4>1, FilesAssumption DEF Inputs, CurrentRecord, SkipBytes, FootBytes
    <3>5. CurrentRecord.tag # "exif"
      BY <1>0, <3>1, <3>2, <3>3, <3>4 DEF Skippable, ExifHeader
    <3>6. Passable(file.records[visited + 1])
      BY <3>2, <3>3, <3>5 DEF Passable, CurrentRecord, Current
    <3> QED
      BY <1>0, <1>00, <2>2, <3>1, <3>6
  <2> QED
    BY <2>3, <2>4
<1>11. CASE ReadBlock
  BY <1>0, <1>11 DEF ReadBlock, Available, Oversized
<1>12. CASE OpenTiff
  BY <1>0, <1>12 DEF OpenTiff
<1>13. CASE TiffAtEnd
  BY <1>0, <1>13 DEF TiffAtEnd
<1>14. CASE ReadChunk
  BY <1>0, <1>14 DEF ReadChunk, IsLast
<1>15. CASE AppendChunk
  BY <1>0, <1>15 DEF AppendChunk
<1>16. CASE RequestCancel
  BY <1>0, <1>16 DEF RequestCancel
<1>17. CASE Grow
  BY <1>0, <1>17 DEF Grow
<1>18. CASE UNCHANGED vars
  BY <1>0, <1>18 DEF vars
<1> QED
  BY <1>1, <1>2, <1>3, <1>4, <1>5, <1>6, <1>7, <1>8, <1>9,
     <1>10, <1>11, <1>12, <1>13, <1>14, <1>15, <1>16, <1>17, <1>18
     DEF Next, Step, Scan, Tiff, Terminating

-----------------------------------------------------------------------------
(* The invariant: what is found is what the layout calls for               *)

\* The EXIF records a scan may still get to are the record at hand, or behind
\* it.
LEMMA ReachedBehind ==
    ASSUME Inputs, visited \in Nat, size \in Nat, \A i \in 1..visited : Passable(file.records[i]),
           NEW i \in Reached
    PROVE  /\ i \in 1..RecordCount /\ Current <= i /\ i <= limits.records /\ file.records[i].tag = "exif"
           /\ Start(Current) + HeadBytes(file) <= size
           /\ i # Current => Passable(CurrentRecord) /\ Start(Current + 1) + HeadBytes(file) <= size
<1>1. RecordCount \in Nat /\ DOMAIN file.records = 1..RecordCount /\ file \in Files /\ HeadBytes(file) \in {4, 8}
  BY InputTypes DEF Inputs
<1>2. /\ i \in 1..RecordCount /\ i <= limits.records /\ file.records[i].tag = "exif"
      /\ \A j \in 1..(i - 1) : Passable(file.records[j])
      /\ Start(i) + HeadBytes(file) <= size
  BY <1>1 DEF Reached, Start
<1>3. Current <= i
  <2>1. ~Passable(file.records[i])
    BY <1>2 DEF Passable
  <2>2. ~(i \in 1..visited)
    BY <2>1
  <2> QED
    BY <1>1, <1>2, <2>2 DEF Current
<1>4. ASSUME i # Current
      PROVE  /\ Passable(CurrentRecord)
             /\ Start(Current + 1) + HeadBytes(file) <= size
             /\ Start(Current) + HeadBytes(file) <= size
  <2>1. Current \in 1..(i - 1) /\ Current < i /\ Current \in 1..(RecordCount + 1) /\ i \in 1..(RecordCount + 1)
        /\ Current + 1 \in 1..(RecordCount + 1)
    BY <1>1, <1>2, <1>3, <1>4 DEF Current
  <2>2. Passable(CurrentRecord)
    BY <1>2, <2>1 DEF CurrentRecord
  <2>3. Start(Current + 1) <= Start(i) /\ Start(Current) < Start(i)
    BY <1>1, <2>1, StartsIncrease DEF RecordCount, Start
  <2>4. Start(Current) \in Nat /\ Start(Current + 1) \in Nat /\ Start(i) \in Nat
    BY <1>1, <2>1, StartsAddUp DEF RecordCount, Start
  <2> QED
    BY <1>1, <1>2, <2>2, <2>3, <2>4
<1> QED
  BY <1>2, <1>3, <1>4

\* No scan gets to an EXIF record any more.
NothingAhead ==
    \/ limits.records <= visited
    \/ RecordCount < Current
    \/ size < Start(Current) + HeadBytes(file)
    \/ /\ CurrentRecord.tag # "exif"
       /\ ~Passable(CurrentRecord) \/ size < Start(Current + 1) + HeadBytes(file)

\* The record at hand is the EXIF record a scan gets to.
ExifAhead ==
    /\ Current <= RecordCount /\ Current <= limits.records
    /\ CurrentRecord.tag = "exif"
    /\ Start(Current) + HeadBytes(file) <= size

\* What is expected of a scan, told at the record at hand.
LEMMA ScanExpects ==
    ASSUME IInv, steady, ~deviceFailed, pc \in {"poll", "record", "fill", "length", "skip", "block"}
    PROVE  /\ NothingAhead => Expected = <<"Success", Nothing>>
           /\ ExifAhead => Expected = AnswerTo(Current)
<1>1. /\ Inputs /\ visited \in Nat /\ size \in Nat /\ RecordCount \in Nat /\ DOMAIN file.records = 1..RecordCount
      /\ limits.records \in Nat /\ HeadBytes(file) \in {4, 8}
  BY InputTypes, TypesAreTypeOK DEF IInv, Types, DeviceTypes, ScanTypes
<1>2. \A i \in 1..visited : Passable(file.records[i])
  BY DEF IInv, Passed
<1>3. Expected = IF Reached = {} THEN <<"Success", Nothing>> ELSE AnswerTo(CHOOSE i \in Reached : TRUE)
  <2>1. admitted /\ size >= SignatureBytes(file) /\ file.kind \in {"jpeg", "png", "webp"}
    BY DEF IInv, Entered, Course
  <2>2. ~(size < SignatureBytes(file))
    BY <1>1, <2>1, InputTypes
  <2> QED
    BY <2>1, <2>2 DEF Expected
<1>4. \A i \in Reached :
          /\ i \in 1..RecordCount /\ Current <= i /\ i <= limits.records /\ file.records[i].tag = "exif"
          /\ Start(Current) + HeadBytes(file) <= size
          /\ i # Current => Passable(CurrentRecord) /\ Start(Current + 1) + HeadBytes(file) <= size
  BY <1>1, <1>2, ReachedBehind
<1>5. ASSUME NEW i \in Reached
      PROVE  /\ visited < limits.records /\ Current <= RecordCount
             /\ ~(size < Start(Current) + HeadBytes(file))
             /\ i = Current => CurrentRecord.tag = "exif"
             /\ i # Current => Passable(CurrentRecord) /\ ~(size < Start(Current + 1) + HeadBytes(file))
  <2>1. /\ i \in 1..RecordCount /\ Current <= i /\ i <= limits.records /\ file.records[i].tag = "exif"
        /\ Start(Current) + HeadBytes(file) <= size
        /\ i # Current => Passable(CurrentRecord) /\ Start(Current + 1) + HeadBytes(file) <= size
    BY <1>4
  <2>2. visited < limits.records /\ Current <= RecordCount
    BY <1>1, <2>1 DEF Current
  <2>3. Start(Current) \in Nat /\ Start(Current + 1) \in Nat
    BY <1>1, <2>2, ToTheNext
  <2> QED
    BY <1>1, <2>1, <2>2, <2>3 DEF CurrentRecord
<1>6. ASSUME NothingAhead PROVE Expected = <<"Success", Nothing>>
  <2>1. ASSUME NEW i \in Reached PROVE FALSE
    <3>1. ~(limits.records <= visited) /\ ~(RecordCount < Current)
      BY <1>1, <1>5 DEF Current
    <3> QED
      BY <1>5, <1>6, <3>1 DEF NothingAhead
  <2> QED
    BY <1>3, <2>1
<1>7. ASSUME ExifAhead PROVE Expected = AnswerTo(Current)
  <2>1. ~Passable(CurrentRecord)
    BY <1>7 DEF ExifAhead, Passable
  <2>2. \A i \in Reached : i = Current
    BY <1>5, <2>1
  <2>3. Current \in Reached
    <3>1. Current \in DOMAIN file.records
      BY <1>1, <1>7 DEF ExifAhead, Current
    <3>2. \A j \in 1..(Current - 1) : Passable(file.records[j])
      BY <1>1, <1>2 DEF Current
    <3> QED
      BY <1>7, <3>1, <3>2 DEF ExifAhead, Reached, CurrentRecord, Start
  <2>4. (CHOOSE i \in Reached : TRUE) = Current
    BY <2>2, <2>3
  <2> QED
    BY <1>3, <2>3, <2>4
<1> QED
  BY <1>6, <1>7

\* No scan begins in a file that is not admitted or too short.
LEMMA NextEntered == IInv /\ [Next]_vars => Entered'
<1> SUFFICES ASSUME IInv, [Next]_vars PROVE Entered'
  OBVIOUS
<1>0. Entered /\ Course /\ size \in Nat /\ file' = file /\ SignatureBytes(file) \in Nat
  BY InputTypes, TypesAreTypeOK, NextInputs DEF IInv, Types, DeviceTypes
<1> USE DEF Entered, Course, Goto, GiveUp, Finish, Return, world, answer, scan
<1>1. CASE PollEntry
  BY <1>0, <1>1 DEF PollEntry
<1>2. CASE Prepare
  BY <1>0, <1>2 DEF Prepare
<1>3. CASE Signature
  <2>1. admitted /\ pc = "signature" /\ size' = size /\ admitted' = admitted
    BY <1>0, <1>3 DEF Signature
  <2>2. CASE pc' = "settle"
    BY <1>0, <2>1, <2>2
  <2>3. CASE pc' # "settle"
    <3>1. pc' \in {"tiff", "poll"} /\ pos + SignatureBytes(file) <= size /\ pos \in Nat
      <4>1. pos \in Nat
        BY TypesAreTypeOK DEF IInv, Types, DeviceTypes
      <4> QED
        BY <1>3, <2>3, <4>1 DEF Signature, Available
    <3> QED
      BY <1>0, <2>1, <3>1
  <2> QED
    BY <2>2, <2>3
<1>4. CASE Settle
  BY <1>0, <1>4 DEF Settle, FaultSeen
<1>5. CASE PollRecord
  BY <1>0, <1>5 DEF PollRecord, MoreRecords
<1>6. CASE ReadMarker
  BY <1>0, <1>6 DEF ReadMarker, Available, NextRecord
<1>7. CASE SeekBack
  BY <1>0, <1>7 DEF SeekBack, NextRecord
<1>8. CASE ReadLength
  BY <1>0, <1>8 DEF ReadLength, Available
<1>9. CASE ReadHeader
  BY <1>0, <1>9 DEF ReadHeader, Available
<1>10. CASE Skip
  BY <1>0, <1>10 DEF Skip, Skippable, NextRecord
<1>11. CASE ReadBlock
  BY <1>0, <1>11 DEF ReadBlock, Available, Oversized
<1>12. CASE OpenTiff
  BY <1>0, <1>12 DEF OpenTiff
<1>13. CASE TiffAtEnd
  BY <1>0, <1>13 DEF TiffAtEnd
<1>14. CASE ReadChunk
  BY <1>0, <1>14 DEF ReadChunk, IsLast
<1>15. CASE AppendChunk
  BY <1>0, <1>15 DEF AppendChunk
<1>16. CASE RequestCancel
  BY <1>0, <1>16 DEF RequestCancel
<1>17. CASE Grow
  <2>1. size' \in Nat /\ size < size'
    <3>1. GrowBytes \in Nat /\ TotalBytes(file) \in Nat
      BY InputTypes, GrowAssumption DEF IInv
    <3> QED
      BY <1>0, <1>17, <3>1 DEF Grow, Lesser
  <2> QED
    BY <1>0, <1>17, <2>1 DEF Grow
<1>18. CASE UNCHANGED vars
  BY <1>0, <1>18 DEF vars
<1> QED
  BY <1>1, <1>2, <1>3, <1>4, <1>5, <1>6, <1>7, <1>8, <1>9,
     <1>10, <1>11, <1>12, <1>13, <1>14, <1>15, <1>16, <1>17, <1>18
     DEF Next, Step, Scan, Tiff, Terminating

\* payload(), when it is left alone, ends with what the layout calls for.
LEMMA NextTold == IInv /\ [Next]_vars => Told'
<1> SUFFICES ASSUME IInv, [Next]_vars PROVE Told'
  OBVIOUS
<1>0. /\ IInv /\ Told /\ Delivery /\ Course /\ Aligned /\ Entered /\ Inputs
      /\ file' = file /\ limits' = limits
      /\ RecordCount \in Nat /\ HeadBytes(file) \in {4, 8} /\ SignatureBytes(file) \in Nat
      /\ limits.records \in Nat /\ limits.block \in Nat \ {0} /\ limits.tiff \in Nat
      /\ pos \in Nat /\ pos <= size /\ size \in Nat /\ visited \in Nat /\ length \in Int /\ data \in Nat
      /\ opened \in Nat /\ ChunkBytes \in Nat \ {0}
      /\ admitted' = admitted /\ size' = size => Expected' = Expected
  <2>1. admitted' = admitted /\ size' = size /\ file' = file /\ limits' = limits => Expected' = Expected
    BY DEF Expected, Reached, AnswerTo
  <2> QED
    BY <2>1, InputTypes, TypesAreTypeOK, NextInputs, ChunkAssumption DEF IInv, Types, DeviceTypes, ScanTypes
<1> USE DEF Told, Goto, GiveUp, Finish, Return, world, answer, scan, DeviceWorks, DeviceFails
<1>1. CASE PollEntry
  BY <1>0, <1>1 DEF PollEntry
<1>2. CASE Prepare
  BY <1>0, <1>2 DEF Prepare
<1>3. CASE Signature
  <2>1. SUFFICES ASSUME pc' = "settle", ~deviceFailed', ~cancelled', steady' PROVE <<verdict', found'>> = Expected
    BY <1>0, <1>3 DEF Signature
  <2>2. /\ ~deviceFailed /\ ~cancelled /\ steady /\ pc = "signature" /\ admitted
        /\ verdict = "Success"
    BY <1>0, <1>3, <2>1 DEF Signature, Entered, Delivery
  <2>3. found' = Nothing /\ verdict' = verdict /\ ~(Available(SignatureBytes(file)) /\ file.kind # "unknown")
    BY <1>3, <2>1 DEF Signature
  <2>4. size < SignatureBytes(file) \/ file.kind = "unknown"
    BY <1>0, <2>2, <2>3 DEF Available, Course
  <2> QED
    BY <1>0, <2>2, <2>3, <2>4 DEF Expected
<1>4. CASE Settle
  BY <1>0, <1>4 DEF Settle, FaultSeen
<1>5. CASE PollRecord
  <2>1. SUFFICES ASSUME pc' = "settle", ~deviceFailed', ~cancelled', steady' PROVE <<verdict', found'>> = Expected
    BY <1>0, <1>5 DEF PollRecord
  <2>2. /\ ~deviceFailed /\ ~cancelled /\ steady /\ pc = "poll"
        /\ verdict = "Success"
    BY <1>0, <1>5, <2>1 DEF PollRecord, Delivery
  <2>3. found' = Nothing /\ verdict' = verdict /\ NothingAhead
    BY <1>0, <1>5, <2>1, <2>2 DEF PollRecord, MoreRecords, NothingAhead
  <2> QED
    BY <1>0, <2>2, <2>3, ScanExpects
<1>6. CASE ReadMarker
  <2>1. SUFFICES ASSUME pc' = "settle", ~deviceFailed', ~cancelled', steady' PROVE <<verdict', found'>> = Expected
    BY <1>0, <1>6 DEF ReadMarker
  <2>2. /\ ~deviceFailed /\ ~cancelled /\ steady /\ pc = "record" /\ file.kind = "jpeg"
        /\ verdict = "Success"
    BY <1>0, <1>6, <2>1 DEF ReadMarker, Delivery
  <2>3. found' = Nothing /\ verdict' = verdict /\ (~(Available(2) /\ Here # {}) \/ (Here # {} /\ Record.tag = "stop"))
    BY <1>6, <2>1 DEF ReadMarker, NextRecord
  <2>4. visited <= RecordCount /\ pos = Start(Current)
    BY <1>0, <2>2 DEF Aligned
  <2>5. NothingAhead
    <3>1. CASE Here # {} /\ Record.tag = "stop"
      <4>1. CurrentRecord.tag = "stop"
        BY <1>0, <2>4, <3>1, AtRecord
      <4> QED
        BY <4>1 DEF NothingAhead, Passable
    <3>2. CASE Here = {}
      <4>1. ~(Current <= RecordCount)
        BY <1>0, <2>4, <3>2, AtRecord
      <4> QED
        BY <1>0, <4>1 DEF NothingAhead, Current
    <3>3. CASE ~Available(2)
      BY <1>0, <2>2, <2>4, <3>3 DEF NothingAhead, Available, HeadBytes
    <3> QED
      BY <2>3, <3>1, <3>2, <3>3
  <2> QED
    BY <1>0, <2>2, <2>3, <2>5, ScanExpects
<1>7. CASE SeekBack
  BY <1>0, <1>7 DEF SeekBack, NextRecord
<1>8. CASE ReadLength
  <2>1. SUFFICES ASSUME pc' = "settle", ~deviceFailed', ~cancelled', steady' PROVE <<verdict', found'>> = Expected
    BY <1>0, <1>8 DEF ReadLength
  <2>2. /\ ~deviceFailed /\ ~cancelled /\ steady /\ pc = "length" /\ file.kind = "jpeg"
        /\ verdict = "Success"
    BY <1>0, <1>8, <2>1 DEF ReadLength, Delivery, Course
  <2>3. found' = Nothing /\ verdict' = verdict /\ ~(Available(2) /\ length >= 0)
    BY <1>8, <2>1 DEF ReadLength
  <2>4. /\ Current <= RecordCount /\ CurrentRecord.tag \in {"app1", "other", "exif"}
        /\ length = CurrentRecord.n /\ pos = Start(Current) + 2
    BY <1>0, <2>2 DEF Aligned
  <2>5. Start(Current) \in Nat /\ (CurrentRecord.tag = "exif" => CurrentRecord.n >= 0)
    BY <1>0, <2>4, ToTheNext
  <2>6. NothingAhead
    <3>1. CASE ~Available(2)
      BY <1>0, <2>2, <2>4, <2>5, <3>1 DEF NothingAhead, Available, HeadBytes
    <3>2. CASE ~(length >= 0)
      BY <2>4, <2>5, <3>2 DEF NothingAhead, Passable
    <3> QED
      BY <2>3, <3>1, <3>2
  <2> QED
    BY <1>0, <2>2, <2>3, <2>6, ScanExpects
<1>9. CASE ReadHeader
  <2>1. SUFFICES ASSUME pc' = "settle", ~deviceFailed', ~cancelled', steady' PROVE <<verdict', found'>> = Expected
    BY <1>0, <1>9 DEF ReadHeader
  <2>2. /\ ~deviceFailed /\ ~cancelled /\ steady /\ pc = "record" /\ file.kind \in {"png", "webp"}
        /\ verdict = "Success"
    BY <1>0, <1>9, <2>1 DEF ReadHeader, Delivery
  <2>3. found' = Nothing /\ verdict' = verdict /\ (~(Available(8) /\ Here # {}) \/ (Here # {} /\ Record.tag = "stop"))
    BY <1>9, <2>1 DEF ReadHeader
  <2>4. visited <= RecordCount /\ pos = Start(Current)
    BY <1>0, <2>2 DEF Aligned
  <2>5. NothingAhead
    <3>1. CASE Here # {} /\ Record.tag = "stop"
      <4>1. CurrentRecord.tag = "stop"
        BY <1>0, <2>4, <3>1, AtRecord
      <4> QED
        BY <4>1 DEF NothingAhead, Passable
    <3>2. CASE Here = {}
      <4>1. ~(Current <= RecordCount)
        BY <1>0, <2>4, <3>2, AtRecord
      <4> QED
        BY <1>0, <4>1 DEF NothingAhead, Current
    <3>3. CASE ~Available(8)
      BY <1>0, <2>2, <2>4, <3>3 DEF NothingAhead, Available, HeadBytes
    <3> QED
      BY <2>3, <3>1, <3>2, <3>3
  <2> QED
    BY <1>0, <2>2, <2>3, <2>5, ScanExpects
<1>10. CASE Skip
  <2>1. SUFFICES ASSUME pc' = "settle", ~deviceFailed', ~cancelled', steady' PROVE <<verdict', found'>> = Expected
    BY <1>0, <1>10 DEF Skip
  <2>2. /\ ~deviceFailed /\ ~cancelled /\ steady /\ pc = "skip"
        /\ verdict = "Success"
    BY <1>0, <1>10, <2>1 DEF Skip, Delivery
  <2>3. found' = Nothing /\ verdict' = verdict /\ ~Skippable(SkipBytes(length))
    BY <1>10, <2>1 DEF Skip, NextRecord
  <2>4. /\ Current <= RecordCount /\ CurrentRecord.tag \in {"app1", "other", "exif"}
        /\ length = CurrentRecord.n /\ pos = CurrentData /\ (file.kind = "jpeg" => length >= 0)
        /\ CurrentRecord.tag = "exif" => file.kind = "jpeg" /\ CurrentData + ExifHeader > size
    BY <1>0, <2>2 DEF Aligned
  <2>5. length >= 0 /\ SkipBytes(length) \in Nat
    <3>1. length >= 0
      BY <1>0, <2>4, ToTheNext
    <3> QED
      BY <1>0, <3>1 DEF SkipBytes, FootBytes
  <2>6. Start(Current) \in Nat /\ Start(Current + 1) = pos + SkipBytes(length)
    BY <1>0, <2>4, <2>5, ToTheNext
  <2>7. CASE CurrentRecord.tag # "exif"
    <3>1. size < Start(Current + 1) + HeadBytes(file)
      BY <1>0, <2>3, <2>5, <2>6 DEF Skippable
    <3>2. NothingAhead
      BY <2>7, <3>1 DEF NothingAhead
    <3> QED
      BY <1>0, <2>2, <2>3, <3>2, ScanExpects
  <2>8. CASE CurrentRecord.tag = "exif"
    <3>1. ExifAhead
      BY <1>0, <2>2, <2>4, <2>8 DEF ExifAhead, Course, CurrentData, Current
    <3>2. length >= ExifHeader
      <4>1. Current \in DOMAIN file.records
        BY <1>0, <2>4, InputTypes DEF Current
      <4> QED
        BY <1>0, <2>4, <2>8, <4>1, FilesAssumption DEF Inputs, CurrentRecord
    <3>3. /\ DataOf(file, Current).from = pos /\ DataOf(file, Current).to = pos + length
          /\ file.records[Current].n = length /\ file.kind = "jpeg" /\ pos + 6 > size
      BY <2>4, <2>8 DEF DataOf, Range, CurrentData, CurrentRecord, Start, ExifHeader
    <3>4. /\ ~(pos + 6 <= size) /\ length # 0 /\ ~(pos + length <= size)
      BY <1>0, <3>2, <3>3 DEF ExifHeader
    <3>5. AnswerTo(Current) = <<"Success", Nothing>>
      BY <3>3, <3>4 DEF AnswerTo, ExifHeader
    <3> QED
      BY <1>0, <2>2, <2>3, <3>1, <3>5, ScanExpects
  <2> QED
    BY <2>7, <2>8
<1>11. CASE ReadBlock
  <2>1. SUFFICES ASSUME pc' = "settle", ~deviceFailed', ~cancelled', steady' PROVE <<verdict', found'>> = Expected
    BY <1>0, <1>11 DEF ReadBlock
  <2>2. /\ ~deviceFailed /\ ~cancelled /\ steady /\ pc = "block"
        /\ verdict = "Success"
    BY <1>0, <1>11, <2>1 DEF ReadBlock, Delivery
  <2>3. /\ Current <= RecordCount /\ CurrentRecord.tag = "exif"
        /\ length = CurrentRecord.n /\ pos = CurrentData
        /\ file.kind = "jpeg" => CurrentData + ExifHeader <= size
    BY <1>0, <2>2 DEF Aligned
  <2>4. ExifAhead
    BY <1>0, <2>2, <2>3 DEF ExifAhead, Course, CurrentData, Current
  <2>5. length >= 0
    BY <1>0, <2>3, ToTheNext
  <2>6. /\ DataOf(file, Current) = Range(pos, length)
        /\ DataOf(file, Current).from = pos /\ DataOf(file, Current).to = pos + length
        /\ file.records[Current].n = length /\ (file.kind = "jpeg" => pos + ExifHeader <= size)
    BY <2>3 DEF DataOf, Range, CurrentData, CurrentRecord, Start
  <2>7. Expected = AnswerTo(Current)
    BY <1>0, <2>2, <2>4, ScanExpects
  <2>8. CASE length > limits.block
    <3>1. verdict' = "ResourceLimit" /\ found' = Nothing
      BY <1>0, <1>11, <2>8 DEF ReadBlock, Oversized
    <3>2. AnswerTo(Current) = <<"ResourceLimit", Nothing>>
      BY <1>0, <2>6, <2>8 DEF AnswerTo
    <3> QED
      BY <2>7, <3>1, <3>2
  <2>9. CASE length = 0
    <3>1. verdict' = "Damaged" /\ found' = Nothing
      BY <1>0, <1>11, <2>9 DEF ReadBlock, Oversized
    <3>2. AnswerTo(Current) = <<"Damaged", Nothing>>
      BY <1>0, <2>6, <2>9 DEF AnswerTo
    <3> QED
      BY <2>7, <3>1, <3>2
  <2>10. CASE length > 0 /\ ~(length > limits.block) /\ pos + length <= size
    <3>1. verdict' = "Success" /\ found' = Range(pos, length)
      BY <1>0, <1>11, <2>1, <2>2, <2>10 DEF ReadBlock, Oversized, Available
    <3>2. AnswerTo(Current) = <<"Success", Range(pos, length)>>
      BY <1>0, <2>6, <2>10 DEF AnswerTo
    <3> QED
      BY <2>7, <3>1, <3>2
  <2>11. CASE length > 0 /\ ~(length > limits.block) /\ ~(pos + length <= size)
    <3>1. verdict' = "Success" /\ found' = Nothing
      BY <1>0, <1>11, <2>1, <2>2, <2>11 DEF ReadBlock, Oversized, Available
    <3>2. AnswerTo(Current) = <<"Success", Nothing>>
      BY <1>0, <2>6, <2>11 DEF AnswerTo
    <3> QED
      BY <2>7, <3>1, <3>2
  <2> QED
    BY <1>0, <2>5, <2>8, <2>9, <2>10, <2>11
<1>12. CASE OpenTiff
  <2>1. SUFFICES ASSUME pc' = "settle", ~deviceFailed', ~cancelled', steady' PROVE <<verdict', found'>> = Expected
    BY <1>0, <1>12 DEF OpenTiff
  <2>2. /\ ~deviceFailed /\ ~cancelled /\ steady /\ pc = "tiff" /\ file.kind = "tiff" /\ admitted /\ size >= SignatureBytes(file)
        /\ verdict = "Success"
    BY <1>0, <1>12, <2>1 DEF OpenTiff, Delivery, Course, Entered
  <2>3. found' = Nothing /\ verdict' = "ResourceLimit" /\ size > limits.tiff
    BY <1>12, <2>1 DEF OpenTiff
  <2>4. ~(size < SignatureBytes(file))
    BY <1>0, <2>2
  <2> QED
    BY <2>2, <2>3, <2>4 DEF Expected
<1>13. CASE TiffAtEnd
  <2>1. SUFFICES ASSUME pc' = "settle", ~deviceFailed', ~cancelled', steady' PROVE <<verdict', found'>> = Expected
    BY <1>0, <1>13 DEF TiffAtEnd
  <2>2. /\ ~deviceFailed /\ ~cancelled /\ steady /\ pc = "tiff_loop" /\ file.kind = "tiff" /\ admitted /\ size >= SignatureBytes(file)
        /\ verdict = "Success"
    BY <1>0, <1>13, <2>1 DEF TiffAtEnd, Delivery, Course, Entered
  <2>3. found' = Range(0, data) /\ verdict' = verdict /\ pos >= size
    BY <1>13, <2>1 DEF TiffAtEnd
  <2>4. pos = data /\ opened = size /\ opened <= limits.tiff
    BY <2>2 DEF Gapless, IInv
  <2>5. ~(size < SignatureBytes(file)) /\ ~(size > limits.tiff) /\ data = size
    BY <1>0, <2>2, <2>3, <2>4
  <2> QED
    BY <2>2, <2>3, <2>5 DEF Expected
<1>14. CASE ReadChunk
  <2>1. SUFFICES ASSUME pc' = "settle", ~deviceFailed', ~cancelled', steady' PROVE <<verdict', found'>> = Expected
    BY <1>0, <1>14 DEF ReadChunk
  <2>2. /\ ~deviceFailed /\ ~cancelled /\ steady /\ pc = "tiff_read" /\ pos < size
        /\ verdict = "Success"
    BY <1>0, <1>14, <2>1 DEF ReadChunk, Delivery, Course
  <2>3. length' = Lesser(ChunkBytes, size - pos) /\ length' = 0
    BY <1>14, <2>1 DEF ReadChunk, IsLast
  <2> QED
    BY <1>0, <2>2, <2>3 DEF Lesser
<1>15. CASE AppendChunk
  BY <1>0, <1>15 DEF AppendChunk
<1>16. CASE RequestCancel
  BY <1>0, <1>16 DEF RequestCancel
<1>17. CASE Grow
  BY <1>0, <1>17 DEF Grow
<1>18. CASE UNCHANGED vars
  BY <1>0, <1>18 DEF vars
<1> QED
  BY <1>1, <1>2, <1>3, <1>4, <1>5, <1>6, <1>7, <1>8, <1>9,
     <1>10, <1>11, <1>12, <1>13, <1>14, <1>15, <1>16, <1>17, <1>18
     DEF Next, Step, Scan, Tiff, Terminating

\* The answer to a call that was left alone is what the layout calls for.
LEMMA NextFindsFirstExif == IInv /\ [Next]_vars => FindsFirstExif'
<1> SUFFICES ASSUME IInv, [Next]_vars PROVE FindsFirstExif'
  OBVIOUS
<1>0. /\ FindsFirstExif /\ Told /\ Faults /\ Delivery
      /\ file' = file /\ limits' = limits
      /\ pc \in {"entry", "prepare", "signature"} => ~deviceFailed
      /\ admitted' = admitted /\ size' = size => Expected' = Expected
  <2>1. admitted' = admitted /\ size' = size /\ file' = file /\ limits' = limits => Expected' = Expected
    BY DEF Expected, Reached, AnswerTo
  <2> QED
    BY <2>1, NextInputs DEF IInv, Faults
<1> USE DEF FindsFirstExif, Goto, GiveUp, Finish, Return, world, answer, scan, DeviceWorks, DeviceFails
<1>1. CASE PollEntry
  BY <1>0, <1>1 DEF PollEntry
<1>2. CASE Prepare
  <2>1. SUFFICES ASSUME pc' = "done", ~faulty', steady'
                 PROVE  <<outcome', payload'>> = Expected'
    OBVIOUS
  <2>2. ~admitted /\ outcome' = "ResourceLimit" /\ payload' = Nothing /\ size' = size /\ admitted' = admitted
    BY <1>2, <2>1 DEF Prepare
  <2>3. Expected = <<"ResourceLimit", Nothing>>
    BY <2>2 DEF Expected
  <2> QED
    BY <1>0, <2>2, <2>3
<1>3. CASE Signature
  BY <1>0, <1>3 DEF Signature, Available
<1>4. CASE Settle
  <2>1. SUFFICES ASSUME ~faulty', ~cancelled', steady'
                 PROVE  <<outcome', payload'>> = Expected'
    OBVIOUS
  <2>2. /\ pc = "settle" /\ ~deviceFailed /\ ~cancelled /\ steady
        /\ outcome' = verdict /\ payload' = found /\ size' = size /\ admitted' = admitted
    BY <1>0, <1>4, <2>1 DEF Settle, FaultSeen, Faults
  <2> QED
    BY <1>0, <2>2 DEF Told
<1>5. CASE PollRecord
  BY <1>0, <1>5 DEF PollRecord, MoreRecords
<1>6. CASE ReadMarker
  BY <1>0, <1>6 DEF ReadMarker, Available, NextRecord
<1>7. CASE SeekBack
  BY <1>0, <1>7 DEF SeekBack, NextRecord
<1>8. CASE ReadLength
  BY <1>0, <1>8 DEF ReadLength, Available
<1>9. CASE ReadHeader
  BY <1>0, <1>9 DEF ReadHeader, Available
<1>10. CASE Skip
  BY <1>0, <1>10 DEF Skip, Skippable, NextRecord
<1>11. CASE ReadBlock
  BY <1>0, <1>11 DEF ReadBlock, Available, Oversized
<1>12. CASE OpenTiff
  BY <1>0, <1>12 DEF OpenTiff
<1>13. CASE TiffAtEnd
  BY <1>0, <1>13 DEF TiffAtEnd
<1>14. CASE ReadChunk
  BY <1>0, <1>14 DEF ReadChunk, IsLast
<1>15. CASE AppendChunk
  BY <1>0, <1>15 DEF AppendChunk
<1>16. CASE RequestCancel
  BY <1>0, <1>16 DEF RequestCancel
<1>17. CASE Grow
  BY <1>0, <1>17 DEF Grow
<1>18. CASE UNCHANGED vars
  BY <1>0, <1>18 DEF vars
<1> QED
  BY <1>1, <1>2, <1>3, <1>4, <1>5, <1>6, <1>7, <1>8, <1>9,
     <1>10, <1>11, <1>12, <1>13, <1>14, <1>15, <1>16, <1>17, <1>18
     DEF Next, Step, Scan, Tiff, Terminating

-----------------------------------------------------------------------------
(* The theorems                                                            *)

\* Every reachable state satisfies the inductive invariant.
THEOREM Invariance == Spec => []IInv
<1>1. IInv /\ [Next]_vars => IInv'
  <2>1. SUFFICES ASSUME IInv, [Next]_vars PROVE IInv'
    OBVIOUS
  <2>2. TypeOK' /\ Inputs' /\ Latency'
    BY <2>1, NextTypeOK, NextInputs, NextLatency DEF IInv
  <2>3. Faults' /\ Delivery' /\ Course'
    BY <2>1, NextFaults, NextDelivery, NextCourse
  <2>4. Aligned' /\ Gapless' /\ Found' /\ WholeBlock'
    BY <2>1, NextAligned, NextGapless, NextFound, NextWholeBlock
  <2>5. Passed' /\ Entered' /\ Told' /\ FindsFirstExif'
    BY <2>1, NextPassed, NextEntered, NextTold, NextFindsFirstExif
  <2> QED
    BY <2>2, <2>3, <2>4, <2>5 DEF IInv
<1> QED
  BY <1>1, InitIInv, PTL DEF Spec

\* The device never stands behind the bytes that exist, no range ends before it
\* starts, and the answer is one inspect reckons with.
THEOREM TypeCorrect == Spec => []TypeOK
<1>1. IInv => TypeOK
  BY DEF IInv
<1> QED
  BY <1>1, Invariance, PTL

\* Behind the flag, a scan of any length begins three accesses at most.
THEOREM CancelsPromptly == Spec => []CancelLatency
<1>1. IInv => CancelLatency
  BY DEF IInv, Latency, CancelLatency
<1> QED
  BY <1>1, Invariance, PTL

\* Whatever is written and whatever fails meanwhile, libexif is given a whole
\* EXIF block of the file within the budgets, or a whole TIFF file.
THEOREM WholeBlocksOnly == Spec => []WholeBlock
<1>1. IInv => WholeBlock
  BY DEF IInv
<1> QED
  BY <1>1, Invariance, PTL

\* A call that is left alone finds the first EXIF block, wherever it stands.
THEOREM FirstExifIsFound == Spec => []FindsFirstExif
<1>1. IInv => FindsFirstExif
  BY DEF IInv
<1> QED
  BY <1>1, Invariance, PTL

-----------------------------------------------------------------------------
(* The refinement                                                          *)

\* A call begins as the contract has it.
LEMMA InitRefines == Init => Contract!Init
<1> SUFFICES ASSUME Init PROVE Contract!Init
  OBVIOUS
<1>1. pc = "entry" /\ cancelled \in BOOLEAN /\ faulty = FALSE /\ outcome = NoOutcome /\ payload = Nothing
  BY DEF Init
<1>2. (payload # Nothing) = FALSE
  BY <1>1
<1> QED
  BY <1>1, <1>2 DEF Contract!Init, Contract!NoOutcome, NoOutcome

\* A step sets the caller's flag or none; none clears what the device reported;
\* and behind the return nothing happens.
FlagSteps ==
    /\ pc = "done" => UNCHANGED vars
    /\ \/ cancelled' = cancelled /\ (faulty' = faulty \/ faulty' = TRUE)
       \/ pc # "done" /\ pc' = pc /\ cancelled' = TRUE /\ UNCHANGED <<outcome, payload, faulty>>
LEMMA StepsOnFlags == [Next]_vars => FlagSteps
<1> SUFFICES ASSUME [Next]_vars PROVE FlagSteps
  OBVIOUS
<1> USE DEF FlagSteps, vars, DeviceWorks, DeviceFails, Goto, GiveUp, Finish, Return, world, answer, scan
<1>1. CASE PollEntry
  BY <1>1 DEF PollEntry
<1>2. CASE Prepare
  BY <1>2 DEF Prepare
<1>3. CASE Signature
  BY <1>3 DEF Signature, Available
<1>4. CASE Settle
  BY <1>4 DEF Settle, FaultSeen
<1>5. CASE PollRecord
  BY <1>5 DEF PollRecord, MoreRecords
<1>6. CASE ReadMarker
  BY <1>6 DEF ReadMarker, Available, NextRecord
<1>7. CASE SeekBack
  BY <1>7 DEF SeekBack, NextRecord
<1>8. CASE ReadLength
  BY <1>8 DEF ReadLength, Available
<1>9. CASE ReadHeader
  BY <1>9 DEF ReadHeader, Available
<1>10. CASE Skip
  BY <1>10 DEF Skip, Skippable, NextRecord
<1>11. CASE ReadBlock
  BY <1>11 DEF ReadBlock, Available, Oversized
<1>12. CASE OpenTiff
  BY <1>12 DEF OpenTiff
<1>13. CASE TiffAtEnd
  BY <1>13 DEF TiffAtEnd
<1>14. CASE ReadChunk
  BY <1>14 DEF ReadChunk, IsLast
<1>15. CASE AppendChunk
  BY <1>15 DEF AppendChunk
<1>16. CASE RequestCancel
  BY <1>16 DEF RequestCancel
<1>17. CASE Grow
  BY <1>17 DEF Grow
<1>18. CASE UNCHANGED vars
  BY <1>18 DEF vars
<1> QED
  BY <1>1, <1>2, <1>3, <1>4, <1>5, <1>6, <1>7, <1>8, <1>9,
     <1>10, <1>11, <1>12, <1>13, <1>14, <1>15, <1>16, <1>17, <1>18
     DEF Next, Step, Scan, Tiff, Terminating

\* Every step maps to a step of the contract or to a stutter.
LEMMA NextRefines == IInv /\ IInv' /\ [Next]_vars => [Contract!Next]_(Contract!vars)
<1> SUFFICES ASSUME IInv, IInv', [Next]_vars PROVE Contract!Next \/ UNCHANGED Contract!vars
  OBVIOUS
<1>1. Faults /\ Delivery /\ Faults' /\ Delivery'
  BY DEF IInv
<1>2. /\ pc # "done" => outcome = NoOutcome
      /\ pc' # "done" => outcome' = NoOutcome
      /\ pc' = "done" => outcome' \in Outcomes
      /\ cancelled' \in BOOLEAN /\ faulty' \in BOOLEAN
  <2>1. Types
    BY TypesAreTypeOK DEF IInv
  <2>2. Types'
    <3>1. (Inputs => (TypeOK <=> Types))'
      BY TypesAreTypeOK, PTL
    <3> QED
      BY <3>1 DEF IInv
  <2> QED
    BY <2>1, <2>2 DEF Types, FlagTypes, AnswerTypes, Outcomes
<1>3. FlagSteps
  BY StepsOnFlags
<1>4. CASE pc = "done"
  <2>1. UNCHANGED vars
    BY <1>3, <1>4 DEF FlagSteps
  <2> QED
    BY <2>1 DEF vars, Contract!vars
<1>5. CASE pc # "done" /\ pc' = "done"
  <2>1. cancelled' = cancelled /\ faulty' \in {faulty, TRUE}
    BY <1>3, <1>5 DEF FlagSteps
  <2>2. /\ payload' # Nothing => outcome' = "Success"
        /\ outcome' = "Success" => ~cancelled
        /\ outcome' = "Cancelled" => cancelled
        /\ faulty' => outcome' \in {"IoFailure", "Cancelled"}
        /\ outcome' = "IoFailure" => faulty'
    BY <1>1, <1>5, <2>1 DEF Faults, Delivery
  <2>3. Contract!Return
    BY <1>2, <1>5, <2>1, <2>2 DEF Contract!Return, Contract!Promise, Contract!Outcomes, Outcomes
  <2> QED
    BY <2>3 DEF Contract!Next
<1>6. CASE pc # "done" /\ pc' # "done"
  <2>1. outcome' = outcome /\ payload' = payload
    BY <1>1, <1>2, <1>6 DEF Delivery
  <2>2. CASE cancelled' = cancelled /\ (faulty' = faulty \/ faulty' = TRUE)
    BY <1>6, <2>1, <2>2 DEF Contract!Next, Contract!DeviceFault, Contract!vars
  <2>3. CASE cancelled' = TRUE /\ UNCHANGED faulty
    BY <1>6, <2>1, <2>3 DEF Contract!Next, Contract!RequestCancel
  <2> QED
    BY <1>3, <2>2, <2>3 DEF FlagSteps
<1> QED
  BY <1>4, <1>5, <1>6

\* Every behaviour of readMetadata is one the contract allows.
THEOREM Refinement == Spec => ImplementsContract
<1>1. Spec => Contract!Init /\ [][Contract!Next]_(Contract!vars)
  BY InitRefines, NextRefines, Invariance, PTL DEF Spec
<1> QED
  BY <1>1, PTL DEF ImplementsContract, Contract!Spec

=============================================================================
