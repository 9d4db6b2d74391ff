------------------------------ MODULE LoadSvg ------------------------------
(***************************************************************************)
(* loadSvg (src/svg.cpp): reads a whole document into memory under a byte  *)
(* budget, polling a flag another thread may set.  One step is one access  *)
(* to something another party can change - the flag, the device - followed *)
(* by the local code up to the next access.  The device is a file another  *)
(* process may write: its size() can be stale, it can grow or shrink while *)
(* it is read, and a read may be short or fail.                            *)
(***************************************************************************)
EXTENDS ImageTypes

CONSTANTS
    Budgets,     \* the inputBytes a caller may pass (the code accepts any qint64)
    BufferSize,  \* bytes of the stack buffer, 16384 in the code
    MaxContent   \* bound on the size of the file

ASSUME BudgetsAssumption == Budgets \subseteq Int
ASSUME BufferAssumption == BufferSize \in Nat \ {0}
ASSUME ContentAssumption == MaxContent \in Nat

VARIABLES
    pc,          \* the next access
    inputBytes,  \* the caller's budget
    cancelled,   \* the caller's flag
    content,     \* bytes in the file now
    claimed,     \* what size() answered
    pos,         \* position of the device: bytes taken out of it
    bytes,       \* bytes.size()
    count,       \* result of the last read
    outcome,     \* the returned SvgSource::outcome
    returned,    \* the returned SvgSource::bytes.size()
    failed,      \* history: the device was unusable or a read failed
    end,         \* history: the size of the file at the last read
    lateReads    \* history: reads begun after the flag was set

vars == <<pc, inputBytes, cancelled, content, claimed, pos, bytes, count,
          outcome, returned, failed, end, lateReads>>

Points == {"entry", "position", "size", "poll", "read", "recheck", "done"}

Init ==
    /\ pc = "entry"
    /\ inputBytes \in Budgets
    /\ cancelled \in BOOLEAN
    /\ content \in 0..MaxContent
    /\ claimed = 0
    /\ pos = 0
    /\ bytes = 0
    /\ count = 0
    /\ outcome = NoOutcome
    /\ returned = 0
    /\ failed = FALSE
    /\ end = 0
    /\ lateReads = 0

Return(o) ==
    /\ pc' = "done"
    /\ outcome' = o
    /\ returned' = IF o = "Success" THEN bytes ELSE 0

Goto(point) ==
    /\ pc' = point
    /\ UNCHANGED <<outcome, returned>>

-----------------------------------------------------------------------------
(* The call                                                                *)

\* The entry poll, then the budget check that touches nothing shared.
Entry ==
    /\ pc = "entry"
    /\ \/ cancelled /\ Return("Cancelled")
       \/ ~cancelled /\ inputBytes <= 0 /\ Return("ResourceLimit")
       \/ ~cancelled /\ inputBytes > 0 /\ Goto("position")
    /\ UNCHANGED <<inputBytes, cancelled, content, claimed, pos, bytes, count, failed, end, lateReads>>

\* isOpen, isReadable, isSequential and seek(0): any of them may say no.
Position ==
    /\ pc = "position"
    /\ \/ Return("IoFailure") /\ failed' = TRUE
       \/ Goto("size") /\ UNCHANGED failed
    /\ UNCHANGED <<inputBytes, cancelled, content, claimed, pos, bytes, count, end, lateReads>>

\* size() is a hint: it may be stale, too small or too large.
CheckSize ==
    /\ pc = "size"
    /\ claimed' \in 0..MaxContent
    /\ IF claimed' > inputBytes THEN Return("ResourceLimit") ELSE Goto("poll")
    /\ UNCHANGED <<inputBytes, cancelled, content, pos, bytes, count, failed, end, lateReads>>

\* Fault: the flag is looked at once, in front of the loop.
SeenBeforeLoop == FALSE

\* The flag as the loop sees it: in front of a read and behind it.
SeenInLoop == cancelled

Poll ==
    /\ pc = "poll"
    /\ IF SeenInLoop THEN Return("Cancelled") ELSE Goto("read")
    /\ UNCHANGED <<inputBytes, cancelled, content, claimed, pos, bytes, count, failed, end, lateReads>>

\* Faults a change of this code could bring, for the runs: no clamp to the
\* buffer, and no extra byte.
RequestUnclamped == inputBytes - bytes + 1
RequestWithinBudget == Lesser(inputBytes - bytes, BufferSize)

\* One byte more than the rest of the budget, if the buffer has the room.
Request == Lesser(inputBytes - bytes, BufferSize - 1) + 1

\* A request for nothing, and a read at the end of the file, yield 0 bytes;
\* any other read yields at least one.
Counts(request) ==
    IF request = 0 \/ pos >= content THEN {0} ELSE 1..Lesser(request, content - pos)

Read ==
    /\ pc = "read"
    /\ end' = content
    /\ lateReads' = IF cancelled THEN lateReads + 1 ELSE lateReads
    /\ \/ /\ count' = -1
          /\ failed' = TRUE
          /\ Return("IoFailure")
          /\ UNCHANGED pos
       \/ /\ count' \in Counts(Request)
          /\ pos' = pos + count'
          /\ Goto("recheck")
          /\ UNCHANGED failed
    /\ UNCHANGED <<inputBytes, cancelled, content, claimed, bytes>>

\* Off by one, either way.
OverBudgetLate == count > inputBytes - bytes + 1
OverBudgetEarly == count >= inputBytes - bytes

OverBudget == count > inputBytes - bytes

\* Fault: an empty read does not end the loop.
EndOfFileIgnored == FALSE

EndOfFile == count = 0

\* The poll after the read, then end of file, budget and append.
Recheck ==
    /\ pc = "recheck"
    /\ \/ SeenInLoop /\ Return("Cancelled") /\ UNCHANGED bytes
       \/ ~SeenInLoop /\ EndOfFile /\ Return("Success") /\ UNCHANGED bytes
       \/ ~SeenInLoop /\ ~EndOfFile /\ OverBudget /\ Return("ResourceLimit") /\ UNCHANGED bytes
       \/ ~SeenInLoop /\ ~EndOfFile /\ ~OverBudget /\ Goto("poll") /\ bytes' = bytes + count
    /\ UNCHANGED <<inputBytes, cancelled, content, claimed, pos, count, failed, end, lateReads>>

Step == Entry \/ Position \/ CheckSize \/ Poll \/ Read \/ Recheck

-----------------------------------------------------------------------------
(* The environment                                                         *)

\* The caller's other thread.
RequestCancel ==
    /\ pc # "done"
    /\ ~cancelled
    /\ cancelled' = TRUE
    /\ UNCHANGED <<pc, inputBytes, content, claimed, pos, bytes, count, outcome, returned, failed, end, lateReads>>

\* Another process appends to the file or truncates it.
Resize ==
    /\ pc # "done"
    /\ content' \in 0..MaxContent
    /\ UNCHANGED <<pc, inputBytes, cancelled, claimed, pos, bytes, count, outcome, returned, failed, end, lateReads>>

Terminating == pc = "done" /\ UNCHANGED vars

Next == Step \/ RequestCancel \/ Resize \/ Terminating

\* The caller's thread runs; nothing is assumed of the environment.
Spec == Init /\ [][Next]_vars /\ WF_vars(Step)

-----------------------------------------------------------------------------
(* Properties                                                              *)

FlagsOK == cancelled \in BOOLEAN /\ failed \in BOOLEAN

\* Every variable has its type; in particular a read never yields more than
\* the stack buffer holds.
TypeOK ==
    /\ pc \in Points
    /\ inputBytes \in Budgets
    /\ FlagsOK
    /\ content \in 0..MaxContent
    /\ claimed \in 0..MaxContent
    /\ pos \in Nat
    /\ bytes \in Nat
    /\ count \in -1..BufferSize
    /\ outcome \in Outcomes \cup {NoOutcome}
    /\ returned \in Nat
    /\ end \in Nat
    /\ lateReads \in Nat

\* The promise of svg.h: however stale size() is, at most one byte more than
\* the budget is taken out of the device and at most the budget is kept.
WithinBudget ==
    /\ bytes > 0 => bytes <= inputBytes
    /\ pos > 0 => pos <= inputBytes + 1

\* Success returns the whole document: every byte taken out of the device, up
\* to where the file ended when the last read found nothing more.  A document
\* is never silently cut at the budget, nor at a short read.
WholeDocument ==
    outcome = "Success" => returned = pos /\ returned >= end

\* ResourceLimit is only reported for a budget that admits nothing, or when
\* the device claimed or yielded more than the budget: a document of exactly
\* inputBytes bytes is accepted.
RefusalJustified ==
    outcome = "ResourceLimit" =>
        \/ inputBytes <= 0
        \/ claimed > inputBytes
        \/ pos > inputBytes

\* Cancellation is answered before a second read of the device is begun.
CancelLatency == lateReads <= 1

\* The call keeps the promise common to all calls.
Contract == INSTANCE CallContract WITH
    phase <- IF pc = "done" THEN "idle" ELSE "running",
    output <- returned # 0

ImplementsContract == Contract!Spec

\* The call returns, even from a file that grows for ever.
Returns == <>(pc = "done")

=============================================================================
