--------------------------- MODULE LoadSvgProofs ---------------------------
(***************************************************************************)
(* LoadSvg for every set of budgets, every buffer and every file: types,   *)
(* the byte budget, whole documents, justified refusals, cancellation      *)
(* latency, and the refinement of CallContract.                            *)
(***************************************************************************)
EXTENDS LoadSvg, TLAPS

Loop == {"poll", "read", "recheck"}

\* Between polls the device stands right behind the bytes kept; a read moves
\* it by its count, which exceeds the rest of the budget by at most one.
Positions ==
    /\ pc \in {"entry", "position", "size"} => bytes = 0 /\ pos = 0
    /\ pc \in {"poll", "read"} => pos = bytes
    /\ pc = "recheck" =>
        /\ pos = bytes + count
        /\ count \in 0..(inputBytes - bytes + 1)
        /\ count = 0 => pos >= end

Budget ==
    /\ pc \in Loop \cup {"position", "size"} => inputBytes > 0 /\ bytes <= inputBytes
    /\ WithinBudget

\* What is known of the answer, before and after the return.
Answer ==
    /\ pc # "done" => outcome = NoOutcome /\ returned = 0 /\ ~failed
    /\ pc \in Loop => claimed <= inputBytes
    /\ WholeDocument
    /\ RefusalJustified

\* A read begun after the flag was set is the last one: the poll that follows
\* it sees the flag.
Latency ==
    /\ lateReads <= 1
    /\ lateReads > 0 => cancelled
    /\ pc \notin {"recheck", "done"} => lateReads = 0

IInv == TypeOK /\ Positions /\ Budget /\ Answer /\ Latency

-----------------------------------------------------------------------------

\* A request asks for at least one byte, fits the buffer, and exceeds the rest
\* of the budget by at most one byte (src/svg.cpp, the line after the poll).
LEMMA RequestBounds ==
    ASSUME BufferSize \in Nat \ {0}, bytes \in Nat, inputBytes \in Int, bytes <= inputBytes
    PROVE  Request \in 1..BufferSize /\ Request <= inputBytes - bytes + 1
BY DEF Request, Lesser

\* A read yields at most what was asked for, and nothing only at the end.
LEMMA CountsBounds ==
    ASSUME content \in Nat, pos \in Nat, NEW request \in Nat \ {0}, NEW c \in Counts(request)
    PROVE  c \in 0..request /\ (c = 0 => pos >= content)
BY DEF Counts, Lesser

\* The initial states of a call satisfy the inductive invariant.
LEMMA InitIInv == Init => IInv
<1> SUFFICES ASSUME Init PROVE IInv
  OBVIOUS
<1> USE BudgetsAssumption, BufferAssumption, ContentAssumption DEF Init, Loop, NoOutcome
<1>1. TypeOK
  <2>1. FlagsOK
    BY DEF FlagsOK
  <2> QED
    BY <2>1 DEF TypeOK, Points
<1>2. Positions
  BY DEF Positions
<1>3. Budget
  BY DEF Budget, WithinBudget
<1>4. Answer
  BY DEF Answer, WholeDocument, RefusalJustified
<1>5. Latency
  BY DEF Latency
<1> QED
  BY <1>1, <1>2, <1>3, <1>4, <1>5 DEF IInv

\* The two flags stay Boolean.
LEMMA FlagsTyped == FlagsOK /\ [Next]_vars => FlagsOK'
BY DEF FlagsOK, Next, Step, vars, Entry, Position, CheckSize, Poll, Read, Recheck,
       RequestCancel, Resize, Terminating

\* Every step of the call and of its environment preserves the invariant.
LEMMA NextIInv == IInv /\ [Next]_vars => IInv'
<1> SUFFICES ASSUME IInv, [Next]_vars PROVE IInv'
  OBVIOUS
<1> USE BudgetsAssumption, BufferAssumption, ContentAssumption
<1> USE DEF IInv, Points, Loop, NoOutcome, Outcomes
<1>f. FlagsOK'
  BY FlagsTyped DEF TypeOK
<1>i. inputBytes \in Int /\ content \in Nat
  BY DEF TypeOK
<1>1. CASE Entry
  BY <1>1, <1>i, <1>f DEF Entry, Return, Goto, TypeOK, Positions, Budget, WithinBudget, Answer,
     WholeDocument, RefusalJustified, Latency
<1>2. CASE Position
  BY <1>2, <1>i, <1>f DEF Position, Return, Goto, TypeOK, Positions, Budget, WithinBudget, Answer,
     WholeDocument, RefusalJustified, Latency
<1>3. CASE CheckSize
  BY <1>3, <1>i, <1>f DEF CheckSize, Return, Goto, TypeOK, Positions, Budget, WithinBudget, Answer,
     WholeDocument, RefusalJustified, Latency
<1>4. CASE Poll
  BY <1>4, <1>i, <1>f DEF Poll, SeenInLoop, Return, Goto, TypeOK, Positions, Budget, WithinBudget, Answer,
     WholeDocument, RefusalJustified, Latency
<1>5. CASE Read
  <2>0. /\ pc = "read" /\ pos = bytes /\ bytes <= inputBytes /\ inputBytes > 0
        /\ bytes \in Nat /\ pos \in Nat
    BY <1>5, <1>i, <1>f DEF Read, TypeOK, Positions, Budget
  <2>1. Request \in 1..BufferSize /\ Request <= inputBytes - bytes + 1
    BY <2>0, <1>i, RequestBounds
  <2>2. Request \in Nat \ {0}
    BY <2>1
  <2>3. CASE count' = -1 /\ failed' = TRUE /\ Return("IoFailure") /\ UNCHANGED pos
    BY <1>5, <2>3, <2>0, <1>i, <1>f DEF Read, Return, TypeOK, Positions, Budget, WithinBudget, Answer,
       WholeDocument, RefusalJustified, Latency
  <2>4. CASE \E c \in Counts(Request) :
                count' = c /\ pos' = pos + c /\ Goto("recheck") /\ UNCHANGED failed
    <3> PICK c \in Counts(Request) :
              count' = c /\ pos' = pos + c /\ Goto("recheck") /\ UNCHANGED failed
      BY <2>4
    <3>1. c \in Nat /\ c <= Request /\ (c = 0 => pos >= content)
      BY <2>2, <2>0, <1>i, CountsBounds
    <3>2. c <= BufferSize /\ c <= inputBytes - bytes + 1
      BY <3>1, <2>1, <2>0, <1>i
    <3>0. /\ pc' = "recheck" /\ end' = content
          /\ count' = c /\ pos' = pos + c
          /\ UNCHANGED <<inputBytes, content, claimed, bytes, outcome, returned>>
      BY <1>5 DEF Read, Goto
    <3>a. UNCHANGED <<cancelled, failed>>
      BY <1>5 DEF Read, Goto
    <3>b. lateReads = 0 /\ lateReads' \in {0, 1} /\ (lateReads' > 0 => cancelled)
      BY <1>5, <2>0 DEF Read, Latency
    <3>3. TypeOK'
      BY <1>f, <3>0, <3>1, <3>2, <3>b, <2>0, <1>i DEF TypeOK
    <3>4. Positions'
      BY <3>0, <3>1, <3>2, <2>0, <1>i DEF Positions
    <3>5. Budget'
      BY <3>0, <3>1, <3>2, <2>0, <1>i DEF Budget, WithinBudget
    <3>6. Answer'
      BY <3>0, <3>a, <2>0 DEF Answer, WholeDocument, RefusalJustified
    <3>7. Latency'
      BY <3>0, <3>a, <3>b, <2>0 DEF Latency
    <3> QED
      BY <3>3, <3>4, <3>5, <3>6, <3>7
  <2> QED
    BY <1>5, <2>3, <2>4 DEF Read
<1>6. CASE Recheck
  <2>0. /\ pc = "recheck" /\ bytes \in Nat /\ count \in Nat
        /\ pos = bytes + count /\ (count = 0 => pos >= end)
        /\ bytes <= inputBytes /\ inputBytes > 0
    BY <1>6, <1>i, <1>f DEF Recheck, TypeOK, Positions, Budget
  <2>1. TypeOK'
    BY <1>6, <2>0, <1>i, <1>f DEF Recheck, SeenInLoop, EndOfFile, Return, Goto, TypeOK
  <2>2. Positions'
    BY <1>6, <2>0, <1>i DEF Recheck, SeenInLoop, EndOfFile, Return, Goto, Positions
  <2>3. Budget'
    BY <1>6, <2>0, <1>i DEF Recheck, SeenInLoop, EndOfFile, Return, Goto, Budget, WithinBudget, OverBudget
  <2>4. Answer'
    BY <1>6, <2>0, <1>i DEF Recheck, SeenInLoop, EndOfFile, Return, Goto, Answer, WholeDocument, RefusalJustified, OverBudget
  <2>5. Latency'
    BY <1>6, <2>0 DEF Recheck, SeenInLoop, EndOfFile, Return, Goto, Latency, TypeOK
  <2> QED
    BY <2>1, <2>2, <2>3, <2>4, <2>5
<1>7. CASE RequestCancel
  BY <1>7, <1>i, <1>f DEF RequestCancel, TypeOK, Positions, Budget, WithinBudget, Answer,
     WholeDocument, RefusalJustified, Latency
<1>8. CASE Resize
  BY <1>8, <1>i, <1>f DEF Resize, TypeOK, Positions, Budget, WithinBudget, Answer,
     WholeDocument, RefusalJustified, Latency
<1>9. CASE UNCHANGED vars
  BY <1>9, <1>i, <1>f DEF vars, TypeOK, Positions, Budget, WithinBudget, Answer,
     WholeDocument, RefusalJustified, Latency
<1> QED
  BY <1>1, <1>2, <1>3, <1>4, <1>5, <1>6, <1>7, <1>8, <1>9 DEF Next, Step, Terminating

\* The inductive invariant holds throughout every call.
THEOREM Invariance == Spec => []IInv
BY InitIInv, NextIInv, PTL DEF Spec

\* Types: in particular no read overruns the stack buffer.
THEOREM TypeCorrect == Spec => []TypeOK
<1>1. IInv => TypeOK
  BY DEF IInv
<1> QED
  BY <1>1, Invariance, PTL

\* For every budget and every file, however stale its size: at most one byte
\* more than the budget leaves the device, at most the budget is kept.
THEOREM BudgetKept == Spec => []WithinBudget
<1>1. IInv => WithinBudget
  BY DEF IInv, Budget
<1> QED
  BY <1>1, Invariance, PTL

\* A document answered with Success is complete.
THEOREM DocumentsWhole == Spec => []WholeDocument
<1>1. IInv => WholeDocument
  BY DEF IInv, Answer
<1> QED
  BY <1>1, Invariance, PTL

\* A document within the budget is not refused for its size.
THEOREM RefusalsJustified == Spec => []RefusalJustified
<1>1. IInv => RefusalJustified
  BY DEF IInv, Answer
<1> QED
  BY <1>1, Invariance, PTL

\* At most one read is begun after the flag was set.
THEOREM CancelsPromptly == Spec => []CancelLatency
<1>1. IInv => CancelLatency
  BY DEF IInv, Latency, CancelLatency
<1> QED
  BY <1>1, Invariance, PTL

-----------------------------------------------------------------------------
(* The refinement                                                          *)

\* Initial states map to initial states.
LEMMA InitRefines == Init => Contract!Init
<1> SUFFICES ASSUME Init PROVE Contract!Init
  OBVIOUS
<1>1. pc # "done" /\ outcome = NoOutcome /\ returned = 0
  BY DEF Init
<1>2. (returned # 0) = FALSE
  BY <1>1
<1> QED
  BY <1>1, <1>2 DEF Init, NoOutcome, Contract!Init, Contract!NoOutcome

\* Every step maps to a step of the contract or to a stutter.
LEMMA NextRefines == IInv /\ [Next]_vars => [Contract!Next]_(Contract!vars)
<1> SUFFICES ASSUME IInv, [Next]_vars PROVE [Contract!Next]_(Contract!vars)
  OBVIOUS
<1> USE DEF IInv, NoOutcome, Outcomes, Contract!Outcomes, Contract!NoOutcome, Contract!vars,
        Contract!Next, Contract!Return, Contract!Promise
<1>0. pc # "done" => outcome = NoOutcome /\ returned = 0 /\ ~failed
  BY DEF Answer
<1>1. CASE Entry
  BY <1>1, <1>0 DEF Entry, Return, Goto, TypeOK
<1>2. CASE Position
  BY <1>2, <1>0 DEF Position, Return, Goto, TypeOK
<1>3. CASE CheckSize
  BY <1>3, <1>0 DEF CheckSize, Return, Goto, TypeOK
<1>4. CASE Poll
  BY <1>4, <1>0 DEF Poll, SeenInLoop, Return, Goto, TypeOK
<1>5. CASE Read
  BY <1>5, <1>0 DEF Read, Return, Goto, TypeOK
<1>6. CASE Recheck
  BY <1>6, <1>0 DEF Recheck, SeenInLoop, EndOfFile, Return, Goto, TypeOK
<1>7. CASE RequestCancel
  BY <1>7 DEF RequestCancel, Contract!RequestCancel
<1>8. CASE Resize
  BY <1>8 DEF Resize
<1>9. CASE UNCHANGED vars
  BY <1>9 DEF vars
<1> QED
  BY <1>1, <1>2, <1>3, <1>4, <1>5, <1>6, <1>7, <1>8, <1>9 DEF Next, Step, Terminating

\* Every behaviour of loadSvg is one the contract allows.
THEOREM Refinement == Spec => ImplementsContract
<1>1. Spec => Contract!Init /\ [][Contract!Next]_(Contract!vars)
  BY InitRefines, NextRefines, Invariance, PTL DEF Spec
<1> QED
  BY <1>1, PTL DEF ImplementsContract, Contract!Spec

=============================================================================
