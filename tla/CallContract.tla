---------------------------- MODULE CallContract ----------------------------
(***************************************************************************)
(* What every call of the public API promises its caller, whatever it      *)
(* reads: inspect, decode, readMetadata, loadSvg and rasterizeSvg share    *)
(* one cancellation flag with the caller, one device with nobody, and one  *)
(* Outcome enumeration.  The detailed modules are shown to implement this  *)
(* specification.  The promise: only Success comes with an output, a flag  *)
(* that was set before the last poll is never answered with Success, a     *)
(* device fault is never reported as a property of the image, and IoFailure*)
(* and Cancelled are never invented.                                       *)
(***************************************************************************)
EXTENDS ImageTypes

VARIABLES
    phase,      \* "idle" between calls, "running" inside one
    cancelled,  \* the caller's atomic flag of the current call
    failed,     \* the device (or the codec, about the device) reported a fault
    outcome,    \* the Outcome of the last call, NoOutcome while it runs
    output      \* the last call returned a non-empty result

vars == <<phase, cancelled, failed, outcome, output>>

TypeOK ==
    /\ phase \in {"idle", "running"}
    /\ cancelled \in BOOLEAN
    /\ failed \in BOOLEAN
    /\ outcome \in Outcomes \cup {NoOutcome}
    /\ output \in BOOLEAN

Init ==
    /\ phase \in {"idle", "running"}
    /\ cancelled \in BOOLEAN
    /\ failed = FALSE
    /\ outcome = NoOutcome
    /\ output = FALSE

\* The caller starts a call with a flag of its choice.
Begin ==
    /\ phase = "idle"
    /\ phase' = "running"
    /\ cancelled' \in BOOLEAN
    /\ failed' = FALSE
    /\ outcome' = NoOutcome
    /\ output' = FALSE

\* The caller's thread sets the flag; nothing clears it within a call.
RequestCancel ==
    /\ phase = "running"
    /\ cancelled' = TRUE
    /\ UNCHANGED <<phase, failed, outcome, output>>

DeviceFault ==
    /\ phase = "running"
    /\ failed' = TRUE
    /\ UNCHANGED <<phase, cancelled, outcome, output>>

\* The answers that keep the promise, given the flag c and the fault f.
Promise(o, out, c, f) ==
    /\ out => o = "Success"
    /\ o = "Success" => ~c
    /\ o = "Cancelled" => c
    /\ f => o \in {"IoFailure", "Cancelled"}
    /\ o = "IoFailure" => f

\* The last poll, a last fault and the return are one step.
Return ==
    /\ phase = "running"
    /\ phase' = "idle"
    /\ UNCHANGED cancelled
    /\ failed' \in {failed, TRUE}
    /\ outcome' \in Outcomes
    /\ output' \in BOOLEAN
    /\ Promise(outcome', output', cancelled, failed')

Next == Begin \/ RequestCancel \/ DeviceFault \/ Return

Spec == Init /\ [][Next]_vars

=============================================================================
