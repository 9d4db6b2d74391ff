--------------------------- MODULE FormatLauncher ---------------------------
(***************************************************************************)
(* container.py format (scripts/ci/): copies the working tree, has the     *)
(* copy formatted in a container, and copies the formatted files back,     *)
(* while the developer goes on editing.  One step of the launcher is one   *)
(* access to the working tree, or one subprocess.  A version of a file is  *)
(* the edit it stems from and whether it is formatted.                     *)
(*                                                                         *)
(* The launcher can be killed, and any of its steps can fail for reasons   *)
(* of the host (disk, permissions): it then stops where it is.             *)
(***************************************************************************)
EXTENDS Integers, FiniteSets

CONSTANTS
    Paths,     \* tracked and unignored files
    Owned,     \* those of them the formatter rewrites
    MaxEdits   \* bound on what the developer does

ASSUME OwnedAssumption == Owned \subseteq Paths
ASSUME EditsAssumption == MaxEdits \in Nat

Version(edit, formatted) == [edit |-> edit, formatted |-> formatted]
Absent == Version(-1, FALSE)
Truncated == Version(-2, FALSE)  \* opened for writing, nothing written
Exists(version) == version # Absent

VARIABLES
    tree,      \* the working tree
    work,      \* work/source, the snapshot
    index,     \* the snapshot as git add recorded it
    pc,        \* the launcher's next step
    todo,      \* paths still to be visited by the loop at hand
    current,   \* the path being copied
    changed,   \* git diff --name-only in the snapshot
    status,    \* "running", "ok" or "failed": how the launcher ended
    formatter, \* history: "none", "ok" or "failed": how the container ended
    mine,      \* history: the developer's own last version of each file
    edits,     \* history: edits so far
    raced      \* history: files edited after the launcher looked at them

vars == <<tree, work, index, pc, todo, current, changed, status, formatter, mine, edits, raced>>
developer == <<mine, edits, raced>>

None == "none"

Init ==
    /\ tree \in [Paths -> {Absent, Version(0, FALSE), Version(0, TRUE)}]
    /\ work = [p \in Paths |-> Absent]
    /\ index = work
    /\ pc = "list"
    /\ todo = {}
    /\ current = None
    /\ changed = {}
    /\ status = "running"
    /\ formatter = "none"
    /\ mine = tree
    /\ edits = 0
    /\ raced = {}

-----------------------------------------------------------------------------
(* The developer                                                           *)

\* Writes a file anew, formatted or not, or deletes it.
Edit(p) ==
    /\ edits < MaxEdits
    /\ status = "running"
    /\ tree' \in {[tree EXCEPT ![p] = v] :
                     v \in {Version(edits + 1, TRUE), Version(edits + 1, FALSE)}
                           \cup (IF Exists(tree[p]) THEN {Absent} ELSE {})}
    /\ mine' = [mine EXCEPT ![p] = tree'[p]]
    /\ edits' = edits + 1
    /\ raced' = raced \cup (IF pc = "list" THEN {} ELSE {p})
    /\ UNCHANGED <<work, index, pc, todo, current, changed, status, formatter>>

-----------------------------------------------------------------------------
(* snapshot                                                                *)

Goto(point) == pc' = point /\ UNCHANGED status

\* An exception, or a signal: main() is left.
Fails == pc' = "done" /\ status' = "failed"

\* git ls-files --cached --others: the files there are, and tracked ones that
\* were deleted.
List ==
    /\ pc = "list"
    /\ \E cached \in SUBSET Paths : todo' = cached \cup {p \in Paths : Exists(tree[p])}
    /\ Goto("snapshot")
    /\ UNCHANGED <<tree, work, index, current, changed, formatter, developer>>

\* The loop over the names, in any order; a file that is gone is passed over.
Visit ==
    /\ pc = "snapshot"
    /\ todo # {}
    /\ \E p \in todo :
           /\ todo' = todo \ {p}
           /\ IF Exists(tree[p]) THEN current' = p /\ Goto("copy") ELSE UNCHANGED <<current, pc, status>>
    /\ UNCHANGED <<tree, work, index, changed, formatter, developer>>

\* copy2 of a file that was there when it was looked at.
CopyIn ==
    /\ pc = "copy"
    /\ IF Exists(tree[current])
       THEN work' = [work EXCEPT ![current] = tree[current]] /\ Goto("snapshot")
       ELSE UNCHANGED work /\ Fails
    /\ UNCHANGED <<tree, index, todo, current, changed, formatter, developer>>

\* git add -A
Record ==
    /\ pc = "snapshot"
    /\ todo = {}
    /\ index' = work
    /\ Goto("format")
    /\ UNCHANGED <<tree, work, todo, current, changed, formatter, developer>>

-----------------------------------------------------------------------------
(* The container and the way back                                          *)

Formatted(version) == [version EXCEPT !.formatted = TRUE]
FormatFiles(files) == [p \in Paths |-> IF p \in files THEN Formatted(work[p]) ELSE work[p]]
Formattable == {p \in Owned : Exists(work[p])}

\* Fault: the container's status is not looked at.
ContainerFailsSilently == Goto("diff")

\* if status: raise SystemExit(status)
ContainerFails == Fails

\* docker run, with the exit status of the formatter, which may give up after
\* any of the files, the last one too.
RunContainer ==
    /\ pc = "format"
    /\ \/ work' = FormatFiles(Formattable) /\ formatter' = "ok" /\ Goto("diff")
       \/ /\ \E files \in SUBSET Formattable : work' = FormatFiles(files)
          /\ formatter' = "failed"
          /\ ContainerFails
    /\ UNCHANGED <<tree, index, todo, current, changed, developer>>

\* Faults: the whole snapshot is copied back; every name in it is, the empty
\* one behind the last zero byte too; what was in good order is taken for done.
AllFiles == {p \in Paths : Exists(work[p])}
EveryName == AllFiles \cup {None}
DifferingOne == {p \in Paths : work[p] # index[p] /\ index[p].edit > 0}

\* git diff --name-only
Differing == {p \in Paths : work[p] # index[p]}

Diff ==
    /\ pc = "diff"
    /\ changed' = Differing
    /\ todo' = Differing
    /\ Goto("back")
    /\ UNCHANGED <<tree, work, index, current, formatter, developer>>

\* Fault: the file is moved.
WorkAfterMove(p) == [work EXCEPT ![p] = Absent]

\* copy2 leaves its source alone.
WorkAfterCopy(p) == work

\* copy2 opens the file for writing, which truncates or creates it, ...
OpenTarget ==
    /\ pc = "back"
    /\ \E p \in todo :
           /\ current' = p
           /\ tree' = [tree EXCEPT ![p] = Truncated]
           /\ work' = WorkAfterCopy(p)
    /\ Goto("write")
    /\ UNCHANGED <<index, todo, changed, formatter, developer>>

\* ... and writes it.  What the developer wrote in between is overwritten, or
\* was put in the place of the file that is written to.
WriteTarget ==
    /\ pc = "write"
    /\ \/ Exists(tree[current]) /\ tree' = [tree EXCEPT ![current] = work[current]]
       \/ tree[current] # Truncated /\ UNCHANGED tree
    /\ todo' = todo \ {current}
    /\ Goto("back")
    /\ UNCHANGED <<work, index, current, changed, formatter, developer>>

Finish ==
    /\ pc = "back"
    /\ todo = {}
    /\ pc' = "done"
    /\ status' = "ok"
    /\ UNCHANGED <<tree, work, index, todo, current, changed, formatter, developer>>

\* The host fails a step, or the launcher is killed.
Abort ==
    /\ pc # "done"
    /\ Fails
    /\ UNCHANGED <<tree, work, index, todo, current, changed, formatter, developer>>

Launcher == List \/ Visit \/ CopyIn \/ Record \/ RunContainer \/ Diff \/ OpenTarget \/ WriteTarget \/ Finish

Terminating == pc = "done" /\ UNCHANGED vars

Next == Launcher \/ Abort \/ (\E p \in Paths : Edit(p)) \/ Terminating

Spec == Init /\ [][Next]_vars

-----------------------------------------------------------------------------
(* Properties                                                              *)

Versions == [edit : -2..MaxEdits, formatted : BOOLEAN]

\* Every variable has its type.
TypeOK ==
    /\ {tree, work, index, mine} \subseteq [Paths -> Versions]
    /\ pc \in {"list", "snapshot", "copy", "format", "diff", "back", "write", "done"}
    /\ todo \subseteq Paths /\ changed \subseteq Paths /\ raced \subseteq Paths
    /\ current \in Paths \cup {None}
    /\ status \in {"running", "ok", "failed"} /\ formatter \in {"none", "ok", "failed"}
    /\ edits \in 0..MaxEdits

\* "Only copy back files changed by the formatter" (container.py): every other
\* file is at every moment the developer's own, whatever is edited meanwhile.
OthersUntouched == \A p \in Paths : p \notin changed \cap Owned => tree[p] = mine[p]

\* What ends the launcher before the formatter has succeeded leaves no trace in
\* the working tree: a file deleted while it is copied, a formatter that gives
\* up, be it behind the last file.  What comes back is all formatted.
FailureLeavesTree ==
    tree # mine => formatter = "ok" /\ \A p \in Formattable : work[p].formatted

\* However the copy back is interrupted, an edit that was in place when the
\* launcher listed the files is still in the tree or in the snapshot.
NothingLost ==
    \A p \in Paths :
        p \notin raced => mine[p].edit \in {tree[p].edit, work[p].edit}

\* A run nobody interferes with leaves the tree formatted, with every edit.
QuietRunFormats ==
    status = "ok" /\ raced = {} =>
        tree = [p \in Paths |-> IF p \in Owned /\ Exists(mine[p]) THEN Formatted(mine[p]) ELSE mine[p]]

-----------------------------------------------------------------------------
(* A statement of the repository that the code does not keep               *)

\* "preserving the caller's other edits" (container.py): when the launcher has
\* ended, the last edit of each file is in the working tree.
EditsPreserved == status = "ok" => \A p \in Paths : tree[p].edit = mine[p].edit

=============================================================================
