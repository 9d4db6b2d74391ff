------------------------ MODULE FormatLauncherProofs ------------------------
(***************************************************************************)
(* FormatLauncher for every set of files, every set of owned files and any *)
(* number of edits: what the launcher touches, what a failure leaves, what *)
(* an interrupted copy keeps, and what an undisturbed run achieves.        *)
(***************************************************************************)
EXTENDS FormatLauncher, TLAPS

Gathering == {"snapshot", "copy"}
CopyingBack == {"back", "write"}

\* The launcher writes to the tree only while it copies back, and then only to
\* files of the formatter that are in the snapshot and differ from its index.
Writes ==
    /\ pc \in {"copy", "write"} => current \in Paths
    /\ pc = "write" => current \in todo
    /\ pc \in CopyingBack => todo \subseteq changed
    /\ pc = "format" => index = work
    /\ pc = "diff" => \A p \in Differing : p \in Formattable
    /\ changed \subseteq Formattable
    /\ \A p \in Paths : p \notin changed => tree[p] = mine[p]
    /\ pc \notin CopyingBack \cup {"done"} => changed = {}

\* Copying back only starts with every file formatted, by a container that says so.
AllFormatted == formatter = "ok" /\ \A p \in Formattable : work[p].formatted
Formats ==
    /\ pc \in CopyingBack \cup {"diff"} => AllFormatted
    /\ changed # {} => AllFormatted

\* What is in the snapshot stems from the developer's version of the file, as
\* long as that has not been edited since.
Stems ==
    /\ pc = "list" => \A p \in Paths : work[p] = Absent
    /\ \A p \in Paths : p \notin raced /\ Exists(work[p]) => work[p].edit = mine[p].edit

\* The tree the developer gets when nobody interferes.
Target == [p \in Paths |-> IF p \in Owned /\ Exists(mine[p]) THEN Formatted(mine[p]) ELSE mine[p]]

\* How far an undisturbed run has come.
Progress ==
    /\ status = "ok" => pc = "done"
    /\ raced = {} =>
        /\ pc \in Gathering =>
               \A p \in Paths : /\ work[p] \in {Absent, mine[p]}
                                /\ p \notin todo /\ ~(pc = "copy" /\ p = current) => work[p] = mine[p]
        /\ pc = "format" => work = mine
        /\ pc \in {"format", "diff"} => index = mine
        /\ pc \in {"diff"} \cup CopyingBack => work = Target
        /\ pc \in CopyingBack => \A p \in Paths : p \notin todo => tree[p] = Target[p]
        /\ pc = "write" => tree[current] = Truncated
        /\ status = "ok" => tree = Target

IInv == TypeOK /\ Writes /\ Formats /\ Stems /\ Progress

-----------------------------------------------------------------------------

\* Formatting keeps the edit a version stems from, and is visible.
LEMMA FormattedVersion ==
    ASSUME NEW v \in Versions
    PROVE  /\ Formatted(v) \in Versions
           /\ Formatted(v).edit = v.edit
           /\ Formatted(v).formatted
BY DEF Formatted, Versions

\* The versions there are without an edit.
LEMMA SpecialVersions ==
    /\ Absent \in Versions /\ Truncated \in Versions /\ Exists(Truncated)
    /\ Version(0, FALSE) \in Versions /\ Version(0, TRUE) \in Versions
BY EditsAssumption DEF Absent, Truncated, Exists, Version, Versions

LEMMA InitIInv == Init => IInv
<1> SUFFICES ASSUME Init PROVE IInv
  OBVIOUS
<1> USE DEF Init, Gathering, CopyingBack
<1>1. TypeOK
  <2>1. tree \in [Paths -> Versions] /\ work \in [Paths -> Versions]
    BY SpecialVersions
  <2> QED
    BY <2>1, EditsAssumption DEF TypeOK
<1>2. Writes
  BY DEF Writes
<1>3. Formats
  BY DEF Formats
<1>4. Stems
  BY DEF Stems, Exists
<1>5. Progress
  BY DEF Progress
<1> QED
  BY <1>1, <1>2, <1>3, <1>4, <1>5 DEF IInv

\* Types are kept by every step; the paths written to by name are paths.
LEMMA NextTypeOK == TypeOK /\ Writes /\ [Next]_vars => TypeOK'
<1> SUFFICES ASSUME TypeOK, Writes, [Next]_vars PROVE TypeOK'
  OBVIOUS
<1> USE EditsAssumption, SpecialVersions DEF TypeOK, developer
<1>1. ASSUME NEW p \in Paths, Edit(p) PROVE TypeOK'
  <2>0. edits + 1 \in -2..MaxEdits
    BY <1>1 DEF Edit
  <2>1. Version(edits + 1, TRUE) \in Versions /\ Version(edits + 1, FALSE) \in Versions
    BY <2>0 DEF Version, Versions
  <2>2. tree' \in [Paths -> Versions]
    BY <1>1, <2>1 DEF Edit
  <2>3. mine' \in [Paths -> Versions]
    BY <1>1, <2>2 DEF Edit
  <2> QED
    BY <1>1, <2>2, <2>3 DEF Edit
<1>2. CASE List
  BY <1>2 DEF List, Goto
<1>3. CASE Visit
  BY <1>3 DEF Visit, Goto
<1>4. CASE CopyIn
  BY <1>4 DEF CopyIn, Goto, Fails
<1>5. CASE Record
  BY <1>5 DEF Record, Goto
<1>6. CASE RunContainer
  <2>1. ASSUME NEW files \in SUBSET Paths PROVE FormatFiles(files) \in [Paths -> Versions]
    BY FormattedVersion DEF FormatFiles
  <2>2. Formattable \subseteq Paths
    BY OwnedAssumption DEF Formattable
  <2>3. work' \in [Paths -> Versions]
    BY <1>6, <2>1, <2>2 DEF RunContainer
  <2> QED
    BY <1>6, <2>3 DEF RunContainer, Goto, ContainerFails, Fails
<1>7. CASE Diff
  BY <1>7 DEF Diff, Differing, Goto
<1>8. CASE OpenTarget
  BY <1>8 DEF OpenTarget, WorkAfterCopy, Goto
<1>9. CASE WriteTarget
  BY <1>9 DEF WriteTarget, Goto, Writes
<1>10. CASE Finish
  BY <1>10 DEF Finish
<1>11. CASE Abort
  BY <1>11 DEF Abort, Fails
<1>12. CASE UNCHANGED vars
  BY <1>12 DEF vars
<1> QED
  BY <1>1, <1>2, <1>3, <1>4, <1>5, <1>6, <1>7, <1>8, <1>9, <1>10, <1>11, <1>12
  DEF Next, Launcher, Terminating

\* The container changes no edit and no file but those of the formatter, and
\* only a formatter that got through all of them is listened to.
LEMMA ContainerStep ==
    ASSUME TypeOK, RunContainer
    PROVE  /\ Formattable' = Formattable
           /\ \A p \in Paths : /\ work'[p].edit = work[p].edit
                               /\ work'[p] # work[p] => p \in Formattable
                               /\ Exists(work'[p]) <=> Exists(work[p])
           /\ pc' = "diff" => AllFormatted'
<1>1. PICK files \in SUBSET Formattable :
          /\ work' = FormatFiles(files)
          /\ pc' = "diff" => files = Formattable /\ formatter' = "ok"
  BY DEF RunContainer, Goto, ContainerFails, Fails
<1>2. ASSUME NEW p \in Paths
      PROVE  /\ work[p] \in Versions
             /\ work'[p] = IF p \in files THEN Formatted(work[p]) ELSE work[p]
  BY <1>1 DEF TypeOK, FormatFiles
<1>3. ASSUME NEW p \in Paths
      PROVE  /\ work'[p].edit = work[p].edit
             /\ p \in files => work'[p].formatted
  BY <1>2, FormattedVersion
<1>4. ASSUME NEW p \in Paths PROVE Exists(work'[p]) <=> Exists(work[p])
  <2>1. p \in files => Exists(work[p])
    BY <1>1 DEF Formattable
  <2>2. p \in files => Exists(work'[p])
    BY <1>3 DEF Exists, Absent, Version
  <2> QED
    BY <2>1, <2>2, <1>2
<1>5. Formattable' = Formattable
  BY <1>4, OwnedAssumption DEF Formattable
<1> QED
  BY <1>1, <1>2, <1>3, <1>4, <1>5, OwnedAssumption DEF AllFormatted, Formattable

\* Only owned files of the snapshot are ever written to.
LEMMA NextWrites == TypeOK /\ Writes /\ [Next]_vars => Writes'
<1> SUFFICES ASSUME TypeOK, Writes, [Next]_vars PROVE Writes'
  OBVIOUS
<1> USE DEF developer, Gathering, CopyingBack
<1>1. ASSUME NEW p \in Paths, Edit(p) PROVE Writes'
  BY <1>1 DEF Edit, Formattable, Differing, Writes, TypeOK
<1>2. CASE List
  BY <1>2 DEF List, Goto, Formattable, Differing, Writes, TypeOK
<1>3. CASE Visit
  BY <1>3 DEF Visit, Goto, Formattable, Differing, Writes, TypeOK
<1>4. CASE CopyIn
  BY <1>4 DEF CopyIn, Goto, Fails, Formattable, Differing, Writes, TypeOK
<1>5. CASE Record
  BY <1>5 DEF Record, Goto, Formattable, Differing, Writes, TypeOK
<1>6. CASE RunContainer
  BY <1>6, ContainerStep DEF RunContainer, Goto, ContainerFails, Fails, Differing, Writes
<1>7. CASE Diff
  BY <1>7 DEF Diff, Differing, Goto, Formattable, Differing, Writes, TypeOK
<1>8. CASE OpenTarget
  BY <1>8 DEF OpenTarget, WorkAfterCopy, Goto, Formattable, Differing, Writes, TypeOK
<1>9. CASE WriteTarget
  BY <1>9 DEF WriteTarget, Goto, Formattable, Differing, Writes, TypeOK
<1>10. CASE Finish
  BY <1>10 DEF Finish, Formattable, Differing, Writes, TypeOK
<1>11. CASE Abort
  BY <1>11 DEF Abort, Fails, Formattable, Differing, Writes, TypeOK
<1>12. CASE UNCHANGED vars
  BY <1>12 DEF vars, Formattable, Differing, Writes, TypeOK
<1> QED
  BY <1>1, <1>2, <1>3, <1>4, <1>5, <1>6, <1>7, <1>8, <1>9, <1>10, <1>11, <1>12
  DEF Next, Launcher, Terminating

\* A formatter that did not finish never gets its files copied.
LEMMA NextFormats == TypeOK /\ Writes /\ Formats /\ [Next]_vars => Formats'
<1> SUFFICES ASSUME TypeOK, Writes, Formats, [Next]_vars PROVE Formats'
  OBVIOUS
<1> USE DEF developer, Gathering, CopyingBack
<1>1. ASSUME NEW p \in Paths, Edit(p) PROVE Formats'
  BY <1>1 DEF Edit, Formattable, AllFormatted, Formats, TypeOK, Writes
<1>2. CASE List
  BY <1>2 DEF List, Goto, Formattable, AllFormatted, Formats, TypeOK, Writes
<1>3. CASE Visit
  BY <1>3 DEF Visit, Goto, Formattable, AllFormatted, Formats, TypeOK, Writes
<1>4. CASE CopyIn
  BY <1>4 DEF CopyIn, Goto, Fails, Formattable, AllFormatted, Formats, TypeOK, Writes
<1>5. CASE Record
  BY <1>5 DEF Record, Goto, Formattable, AllFormatted, Formats, TypeOK, Writes
<1>6. CASE RunContainer
  BY <1>6, ContainerStep DEF RunContainer, Goto, ContainerFails, Fails, Formats, Writes
<1>7. CASE Diff
  BY <1>7 DEF Diff, Differing, Goto, Formattable, AllFormatted, Formats, TypeOK, Writes
<1>8. CASE OpenTarget
  BY <1>8 DEF OpenTarget, WorkAfterCopy, Goto, Formattable, AllFormatted, Formats, TypeOK, Writes
<1>9. CASE WriteTarget
  BY <1>9 DEF WriteTarget, Goto, Formattable, AllFormatted, Formats, TypeOK, Writes
<1>10. CASE Finish
  BY <1>10 DEF Finish, Formattable, AllFormatted, Formats, TypeOK, Writes
<1>11. CASE Abort
  BY <1>11 DEF Abort, Fails, Formattable, AllFormatted, Formats, TypeOK, Writes
<1>12. CASE UNCHANGED vars
  BY <1>12 DEF vars, Formattable, AllFormatted, Formats, TypeOK, Writes
<1> QED
  BY <1>1, <1>2, <1>3, <1>4, <1>5, <1>6, <1>7, <1>8, <1>9, <1>10, <1>11, <1>12
  DEF Next, Launcher, Terminating

\* The snapshot keeps the edits that were in place.
LEMMA NextStems == TypeOK /\ Writes /\ Stems /\ [Next]_vars => Stems'
<1> SUFFICES ASSUME TypeOK, Writes, Stems, [Next]_vars PROVE Stems'
  OBVIOUS
<1> USE DEF developer, Gathering, CopyingBack
<1>1. ASSUME NEW p \in Paths, Edit(p) PROVE Stems'
  BY <1>1 DEF Edit, Formattable, Exists, Writes, Stems, TypeOK
<1>2. CASE List
  BY <1>2 DEF List, Goto, Formattable, Exists, Writes, Stems, TypeOK
<1>3. CASE Visit
  BY <1>3 DEF Visit, Goto, Formattable, Exists, Writes, Stems, TypeOK
<1>4. CASE CopyIn
  BY <1>4 DEF CopyIn, Goto, Fails, Formattable, Exists, Writes, Stems, TypeOK
<1>5. CASE Record
  BY <1>5 DEF Record, Goto, Formattable, Exists, Writes, Stems, TypeOK
<1>6. CASE RunContainer
  BY <1>6, ContainerStep DEF RunContainer, Goto, ContainerFails, Fails, Writes, Stems, TypeOK
<1>7. CASE Diff
  BY <1>7 DEF Diff, Differing, Goto, Formattable, Exists, Writes, Stems, TypeOK
<1>8. CASE OpenTarget
  BY <1>8 DEF OpenTarget, WorkAfterCopy, Goto, Formattable, Exists, Writes, Stems, TypeOK
<1>9. CASE WriteTarget
  BY <1>9 DEF WriteTarget, Goto, Formattable, Exists, Writes, Stems, TypeOK
<1>10. CASE Finish
  BY <1>10 DEF Finish, Formattable, Exists, Writes, Stems, TypeOK
<1>11. CASE Abort
  BY <1>11 DEF Abort, Fails, Formattable, Exists, Writes, Stems, TypeOK
<1>12. CASE UNCHANGED vars
  BY <1>12 DEF vars, Formattable, Exists, Writes, Stems, TypeOK
<1> QED
  BY <1>1, <1>2, <1>3, <1>4, <1>5, <1>6, <1>7, <1>8, <1>9, <1>10, <1>11, <1>12
  DEF Next, Launcher, Terminating

\* An undisturbed run gets on.
LEMMA NextProgress == TypeOK /\ Writes /\ Stems /\ Progress /\ [Next]_vars => Progress'
<1> SUFFICES ASSUME TypeOK, Writes, Stems, Progress, [Next]_vars PROVE Progress'
  OBVIOUS
<1> USE DEF developer, Gathering, CopyingBack
<1>1. ASSUME NEW p \in Paths, Edit(p) PROVE Progress'
  BY <1>1 DEF Edit, Formattable, Target, Exists, Writes, Progress, TypeOK
<1>2. CASE List
  <2>1. /\ pc = "list" /\ pc' = "snapshot" /\ status # "ok"
        /\ \A p \in Paths : work'[p] = Absent /\ tree[p] = mine[p]
        /\ \A p \in Paths : Exists(tree[p]) => p \in todo'
        /\ UNCHANGED <<mine, raced, status>>
    BY <1>2 DEF List, Goto, Writes, Stems, Progress
  <2>2. \A p \in Paths : p \notin todo' => work'[p] = mine'[p]
    BY <2>1 DEF Exists
  <2> QED
    BY <2>1, <2>2 DEF Progress
<1>3. CASE Visit
  BY <1>3 DEF Visit, Goto, Formattable, Target, Exists, Writes, Progress, TypeOK
<1>4. CASE CopyIn
  BY <1>4 DEF CopyIn, Goto, Fails, Formattable, Target, Exists, Writes, Progress, TypeOK
<1>5. CASE Record
  BY <1>5 DEF Record, Goto, Formattable, Target, Exists, Writes, Progress, TypeOK
<1>6. CASE RunContainer
  BY <1>6 DEF RunContainer, FormatFiles, Formatted, Goto, ContainerFails, Fails, Formattable, Target, Exists, Writes, Progress, TypeOK
<1>7. CASE Diff
  BY <1>7 DEF Diff, Differing, Goto, Formattable, Target, Exists, Writes, Progress, TypeOK
<1>8. CASE OpenTarget
  BY <1>8 DEF OpenTarget, WorkAfterCopy, Goto, Formattable, Target, Exists, Writes, Progress, TypeOK
<1>9. CASE WriteTarget
  BY <1>9 DEF WriteTarget, Goto, Formattable, Target, Exists, Writes, Progress, TypeOK
<1>10. CASE Finish
  BY <1>10 DEF Finish, Formattable, Target, Exists, Writes, Progress, TypeOK
<1>11. CASE Abort
  BY <1>11 DEF Abort, Fails, Formattable, Target, Exists, Writes, Progress, TypeOK
<1>12. CASE UNCHANGED vars
  BY <1>12 DEF vars, Formattable, Target, Exists, Writes, Progress, TypeOK
<1> QED
  BY <1>1, <1>2, <1>3, <1>4, <1>5, <1>6, <1>7, <1>8, <1>9, <1>10, <1>11, <1>12
  DEF Next, Launcher, Terminating

-----------------------------------------------------------------------------

\* Every step of the launcher and of the developer preserves the invariant.
LEMMA NextIInv == IInv /\ [Next]_vars => IInv'
BY NextTypeOK, NextWrites, NextFormats, NextStems, NextProgress DEF IInv

\* The inductive invariant holds throughout every run of the launcher.
THEOREM Invariance == Spec => []IInv
BY InitIInv, NextIInv, PTL DEF Spec

\* Types, for every set of files and any number of edits.
THEOREM TypeCorrect == Spec => []TypeOK
<1>1. IInv => TypeOK
  BY DEF IInv
<1> QED
  BY <1>1, Invariance, PTL

\* "Only copy back files changed by the formatter": at every moment, however
\* the developer edits and wherever the launcher stops, every other file is
\* the developer's own.
THEOREM OthersKept == Spec => []OthersUntouched
<1>1. IInv => OthersUntouched
  BY DEF IInv, Writes, Formattable, OthersUntouched
<1> QED
  BY <1>1, Invariance, PTL

\* Until the formatter has succeeded, wherever the launcher ends, it leaves no
\* trace in the working tree; nothing comes back that is not formatted.
THEOREM FailuresLeaveTree == Spec => []FailureLeavesTree
<1>1. ASSUME IInv PROVE FailureLeavesTree
  <2> SUFFICES ASSUME ~AllFormatted PROVE tree = mine
    BY DEF FailureLeavesTree, AllFormatted
  <2>1. changed = {}
    BY <1>1 DEF IInv, Formats
  <2>2. \A p \in Paths : tree[p] = mine[p]
    BY <1>1, <2>1 DEF IInv, Writes
  <2> QED
    BY <1>1, <2>2 DEF IInv, TypeOK
<1> QED
  BY <1>1, Invariance, PTL

\* Wherever the copy back is interrupted, an edit that was in place when the
\* launcher began is in the tree or in the snapshot.
THEOREM EditsKept == Spec => []NothingLost
<1>1. IInv => NothingLost
  BY DEF IInv, Writes, Stems, Formattable, NothingLost
<1> QED
  BY <1>1, Invariance, PTL

\* A run nobody interferes with leaves the tree formatted, with every edit.
THEOREM QuietRunsFormat == Spec => []QuietRunFormats
<1>1. IInv => QuietRunFormats
  BY DEF IInv, Progress, Target, QuietRunFormats
<1> QED
  BY <1>1, Invariance, PTL

=============================================================================
