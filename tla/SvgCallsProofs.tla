--------------------------- MODULE SvgCallsProofs ---------------------------
(***************************************************************************)
(* What TLAPS proves of inspectSvg and rasterizeSvg, for documents of any  *)
(* length with any references, any bound and any output budget.            *)
(***************************************************************************)
EXTENDS SvgCalls, SharedLemmas

-----------------------------------------------------------------------------
(* The inductive invariant                                                 *)

\* The arguments of a call stay what they were.
Inputs ==
    /\ document \in Documents
    /\ op \in {"inspect", "rasterize"}
    /\ bound \in Bounds
    /\ outputBytes \in OutputBudgets

\* A call begun with the flag set stops in front of the next expensive one.
Latency ==
    /\ late \in {0, 1}
    /\ ~cancelled => late = 0
    /\ pc \in {"entry", "tokens", "load", "render"} => late = 0

\* What the first n tokens are rejected for.
ReasonsUpTo(n) == FlattenSeq([i \in 1..n |-> TokenReasons(document.tokens[i])])

\* The reason that reject leaves behind these reasons.
Judged(reasons, r) == IF reasons = <<>> THEN r = "None" ELSE FirstUnsafe(reasons, r)

\* While the reader gets on, the reason speaks for all tokens behind it, and
\* the outcome for the reason; a renderer comes behind the last one.
Vetted ==
    /\ pc # "done" => Judged(ReasonsUpTo(read), reason)
    /\ pc \in {"entry", "tokens"} => outcome = IF reason = "None" THEN "Damaged" ELSE "Unsupported"
    /\ pc \in {"load", "facts", "render", "rendered"} =>
           read = Len(document.tokens) /\ reason = "None" /\ root /\ ~HasError
    /\ pc = "done" /\ outcome = "Unsupported" /\ root => reason # "None" /\ Judged(AllReasons, reason)
    /\ pc \in {"entry", "tokens", "load"} => ~loaded
    /\ loaded => AllReasons = <<>> /\ ~HasError /\ root

\* As long as there is no SVG root, no element has been read, and a rejection
\* is one of the prolog.
Unrooted ==
    /\ pc = "entry" => read = 0
    /\ pc = "tokens" /\ ~root => \A i \in 1..read : document.tokens[i].what # "element"
    /\ pc = "done" /\ outcome = "Unsupported" /\ ~root => reason # "None" /\ Judged(ReasonsUpTo(read - 1), reason)

\* The outcome a call has so far, and what it means at its end.
Answered ==
    /\ outcome # "IoFailure"
    /\ pc = "entry" => reason = "None"
    /\ pc \in {"load", "facts"} => outcome = "Damaged"
    /\ pc \in {"render", "rendered"} => outcome = "Success"
    /\ pc = "done" => (outcome = "Cancelled" => cancelled) /\ (outcome = "Success" => ~cancelled)

\* The size the caller's bound and budget admit for the document.
Admitted(pixels) ==
    /\ Usable(DocumentSize(document.facts))
    /\ pixels = PixelSize(DocumentSize(document.facts), bound)
    /\ ~BeyondBudget(pixels)

\* Only an image of that size is rendered.
Fitted ==
    /\ pc # "done" => ~image
    /\ image => outcome = "Success"
    /\ pc \in {"render", "rendered"} \/ image => Admitted(size)

IInv == TypeOK /\ Inputs /\ Latency /\ Vetted /\ Unrooted /\ Answered /\ Fitted


-----------------------------------------------------------------------------
(* FlattenSeq                                                              *)

\* FlattenSeq(seqs) is the last of the functions that append seqs one by one.
LEMMA FlattenedBy ==
    ASSUME NEW S, NEW n \in Nat, NEW seqs \in [1..n -> Seq(S)],
           NEW f \in [0..n -> Seq(S)], f[0] = <<>>,
           \A i \in 1..n : f[i] = f[i - 1] \o seqs[i]
    PROVE  FlattenSeq(seqs) = f[n]
<1> DEFINE flatten[i \in 1..n] == IF i = 1 THEN seqs[i] ELSE flatten[i - 1] \o seqs[i]
           g == [i \in 1..n |-> f[i]]
           P == {m \in Nat : m < n => flatten[m + 1] = f[m + 1]}
<1>1. Len(seqs) = n
  OBVIOUS
<1>2. CASE n = 0
  BY <1>1, <1>2 DEF FlattenSeq
<1>3. CASE n # 0
  <2>1. ASSUME NEW i \in 1..n, i - 1 = 0 PROVE f[i] = seqs[i]
    <3>1. f[i] = f[0] \o seqs[i]
      BY <2>1
    <3>2. seqs[i] \in Seq(S) /\ \A v \in Seq(S) : <<>> \o v = v
      OBVIOUS
    <3> QED
      BY <3>1, <3>2
  <2>2. g = [i \in 1..n |-> IF i = 1 THEN seqs[i] ELSE g[i - 1] \o seqs[i]]
    <3>1. ASSUME NEW i \in 1..n PROVE g[i] = IF i = 1 THEN seqs[i] ELSE g[i - 1] \o seqs[i]
      <4>1. CASE i = 1
        <5>1. i - 1 = 0
          BY <4>1
        <5> QED
          BY <2>1, <4>1, <5>1
      <4>2. CASE i # 1
        <5>1. i - 1 \in 1..n
          BY <4>2
        <5> QED
          BY <4>2, <5>1
      <4> QED
        BY <4>1, <4>2
    <3>2. g = [i \in 1..n |-> g[i]]
      OBVIOUS
    <3> HIDE DEF g
    <3> QED
      BY <3>1, <3>2, Zenon
  <2>3. flatten = [i \in 1..n |-> IF i = 1 THEN seqs[i] ELSE flatten[i - 1] \o seqs[i]]
    <3> HIDE DEF g
    <3> QED
      BY <2>2, Zenon
  <2>4. FlattenSeq(seqs) = flatten[n]
    BY <1>1, <1>3 DEF FlattenSeq
  <2> HIDE DEF flatten
  <2>5. 0 \in P
    <3>1. 1 \in 1..n /\ 1 - 1 = 0
      BY <1>3
    <3>2. f[1] = seqs[1] /\ flatten[1] = seqs[1]
      BY <2>1, <2>3, <3>1
    <3> QED
      BY <3>2
  <2>6. ASSUME NEW m \in Nat, m \in P PROVE m + 1 \in P
    <3>1. SUFFICES ASSUME m + 1 < n PROVE flatten[m + 2] = f[m + 2]
      OBVIOUS
    <3>2. m + 2 \in 1..n /\ m + 2 # 1 /\ (m + 2) - 1 = m + 1
      BY <3>1
    <3>3. flatten[m + 2] = flatten[m + 1] \o seqs[m + 2]
      BY <2>3, <3>2
    <3>4. f[m + 2] = f[m + 1] \o seqs[m + 2]
      BY <3>2
    <3>5. flatten[m + 1] = f[m + 1]
      BY <2>6, <3>1
    <3> QED
      BY <3>3, <3>4, <3>5
  <2>7. n - 1 \in P
    <3>1. n - 1 \in Nat
      BY <1>3
    <3> HIDE DEF P
    <3> QED
      BY <2>5, <2>6, <3>1, Induction
  <2> QED
    BY <1>3, <2>4, <2>7
<1> QED
  BY <1>2, <1>3

\* There is such a function, so FlattenSeq has one result, however long seqs is.
LEMMA Flattening ==
    ASSUME NEW S, NEW n \in Nat, NEW seqs \in [1..n -> Seq(S)]
    PROVE  \E f \in [0..n -> Seq(S)] :
               /\ f[0] = <<>>
               /\ \A i \in 1..n : f[i] = f[i - 1] \o seqs[i]
               /\ FlattenSeq(seqs) = f[n]
<1> DEFINE V == Seq(S)
           step == [i \in 1..n |-> [v \in V |-> v \o seqs[i]]]
<1>1. <<>> \in V
  OBVIOUS
<1>2. IsRecursion(step, n, V)
  BY DEF IsRecursion
<1>3. PICK f : IsRun(f, <<>>, step, n, V)
  <2> HIDE DEF step, V
  <2> QED
    BY <1>1, <1>2, Recursion
<1>4. f \in [0..n -> V] /\ f[0] = <<>>
  BY <1>3 DEF IsRun
<1>5. ASSUME NEW i \in 1..n PROVE f[i] = f[i - 1] \o seqs[i]
  <2>1. f[i] = step[i][f[i - 1]]
    BY <1>3 DEF IsRun
  <2>2. f[i - 1] \in V
    BY <1>4
  <2> QED
    BY <2>1, <2>2
<1>6. FlattenSeq(seqs) = f[n]
  BY <1>4, <1>5, FlattenedBy
<1> QED
  BY <1>4, <1>5, <1>6

\* A concatenation of sequences over S is one.
LEMMA FlattenedType ==
    ASSUME NEW S, NEW n \in Nat, NEW seqs \in [1..n -> Seq(S)]
    PROVE  FlattenSeq(seqs) \in Seq(S)
<1>1. PICK f \in [0..n -> Seq(S)] :
          /\ f[0] = <<>>
          /\ \A i \in 1..n : f[i] = f[i - 1] \o seqs[i]
          /\ FlattenSeq(seqs) = f[n]
  BY Flattening, ZenonT(60)
<1>2. f[n] \in Seq(S)
  OBVIOUS
<1> QED
  BY <1>1, <1>2

\* One sequence more is appended at the end.
LEMMA FlattenedNext ==
    ASSUME NEW S, NEW n \in Nat, NEW seqs \in [1..(n + 1) -> Seq(S)]
    PROVE  FlattenSeq(seqs) = FlattenSeq([i \in 1..n |-> seqs[i]]) \o seqs[n + 1]
<1> DEFINE first == [i \in 1..n |-> seqs[i]]
<1>1. PICK f \in [0..(n + 1) -> Seq(S)] :
          /\ f[0] = <<>>
          /\ \A i \in 1..(n + 1) : f[i] = f[i - 1] \o seqs[i]
          /\ FlattenSeq(seqs) = f[n + 1]
  <2>1. n + 1 \in Nat
    OBVIOUS
  <2> QED
    BY <2>1, Flattening, ZenonT(60)
<1> DEFINE g == [i \in 0..n |-> f[i]]
<1>2. first \in [1..n -> Seq(S)] /\ g \in [0..n -> Seq(S)] /\ g[0] = <<>>
  <2>1. \A i \in 0..n : i \in 0..(n + 1) /\ f[i] \in Seq(S)
    OBVIOUS
  <2>2. \A i \in 1..n : seqs[i] \in Seq(S)
    OBVIOUS
  <2>3. g \in [0..n -> Seq(S)] /\ g[0] = f[0]
    BY <2>1
  <2>4. first \in [1..n -> Seq(S)]
    BY <2>2
  <2> QED
    BY <1>1, <2>3, <2>4
<1>3. ASSUME NEW i \in 1..n PROVE g[i] = g[i - 1] \o first[i]
  <2>1. i \in 1..(n + 1) /\ i - 1 \in 0..n /\ i \in 0..n
    OBVIOUS
  <2>2. f[i] = f[i - 1] \o seqs[i]
    BY <1>1, <2>1
  <2> QED
    BY <2>1, <2>2
<1>4. FlattenSeq(first) = g[n]
  <2> HIDE DEF first, g
  <2> QED
    BY <1>2, <1>3, FlattenedBy
<1>5. f[n + 1] = f[n] \o seqs[n + 1]
  <2>1. n + 1 \in 1..(n + 1) /\ (n + 1) - 1 = n
    OBVIOUS
  <2> QED
    BY <1>1, <2>1
<1>6. g[n] = f[n]
  OBVIOUS
<1> QED
  BY <1>1, <1>4, <1>5, <1>6

\* Only empty sequences make an empty concatenation.
LEMMA FlattenedEmpty ==
    ASSUME NEW S, NEW n \in Nat, NEW seqs \in [1..n -> Seq(S)]
    PROVE  FlattenSeq(seqs) = <<>> => \A i \in 1..n : seqs[i] = <<>>
<1>1. PICK f \in [0..n -> Seq(S)] :
          /\ f[0] = <<>>
          /\ \A i \in 1..n : f[i] = f[i - 1] \o seqs[i]
          /\ FlattenSeq(seqs) = f[n]
  BY Flattening, ZenonT(60)
<1>2. SUFFICES ASSUME FlattenSeq(seqs) = <<>> PROVE \A i \in 1..n : seqs[i] = <<>>
  OBVIOUS
<1> DEFINE P == {m \in Nat : m <= n => f[n - m] = <<>>}
<1>3. ASSUME NEW i \in 1..n, f[i] = <<>> PROVE f[i - 1] = <<>> /\ seqs[i] = <<>>
  <2>1. f[i - 1] \in Seq(S) /\ seqs[i] \in Seq(S) /\ f[i - 1] \o seqs[i] = <<>>
    BY <1>1, <1>3
  <2>2. Len(f[i - 1] \o seqs[i]) = Len(f[i - 1]) + Len(seqs[i])
    BY <2>1
  <2>3. Len(f[i - 1]) = 0 /\ Len(seqs[i]) = 0
    BY <2>1, <2>2
  <2> QED
    BY <2>1, <2>3
<1>4. 0 \in P
  <2>1. f[n - 0] = <<>>
    BY <1>2, <1>1
  <2> QED
    BY <2>1
<1>5. ASSUME NEW m \in Nat, m \in P PROVE m + 1 \in P
  <2>1. SUFFICES ASSUME m + 1 <= n PROVE f[n - (m + 1)] = <<>>
    OBVIOUS
  <2>2. n - m \in 1..n /\ f[n - m] = <<>> /\ n - (m + 1) = (n - m) - 1
    BY <1>5, <2>1
  <2> QED
    BY <1>3, <2>2
<1>6. Nat \subseteq P
  <2> HIDE DEF P
  <2> QED
    BY <1>4, <1>5, Induction
<1>7. ASSUME NEW i \in 1..n PROVE seqs[i] = <<>>
  <2>1. n - i \in Nat /\ n - i <= n /\ n - (n - i) = i
    OBVIOUS
  <2>2. n - i \in P
    BY <1>6, <2>1
  <2>3. f[i] = <<>>
    BY <2>1, <2>2
  <2> QED
    BY <1>3, <2>3
<1> QED
  BY <1>7

-----------------------------------------------------------------------------
(* The policy                                                              *)

\* A rejection has a reason.
Rejections == Reasons \ {"None"}

\* Every reference is of one kind.
LEMMA ClassifyType ==
    ASSUME NEW ref \in ReferenceType
    PROVE  Classify(ref) \in ReferenceKinds
  BY DEF ReferenceType, Classify, ReferenceKinds

\* The sequences the policy is made of.
LEMMA RejectionSequences ==
    /\ <<>> \in Seq(Rejections)
    /\ <<"LocalImageReference">> \in Seq(Rejections)
    /\ <<"ExternalReference">> \in Seq(Rejections)
    /\ <<"Stylesheet">> \in Seq(Rejections)
    /\ <<"EntityDeclaration">> \in Seq(Rejections)
    /\ <<"UnsupportedCss">> \in Seq(Rejections)
    /\ <<"InvalidEmbeddedImage">> \in Seq(Rejections)
  BY DEF Rejections, Reasons

\* Of every kind, what a reference is rejected for is a sequence of reasons.
LEMMA ReferenceReasonsType ==
    ASSUME NEW kind \in ReferenceKinds, NEW isImage \in BOOLEAN
    PROVE  ReferenceReasons(kind, isImage) \in Seq(Rejections)
<1>1. ReferenceReasons(kind, isImage) \in
          {<<>>, <<"ExternalReference">>, <<"LocalImageReference">>, <<"InvalidEmbeddedImage">>}
  BY DEF ReferenceReasons, ReferenceKinds
<1> QED
  BY <1>1, RejectionSequences

\* So is what CSS text is rejected for, with as many references as it has.
LEMMA CssReasonsType ==
    ASSUME NEW css \in CheckType, css.what = "css"
    PROVE  CssReasons(css) \in Seq(Rejections)
<1> DEFINE seqs == [i \in DOMAIN css.urls |-> ReferenceReasons(Classify(css.urls[i]), FALSE)]
<1>1. css.urls \in Seq(ReferenceType)
  BY DEF CheckType
<1>2. Len(css.urls) \in Nat /\ DOMAIN css.urls = 1..Len(css.urls)
  BY <1>1
<1>3. ASSUME NEW i \in DOMAIN css.urls PROVE seqs[i] \in Seq(Rejections)
  <2>1. css.urls[i] \in ReferenceType
    BY <1>1
  <2> QED
    BY <2>1, ClassifyType, ReferenceReasonsType
<1>4. seqs \in [1..Len(css.urls) -> Seq(Rejections)]
  <2>1. seqs = [i \in 1..Len(css.urls) |-> seqs[i]]
    BY <1>2
  <2> HIDE DEF seqs
  <2> QED
    BY <1>2, <1>3, <2>1
<1>5. FlattenSeq(seqs) \in Seq(Rejections)
  <2> HIDE DEF seqs
  <2> QED
    BY <1>2, <1>4, FlattenedType
<1>6. \A s, t \in Seq(Rejections) : s \o t \in Seq(Rejections)
  OBVIOUS
<1>7. CssReasons(css) \in {<<"UnsupportedCss">>, <<"Stylesheet">>,
                           FlattenSeq(seqs) \o <<"UnsupportedCss">>, FlattenSeq(seqs) \o <<>>}
  BY DEF CssReasons
<1>8. /\ FlattenSeq(seqs) \o <<"UnsupportedCss">> \in Seq(Rejections)
      /\ FlattenSeq(seqs) \o <<>> \in Seq(Rejections)
  <2> HIDE DEF seqs
  <2> QED
    BY <1>5, <1>6, RejectionSequences
<1> HIDE DEF seqs
<1> QED
  BY <1>7, <1>8, RejectionSequences

\* And what an attribute or a style element is rejected for.
LEMMA CheckReasonsType ==
    ASSUME NEW check \in CheckType
    PROVE  CheckReasons(check) \in Seq(Rejections)
<1>1. CASE check.what = "href"
  <2>1. check.ref \in ReferenceType /\ check.image \in BOOLEAN
    BY <1>1 DEF CheckType
  <2> QED
    BY <1>1, <2>1, ClassifyType, ReferenceReasonsType DEF CheckReasons
<1>2. CASE check.what = "redirect"
  BY <1>2 DEF CheckReasons, Rejections, Reasons
<1>3. CASE check.what = "css"
  BY <1>3, CssReasonsType DEF CheckReasons
<1> QED
  BY <1>1, <1>2, <1>3 DEF CheckType

\* And what a token is rejected for, with as many attributes as it has.
LEMMA TokenReasonsType ==
    ASSUME NEW token \in TokenType
    PROVE  TokenReasons(token) \in Seq(Rejections)
<1>1. CASE token.what = "element"
  <2> DEFINE seqs == [i \in DOMAIN token.checks |-> CheckReasons(token.checks[i])]
  <2>1. token.checks \in Seq(CheckType)
    BY <1>1 DEF TokenType
  <2>2. Len(token.checks) \in Nat /\ DOMAIN token.checks = 1..Len(token.checks)
    BY <2>1
  <2>3. ASSUME NEW i \in DOMAIN token.checks PROVE seqs[i] \in Seq(Rejections)
    <3>1. token.checks[i] \in CheckType
      BY <2>1
    <3> QED
      BY <3>1, CheckReasonsType
  <2>4. seqs \in [1..Len(token.checks) -> Seq(Rejections)]
    <3>1. seqs = [i \in 1..Len(token.checks) |-> seqs[i]]
      BY <2>2
    <3> HIDE DEF seqs
    <3> QED
      BY <2>2, <2>3, <3>1
  <2>5. TokenReasons(token) = FlattenSeq(seqs)
    BY <1>1 DEF TokenReasons
  <2> HIDE DEF seqs
  <2> QED
    BY <2>2, <2>4, <2>5, FlattenedType
<1>2. CASE token.what # "element"
  <2>1. TokenReasons(token) \in {<<>>, <<"EntityDeclaration">>, <<"Stylesheet">>}
    BY <1>2 DEF TokenReasons, TokenType
  <2> QED
    BY <2>1, RejectionSequences
<1> QED
  BY <1>1, <1>2

-----------------------------------------------------------------------------
(* reject                                                                  *)

\* What a token is rejected for is reported one by one, however much that is.
LEMMA RejectingInTurn ==
    ASSUME NEW before \in Reasons, NEW n \in Nat, NEW reasons \in [1..n -> Rejections]
    PROVE  \E f \in [0..n -> Reasons] :
               /\ f[0] = before
               /\ \A i \in 1..n : f[i] = Rejected(f[i - 1], reasons[i])
               /\ RejectedInTurn(before, reasons) = f[n]
<1> DEFINE step == [i \in 1..n |-> [r \in Reasons |-> Rejected(r, reasons[i])]]
<1>1. \A i \in 1..n, r \in Reasons : Rejected(r, reasons[i]) \in Reasons
  BY DEF Rejected, Rejections
<1>2. IsRecursion(step, n, Reasons)
  BY <1>1 DEF IsRecursion
<1>3. PICK f : IsRun(f, before, step, n, Reasons)
  <2> HIDE DEF step
  <2> QED
    BY <1>2, Recursion
<1>4. f \in [0..n -> Reasons] /\ f[0] = before
  BY <1>3 DEF IsRun
<1>5. ASSUME NEW i \in 1..n PROVE f[i] = Rejected(f[i - 1], reasons[i])
  <2>1. f[i] = step[i][f[i - 1]]
    BY <1>3 DEF IsRun
  <2>2. f[i - 1] \in Reasons
    BY <1>4
  <2> QED
    BY <2>1, <2>2
<1> DEFINE kept[i \in 0..n] == IF i = 0 THEN before ELSE Rejected(kept[i - 1], reasons[i])
<1>6. f = [i \in 0..n |-> IF i = 0 THEN before ELSE Rejected(f[i - 1], reasons[i])]
  <2>1. ASSUME NEW i \in 0..n
        PROVE  f[i] = IF i = 0 THEN before ELSE Rejected(f[i - 1], reasons[i])
    BY <1>4, <1>5
  <2>2. f = [i \in 0..n |-> f[i]]
    BY <1>4
  <2> QED
    BY <2>1, <2>2, Zenon
<1>7. kept = [i \in 0..n |-> IF i = 0 THEN before ELSE Rejected(kept[i - 1], reasons[i])]
  BY <1>6, Zenon
<1>8. RejectedInTurn(before, reasons) = kept[n]
  <2>1. Len(reasons) = n
    OBVIOUS
  <2> QED
    BY <2>1 DEF RejectedInTurn
<1> HIDE DEF kept
<1> DEFINE P == {m \in Nat : m <= n => kept[m] = f[m]}
<1>9. 0 \in P
  BY <1>4, <1>7
<1>10. ASSUME NEW m \in Nat, m \in P PROVE m + 1 \in P
  <2>1. SUFFICES ASSUME m + 1 <= n PROVE kept[m + 1] = f[m + 1]
    OBVIOUS
  <2>2. m + 1 \in 1..n /\ m + 1 \in 0..n /\ m + 1 # 0 /\ (m + 1) - 1 = m /\ kept[m] = f[m]
    BY <1>10, <2>1
  <2>3. kept[m + 1] = Rejected(kept[m], reasons[m + 1])
    BY <1>7, <2>2
  <2>4. f[m + 1] = Rejected(f[m], reasons[m + 1])
    BY <1>5, <2>2
  <2> QED
    BY <2>2, <2>3, <2>4
<1>11. n \in P
  <2> HIDE DEF P
  <2> QED
    BY <1>9, <1>10, Induction
<1>12. RejectedInTurn(before, reasons) = f[n]
  BY <1>8, <1>11
<1> QED
  BY <1>4, <1>5, <1>12

\* One more rejection leaves the reason the sequence with it calls for.
LEMMA RejectedJudges ==
    ASSUME NEW reasons \in Seq(Rejections), NEW next \in Rejections, NEW r,
           Judged(reasons, r)
    PROVE  Judged(Append(reasons, next), Rejected(r, next))
<1> DEFINE more == Append(reasons, next)
           n == Len(reasons)
<1>1. /\ n \in Nat
      /\ Len(more) = n + 1 /\ DOMAIN more = 1..(n + 1) /\ DOMAIN reasons = 1..n
      /\ more[n + 1] = next
      /\ \A i \in 1..n : more[i] = reasons[i]
      /\ more # <<>>
  OBVIOUS
<1>2. SUFFICES FirstUnsafe(more, Rejected(r, next))
  BY <1>1 DEF Judged
<1>3. next # "None" /\ \A i \in 1..n : reasons[i] # "None"
  BY <1>1 DEF Rejections
<1> HIDE DEF more, n
<1>4. CASE \A i \in 1..n : ~Unsafe(reasons[i])
  <2>1. r \in {"None", "LocalImageReference"}
    BY <1>1, <1>4 DEF Judged, FirstUnsafe
  <2>2. Rejected(r, next) = next
    BY <2>1 DEF Rejected
  <2>3. CASE Unsafe(next)
    <3>1. n + 1 \in DOMAIN more /\ next = more[n + 1]
      BY <1>1
    <3>2. \A j \in 1..((n + 1) - 1) : ~Unsafe(more[j])
      BY <1>1, <1>4
    <3> QED
      BY <2>2, <2>3, <3>1, <3>2 DEF FirstUnsafe
  <2>4. CASE ~Unsafe(next)
    <3>1. \A i \in DOMAIN more : ~Unsafe(more[i])
      BY <1>1, <1>4, <2>4
    <3> QED
      BY <2>2, <2>4, <3>1 DEF FirstUnsafe, Unsafe
  <2> QED
    BY <2>3, <2>4
<1>5. CASE ~(\A i \in 1..n : ~Unsafe(reasons[i]))
  <2>1. PICK i \in DOMAIN reasons :
            r = reasons[i] /\ Unsafe(reasons[i]) /\ \A j \in 1..(i - 1) : ~Unsafe(reasons[j])
    <3>1. reasons # <<>>
      BY <1>1, <1>5 DEF n
    <3> QED
      BY <1>1, <1>5, <3>1 DEF Judged, FirstUnsafe
  <2>2. Rejected(r, next) = r
    BY <1>1, <1>3, <2>1 DEF Rejected, Unsafe
  <2>3. i \in DOMAIN more /\ more[i] = reasons[i] /\ \A j \in 1..(i - 1) : more[j] = reasons[j]
    BY <1>1
  <2> QED
    BY <2>1, <2>2, <2>3 DEF FirstUnsafe
<1> QED
  BY <1>4, <1>5

\* So do all rejections of a token, behind those of the tokens before it.
LEMMA RejectedInTurnJudges ==
    ASSUME NEW reasons \in Seq(Rejections), NEW r \in Reasons, Judged(reasons, r),
           NEW next \in Seq(Rejections)
    PROVE  /\ RejectedInTurn(r, next) \in Reasons
           /\ Judged(reasons \o next, RejectedInTurn(r, next))
<1> DEFINE n == Len(next)
<1>1. n \in Nat /\ next \in [1..n -> Rejections]
  OBVIOUS
<1>2. PICK f \in [0..n -> Reasons] :
          /\ f[0] = r
          /\ \A i \in 1..n : f[i] = Rejected(f[i - 1], next[i])
          /\ RejectedInTurn(r, next) = f[n]
  <2> HIDE DEF n
  <2> QED
    BY <1>1, RejectingInTurn
<1> DEFINE part(m) == SubSeq(next, 1, m)
           P == {m \in Nat : m <= n => Judged(reasons \o part(m), f[m])}
<1>3. 0 \in P
  <2>1. part(0) = <<>> /\ reasons \o <<>> = reasons
    OBVIOUS
  <2> QED
    BY <1>2, <2>1
<1>4. ASSUME NEW m \in Nat, m \in P PROVE m + 1 \in P
  <2>1. SUFFICES ASSUME m + 1 <= n PROVE Judged(reasons \o part(m + 1), f[m + 1])
    OBVIOUS
  <2>2. m + 1 \in 1..n /\ (m + 1) - 1 = m
    BY <2>1
  <2>3. Judged(reasons \o part(m), f[m])
    BY <1>4, <2>1
  <2>4. reasons \o part(m) \in Seq(Rejections) /\ next[m + 1] \in Rejections
    BY <2>2
  <2>5. reasons \o part(m + 1) = Append(reasons \o part(m), next[m + 1])
    BY <2>2
  <2>6. f[m + 1] = Rejected(f[m], next[m + 1])
    BY <1>2, <2>2
  <2> HIDE DEF part, n
  <2> QED
    BY <2>3, <2>4, <2>5, <2>6, RejectedJudges
<1>5. n \in P
  <2> HIDE DEF P
  <2> QED
    BY <1>1, <1>3, <1>4, Induction
<1>6. part(n) = next
  OBVIOUS
<1>7. f[n] \in Reasons
  BY <1>1
<1> HIDE DEF part, n
<1> QED
  BY <1>1, <1>2, <1>5, <1>6, <1>7

-----------------------------------------------------------------------------
(* Sizes                                                                   *)

\* A quotient, rounded and clamped, is off by at most half, unless it vanished.
LEMMA RoundedFits ==
    ASSUME NEW a \in Nat, NEW b \in Nat \ {0}, NEW c \in Nat \ {0}, a <= c * b
    PROVE  LET q == Clamped(Rounded(a, b), 1, c)
           IN  /\ q \in 1..c
               /\ q = 1 \/ (2 * (a - q * b) <= b /\ 2 * (q * b - a) <= b)
<1> DEFINE q == Rounded(a, b)
<1>1. /\ 2 * a + b \in Nat /\ 2 * b \in Nat \ {0}
      /\ c * b \in Nat
  BY ProductNatural
<1>2. q \in Nat /\ q * (2 * b) <= 2 * a + b /\ 2 * a + b < (q + 1) * (2 * b)
  BY <1>1, Division DEF Rounded
<1> HIDE DEF q
<1>3. q * b \in Nat /\ q * (2 * b) = 2 * (q * b) /\ (q + 1) * (2 * b) = 2 * (q * b) + 2 * b
  BY <1>2
<1>4. q <= c
  <2>1. SUFFICES ASSUME c + 1 <= q PROVE FALSE
    BY <1>2
  <2>2. (c + 1) * b <= q * b
    BY <1>2, <2>1, ProductGrows
  <2>3. (c + 1) * b = c * b + b
    OBVIOUS
  <2> QED
    BY <1>1, <1>2, <1>3, <2>2, <2>3
<1>5. Clamped(q, 1, c) = IF q = 0 THEN 1 ELSE q
  BY <1>2, <1>4 DEF Clamped, Greater, Lesser
<1>6. 2 * (a - q * b) <= b /\ 2 * (q * b - a) <= b
  BY <1>2, <1>3
<1>7. CASE q = 0
  <2>1. Clamped(q, 1, c) = 1
    BY <1>5, <1>7
  <2> QED
    BY <2>1 DEF q
<1>8. CASE q # 0
  <2>1. Clamped(q, 1, c) = q /\ q \in 1..c
    BY <1>2, <1>4, <1>5, <1>8
  <2> QED
    BY <1>6, <2>1 DEF q
<1> QED
  BY <1>7, <1>8

\* The pixel size lies within the box, fills it one way, and keeps the ratio.
LEMMA PixelSizeFits ==
    ASSUME NEW doc \in Sizes, NEW box \in Sizes
    PROVE  LET pixels == PixelSize(doc, box)
           IN  /\ pixels \in [w : Nat, h : Nat]
               /\ ~IsEmpty(pixels) =>
                      /\ Within(pixels, box)
                      /\ pixels.w = box.w \/ pixels.h = box.h
                      /\ \/ pixels.w = 1 \/ pixels.h = 1
                         \/ /\ 2 * (pixels.w * doc.h - pixels.h * doc.w) <= Greater(doc.w, doc.h)
                            /\ 2 * (pixels.h * doc.w - pixels.w * doc.h) <= Greater(doc.w, doc.h)
<1>1. doc.w \in Int /\ doc.h \in Int /\ box.w \in Int /\ box.h \in Int
  BY DEF Sizes
<1>2. CASE ~Usable(doc) \/ IsEmpty(box)
  BY <1>2 DEF PixelSize, Empty, Size, IsEmpty
<1>3. CASE Usable(doc) /\ ~IsEmpty(box)
  <2>1. /\ doc.w \in Nat \ {0} /\ doc.h \in Nat \ {0}
        /\ box.w \in Nat \ {0} /\ box.h \in Nat \ {0}
    BY <1>1, <1>3 DEF Usable, IsEmpty
  <2>2. /\ doc.h * box.w \in Nat /\ doc.h * box.w = box.w * doc.h
        /\ doc.w * box.h \in Nat /\ doc.w * box.h = box.h * doc.w
    BY <2>1
  <2>3. CASE box.w * doc.h <= box.h * doc.w
    <3> DEFINE q == Clamped(Rounded(doc.h * box.w, doc.w), 1, box.h)
    <3>1. /\ q \in 1..box.h
          /\ \/ q = 1
             \/ /\ 2 * (doc.h * box.w - q * doc.w) <= doc.w
                /\ 2 * (q * doc.w - doc.h * box.w) <= doc.w
      BY <2>1, <2>2, <2>3, RoundedFits
    <3>2. PixelSize(doc, box) = [w |-> box.w, h |-> q]
      BY <1>3, <2>3 DEF PixelSize, Size
    <3>3. doc.w <= Greater(doc.w, doc.h) /\ Greater(doc.w, doc.h) \in Nat
      BY <2>1 DEF Greater
    <3> HIDE DEF q
    <3>4. q * doc.w \in Nat
      BY <2>1, <3>1, ProductNatural
    <3> QED
      BY <2>1, <2>2, <3>1, <3>2, <3>3, <3>4 DEF Within
  <2>4. CASE box.h * doc.w < box.w * doc.h
    <3> DEFINE q == Clamped(Rounded(doc.w * box.h, doc.h), 1, box.w)
    <3>1. /\ q \in 1..box.w
          /\ \/ q = 1
             \/ /\ 2 * (doc.w * box.h - q * doc.h) <= doc.h
                /\ 2 * (q * doc.h - doc.w * box.h) <= doc.h
      <4> DEFINE a == doc.w * box.h
      <4>1. a \in Nat /\ a <= box.w * doc.h
        BY <2>1, <2>2, <2>4
      <4> HIDE DEF a
      <4>2. LET p == Clamped(Rounded(a, doc.h), 1, box.w)
            IN  p \in 1..box.w /\ (p = 1 \/ (2 * (a - p * doc.h) <= doc.h /\ 2 * (p * doc.h - a) <= doc.h))
        BY <2>1, <4>1, RoundedFits
      <4> QED
        BY <4>2 DEF a
    <3>2. PixelSize(doc, box) = [w |-> q, h |-> box.h]
      <4>1. ~(box.w * doc.h <= box.h * doc.w)
        BY <2>2, <2>4
      <4> QED
        BY <1>3, <4>1 DEF PixelSize, Size
    <3>3. doc.h <= Greater(doc.w, doc.h) /\ Greater(doc.w, doc.h) \in Nat
      BY <2>1 DEF Greater
    <3> HIDE DEF q
    <3>4. q * doc.h \in Nat
      BY <2>1, <3>1, ProductNatural
    <3> QED
      BY <2>1, <2>2, <3>1, <3>2, <3>3, <3>4 DEF Within
  <2> QED
    BY <2>2, <2>3, <2>4
<1> QED
  BY <1>2, <1>3

\* The size of a document is one, whatever its attributes say.
LEMMA DocumentSizeType ==
    ASSUME NEW facts \in FactType
    PROVE  DocumentSize(facts) \in Sizes
  BY DEF DocumentSize, PixelsOr, FactType, LengthType, Sizes, Size, Empty

-----------------------------------------------------------------------------
(* The invariant                                                           *)

\* What is known of the arguments of a call.
LEMMA InputTypes ==
    ASSUME Inputs
    PROVE  /\ document.tokens \in Seq(TokenType)
           /\ document.facts \in FactType
           /\ bound \in Sizes
           /\ outputBytes \in Int
  BY DocumentsAssumption, BoundsAssumption, OutputAssumption DEF Inputs, DocumentType

\* The reasons of one token more are those before it and its own.
LEMMA ReasonsOfNext ==
    ASSUME Inputs, NEW n \in Nat, n < Len(document.tokens)
    PROVE  /\ ReasonsUpTo(n) \in Seq(Rejections)
           /\ TokenReasons(document.tokens[n + 1]) \in Seq(Rejections)
           /\ ReasonsUpTo(n + 1) = ReasonsUpTo(n) \o TokenReasons(document.tokens[n + 1])
<1> DEFINE seqs == [i \in 1..(n + 1) |-> TokenReasons(document.tokens[i])]
           first == [i \in 1..n |-> TokenReasons(document.tokens[i])]
<1>1. ASSUME NEW i \in 1..(n + 1) PROVE TokenReasons(document.tokens[i]) \in Seq(Rejections)
  <2>1. document.tokens[i] \in TokenType
    BY InputTypes
  <2> QED
    BY <2>1, TokenReasonsType
<1>2. seqs \in [1..(n + 1) -> Seq(Rejections)] /\ first \in [1..n -> Seq(Rejections)]
  BY <1>1
<1>3. first = [i \in 1..n |-> seqs[i]] /\ n + 1 \in 1..(n + 1)
  OBVIOUS
<1>4. seqs[n + 1] = TokenReasons(document.tokens[n + 1])
  BY <1>3
<1> HIDE DEF seqs, first
<1>5. FlattenSeq(first) \in Seq(Rejections)
  BY <1>2, FlattenedType
<1>6. FlattenSeq(seqs) = FlattenSeq(first) \o seqs[n + 1]
  BY <1>2, <1>3, FlattenedNext
<1>7. ReasonsUpTo(n) = FlattenSeq(first) /\ ReasonsUpTo(n + 1) = FlattenSeq(seqs)
  BY DEF ReasonsUpTo, first, seqs
<1> QED
  BY <1>1, <1>3, <1>4, <1>5, <1>6, <1>7

\* Before the first token there are none, and behind the last one all.
LEMMA ReasonsAtEnds ==
    ASSUME Inputs
    PROVE  ReasonsUpTo(0) = <<>> /\ ReasonsUpTo(Len(document.tokens)) = AllReasons
<1>1. DOMAIN document.tokens = 1..Len(document.tokens)
  BY InputTypes
<1>2. ReasonsUpTo(Len(document.tokens)) = AllReasons
  BY <1>1 DEF ReasonsUpTo, AllReasons
<1>3. [i \in 1..0 |-> TokenReasons(document.tokens[i])] = <<>>
  OBVIOUS
<1>4. FlattenSeq(<<>>) = <<>>
  BY DEF FlattenSeq
<1> QED
  BY <1>2, <1>3, <1>4 DEF ReasonsUpTo

\* The document does not change, and so nothing told of it does.
LEMMA DocumentKept ==
    ASSUME document' = document
    PROVE  /\ AllReasons' = AllReasons
           /\ HasError' = HasError
           /\ read' = read => ReasonsUpTo(read)' = ReasonsUpTo(read)
           /\ read' = read + 1 => ReasonsUpTo(read)' = ReasonsUpTo(read + 1)
  BY DEF AllReasons, HasError, ReasonsUpTo

\* A call begins with the invariant.
LEMMA InitIInv == Init => IInv
<1> SUFFICES ASSUME Init PROVE IInv
  OBVIOUS
<1>1. Inputs
  BY DEF Init, Inputs
<1>2. Len(document.tokens) \in Nat
  BY <1>1, InputTypes
<1>3. {cancelled, root, image, loaded} \subseteq BOOLEAN
  BY DEF Init
<1>4. TypeOK
  BY <1>2, <1>3 DEF Init, TypeOK, Outcomes, Reasons, Empty, Size
<1>5. Latency /\ Answered /\ Fitted
  BY DEF Init, Latency, Answered, Fitted
<1>6. ReasonsUpTo(read) = <<>>
  BY <1>1, ReasonsAtEnds DEF Init
<1>7. Vetted
  BY <1>6 DEF Init, Vetted, Judged
<1>8. Unrooted
  BY DEF Init, Unrooted
<1> QED
  BY <1>1, <1>4, <1>5, <1>7, <1>8 DEF IInv

\* The arguments stay.
LEMMA NextInputs == IInv /\ [Next]_vars => Inputs'
  BY DEF IInv, Inputs, Next, Step, Entry, ReadToken, Judge, LoadRenderer, Facts, Render, HandOver,
         RequestCancel, Terminating, arguments, vars

\* No second expensive call is begun behind the flag.
LEMMA NextLatency == IInv /\ [Next]_vars => Latency'
<1> SUFFICES ASSUME IInv, [Next]_vars PROVE Latency'
  OBVIOUS
<1>0. Latency /\ cancelled \in BOOLEAN
  BY DEF IInv, TypeOK
<1> USE DEF Return, Goto, Expensive, Latency
<1>1. CASE Entry
  BY <1>0, <1>1 DEF Entry
<1>2. CASE ReadToken
  BY <1>0, <1>2 DEF ReadToken
<1>3. CASE Judge
  BY <1>0, <1>3 DEF Judge
<1>4. CASE LoadRenderer
  BY <1>0, <1>4 DEF LoadRenderer
<1>5. CASE Facts
  BY <1>0, <1>5 DEF Facts, SeenAfterLoad
<1>6. CASE Render
  BY <1>0, <1>6 DEF Render
<1>7. CASE HandOver
  BY <1>0, <1>7 DEF HandOver
<1>8. CASE RequestCancel
  BY <1>0, <1>8 DEF RequestCancel
<1>9. CASE UNCHANGED vars
  BY <1>0, <1>9 DEF vars
<1> QED
  BY <1>1, <1>2, <1>3, <1>4, <1>5, <1>6, <1>7, <1>8, <1>9 DEF Next, Step, Terminating

\* The outcome stays what the point of the call makes it.
LEMMA NextAnswered == IInv /\ [Next]_vars => Answered'
<1> SUFFICES ASSUME IInv, [Next]_vars PROVE Answered'
  OBVIOUS
<1>0. Answered /\ Vetted /\ TypeOK
  BY DEF IInv
<1> USE DEF Return, Goto, Answered, Vetted
<1>1. CASE Entry
  BY <1>0, <1>1 DEF Entry
<1>2. CASE ReadToken
  BY <1>0, <1>2 DEF ReadToken, Verdict
<1>3. CASE Judge
  BY <1>0, <1>3 DEF Judge, PolicyKept
<1>4. CASE LoadRenderer
  BY <1>0, <1>4 DEF LoadRenderer
<1>5. CASE Facts
  BY <1>0, <1>5 DEF Facts, SeenAfterLoad
<1>6. CASE Render
  BY <1>0, <1>6 DEF Render
<1>7. CASE HandOver
  BY <1>0, <1>7 DEF HandOver, SeenAfterRender
<1>8. CASE RequestCancel
  BY <1>0, <1>8 DEF RequestCancel
<1>9. CASE UNCHANGED vars
  BY <1>0, <1>9 DEF vars
<1> QED
  BY <1>1, <1>2, <1>3, <1>4, <1>5, <1>6, <1>7, <1>8, <1>9 DEF Next, Step, Terminating

\* Nothing is left as a reason only where there was none.
LEMMA JudgedNone ==
    ASSUME NEW reasons \in Seq(Rejections), NEW r, Judged(reasons, r)
    PROVE  r = "None" <=> reasons = <<>>
<1>1. \A i \in DOMAIN reasons : reasons[i] # "None"
  <2>1. \A i \in DOMAIN reasons : reasons[i] \in Rejections
    OBVIOUS
  <2> QED
    BY <2>1 DEF Rejections
<1> QED
  BY <1>1 DEF Judged, FirstUnsafe

\* The reasons of what was read are reasons.
LEMMA ReasonsTyped ==
    ASSUME Inputs, NEW n \in 0..Len(document.tokens)
    PROVE  ReasonsUpTo(n) \in Seq(Rejections)
<1> DEFINE first == [i \in 1..n |-> TokenReasons(document.tokens[i])]
<1>1. ASSUME NEW i \in 1..n PROVE TokenReasons(document.tokens[i]) \in Seq(Rejections)
  <2>1. document.tokens[i] \in TokenType
    BY InputTypes
  <2> QED
    BY <2>1, TokenReasonsType
<1>2. first \in [1..n -> Seq(Rejections)] /\ n \in Nat
  BY <1>1, InputTypes
<1> HIDE DEF first
<1>3. FlattenSeq(first) \in Seq(Rejections)
  BY <1>2, FlattenedType
<1> QED
  BY <1>3 DEF ReasonsUpTo, first

\* A token that is read without a poll or a foreign root in the way is judged.
LEMMA ReadTokenJudges ==
    ASSUME IInv, ReadToken, pc' # "done"
    PROVE  /\ reason' \in Reasons
           /\ Judged(ReasonsUpTo(read)', reason')
           /\ outcome' = IF reason' = "None" THEN "Damaged" ELSE "Unsupported"
<1> DEFINE token == document.tokens[read + 1]
           next == TokenReasons(token)
<1>1. /\ Inputs /\ Vetted /\ TypeOK
      /\ pc = "tokens" /\ read < Len(document.tokens) /\ read' = read + 1 /\ document' = document
      /\ reason' = RejectedInTurn(reason, next)
      /\ outcome' = Verdict(next)
  BY DEF IInv, ReadToken, Return, ReadNext, arguments
<1>2. read \in Nat /\ reason \in Reasons
  BY <1>1, InputTypes DEF TypeOK
<1>3. /\ ReasonsUpTo(read) \in Seq(Rejections) /\ next \in Seq(Rejections)
      /\ ReasonsUpTo(read)' = ReasonsUpTo(read) \o next
  BY <1>1, <1>2, ReasonsOfNext, DocumentKept
<1>4. Judged(ReasonsUpTo(read), reason)
  BY <1>1 DEF Vetted
<1> HIDE DEF next
<1>5. reason' \in Reasons /\ Judged(ReasonsUpTo(read)', reason')
  BY <1>1, <1>2, <1>3, <1>4, RejectedInTurnJudges
<1>6. CASE next = <<>>
  <2>1. ReasonsUpTo(read)' = ReasonsUpTo(read)
    BY <1>3, <1>6
  <2>2. outcome' = IF reason = "None" THEN "Damaged" ELSE "Unsupported"
    BY <1>1, <1>6 DEF Verdict, Vetted
  <2>3. reason = "None" <=> reason' = "None"
    BY <1>3, <1>4, <1>5, <2>1, JudgedNone
  <2> QED
    BY <1>5, <2>2, <2>3
<1>7. CASE next # <<>>
  <2>1. outcome' = "Unsupported"
    BY <1>1, <1>7 DEF Verdict
  <2>2. ReasonsUpTo(read)' # <<>> /\ ReasonsUpTo(read)' \in Seq(Rejections)
    BY <1>3, <1>7
  <2>3. reason' # "None"
    BY <1>5, <2>2, JudgedNone
  <2> QED
    BY <1>5, <2>1, <2>3
<1> QED
  BY <1>6, <1>7

\* A call that ends without an SVG root ends at a foreign root or an error, and
\* only what stands in front of it counts.
LEMMA EndsBehindProlog ==
    ASSUME IInv, Judge, ~root
    PROVE  Judged(ReasonsUpTo(read - 1), reason)
<1> DEFINE tokens == document.tokens
<1>1. /\ Inputs /\ pc = "tokens" /\ read = Len(tokens)
      /\ Judged(ReasonsUpTo(read), reason)
      /\ \A i \in 1..read : tokens[i].what # "element"
  BY DEF IInv, Judge, Vetted, Unrooted
<1>2. tokens \in Seq(TokenType)
  BY <1>1, InputTypes
<1>3. PICK i \in DOMAIN tokens : tokens[i].what \in {"element", "error"}
  BY <1>1, DocumentsAssumption DEF Inputs
<1>4. i \in 1..read /\ tokens[i].what = "error" /\ tokens[i] \in TokenType
  BY <1>1, <1>2, <1>3
<1>5. tokens[i] = XmlError
  BY <1>4 DEF TokenType, XmlError
<1>6. i = read
  BY <1>1, <1>5, DocumentsAssumption DEF Inputs
<1>7. TokenReasons(tokens[read]) = <<>>
  BY <1>4, <1>6 DEF TokenReasons
<1>8. read - 1 \in Nat /\ read - 1 < Len(tokens) /\ (read - 1) + 1 = read
  BY <1>1, <1>2, <1>4, <1>6
<1> HIDE DEF tokens
<1>9. /\ ReasonsUpTo(read - 1) \in Seq(Rejections)
      /\ ReasonsUpTo((read - 1) + 1) = ReasonsUpTo(read - 1) \o TokenReasons(document.tokens[(read - 1) + 1])
  BY <1>1, <1>8, ReasonsOfNext DEF tokens
<1>10. ReasonsUpTo(read) = ReasonsUpTo(read - 1) \o <<>>
  BY <1>7, <1>8, <1>9 DEF tokens
<1>11. ReasonsUpTo(read) = ReasonsUpTo(read - 1)
  BY <1>9, <1>10
<1> QED
  BY <1>1, <1>11

\* Every step keeps the rejections of the prolog apart.
LEMMA NextUnrooted == IInv /\ [Next]_vars => Unrooted'
<1> SUFFICES ASSUME IInv, [Next]_vars PROVE Unrooted'
  OBVIOUS
<1>0. Vetted /\ Unrooted /\ Answered /\ TypeOK /\ Inputs /\ document' = document
  BY NextInputs DEF IInv, Next, Step, Entry, ReadToken, Judge, LoadRenderer, Facts, Render, HandOver,
            RequestCancel, Terminating, arguments, vars
<1>k. \A n : ReasonsUpTo(n)' = ReasonsUpTo(n)
  BY <1>0 DEF ReasonsUpTo
<1>n. read \in Nat
  BY <1>0, InputTypes DEF TypeOK
<1> USE DEF Return, Goto
<1>1. CASE Entry
  BY <1>0, <1>1 DEF Entry, Unrooted
<1>2. CASE ReadToken
  <2>1. /\ pc = "tokens" /\ read' = read + 1
        /\ Judged(ReasonsUpTo(read), reason)
        /\ outcome = "Unsupported" => reason # "None"
    BY <1>0, <1>2 DEF ReadToken, ReadNext, Vetted
  <2>2. CASE pc' = "done"
    <3>1. outcome' \in {"Cancelled", outcome} /\ (outcome' # "Cancelled" => reason' = reason)
      BY <1>2, <2>1, <2>2 DEF ReadToken
    <3>2. ReasonsUpTo(read - 1)' = ReasonsUpTo(read)
      BY <1>0, <1>n, <2>1 DEF ReasonsUpTo
    <3> QED
      BY <2>1, <2>2, <3>1, <3>2 DEF Unrooted, Judged, FirstUnsafe, Unsafe
  <2>3. CASE pc' # "done"
    <3>1. /\ pc' = "tokens"
          /\ root' = (root \/ document.tokens[read + 1].what = "element")
      BY <1>2, <2>1, <2>3 DEF ReadToken
    <3>2. ASSUME ~root' PROVE \A i \in 1..(read + 1) : document.tokens[i].what # "element"
      <4>1. ~root /\ document.tokens[read + 1].what # "element"
        BY <3>1, <3>2
      <4>2. \A i \in 1..read : document.tokens[i].what # "element"
        BY <1>0, <2>1, <4>1 DEF Unrooted
      <4>3. \A i \in 1..(read + 1) : i \in 1..read \/ i = read + 1
        BY <1>n
      <4> QED
        BY <4>1, <4>2, <4>3
    <3> QED
      BY <1>0, <2>1, <3>1, <3>2 DEF Unrooted
  <2> QED
    BY <2>2, <2>3
<1>3. CASE Judge
  <2>1. /\ pc' \in {"load", "done"} /\ read' = read /\ root' = root /\ reason' = reason
        /\ outcome' \in {outcome, "Damaged"}
        /\ pc' = "load" => root
        /\ outcome = "Unsupported" => reason # "None"
    BY <1>0, <1>3 DEF Judge, Vetted
  <2>2. ~root => Judged(ReasonsUpTo(read - 1), reason)
    BY <1>3, EndsBehindProlog
  <2>3. ReasonsUpTo(read - 1)' = ReasonsUpTo(read - 1)
    BY <1>0, <2>1 DEF ReasonsUpTo
  <2> QED
    BY <2>1, <2>2, <2>3 DEF Unrooted, Judged, FirstUnsafe, Unsafe
<1>4. ASSUME LoadRenderer \/ Facts \/ Render \/ HandOver PROVE Unrooted'
  <2>1. root' /\ pc' \notin {"entry", "tokens"}
    BY <1>0, <1>4 DEF LoadRenderer, Facts, Render, HandOver, Vetted
  <2> QED
    BY <2>1 DEF Unrooted
<1>5. ASSUME RequestCancel \/ UNCHANGED vars PROVE Unrooted'
  <2>1. UNCHANGED <<pc, read, root, reason, outcome, document>>
    BY <1>5 DEF RequestCancel, vars, arguments
  <2>2. ReasonsUpTo(read - 1)' = ReasonsUpTo(read - 1)
    BY <2>1 DEF ReasonsUpTo
  <2> QED
    BY <1>0, <2>1, <2>2 DEF Unrooted, Judged, FirstUnsafe, Unsafe
<1> QED
  BY <1>1, <1>2, <1>3, <1>4, <1>5 DEF Next, Step, Terminating

\* Every step keeps the reason true to the tokens that were read.
LEMMA NextVetted == IInv /\ [Next]_vars => Vetted'
<1> SUFFICES ASSUME IInv, [Next]_vars PROVE Vetted'
  OBVIOUS
<1>0. Vetted /\ TypeOK /\ Inputs /\ document' = document
  BY NextInputs DEF IInv, Next, Step, Entry, ReadToken, Judge, LoadRenderer, Facts, Render, HandOver,
            RequestCancel, Terminating, arguments, vars
<1>k. /\ AllReasons' = AllReasons /\ HasError' = HasError
      /\ read' = read => ReasonsUpTo(read)' = ReasonsUpTo(read)
  BY <1>0, DocumentKept
<1>e. read = Len(document.tokens) => ReasonsUpTo(read) = AllReasons
  BY <1>0, ReasonsAtEnds
<1> USE DEF Return, Goto
<1>1. CASE Entry
  BY <1>0, <1>1, <1>k DEF Entry, Vetted, arguments
<1>2. CASE ReadToken
  <2>1. CASE pc' = "done"
    BY <1>0, <1>2, <1>k, <2>1 DEF ReadToken, Vetted, arguments
  <2>2. CASE pc' # "done"
    <3>1. pc' = "tokens" /\ loaded' = loaded /\ ~loaded
      BY <1>0, <1>2, <2>2 DEF ReadToken, Vetted
    <3> QED
      BY <1>2, <2>2, <3>1, ReadTokenJudges DEF Vetted
  <2> QED
    BY <2>1, <2>2
<1>3. CASE Judge
  <2>1. /\ pc = "tokens" /\ read = Len(document.tokens) /\ read' = read /\ root' = root
        /\ reason' = reason /\ loaded' = loaded /\ ~loaded
        /\ Judged(AllReasons, reason)
        /\ outcome = IF reason = "None" THEN "Damaged" ELSE "Unsupported"
    BY <1>0, <1>3, <1>e DEF Judge, Vetted
  <2>2. CASE pc' = "load"
    BY <1>0, <1>3, <1>k, <2>1, <2>2, <1>e DEF Judge, PolicyKept, Vetted
  <2>3. CASE pc' = "done"
    <3>1. outcome' \in {outcome, "Damaged"}
      BY <1>3, <2>3 DEF Judge
    <3> QED
      BY <1>0, <1>k, <2>1, <2>3, <3>1 DEF Vetted
  <2> QED
    BY <1>3, <2>2, <2>3 DEF Judge
<1>4. CASE LoadRenderer
  <2>1. /\ pc = "load" /\ read' = read /\ root' = root /\ reason' = reason
        /\ read = Len(document.tokens) /\ reason = "None" /\ root /\ ~HasError
        /\ outcome' = outcome /\ outcome = "Damaged" /\ pc' \in {"facts", "done"}
    BY <1>0, <1>4 DEF LoadRenderer, Vetted, IInv, Answered
  <2>2. ReasonsUpTo(read) \in Seq(Rejections) /\ Judged(ReasonsUpTo(read), "None")
    BY <1>0, <2>1, ReasonsTyped DEF Vetted
  <2>3. AllReasons = <<>>
    BY <1>e, <2>1, <2>2, JudgedNone
  <2> QED
    BY <1>0, <1>k, <2>1, <2>2, <2>3 DEF Vetted
<1>5. CASE Facts
  <2>1. /\ pc = "facts" /\ read' = read /\ root' = root /\ reason' = reason /\ loaded' = loaded
        /\ outcome = "Damaged" /\ outcome' # "Unsupported" /\ pc' \in {"render", "done"}
    BY <1>5 DEF Facts, IInv, Answered
  <2> QED
    BY <1>0, <1>k, <2>1 DEF Vetted
<1>6. CASE Render
  BY <1>0, <1>k, <1>6 DEF Render, Vetted
<1>7. CASE HandOver
  <2>1. /\ pc = "rendered" /\ read' = read /\ root' = root /\ reason' = reason /\ loaded' = loaded
        /\ outcome = "Success" /\ outcome' # "Unsupported" /\ pc' = "done"
    BY <1>7 DEF HandOver, IInv, Answered
  <2> QED
    BY <1>0, <1>k, <2>1 DEF Vetted
<1>8. CASE RequestCancel
  BY <1>0, <1>k, <1>8 DEF RequestCancel, Vetted
<1>9. CASE UNCHANGED vars
  BY <1>0, <1>k, <1>9 DEF vars, Vetted
<1> QED
  BY <1>1, <1>2, <1>3, <1>4, <1>5, <1>6, <1>7, <1>8, <1>9 DEF Next, Step, Terminating

\* Only an admitted size is rendered.
LEMMA NextFitted == IInv /\ [Next]_vars => Fitted'
<1> SUFFICES ASSUME IInv, [Next]_vars PROVE Fitted'
  OBVIOUS
<1>0. /\ Fitted /\ Answered /\ TypeOK
      /\ UNCHANGED arguments
  BY DEF IInv, Next, Step, Entry, ReadToken, Judge, LoadRenderer, Facts, Render, HandOver,
         RequestCancel, Terminating, vars, arguments
<1>1. size' = size => Admitted(size)' = Admitted(size)
  BY <1>0 DEF Admitted, BeyondBudget, arguments
<1> USE DEF Fitted
<1> USE DEF Return, Goto
<1>4. CASE Entry \/ ReadToken \/ Judge \/ LoadRenderer
  <2>1. /\ pc \in {"entry", "tokens", "load"} /\ pc' \notin {"render", "rendered"}
        /\ image' = image
    BY <1>4 DEF Entry, ReadToken, Judge, LoadRenderer
  <2> QED
    BY <1>0, <2>1
<1>5. CASE Facts
  <2>1. pc = "facts" /\ image' = image /\ ~image
    BY <1>0, <1>5 DEF Facts
  <2>2. CASE pc' # "render"
    <3>1. pc' = "done"
      BY <1>5, <2>2 DEF Facts
    <3> QED
      BY <2>1, <3>1
  <2>3. CASE pc' = "render"
    <3>1. Admitted(size')
      BY <1>5, <2>3 DEF Facts, Admitted
    <3>2. Admitted(size)' = Admitted(size')
      BY <1>0 DEF Admitted, BeyondBudget, arguments
    <3> QED
      BY <2>1, <2>3, <3>1, <3>2
  <2> QED
    BY <2>2, <2>3
<1>6. CASE Render
  <2>1. pc = "render" /\ pc' = "rendered" /\ UNCHANGED <<size, image>>
    BY <1>6 DEF Render
  <2> QED
    BY <1>0, <1>1, <2>1
<1>7. CASE HandOver
  <2>1. /\ pc = "rendered" /\ pc' = "done" /\ UNCHANGED size /\ outcome = "Success"
        /\ image' => outcome' = outcome
    BY <1>0, <1>7 DEF HandOver, Answered
  <2> QED
    BY <1>0, <1>1, <2>1
<1>8. CASE RequestCancel
  BY <1>0, <1>1, <1>8 DEF RequestCancel
<1>9. CASE UNCHANGED vars
  BY <1>0, <1>1, <1>9 DEF vars
<1> QED
  BY <1>4, <1>5, <1>6, <1>7, <1>8, <1>9 DEF Next, Step, Terminating

\* The part of TypeOK that is about flags.
FlagsOK == {cancelled, root, image, loaded} \subseteq BOOLEAN

\* The flags stay Boolean.
LEMMA NextFlags == FlagsOK /\ [Next]_vars => FlagsOK'
<1> SUFFICES ASSUME FlagsOK, [Next]_vars PROVE FlagsOK'
  OBVIOUS
<1> USE DEF FlagsOK
<1>1. cancelled' \in BOOLEAN
  BY DEF Next, Step, Entry, ReadToken, Judge, LoadRenderer, Facts, Render, HandOver, RequestCancel,
         Terminating, vars
<1>2. root' \in BOOLEAN
  BY DEF Next, Step, Entry, ReadToken, Judge, LoadRenderer, Facts, Render, HandOver, RequestCancel,
         Terminating, vars
<1>3. image' \in BOOLEAN
  BY DEF Next, Step, Entry, ReadToken, Judge, LoadRenderer, Facts, Render, HandOver, RequestCancel,
         Terminating, vars, SeenAfterRender
<1>4. loaded' \in BOOLEAN
  BY DEF Next, Step, Entry, ReadToken, Judge, LoadRenderer, Facts, Render, HandOver, RequestCancel,
         Terminating, vars
<1> QED
  BY <1>1, <1>2, <1>3, <1>4

\* Every variable keeps its type.
LEMMA NextTypes == IInv /\ [Next]_vars => TypeOK'
<1> SUFFICES ASSUME IInv, [Next]_vars PROVE TypeOK'
  OBVIOUS
<1>0. /\ TypeOK /\ Inputs /\ Vetted /\ Answered
      /\ UNCHANGED arguments
      /\ late' \in Nat
      /\ FlagsOK'
  BY NextLatency, NextFlags
     DEF IInv, Latency, TypeOK, FlagsOK, Next, Step, Entry, ReadToken, Judge, LoadRenderer, Facts, Render,
         HandOver, RequestCancel, Terminating, vars, arguments
<1>1. /\ Len(document.tokens) \in Nat /\ read \in 0..Len(document.tokens)
      /\ 0..Len(document'.tokens) = 0..Len(document.tokens)
  BY <1>0, InputTypes DEF TypeOK, arguments
<1>2. /\ pc \in {"entry", "tokens", "load", "facts", "render", "rendered", "done"}
      /\ outcome \in Outcomes /\ reason \in Reasons /\ size \in [w : Nat, h : Nat]
      /\ reason # "None" /\ pc # "done" => outcome = "Unsupported"
  BY <1>0 DEF TypeOK
<1>3. TypeOK' = /\ pc' \in {"entry", "tokens", "load", "facts", "render", "rendered", "done"}
                /\ FlagsOK'
                /\ read' \in 0..Len(document'.tokens)
                /\ outcome' \in Outcomes
                /\ reason' \in Reasons
                /\ (reason' # "None" /\ pc' # "done" => outcome' = "Unsupported")
                /\ size' \in [w : Nat, h : Nat]
                /\ late' \in Nat
  BY DEF TypeOK, FlagsOK
<1> USE DEF Return, Goto, Outcomes
<1>4. CASE Entry
  BY <1>0, <1>1, <1>2, <1>3, <1>4 DEF Entry
<1>5. CASE ReadToken
  <2>1. read' \in 0..Len(document.tokens) /\ size' = size
    BY <1>1, <1>5 DEF ReadToken, ReadNext
  <2>2. CASE pc' = "done"
    BY <1>0, <1>1, <1>2, <1>3, <1>5, <2>1, <2>2 DEF ReadToken, Verdict
  <2>3. CASE pc' # "done"
    <3>1. pc' = "tokens"
      BY <1>5, <2>3 DEF ReadToken
    <3> QED
      BY <1>0, <1>1, <1>2, <1>3, <1>5, <2>1, <2>3, <3>1, ReadTokenJudges
  <2> QED
    BY <2>2, <2>3
<1>6. CASE Judge
  BY <1>0, <1>1, <1>2, <1>3, <1>6 DEF Judge
<1>7. CASE LoadRenderer
  BY <1>0, <1>1, <1>2, <1>3, <1>7 DEF LoadRenderer
<1>8. CASE Facts
  <2>1. pc = "facts" /\ UNCHANGED <<read, reason>> /\ reason = "None"
    BY <1>0, <1>8 DEF Facts, Vetted
  <2>2. pc' \in {"render", "done"} /\ outcome' \in Outcomes
    BY <1>2, <1>8 DEF Facts
  <2>3. size' \in {size, PixelSize(DocumentSize(document.facts), bound)}
    BY <1>8 DEF Facts
  <2>4. PixelSize(DocumentSize(document.facts), bound) \in [w : Nat, h : Nat]
    BY <1>0, InputTypes, DocumentSizeType, PixelSizeFits
  <2>5. size' \in [w : Nat, h : Nat]
    BY <1>2, <2>3, <2>4
  <2> QED
    BY <1>0, <1>1, <1>2, <1>3, <2>1, <2>2, <2>5
<1>9. CASE Render
  BY <1>0, <1>1, <1>2, <1>3, <1>9 DEF Render
<1>10. CASE HandOver
  BY <1>0, <1>1, <1>2, <1>3, <1>10 DEF HandOver
<1>11. CASE RequestCancel
  BY <1>0, <1>1, <1>2, <1>3, <1>11 DEF RequestCancel
<1>12. CASE UNCHANGED vars
  BY <1>0, <1>1, <1>2, <1>3, <1>12 DEF vars
<1> QED
  BY <1>4, <1>5, <1>6, <1>7, <1>8, <1>9, <1>10, <1>11, <1>12 DEF Next, Step, Terminating

\* Every step keeps the invariant.
LEMMA NextIInv == IInv /\ [Next]_vars => IInv'
  BY NextTypes, NextInputs, NextLatency, NextVetted, NextUnrooted, NextAnswered, NextFitted DEF IInv

\* It holds in every state of every call.
THEOREM Invariance == Spec => []IInv
<1> QED
  BY InitIInv, NextIInv, PTL DEF Spec

-----------------------------------------------------------------------------
(* What it says of inspectSvg and rasterizeSvg                             *)

\* Every variable has its type; in particular a rejection is a reason of the
\* API, and its outcome is Unsupported while the document is read on.
THEOREM TypeCorrect == Spec => []TypeOK
<1>1. IInv => TypeOK
  BY DEF IInv
<1> QED
  BY Invariance, <1>1, PTL

\* Behind the flag at most one expensive call of the renderer is begun.
THEOREM CancelsPromptly == Spec => []CancelLatency
<1>1. IInv => CancelLatency
  BY DEF IInv, Latency, CancelLatency
<1> QED
  BY Invariance, <1>1, PTL

\* Resource validation precedes the renderer: the document it is given has been
\* read to its end, without an error and without a single rejection.
THEOREM ValidationPrecedesRenderer == Spec => []RendererSeesOnlySafe
<1>1. IInv => RendererSeesOnlySafe
  BY DEF IInv, Vetted, RendererSeesOnlySafe
<1> QED
  BY Invariance, <1>1, PTL

\* The reason a rejected document comes back with is the first unsafe one in it,
\* or in front of a root that is not SVG, and a local image only if there is
\* nothing else.
THEOREM ReasonIsTold == Spec => []ReasonIsFirstUnsafe
<1>1. ASSUME IInv PROVE ReasonIsFirstUnsafe
  <2> DEFINE reasons == IF root THEN AllReasons ELSE PrologReasons
  <2>1. SUFFICES ASSUME pc = "done", outcome = "Unsupported" PROVE FirstUnsafe(reasons, reason)
    BY DEF ReasonIsFirstUnsafe
  <2>2. CASE root
    <3>1. reason # "None" /\ Judged(AllReasons, reason)
      BY <1>1, <2>1, <2>2 DEF IInv, Vetted
    <3> QED
      BY <2>2, <3>1 DEF Judged
  <2>3. CASE ~root
    <3>1. reason # "None" /\ Judged(PrologReasons, reason)
      BY <1>1, <2>1, <2>3 DEF IInv, Unrooted, PrologReasons, ReasonsUpTo
    <3> QED
      BY <2>3, <3>1 DEF Judged
  <2> QED
    BY <2>2, <2>3
<1> QED
  BY Invariance, <1>1, PTL

\* The returned image keeps the caller's bytes and bound, fills the bound one
\* way, and has the ratio of the document up to half a pixel.
THEOREM ImageIsFitting == Spec => []ImageFits
<1>1. ASSUME IInv PROVE ImageFits
  <2> DEFINE doc == DocumentSize(document.facts)
  <2>1. SUFFICES ASSUME image
                 PROVE  /\ size.w * size.h * 4 <= outputBytes
                        /\ Within(size, bound)
                        /\ size.w = bound.w \/ size.h = bound.h
                        /\ \/ size.w = 1 \/ size.h = 1
                           \/ /\ 2 * (size.w * doc.h - size.h * doc.w) <= Greater(doc.w, doc.h)
                              /\ 2 * (size.h * doc.w - size.w * doc.h) <= Greater(doc.w, doc.h)
    BY DEF ImageFits
  <2>2. Inputs /\ Admitted(size)
    BY <1>1, <2>1 DEF IInv, Fitted
  <2>3. size = PixelSize(doc, bound) /\ ~IsEmpty(size) /\ ~BeyondBudget(size)
    BY <2>2 DEF Admitted, BeyondBudget
  <2>4. doc \in Sizes /\ bound \in Sizes /\ outputBytes \in Int
    BY <2>2, InputTypes, DocumentSizeType
  <2> HIDE DEF doc
  <2>5. /\ size \in [w : Nat, h : Nat]
        /\ Within(size, bound)
        /\ size.w = bound.w \/ size.h = bound.h
        /\ \/ size.w = 1 \/ size.h = 1
           \/ /\ 2 * (size.w * doc.h - size.h * doc.w) <= Greater(doc.w, doc.h)
              /\ 2 * (size.h * doc.w - size.w * doc.h) <= Greater(doc.w, doc.h)
    BY <2>3, <2>4, PixelSizeFits
  <2>6. size.w * size.h * 4 <= outputBytes
    <3> DEFINE pixels == size.w * size.h
    <3>1. pixels \in Nat
      BY <2>5, ProductNatural
    <3>2. outputBytes > 0 /\ ~(pixels > outputBytes \div 4)
      BY <2>3, <2>4 DEF BeyondBudget
    <3> HIDE DEF pixels
    <3>3. pixels * 4 <= outputBytes
      BY <2>4, <3>1, <3>2
    <3> QED
      BY <3>3 DEF pixels
  <2> QED
    BY <2>5, <2>6
<1> QED
  BY Invariance, <1>1, PTL

\* What a reference of an admitted kind is.
LEMMA KindOfReference ==
    ASSUME NEW ref \in ReferenceType
    PROVE  /\ Classify(ref) = "EmbeddedRaster" => ~OpensFile(ref)
           /\ Classify(ref) = "Fragment" => ref = Fragment
<1>1. CASE ref \in [form : {"fragment"}]
  BY <1>1 DEF Classify, Fragment
<1>2. CASE ref.form = "data"
  BY <1>2 DEF Classify, Embeddable, OpensFile
<1>3. CASE ref.form = "url"
  BY <1>3 DEF Classify
<1> QED
  BY <1>1, <1>2, <1>3 DEF ReferenceType

\* A check without a rejection keeps Qt from opening a file.
LEMMA SafeHref ==
    ASSUME NEW check \in CheckType, check.what = "href", CheckReasons(check) = <<>>
    PROVE  IF check.image THEN ~OpensFile(check.ref) ELSE check.ref = Fragment
<1>1. check.ref \in ReferenceType /\ check.image \in BOOLEAN
  BY DEF CheckType
<1>2. ReferenceReasons(Classify(check.ref), check.image) = <<>>
  BY DEF CheckReasons
<1>3. Classify(check.ref) \in ReferenceKinds
  BY <1>1, ClassifyType
<1>4. Classify(check.ref) = IF check.image THEN "EmbeddedRaster" ELSE "Fragment"
  BY <1>1, <1>2, <1>3 DEF ReferenceReasons, ReferenceKinds
<1> QED
  BY <1>1, <1>4, KindOfReference

\* Neither does CSS text without one: all its references are fragments.
LEMMA SafeCss ==
    ASSUME NEW check \in CheckType, check.what = "css", CheckReasons(check) = <<>>
    PROVE  ToSet(check.urls) \subseteq {Fragment}
<1> DEFINE seqs == [i \in DOMAIN check.urls |-> ReferenceReasons(Classify(check.urls[i]), FALSE)]
           n == Len(check.urls)
<1>1. check.urls \in Seq(ReferenceType) /\ n \in Nat /\ DOMAIN check.urls = 1..n
  BY DEF CheckType
<1>2. ASSUME NEW i \in 1..n PROVE seqs[i] \in Seq(Rejections)
  <2>1. check.urls[i] \in ReferenceType
    BY <1>1
  <2> QED
    BY <1>1, <2>1, ClassifyType, ReferenceReasonsType
<1>3. seqs \in [1..n -> Seq(Rejections)]
  <2>1. seqs = [i \in 1..n |-> seqs[i]]
    BY <1>1
  <2> HIDE DEF seqs, n
  <2> QED
    BY <1>2, <2>1
<1>4. FlattenSeq(seqs) = <<>>
  <2>1. /\ ~check.opaque /\ ~check.import
        /\ FlattenSeq(seqs) \o (IF check.cut THEN <<"UnsupportedCss">> ELSE <<>>) = <<>>
    BY DEF CheckReasons, CssReasons
  <2>2. FlattenSeq(seqs) \in Seq(Rejections)
    <3> HIDE DEF seqs, n
    <3> QED
      BY <1>1, <1>3, FlattenedType
  <2>3. \A s, t \in Seq(Rejections) : s \o t = <<>> => s = <<>>
    <3>1. ASSUME NEW s \in Seq(Rejections), NEW t \in Seq(Rejections), s \o t = <<>> PROVE s = <<>>
      <4>1. Len(s \o t) = Len(s) + Len(t) /\ Len(s \o t) = 0
        BY <3>1
      <4>2. Len(s) = 0
        BY <4>1
      <4> QED
        BY <4>2
    <3> QED
      BY <3>1
  <2> HIDE DEF seqs, n
  <2> QED
    BY <2>1, <2>2, <2>3, RejectionSequences
<1>5. \A i \in 1..n : seqs[i] = <<>>
  <2> HIDE DEF seqs, n
  <2> QED
    BY <1>1, <1>3, <1>4, FlattenedEmpty
<1>6. ASSUME NEW i \in 1..n PROVE check.urls[i] = Fragment
  <2>1. check.urls[i] \in ReferenceType
    BY <1>1
  <2>2. ReferenceReasons(Classify(check.urls[i]), FALSE) = <<>>
    BY <1>1, <1>5
  <2>3. Classify(check.urls[i]) = "Fragment"
    BY <2>1, <2>2, ClassifyType DEF ReferenceReasons, ReferenceKinds
  <2> QED
    BY <2>1, <2>3, KindOfReference
<1> QED
  BY <1>1, <1>6 DEF ToSet

\* No more does an element whose tokens are all without one.
LEMMA SafeElement ==
    ASSUME NEW token \in TokenType, token.what = "element", TokenReasons(token) = <<>>
    PROVE  \A check \in ToSet(token.checks) : check \in CheckType /\ CheckReasons(check) = <<>>
<1> DEFINE seqs == [i \in DOMAIN token.checks |-> CheckReasons(token.checks[i])]
           n == Len(token.checks)
<1>1. token.checks \in Seq(CheckType) /\ n \in Nat /\ DOMAIN token.checks = 1..n
  BY DEF TokenType
<1>2. ASSUME NEW i \in 1..n PROVE seqs[i] \in Seq(Rejections)
  <2>1. token.checks[i] \in CheckType
    BY <1>1
  <2> QED
    BY <1>1, <2>1, CheckReasonsType
<1>3. seqs \in [1..n -> Seq(Rejections)]
  <2>1. seqs = [i \in 1..n |-> seqs[i]]
    BY <1>1
  <2> HIDE DEF seqs, n
  <2> QED
    BY <1>2, <2>1
<1>4. FlattenSeq(seqs) = <<>>
  BY DEF TokenReasons
<1>5. \A i \in 1..n : seqs[i] = <<>>
  <2> HIDE DEF seqs, n
  <2> QED
    BY <1>1, <1>3, <1>4, FlattenedEmpty
<1>6. ASSUME NEW i \in 1..n PROVE token.checks[i] \in CheckType /\ CheckReasons(token.checks[i]) = <<>>
  <2>1. token.checks[i] \in CheckType
    BY <1>1
  <2>2. seqs[i] = CheckReasons(token.checks[i])
    BY <1>1
  <2> HIDE DEF seqs
  <2> QED
    BY <1>5, <2>1, <2>2
<1> QED
  BY <1>1, <1>6 DEF ToSet

\* Nothing in a document that is loaded makes Qt open a file.
THEOREM NoFileIsOpened == Spec => []NoFileFallback
<1>1. ASSUME IInv PROVE NoFileFallback
  <2>1. SUFFICES ASSUME loaded
                 PROVE  /\ \A check \in Hrefs : IF check.image THEN ~OpensFile(check.ref) ELSE check.ref = Fragment
                        /\ CssUrls \subseteq {Fragment}
    BY DEF NoFileFallback
  <2> DEFINE seqs == [i \in DOMAIN document.tokens |-> TokenReasons(document.tokens[i])]
             n == Len(document.tokens)
  <2>2. document.tokens \in Seq(TokenType) /\ n \in Nat /\ DOMAIN document.tokens = 1..n
    BY <1>1, InputTypes DEF IInv
  <2>3. ASSUME NEW i \in 1..n PROVE document.tokens[i] \in TokenType /\ seqs[i] \in Seq(Rejections)
    <3>1. document.tokens[i] \in TokenType
      BY <2>2
    <3> QED
      BY <2>2, <3>1, TokenReasonsType
  <2>4. seqs \in [1..n -> Seq(Rejections)]
    <3>1. seqs = [i \in 1..n |-> seqs[i]]
      BY <2>2
    <3> HIDE DEF seqs, n
    <3> QED
      BY <2>3, <3>1
  <2>5. FlattenSeq(seqs) = <<>>
    BY <1>1, <2>1 DEF IInv, Vetted, AllReasons
  <2>6. \A i \in 1..n : seqs[i] = <<>>
    <3> HIDE DEF seqs, n
    <3> QED
      BY <2>2, <2>4, <2>5, FlattenedEmpty
  <2>7. ASSUME NEW check \in AllChecks PROVE check \in CheckType /\ CheckReasons(check) = <<>>
    <3>1. PICK i \in 1..n : check \in ChecksOf(i)
      BY <2>2 DEF AllChecks
    <3>2. document.tokens[i].what = "element" /\ check \in ToSet(document.tokens[i].checks)
      BY <3>1 DEF ChecksOf
    <3>3. document.tokens[i] \in TokenType /\ TokenReasons(document.tokens[i]) = <<>>
      BY <2>2, <2>3, <2>6
    <3> QED
      BY <3>2, <3>3, SafeElement
  <2>8. ASSUME NEW check \in Hrefs
        PROVE  IF check.image THEN ~OpensFile(check.ref) ELSE check.ref = Fragment
    <3>1. check \in AllChecks /\ check.what = "href"
      BY DEF Hrefs
    <3> QED
      BY <2>7, <3>1, SafeHref
  <2>9. ASSUME NEW ref \in CssUrls PROVE ref = Fragment
    <3>1. PICK check \in AllChecks : check.what = "css" /\ ref \in ToSet(check.urls)
      BY DEF CssUrls
    <3> QED
      BY <2>7, <3>1, SafeCss
  <2> QED
    BY <2>8, <2>9
<1> QED
  BY Invariance, <1>1, PTL

-----------------------------------------------------------------------------
(* The calls implement the contract                                        *)

\* A step of the calls, as the contract sees it.
ContractStep == [Contract!Next]_(Contract!vars)

\* The initial states map to initial states.
LEMMA InitRefines == Init => Contract!Init
  BY DEF Init, Contract!Init, Contract!NoOutcome, NoOutcome

\* A step within a call changes nothing the contract sees.
LEMMA InnerStepRefines ==
    ASSUME pc # "done", pc' # "done", UNCHANGED <<cancelled, image>>
    PROVE  ContractStep
  BY DEF ContractStep, Contract!vars, Contract!NoOutcome

\* A return maps to one, if the answer keeps the promise.
LEMMA ReturnRefines ==
    ASSUME pc # "done", pc' = "done", UNCHANGED cancelled, image' \in BOOLEAN,
           outcome' \in Outcomes \ {"IoFailure"},
           image' => outcome' = "Success",
           outcome' = "Success" => ~cancelled,
           outcome' = "Cancelled" => cancelled
    PROVE  ContractStep
<1>1. Contract!Promise(outcome', image', cancelled, FALSE)
  BY DEF Contract!Promise
<1>2. Contract!Return
  BY <1>1 DEF Contract!Return, Contract!Outcomes, Outcomes, Contract!Promise
<1> QED
  BY <1>2 DEF ContractStep, Contract!Next

\* Every step of the calls is one of the contract, or changes nothing in it.
LEMMA NextRefines == IInv /\ IInv' /\ [Next]_vars => [Contract!Next]_(Contract!vars)
<1> SUFFICES ASSUME IInv, IInv', [Next]_vars PROVE ContractStep
  BY DEF ContractStep
<1>0. /\ pc # "done" => ~image
      /\ image' \in BOOLEAN
      /\ outcome' \in Outcomes \ {"IoFailure"}
      /\ image' => outcome' = "Success"
      /\ pc' # "done" => ~image'
      /\ pc' = "done" => (outcome' = "Cancelled" => cancelled') /\ (outcome' = "Success" => ~cancelled')
  BY DEF IInv, TypeOK, Answered, Fitted
<1>1. CASE Step
  <2>1. pc # "done" /\ UNCHANGED cancelled
    BY <1>1 DEF Step, Entry, ReadToken, Judge, LoadRenderer, Facts, Render, HandOver
  <2>2. CASE pc' = "done"
    BY <1>0, <2>1, <2>2, ReturnRefines
  <2>3. CASE pc' # "done"
    <3>1. image' = image
      BY <1>1, <2>3 DEF Step, Entry, ReadToken, Judge, LoadRenderer, Facts, Render, HandOver, Return
    <3> QED
      BY <2>1, <2>3, <3>1, InnerStepRefines
  <2> QED
    BY <2>2, <2>3
<1>2. CASE RequestCancel
  <2>1. Contract!RequestCancel
    BY <1>2 DEF RequestCancel, Contract!RequestCancel
  <2> QED
    BY <2>1 DEF ContractStep, Contract!Next
<1>3. CASE UNCHANGED vars
  BY <1>3 DEF ContractStep, Contract!vars, vars
<1> QED
  BY <1>1, <1>2, <1>3 DEF Next, Terminating

\* Every behaviour of inspectSvg and rasterizeSvg is one the contract allows.
THEOREM Refinement == Spec => ImplementsContract
<1>1. Spec => Contract!Init /\ [][Contract!Next]_(Contract!vars)
  BY InitRefines, NextRefines, Invariance, PTL DEF Spec
<1> QED
  BY <1>1, PTL DEF ImplementsContract, Contract!Spec

=============================================================================
