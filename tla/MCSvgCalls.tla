----------------------------- MODULE MCSvgCalls -----------------------------
(* SvgCalls for TLC: documents with up to two checks in every combination  *)
(* of what the policy tells apart, and the sizes with every fallback.      *)
EXTENDS SvgCalls

Facts4(default, viewBox, boxed, width, height) ==
    [default |-> default, viewBox |-> viewBox, boxed |-> boxed, width |-> width, height |-> height]
Plain == Facts4(Size(4, 3), Empty, FALSE, Pixels(4), Pixels(3))
Document(tokens, loads, facts) == [tokens |-> tokens, loads |-> loads, facts |-> facts]

Root == Element(TRUE, <<>>)

\* Every way a reference can be turned away, and one of each kind.
Embedded == Data(TRUE, TRUE, TRUE, TRUE, TRUE)
LocalUrl == Url(TRUE, TRUE, FALSE, FALSE)
RemoteUrl == Url(TRUE, FALSE, FALSE, TRUE)
Broken == Data(TRUE, TRUE, TRUE, TRUE, FALSE)
References ==
    {Fragment, Embedded, Broken} \cup {Url(v, r, f, h) : v, r, f, h \in BOOLEAN}
    \cup {[Embedded EXCEPT !.lower = FALSE], [Embedded EXCEPT !.declared = FALSE],
          [Embedded EXCEPT !.base64 = FALSE], [Embedded EXCEPT !.matching = FALSE]}
Kinds == {Fragment, Embedded, LocalUrl, RemoteUrl, Broken}

Checks ==
    {Href(ref, isImage) : ref \in Kinds, isImage \in BOOLEAN}
    \cup {Redirect}
    \cup {Css(TRUE, TRUE, <<>>, FALSE), Css(FALSE, TRUE, <<RemoteUrl>>, TRUE),
          Css(FALSE, FALSE, <<Fragment, LocalUrl>>, FALSE), Css(FALSE, FALSE, <<Fragment>>, FALSE),
          Css(FALSE, FALSE, <<Broken>>, TRUE), Css(FALSE, FALSE, <<>>, TRUE)}

\* The policy: two checks in one element, or in two with or without an error
\* behind them; what stands in front of the root.
Policed ==
    {Document(<<Element(TRUE, <<c>>), Element(FALSE, <<d>>)>>, TRUE, Plain) : c, d \in Checks}
    \cup {Document(<<Root, Element(FALSE, <<c, Href(RemoteUrl, TRUE)>>), OtherToken, XmlError>>, TRUE, Plain) : c \in Checks}
    \cup {Document(<<before, Element(svg, <<Href(LocalUrl, TRUE)>>)>> \o after, TRUE, Plain) :
              before \in {Dtd(TRUE), Dtd(FALSE), StylesheetInstruction, OtherToken},
              svg \in BOOLEAN, after \in {<<>>, <<XmlError>>}}
    \cup {Document(<<XmlError>>, TRUE, Plain), Document(<<Dtd(TRUE), OtherToken, XmlError>>, TRUE, Plain)}
    \cup {Document(prolog \o <<last>>, TRUE, Plain) :
              prolog \in {<<Dtd(TRUE), StylesheetInstruction>>, <<StylesheetInstruction, Dtd(TRUE)>>},
              last \in {Element(FALSE, <<Href(LocalUrl, TRUE)>>), XmlError}}

\* The sizes: declared, halves of it declared, relative, boxed, unusable, not loadable.
Sized ==
    {Document(<<Root>>, TRUE, facts) :
        facts \in {Plain, Facts4(Size(7, 2), Size(7, 2), TRUE, Absent, Absent),
                   Facts4(Size(3, 3), Size(7, 2), TRUE, Pixels(5), Absent),
                   Facts4(Size(4, 1), Size(7, 2), TRUE, Relative, Relative),
                   Facts4(Empty, Empty, FALSE, Absent, Absent),
                   Facts4(Size(1, 9), Empty, FALSE, Pixels(1), Pixels(9)),
                   Facts4(Empty, Size(2, 3), TRUE, Pixels(0), Pixels(2))}}
    \cup {Document(<<Root>>, FALSE, Plain)}

\* One reference, as an image, as another href and in CSS.
Referring ==
    {Document(<<Element(TRUE, <<check>>)>>, TRUE, Plain) :
        check \in {Href(ref, isImage) : ref \in References, isImage \in BOOLEAN}
                  \cup {Css(FALSE, FALSE, <<ref>>, FALSE) : ref \in References}}

MCDocuments == Policed \cup Referring \cup Sized
MCBounds == {Empty, Size(5, 5), Size(3, 8)}
MCOutputBudgets == {0, 60, 4096}

=============================================================================
