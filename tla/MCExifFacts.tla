---------------------------- MODULE MCExifFacts ----------------------------
(* ExifFacts for TLC: every combination of what the GPS tags can be, and   *)
(* each other tag in turn in every form the code tells apart.              *)
EXTENDS ExifFacts, Sequences, TLC

E(format, components, size, values, end) ==
    [format |-> format, components |-> components, size |-> size, values |-> values, end |-> end]
Q(num, den) == [num |-> num, den |-> den]

\* Behind an entry's size or components: bytes no entry of a payload holds, so
\* that a fact made of them is not of its type.
Garbage == Q(7, -7)
GarbageInteger == -7

Text(word, lower, end) ==
    E("ascii", 2, 2, <<[word |-> word, lower |-> lower, padded |-> lower]>>, end)
Triple(d, m, s, end) == E("rational", 3, 24, <<d, m, s>>, end)
Single(q, end) == E("rational", 1, 8, <<q>>, end)

\* At the limit and behind it by the smallest unit; cut off; malformed.
Angles(limit, end) ==
    {Triple(Q(limit, 1), Q(0, 1), Q(0, 1), end), Triple(Q(limit, 1), Q(0, 2), Q(1, 2), end),
     Triple(Q(2 * limit - 1, 2), Q(59, 2), Q(60, 2), end), Triple(Q(3, 1), Q(0, 0), Q(0, 1), end),
     E("rational", 2, 16, <<Q(1, 1), Q(1, 1), Garbage>>, end),
     E("rational", 3, 16, <<Q(1, 1), Q(1, 1), Garbage>>, end),
     E("other", 3, 24, <<Q(1, 1), Q(1, 1), Q(1, 1)>>, end)}

\* Where the data of the tags end.
Plain ==
    "Make" :> Text("Sony", FALSE, 1) @@ "Model" :> Text("A7", FALSE, 2) @@ "LensModel" :> Text("FE", TRUE, 3)
    @@ "FNumber" :> Single(Q(28, 10), 4) @@ "ExposureTime" :> Single(Q(1, 250), 5)
    @@ "FocalLength" :> Single(Q(35, 1), 6) @@ "ISOSpeedRatings" :> E("short", 1, 2, <<400>>, 6)
Gps ==
    "Latitude" :> Triple(Q(50, 1), Q(27, 1), Q(0, 1), 7) @@ "LatitudeRef" :> Text("N", FALSE, 7)
    @@ "Longitude" :> Triple(Q(30, 1), Q(31, 1), Q(1, 1), 8) @@ "LongitudeRef" :> Text("E", FALSE, 8)
    @@ "Altitude" :> Single(Q(170, 1), 9) @@ "AltitudeRef" :> E("byte", 1, 1, <<1>>, 9)

Payload(length, entries) == [length |-> length, entries |-> entries]
Without(data, tag) == [t \in DOMAIN data \ {tag} |-> data[t]]

Positions ==
    {Payload(9, lat @@ lon @@ latRef @@ lonRef @@ Gps) :
        lat \in {"Latitude" :> a : a \in Angles(90, 7)},
        lon \in {"Longitude" :> a : a \in Angles(180, 8)},
        latRef \in {"LatitudeRef" :> Text(w, w = "S", 7) : w \in {"N", "S", "E", ""}},
        lonRef \in {"LongitudeRef" :> t : t \in {Text("W", TRUE, 8), Text("S", FALSE, 8), E("short", 1, 2, <<1>>, 8)}}}
    \cup {Payload(9, Without(Gps, tag)) : tag \in DOMAIN Gps}

Altitudes ==
    {Payload(9, "Altitude" :> altitude @@ "AltitudeRef" :> ref @@ Plain) :
        altitude \in {Single(Q(5, 2), 9), Single(Q(5, 0), 9), E("rational", 1, 7, <<Garbage>>, 9)},
        ref \in {E("byte", 1, 1, <<0>>, 9), E("byte", 1, 1, <<1>>, 9), E("short", 1, 1, <<1>>, 9),
                 E("long", 1, 4, <<1>>, 9), E("byte", 0, 1, <<1>>, 9), E("other", 1, 1, <<1>>, 9)}}

Damaged ==
    {E("other", 1, 8, <<Garbage>>, 6), E("rational", 0, 8, <<Garbage>>, 6), E("rational", 1, 4, <<Garbage>>, 6),
     E("short", 0, 2, <<GarbageInteger>>, 6), E("short", 1, 1, <<GarbageInteger>>, 6)}
Malformed ==
    {Payload(9, tag :> damaged @@ Plain @@ Gps) : tag \in DOMAIN Plain, damaged \in Damaged}

\* Cut off at every length, and of lengths around a wrap of the width.
Lengths == {Payload(n, Plain @@ Gps) : n \in 0..9}

MCPayloads == Positions \cup Altitudes \cup Malformed \cup Lengths

=============================================================================
