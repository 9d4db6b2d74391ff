----------------------------- MODULE ExifFacts -----------------------------
(***************************************************************************)
(* parseExif (src/metadata.cpp): turns an EXIF payload into facts.  The    *)
(* payload is what readMetadata found; libexif is handed its address and   *)
(* its length, as an unsigned int, and keeps the entries whose data it can *)
(* reach.  A std::optional is a set of at most one value; a rational is a  *)
(* pair of numerator and denominator, compared without rounding.           *)
(***************************************************************************)
EXTENDS Integers

CONSTANTS
    Payloads,   \* what readMetadata can hand over
    LengthBits  \* width of unsigned int, 32 in the code

TextTags == {"Make", "Model", "LensModel", "LatitudeRef", "LongitudeRef"}
RationalTags == {"FNumber", "ExposureTime", "FocalLength", "Latitude", "Longitude", "Altitude"}
IntegerTags == {"ISOSpeedRatings", "AltitudeRef"}
Tags == TextTags \cup RationalTags \cup IntegerTags

\* Bytes of one value; "other" is every format the code does not ask for.
Width == [ascii |-> 1, byte |-> 1, short |-> 2, long |-> 4, rational |-> 8, other |-> 1]
Formats == DOMAIN Width

\* An entry is as libexif keeps it.  A text is one value: a word, its case,
\* and the space around it; numbers are unsigned.  A value behind the entry's
\* size is not the file's, and may be anything.
IsValue(format, value) ==
    CASE format = "rational" -> value \in [num : Nat, den : Nat]
      [] format \in {"byte", "short", "long"} -> value \in Nat
      [] OTHER -> TRUE

IsEntry(e) ==
    /\ e.format \in Formats
    /\ {e.components, e.size, e.end} \subseteq Nat
    /\ e.values # <<>>
    /\ \A i \in 1..e.components : Width[e.format] * i <= e.size => IsValue(e.format, e.values[i])

\* A payload has a length and, by tag, its entries; end is where an entry's
\* data end in the payload.
ASSUME PayloadsAssumption ==
    \A p \in Payloads :
        /\ p.length \in Nat
        /\ DOMAIN p.entries \subseteq Tags
        /\ \A tag \in DOMAIN p.entries : IsEntry(p.entries[tag])
ASSUME BitsAssumption == LengthBits \in Nat

VARIABLES
    payload,  \* the argument
    pc,       \* "start", "load" behind exif_data_new, "done"
    seen,     \* the tags libexif loaded
    facts     \* the returned ExifFacts

vars == <<payload, pc, seen, facts>>

-----------------------------------------------------------------------------
(* entry, ascii, rational, integer, coordinate                             *)

\* entry: the item with this tag, nullptr if there is none.
Entry(data, tag) == {data[t] : t \in {tag} \cap DOMAIN data}

\* ascii: the text without the space around it.
Ascii(data, tag) ==
    {[word |-> e.values[1].word, lower |-> e.values[1].lower] :
        e \in {x \in Entry(data, tag) : x.format = "ascii"}}

\* Faults: a denominator of zero passes; only the first component is there.
RationalOverZero(data, tag, index) ==
    {e.values[index] : e \in {x \in Entry(data, tag) : x.format = "rational" /\ index <= x.components}}

\* rational: components and size both say that the value is there, and its
\* denominator is not zero.
Rational(data, tag, index) ==
    {e.values[index] :
        e \in {x \in Entry(data, tag) :
                   /\ x.format = "rational"
                   /\ index <= x.components
                   /\ Width.rational * index <= x.size
                   /\ x.values[index].den # 0}}

\* integer: a value of any width the tag may have.
Integer(data, tag) ==
    {e.values[1] :
        e \in {x \in Entry(data, tag) :
                   /\ x.format \in {"byte", "short", "long"}
                   /\ x.components > 0
                   /\ Width[x.format] <= x.size}}

\* d + m / 60 + s / 3600
Degrees(d, m, s) ==
    [num |-> 3600 * d.num * m.den * s.den + 60 * m.num * d.den * s.den + s.num * d.den * m.den,
     den |-> 3600 * d.den * m.den * s.den]
AtMost(q, limit) == q.num <= limit * q.den

Coordinate(data, tag, limit) ==
    {q \in {Degrees(d, m, s) : d \in Rational(data, tag, 1), m \in Rational(data, tag, 2),
                               s \in Rational(data, tag, 3)} : AtMost(q, limit)}

Signed(q, negative) == IF negative THEN [q EXCEPT !.num = -q.num] ELSE q

\* ascii(...).toUpper()
Hemisphere(data, tag) == {text.word : text \in Ascii(data, tag)}

-----------------------------------------------------------------------------
(* parseExif                                                               *)

\* Fault: each coordinate is judged alone.
LocatedApart(data) ==
    /\ Hemisphere(data, "LatitudeRef") \cap {"N", "S"} # {}
    /\ Coordinate(data, "Latitude", 90) # {}

\* latitude && longitude && both references name a hemisphere of their own.
Located(data) ==
    /\ Coordinate(data, "Latitude", 90) # {}
    /\ Coordinate(data, "Longitude", 180) # {}
    /\ Hemisphere(data, "LatitudeRef") \cap {"N", "S"} # {}
    /\ Hemisphere(data, "LongitudeRef") \cap {"E", "W"} # {}

\* Fault: an altitude without its reference is dropped.
AltitudeReferred(data) ==
    {Signed(q, 1 \in Integer(data, "AltitudeRef")) :
        q \in IF Integer(data, "AltitudeRef") = {} THEN {} ELSE Rational(data, "Altitude", 1)}

\* Above sea level unless the reference says 1.
Altitude(data) ==
    {Signed(q, 1 \in Integer(data, "AltitudeRef")) : q \in Rational(data, "Altitude", 1)}

FactsOf(data) ==
    [make            |-> Ascii(data, "Make"),
     model           |-> Ascii(data, "Model"),
     lens            |-> Ascii(data, "LensModel"),
     aperture        |-> Rational(data, "FNumber", 1),
     exposureSeconds |-> Rational(data, "ExposureTime", 1),
     focalLengthMm   |-> Rational(data, "FocalLength", 1),
     iso             |-> Integer(data, "ISOSpeedRatings"),
     latitude        |-> IF ~Located(data) THEN {}
                         ELSE {Signed(q, "S" \in Hemisphere(data, "LatitudeRef")) :
                                   q \in Coordinate(data, "Latitude", 90)},
     longitude       |-> IF ~Located(data) THEN {}
                         ELSE {Signed(q, "W" \in Hemisphere(data, "LongitudeRef")) :
                                   q \in Coordinate(data, "Longitude", 180)},
     altitudeMeters  |-> Altitude(data)]

Nothing == [tag \in {} |-> tag]
Restricted(data, tags) == [tag \in DOMAIN data \cap tags |-> data[tag]]

Init ==
    /\ payload \in Payloads
    /\ pc = "start"
    /\ seen = {}
    /\ facts = FactsOf(Nothing)

\* An empty payload, and exif_data_new, which may fail: no facts.
NewData ==
    /\ pc = "start"
    /\ \/ pc' = "done"
       \/ payload.length > 0 /\ pc' = "load"
    /\ UNCHANGED <<payload, seen, facts>>

\* static_cast<unsigned int>(payload.size())
LoadedLength == payload.length % 2^LengthBits

\* exif_data_load_data, and the facts of what it kept.
LoadData ==
    /\ pc = "load"
    /\ pc' = "done"
    /\ seen' = {tag \in DOMAIN payload.entries : payload.entries[tag].end <= LoadedLength}
    /\ facts' = FactsOf(Restricted(payload.entries, seen'))
    /\ UNCHANGED payload

Terminating == pc = "done" /\ UNCHANGED vars

Next == NewData \/ LoadData \/ Terminating

Spec == Init /\ [][Next]_vars

-----------------------------------------------------------------------------
(* Properties                                                              *)

Numbers == facts.aperture \cup facts.exposureSeconds \cup facts.focalLengthMm
           \cup facts.latitude \cup facts.longitude \cup facts.altitudeMeters

\* Every fact is a finite number or absent: a denominator of zero, or bytes
\* behind an entry, never make one.
TypeOK ==
    /\ pc \in {"start", "load", "done"}
    /\ seen \subseteq DOMAIN payload.entries
    /\ \A q \in Numbers : q.num \in Int /\ q.den \in Nat \ {0}
    /\ facts.iso \subseteq Nat

\* A position is whole or absent: two coordinates, each within its own range
\* and on the side its own reference names, or none - whichever of the four
\* tags is missing, malformed or refers to the other axis.
PositionWhole ==
    /\ facts.latitude = {} <=> facts.longitude = {}
    /\ \A q \in facts.latitude :
           /\ -90 * q.den <= q.num /\ q.num <= 90 * q.den
           /\ q.num < 0 => Hemisphere(payload.entries, "LatitudeRef") = {"S"}
           /\ q.num > 0 => Hemisphere(payload.entries, "LatitudeRef") = {"N"}
    /\ \A q \in facts.longitude :
           /\ -180 * q.den <= q.num /\ q.num <= 180 * q.den
           /\ q.num < 0 => Hemisphere(payload.entries, "LongitudeRef") = {"W"}
           /\ q.num > 0 => Hemisphere(payload.entries, "LongitudeRef") = {"E"}

\* The tags without which a fact is absent.
Needs == [make |-> {"Make"}, model |-> {"Model"}, lens |-> {"LensModel"}, aperture |-> {"FNumber"},
          exposureSeconds |-> {"ExposureTime"}, focalLengthMm |-> {"FocalLength"},
          iso |-> {"ISOSpeedRatings"},
          latitude |-> {"Latitude", "LatitudeRef", "Longitude", "LongitudeRef"},
          longitude |-> {"Latitude", "LatitudeRef", "Longitude", "LongitudeRef"},
          altitudeMeters |-> {"Altitude"}]
Magnitudes(values) == {[q EXCEPT !.num = IF q.num < 0 THEN -q.num ELSE q.num] : q \in values}

\* "Metadata is best effort: absent or malformed tags remain absent"
\* (README.md), and only they: losing one tag takes away the facts that need
\* it, and changes no other fact, save the sign of an altitude.
BestEffort ==
    pc = "done" =>
        \A tag \in seen :
            LET without == FactsOf(Restricted(payload.entries, seen \ {tag}))
            IN  \A fact \in DOMAIN facts :
                    IF tag \in Needs[fact] THEN without[fact] = {}
                    ELSE IF <<tag, fact>> = <<"AltitudeRef", "altitudeMeters">>
                    THEN without[fact] = Magnitudes(facts[fact])
                    ELSE without[fact] = facts[fact]

-----------------------------------------------------------------------------
(* A statement of the repository that the code does not keep               *)

\* "skipped, not truncated, so libexif never sees partial offsets"
\* (metadata.cpp): libexif is given all of the payload it is given any of.
NeverTruncated ==
    pc = "done" /\ seen # {} =>
        \A tag \in DOMAIN payload.entries : payload.entries[tag].end <= payload.length => tag \in seen

=============================================================================
