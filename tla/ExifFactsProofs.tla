--------------------------- MODULE ExifFactsProofs ---------------------------
(***************************************************************************)
(* ExifFacts for every payload: facts are numbers, a position is whole or  *)
(* absent, and a tag that is lost costs only the facts that need it.       *)
(***************************************************************************)
EXTENDS ExifFacts, TLAPS

Rationals == [num : Nat, den : Nat \ {0}]

\* What libexif keeps of a payload.
IsData(data) == \A tag \in DOMAIN data : IsEntry(data[tag])

\* The facts are those of the tags that were loaded.
IInv ==
    /\ pc \in {"start", "load", "done"}
    /\ payload \in Payloads
    /\ seen \subseteq DOMAIN payload.entries
    /\ facts = FactsOf(Restricted(payload.entries, seen))

-----------------------------------------------------------------------------
(* The helpers of parseExif                                                *)

\* There is at most one entry for a tag, and it is as libexif keeps it.
LEMMA EntryIs ==
    ASSUME NEW data, IsData(data), NEW tag, NEW e \in Entry(data, tag)
    PROVE  IsEntry(e) /\ e = data[tag]
BY DEF Entry, IsData

\* A rational is what is behind its two checks: a fraction of naturals whose
\* denominator is not zero, and at most one.
LEMMA RationalIs ==
    ASSUME NEW data, IsData(data), NEW tag, NEW index \in Nat \ {0}
    PROVE  /\ Rational(data, tag, index) \subseteq Rationals
           /\ \A q, r \in Rational(data, tag, index) : q = r
<1>1. ASSUME NEW q \in Rational(data, tag, index) PROVE q \in Rationals /\ q = data[tag].values[index]
  <2>1. PICK e \in Entry(data, tag) :
            /\ e.format = "rational" /\ index <= e.components /\ Width.rational * index <= e.size
            /\ e.values[index].den # 0
            /\ q = e.values[index]
    BY DEF Rational
  <2>2. IsEntry(e) /\ e = data[tag]
    BY <2>1, EntryIs
  <2>3. index \in 1..e.components
    BY <2>1, <2>2 DEF IsEntry
  <2>4. q \in [num : Nat, den : Nat]
    BY <2>1, <2>2, <2>3 DEF IsEntry, IsValue
  <2> QED
    BY <2>1, <2>2, <2>4 DEF Rationals
<1> QED
  BY <1>1

\* An integer is a natural.
LEMMA IntegerIs ==
    ASSUME NEW data, IsData(data), NEW tag
    PROVE  Integer(data, tag) \subseteq Nat
<1> SUFFICES ASSUME NEW n \in Integer(data, tag) PROVE n \in Nat
  OBVIOUS
<1>1. PICK e \in Entry(data, tag) :
          /\ e.format \in {"byte", "short", "long"}
          /\ e.components > 0 /\ Width[e.format] <= e.size
          /\ n = e.values[1]
  BY DEF Integer
<1>2. IsEntry(e)
  BY <1>1, EntryIs
<1>3. 1 \in 1..e.components
  BY <1>1, <1>2 DEF IsEntry
<1>4. Width[e.format] * 1 <= e.size
  BY <1>1 DEF Width
<1> QED
  BY <1>1, <1>2, <1>3, <1>4 DEF IsEntry, IsValue

LEMMA ProductPositive ==
    ASSUME NEW m \in Nat \ {0}, NEW n \in Nat \ {0}
    PROVE  m * n \in Nat \ {0}
OBVIOUS

LEMMA ProductNatural ==
    ASSUME NEW m \in Nat, NEW n \in Nat
    PROVE  m * n \in Nat
OBVIOUS

\* Degrees, minutes and seconds add up to a rational.
LEMMA DegreesIs ==
    ASSUME NEW d \in Rationals, NEW m \in Rationals, NEW s \in Rationals
    PROVE  Degrees(d, m, s) \in Rationals
<1>1. /\ {d.num, m.num, s.num} \subseteq Nat
      /\ d.den \in Nat \ {0} /\ m.den \in Nat \ {0} /\ s.den \in Nat \ {0}
  BY DEF Rationals
<1>2. 3600 * d.den * m.den * s.den \in Nat \ {0}
  BY <1>1, ProductPositive
<1>3. /\ 3600 * d.num * m.den * s.den \in Nat
      /\ 60 * m.num * d.den * s.den \in Nat
      /\ s.num * d.den * m.den \in Nat
  BY <1>1, ProductNatural
<1> QED
  BY <1>2, <1>3 DEF Degrees, Rationals

\* A coordinate is a rational within its range.
LEMMA CoordinateIs ==
    ASSUME NEW data, IsData(data), NEW tag, NEW limit \in Nat
    PROVE  Coordinate(data, tag, limit) \subseteq {q \in Rationals : q.num <= limit * q.den}
<1> SUFFICES ASSUME NEW q \in Coordinate(data, tag, limit)
             PROVE  q \in Rationals /\ q.num <= limit * q.den
  OBVIOUS
<1>1. PICK d \in Rational(data, tag, 1), m \in Rational(data, tag, 2), s \in Rational(data, tag, 3) :
          q = Degrees(d, m, s)
  BY DEF Coordinate
<1>2. d \in Rationals /\ m \in Rationals /\ s \in Rationals
  BY RationalIs
<1> QED
  BY <1>1, <1>2, DegreesIs DEF Coordinate, AtMost

\* A reference names at most one hemisphere.
LEMMA HemisphereIs ==
    ASSUME NEW data, NEW tag
    PROVE  \A v, w \in Hemisphere(data, tag) : v = w
BY DEF Hemisphere, Ascii, Entry

\* What is loaded is a part of the payload, entry by entry.
LEMMA RestrictedIs ==
    ASSUME NEW data, NEW tags, NEW tag
    PROVE  Entry(Restricted(data, tags), tag) = IF tag \in tags THEN Entry(data, tag) ELSE {}
BY DEF Entry, Restricted

\* Any part of a payload is data as libexif keeps it.
LEMMA LoadedIs ==
    ASSUME NEW p \in Payloads, NEW tags
    PROVE  IsData(Restricted(p.entries, tags))
BY PayloadsAssumption DEF IsData, Restricted

-----------------------------------------------------------------------------
(* The invariant                                                           *)

LEMMA InitIInv == Init => IInv
<1> SUFFICES ASSUME Init PROVE IInv
  OBVIOUS
<1>1. Restricted(payload.entries, {}) = Nothing
  BY DEF Restricted, Nothing
<1> QED
  BY <1>1 DEF Init, IInv

LEMMA NextIInv == IInv /\ [Next]_vars => IInv'
<1> SUFFICES ASSUME IInv, [Next]_vars PROVE IInv'
  OBVIOUS
<1>1. CASE NewData
  BY <1>1 DEF NewData, IInv
<1>2. CASE LoadData
  BY <1>2 DEF LoadData, IInv
<1>3. CASE UNCHANGED vars
  BY <1>3 DEF vars, IInv
<1> QED
  BY <1>1, <1>2, <1>3 DEF Next, Terminating

\* The facts are at every moment those of the tags loaded so far.
THEOREM Invariance == Spec => []IInv
BY InitIInv, NextIInv, PTL DEF Spec

-----------------------------------------------------------------------------
(* Types                                                                   *)

\* What the numbers among the facts are made of.
LEMMA NumbersAre ==
    ASSUME NEW data, IsData(data), NEW f, f = FactsOf(data)
    PROVE  /\ \A q \in f.aperture \cup f.exposureSeconds \cup f.focalLengthMm \cup f.latitude
                       \cup f.longitude \cup f.altitudeMeters :
                  q.num \in Int /\ q.den \in Nat \ {0}
           /\ f.iso \subseteq Nat
<1>1. f.aperture \cup f.exposureSeconds \cup f.focalLengthMm \subseteq Rationals
  BY RationalIs DEF FactsOf
<1>2. ASSUME NEW q \in f.latitude PROVE q.num \in Int /\ q.den \in Nat \ {0}
  <2>1. PICK r \in Coordinate(data, "Latitude", 90) : q = Signed(r, "S" \in Hemisphere(data, "LatitudeRef"))
    BY <1>2 DEF FactsOf
  <2> QED
    BY <2>1, CoordinateIs DEF Signed, Rationals
<1>3. ASSUME NEW q \in f.longitude PROVE q.num \in Int /\ q.den \in Nat \ {0}
  <2>1. PICK r \in Coordinate(data, "Longitude", 180) : q = Signed(r, "W" \in Hemisphere(data, "LongitudeRef"))
    BY <1>3 DEF FactsOf
  <2> QED
    BY <2>1, CoordinateIs DEF Signed, Rationals
<1>4. ASSUME NEW q \in f.altitudeMeters PROVE q.num \in Int /\ q.den \in Nat \ {0}
  <2>1. PICK r \in Rational(data, "Altitude", 1) : q = Signed(r, 1 \in Integer(data, "AltitudeRef"))
    BY <1>4 DEF FactsOf, Altitude
  <2> QED
    BY <2>1, RationalIs DEF Signed, Rationals
<1>5. f.iso \subseteq Nat
  BY IntegerIs DEF FactsOf
<1> QED
  BY <1>1, <1>2, <1>3, <1>4, <1>5 DEF Rationals

\* Every fact is a finite number or absent, whatever an entry's components,
\* size and denominators are.
THEOREM TypeCorrect == Spec => []TypeOK
<1>1. ASSUME IInv PROVE TypeOK
  <2>1. IsData(Restricted(payload.entries, seen))
    BY <1>1, LoadedIs DEF IInv
  <2> QED
    BY <1>1, <2>1, NumbersAre DEF IInv, TypeOK, Numbers
<1> QED
  BY <1>1, Invariance, PTL

-----------------------------------------------------------------------------
(* Positions                                                               *)

\* A reference that was loaded is the reference of the payload.
LEMMA HemisphereLoaded ==
    ASSUME NEW data, NEW tags, NEW ref, Hemisphere(Restricted(data, tags), ref) # {}
    PROVE  Hemisphere(Restricted(data, tags), ref) = Hemisphere(data, ref)
BY RestrictedIs DEF Hemisphere, Ascii

\* A position is whole, in range and in its own hemispheres, or absent.
THEOREM PositionsWhole == Spec => []PositionWhole
<1>1. ASSUME IInv PROVE PositionWhole
  <2> DEFINE data == Restricted(payload.entries, seen)
  <2>1. IsData(data) /\ facts = FactsOf(data)
    BY <1>1, LoadedIs DEF IInv
  <2>2. CASE ~Located(data)
    <3>1. facts.latitude = {} /\ facts.longitude = {}
      BY <2>1, <2>2 DEF FactsOf
    <3> QED
      BY <3>1 DEF PositionWhole
  <2>3. CASE Located(data)
    <3> HIDE DEF data
    <3>1. /\ Coordinate(data, "Latitude", 90) # {}
          /\ Coordinate(data, "Longitude", 180) # {}
          /\ Hemisphere(data, "LatitudeRef") \cap {"N", "S"} # {}
          /\ Hemisphere(data, "LongitudeRef") \cap {"E", "W"} # {}
      BY <2>3 DEF Located
    <3>2. /\ Hemisphere(data, "LatitudeRef") = Hemisphere(payload.entries, "LatitudeRef")
          /\ Hemisphere(data, "LongitudeRef") = Hemisphere(payload.entries, "LongitudeRef")
      BY <3>1, HemisphereLoaded DEF data
    <3>3. /\ facts.latitude = {Signed(q, "S" \in Hemisphere(data, "LatitudeRef")) :
                                   q \in Coordinate(data, "Latitude", 90)}
          /\ facts.longitude = {Signed(q, "W" \in Hemisphere(data, "LongitudeRef")) :
                                    q \in Coordinate(data, "Longitude", 180)}
      BY <2>1, <2>3 DEF FactsOf
    <3>4. ASSUME NEW q \in facts.latitude
          PROVE  /\ -90 * q.den <= q.num /\ q.num <= 90 * q.den
                 /\ q.num < 0 => Hemisphere(data, "LatitudeRef") = {"S"}
                 /\ q.num > 0 => Hemisphere(data, "LatitudeRef") = {"N"}
      <4>1. PICK r \in Coordinate(data, "Latitude", 90) :
                q = Signed(r, "S" \in Hemisphere(data, "LatitudeRef"))
        BY <3>3
      <4>2. /\ r \in Rationals /\ r.num <= 90 * r.den
            /\ q.den = r.den
            /\ q.num = IF "S" \in Hemisphere(data, "LatitudeRef") THEN -r.num ELSE r.num
        BY <2>1, <4>1, CoordinateIs DEF Signed, Rationals
      <4>3. -90 * q.den <= q.num /\ q.num <= 90 * q.den
        BY <4>2 DEF Rationals
      <4>4. Hemisphere(data, "LatitudeRef") = {"S"} \/ Hemisphere(data, "LatitudeRef") = {"N"}
        BY <3>1, HemisphereIs
      <4> QED
        BY <4>2, <4>3, <4>4 DEF Rationals
    <3>5. ASSUME NEW q \in facts.longitude
          PROVE  /\ -180 * q.den <= q.num /\ q.num <= 180 * q.den
                 /\ q.num < 0 => Hemisphere(data, "LongitudeRef") = {"W"}
                 /\ q.num > 0 => Hemisphere(data, "LongitudeRef") = {"E"}
      <4>1. PICK r \in Coordinate(data, "Longitude", 180) :
                q = Signed(r, "W" \in Hemisphere(data, "LongitudeRef"))
        BY <3>3
      <4>2. /\ r \in Rationals /\ r.num <= 180 * r.den
            /\ q.den = r.den
            /\ q.num = IF "W" \in Hemisphere(data, "LongitudeRef") THEN -r.num ELSE r.num
        BY <2>1, <4>1, CoordinateIs DEF Signed, Rationals
      <4>3. -180 * q.den <= q.num /\ q.num <= 180 * q.den
        BY <4>2 DEF Rationals
      <4>4. Hemisphere(data, "LongitudeRef") = {"W"} \/ Hemisphere(data, "LongitudeRef") = {"E"}
        BY <3>1, HemisphereIs
      <4> QED
        BY <4>2, <4>3, <4>4 DEF Rationals
    <3>6. facts.latitude # {} /\ facts.longitude # {}
      BY <3>1, <3>3
    <3> QED
      BY <3>2, <3>4, <3>5, <3>6 DEF PositionWhole
  <2> QED
    BY <2>2, <2>3
<1> QED
  BY <1>1, Invariance, PTL

-----------------------------------------------------------------------------
(* Best effort                                                             *)

\* What is told from a tag is told from its entry alone.
LEMMA SameEntry ==
    ASSUME NEW data, NEW other, NEW tag, Entry(data, tag) = Entry(other, tag)
    PROVE  /\ Ascii(data, tag) = Ascii(other, tag)
           /\ Hemisphere(data, tag) = Hemisphere(other, tag)
           /\ Integer(data, tag) = Integer(other, tag)
           /\ \A index : Rational(data, tag, index) = Rational(other, tag, index)
           /\ \A limit : Coordinate(data, tag, limit) = Coordinate(other, tag, limit)
<1>1. \A index : Rational(data, tag, index) = Rational(other, tag, index)
  BY DEF Rational
<1> QED
  BY <1>1 DEF Ascii, Hemisphere, Integer, Coordinate

\* Nothing is told from a tag without an entry.
LEMMA NoEntry ==
    ASSUME NEW data, NEW tag, Entry(data, tag) = {}
    PROVE  /\ Ascii(data, tag) = {}
           /\ Hemisphere(data, tag) = {}
           /\ Integer(data, tag) = {}
           /\ \A index : Rational(data, tag, index) = {}
           /\ \A limit : Coordinate(data, tag, limit) = {}
<1>1. \A index : Rational(data, tag, index) = {}
  BY DEF Rational
<1> QED
  BY <1>1 DEF Ascii, Hemisphere, Integer, Coordinate

\* A damaged tag costs the facts that need it, and no other.
THEOREM MetadataIsBestEffort == Spec => []BestEffort
<1>1. ASSUME IInv, NEW tag \in seen
      PROVE  LET without == FactsOf(Restricted(payload.entries, seen \ {tag}))
             IN  \A fact \in DOMAIN facts :
                     IF tag \in Needs[fact] THEN without[fact] = {}
                     ELSE IF <<tag, fact>> = <<"AltitudeRef", "altitudeMeters">>
                     THEN without[fact] = Magnitudes(facts[fact])
                     ELSE without[fact] = facts[fact]
  <2> DEFINE data == Restricted(payload.entries, seen)
             rest == Restricted(payload.entries, seen \ {tag})
             without == FactsOf(rest)
             Kept(fact) == IF tag \in Needs[fact] THEN without[fact] = {} ELSE without[fact] = facts[fact]
  <2>0. IsData(data) /\ facts = FactsOf(data)
    BY <1>1, LoadedIs DEF IInv
  <2>1. ASSUME NEW other PROVE Entry(rest, other) = IF other = tag THEN {} ELSE Entry(data, other)
    BY RestrictedIs
  <2> HIDE DEF data, rest
  <2>2. ASSUME NEW other, other # tag
        PROVE  /\ Ascii(rest, other) = Ascii(data, other)
               /\ Hemisphere(rest, other) = Hemisphere(data, other)
               /\ Integer(rest, other) = Integer(data, other)
               /\ \A index : Rational(rest, other, index) = Rational(data, other, index)
               /\ \A limit : Coordinate(rest, other, limit) = Coordinate(data, other, limit)
    BY <2>1, <2>2, SameEntry
  <2>3. /\ Ascii(rest, tag) = {}
        /\ Hemisphere(rest, tag) = {}
        /\ Integer(rest, tag) = {}
        /\ \A index : Rational(rest, tag, index) = {}
        /\ \A limit : Coordinate(rest, tag, limit) = {}
    BY <2>1, NoEntry
  <2>4. Kept("make") /\ Kept("model") /\ Kept("lens")
    BY <2>0, <2>2, <2>3 DEF FactsOf, Needs
  <2>5. Kept("aperture") /\ Kept("exposureSeconds") /\ Kept("focalLengthMm") /\ Kept("iso")
    BY <2>0, <2>2, <2>3 DEF FactsOf, Needs
  <2>6. Kept("latitude") /\ Kept("longitude")
    <3>1. CASE tag \in {"Latitude", "LatitudeRef", "Longitude", "LongitudeRef"}
      <4>1. ~Located(rest)
        BY <2>3, <3>1 DEF Located
      <4> QED
        BY <4>1, <3>1 DEF FactsOf, Needs
    <3>2. CASE tag \notin {"Latitude", "LatitudeRef", "Longitude", "LongitudeRef"}
      <4>1. /\ Hemisphere(rest, "LatitudeRef") = Hemisphere(data, "LatitudeRef")
            /\ Hemisphere(rest, "LongitudeRef") = Hemisphere(data, "LongitudeRef")
            /\ Coordinate(rest, "Latitude", 90) = Coordinate(data, "Latitude", 90)
            /\ Coordinate(rest, "Longitude", 180) = Coordinate(data, "Longitude", 180)
        BY <2>2, <3>2
      <4>2. Located(rest) = Located(data)
        BY <4>1 DEF Located
      <4> QED
        BY <2>0, <4>1, <4>2, <3>2, ZenonT(60) DEF FactsOf, Needs
    <3> QED
      BY <3>1, <3>2
  <2>7. tag = "AltitudeRef" => without.altitudeMeters = Magnitudes(facts.altitudeMeters)
    <3> SUFFICES ASSUME tag = "AltitudeRef" PROVE without.altitudeMeters = Magnitudes(facts.altitudeMeters)
      OBVIOUS
    <3> DEFINE heights == Rational(data, "Altitude", 1)
    <3>1. Integer(rest, "AltitudeRef") = {} /\ Rational(rest, "Altitude", 1) = heights
      BY <2>2, <2>3
    <3>2. without.altitudeMeters = heights
      BY <3>1 DEF FactsOf, Altitude, Signed
    <3>3. facts.altitudeMeters = Altitude(data)
      BY <2>0 DEF FactsOf
    <3>4. \A q \in heights : q.num \in Nat /\ q = [num |-> q.num, den |-> q.den]
      BY <2>0, RationalIs DEF Rationals
    <3> HIDE DEF heights
    <3>5. CASE 1 \in Integer(data, "AltitudeRef")
      <4> DEFINE Below(q) == [num |-> -q.num, den |-> q.den]
                 Mag(q) == [q EXCEPT !.num = IF q.num < 0 THEN -q.num ELSE q.num]
      <4>1. ASSUME NEW q \in heights
            PROVE  Signed(q, 1 \in Integer(data, "AltitudeRef")) = Below(q)
        BY <3>4, <3>5 DEF Signed
      <4>2. ASSUME NEW q \in heights PROVE Mag(Below(q)) = q
        <5>1. (IF -q.num < 0 THEN -(-q.num) ELSE -q.num) = q.num
          BY <3>4
        <5> QED
          BY <3>4, <5>1
      <4>3. Magnitudes(Altitude(data)) = {Mag(p) : p \in Altitude(data)}
        BY DEF Magnitudes
      <4>4. Altitude(data) = {Signed(q, 1 \in Integer(data, "AltitudeRef")) : q \in heights}
        BY DEF Altitude, heights
      <4> HIDE DEF Mag, Below
      <4>5. Altitude(data) = {Below(q) : q \in heights}
        BY <4>1, <4>4
      <4>6. Magnitudes(Altitude(data)) = heights
        BY <4>2, <4>3, <4>5
      <4> QED
        BY <3>2, <3>3, <4>6
    <3>6. CASE 1 \notin Integer(data, "AltitudeRef")
      <4>1. Altitude(data) = heights
        BY <3>6 DEF Altitude, Signed, heights
      <4>2. ASSUME NEW q \in heights
            PROVE  [q EXCEPT !.num = IF q.num < 0 THEN -q.num ELSE q.num] = q
        BY <3>4
      <4>3. Magnitudes(heights) = heights
        BY <4>2 DEF Magnitudes
      <4> QED
        BY <3>2, <3>3, <4>1, <4>3
    <3> QED
      BY <3>5, <3>6
  <2>8. tag # "AltitudeRef" => Kept("altitudeMeters")
    BY <2>0, <2>2, <2>3 DEF FactsOf, Altitude, Needs
  <2>9. DOMAIN facts = {"make", "model", "lens", "aperture", "exposureSeconds", "focalLengthMm", "iso",
                        "latitude", "longitude", "altitudeMeters"}
    BY <2>0 DEF FactsOf
  <2>10. tag = "AltitudeRef" => tag \notin Needs["altitudeMeters"]
    BY DEF Needs
  <2> SUFFICES ASSUME NEW fact \in DOMAIN facts
               PROVE  IF tag \in Needs[fact] THEN without[fact] = {}
                      ELSE IF <<tag, fact>> = <<"AltitudeRef", "altitudeMeters">>
                      THEN without[fact] = Magnitudes(facts[fact])
                      ELSE without[fact] = facts[fact]
    BY DEF rest
  <2>11. CASE fact = "altitudeMeters"
    BY <2>7, <2>8, <2>10, <2>11
  <2>12. CASE fact # "altitudeMeters"
    <3>1. Kept(fact)
      BY <2>4, <2>5, <2>6, <2>9, <2>12
    <3> QED
      BY <3>1, <2>12
  <2> QED
    BY <2>11, <2>12
<1>2. IInv => BestEffort
  BY <1>1 DEF BestEffort
<1> QED
  BY <1>2, Invariance, PTL

=============================================================================
