---------------------------- MODULE UnitPosition -----------------------------
(***************************************************************************)
(* parseOrganizationUnitPosition of packages/models/organization-units:    *)
(* the EWKB of a PostGIS point, byte by byte.  A 32-bit word is the four   *)
(* bytes it is read from, most significant first.  Encodings that are not  *)
(* hexadecimal are refused before any byte and are left out.               *)
(***************************************************************************)
EXTENDS Naturals, Sequences, FiniteSets

CONSTANTS HeaderBytes,    \* values a damaged header byte may take
          MaxDamaged      \* bound on the number of header bytes damaged

VARIABLES origin,    \* the point that was encoded
          bytes,     \* what arrives
          damaged    \* the positions of the header that were changed

vars == <<origin, bytes, damaged>>

\* The coordinates are 16 bytes that can be told apart.
Coordinates == [i \in 1..16 |-> 100 + i]

Word(little, w) == IF little THEN <<w[4], w[3], w[2], w[1]>> ELSE w
Encoded(o) ==
    <<IF o.little THEN 1 ELSE 0>>
    \o Word(o.little, <<IF o.srid THEN 32 ELSE 0, 0, 0, 1>>)
    \o (IF o.srid THEN Word(o.little, <<0, 0, 16, 230>>) ELSE <<>>)
    \o Coordinates

Init ==
    /\ origin \in [little : BOOLEAN, srid : BOOLEAN]
    /\ bytes = Encoded(origin)
    /\ damaged = {}

Damage(i, b) ==
    /\ i <= Len(bytes) /\ Cardinality(damaged \cup {i}) <= MaxDamaged
    /\ bytes' = [bytes EXCEPT ![i] = b]
    /\ damaged' = damaged \cup {i}
    /\ UNCHANGED origin

Truncate ==
    /\ bytes # <<>>
    /\ bytes' = SubSeq(bytes, 1, Len(bytes) - 1)
    /\ UNCHANGED <<origin, damaged>>

Next == Truncate \/ \E i \in 1..9, b \in HeaderBytes : Damage(i, b)

Spec == Init /\ [][Next]_vars

-----------------------------------------------------------------------------
(* The parser *)

LittleEndian == bytes[1] = 1

\* view.getUint32(offset, littleEndian)
Uint32(offset) ==
    Word(LittleEndian, SubSeq(bytes, offset + 1, offset + 4))

GeometryType == Uint32(1)

IsPoint == GeometryType[4] = 1
HasSrid == (GeometryType[1] \div 32) % 2 = 1
CoordinateOffset == IF HasSrid THEN 9 ELSE 5

LongEnoughWithoutSrid == TRUE    \* Slip: the first test is taken for both layouts
LongEnough == Len(bytes) >= CoordinateOffset + 16

Accepted ==
    /\ Len(bytes) >= 21
    /\ bytes[1] \in {0, 1}
    /\ IsPoint
    /\ LongEnough
    /\ HasSrid => Uint32(5) = <<0, 0, 16, 230>>

\* The bytes of longitude and latitude, as far as the buffer has them.
Position ==
    [i \in 1..16 |-> IF CoordinateOffset + i <= Len(bytes) THEN bytes[CoordinateOffset + i] ELSE 0]

-----------------------------------------------------------------------------
(* Properties *)

\* What PostGIS writes, in either byte order, with or without the SRID, is
\* read back.
RoundTrip == bytes = Encoded(origin) => Accepted /\ Position = Coordinates

\* A value that was cut off anywhere, in either layout, is refused: it is never
\* read as a position that lacks bytes or takes them from elsewhere.  (A damaged
\* header may still describe another point, which no parser could notice.)
TruncationIsNoticed == damaged = {} /\ Accepted => Position = Coordinates
=============================================================================
