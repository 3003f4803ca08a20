---------------------------- MODULE UpdateLayout ----------------------------
(***************************************************************************)
(* The bytes of an SMSG_UPDATE_OBJECT block (client/world.go).  Blocks     *)
(* follow one another with no length of their own, so every path through a *)
(* block has to consume exactly what the server wrote: the path that reads *)
(* it, the one that parses a unit's spline, and the one that skips it.     *)
(*                                                                         *)
(* An operator gives the number of bytes of a block with given contents:   *)
(* Written... of what the server writes (external), Read..., Parse... and  *)
(* Skip... of what the client consumes.                                    *)
(***************************************************************************)
EXTENDS Naturals

NodeCap == 1024    \* parseCreateSplineData reads no more spline nodes than this
SkipCap == 32      \* skipValuesUpdate reads no more mask blocks than this

\* A packed GUID is a mask byte and the bytes that are not zero; every path reads it
\* through readPackedGUID, so one width stands for all.
Packed == 5

(* The contents of a movement block: the part its update flags select, the
   optional parts behind it, the movement flags of a living object, and its spline. *)
Layouts ==
  [shape  : {"living", "position", "stationary", "none"},
   extras : SUBSET {"unknown", "lowguid", "target", "transport", "vehicle", "rotation"},
   move   : SUBSET {"ontransport", "interpolated", "pitch", "falling", "elevation",
                    "spline"},
   facing : {"none", "angle", "target", "point"},
   nodes  : Nat]

When(condition, bytes) == IF condition THEN bytes ELSE 0

-----------------------------------------------------------------------------
(***************************************************************************)
(* The server (external).                                                  *)
(***************************************************************************)

WrittenSpline(b) ==
  4 + When(b.facing = "angle", 4) + When(b.facing = "target", 8)
    + When(b.facing = "point", 12) + 28 + 4 + 12 * b.nodes + 1 + 12

WrittenLiving(b) ==
  10 + 16
     + When("ontransport" \in b.move,
            Packed + 21 + When("interpolated" \in b.move, 4))
     + When("pitch" \in b.move, 4) + 4
     + When("falling" \in b.move, 16) + When("elevation" \in b.move, 4)
     + 36 + When("spline" \in b.move, WrittenSpline(b))

WrittenMovement(b) ==
  2 + When(b.shape = "living", WrittenLiving(b))
    + When(b.shape = "position", Packed + 32)
    + When(b.shape = "stationary", 16)
    + When("unknown" \in b.extras, 4) + When("lowguid" \in b.extras, 4)
    + When("target" \in b.extras, Packed) + When("transport" \in b.extras, 4)
    + When("vehicle" \in b.extras, 8) + When("rotation" \in b.extras, 8)

\* "blocks" mask words, and as many values as they have bits: "low" in the first
\* SkipCap words, "high" in the others.
WrittenValues(blocks, low, high) == 1 + 4 * blocks + 4 * (low + high)

-----------------------------------------------------------------------------
(***************************************************************************)
(* The client, spline first.                                               *)
(***************************************************************************)

\* The facing field is one of three, tested in this order.
FacingBytes(b) ==
  IF b.facing = "angle" THEN 4
  ELSE IF b.facing = "target" THEN 8
  ELSE When(b.facing = "point", 12)

\* skipSplineData: the flags, the facing, three times and four 3.3.3 fields, the
\* nodes, the mode and the final point.
SkipSpline(b) == 4 + FacingBytes(b) + 3 * 4 + 4 * 4 + 4 + 12 * b.nodes + 1 + 12

\* parseCreateSplineData seeks over all nodes but the last, which it reads.
ParseSpline(b) ==
  LET nodes == IF b.nodes > NodeCap THEN NodeCap ELSE b.nodes
  IN  4 + FacingBytes(b) + 3 * 4 + 4 * 4 + 4
        + When(nodes > 1, 12 * (nodes - 1)) + When(nodes > 0, 12) + 1 + 12

TransportBytes(b) ==
  When("ontransport" \in b.move, Packed + 21 + When("interpolated" \in b.move, 4))

\* The living part of readMovementUpdate; "parses" for a unit other than the character.
ReadLiving(b, parses) ==
  4 + 2 + 4 + 4 * 4 + TransportBytes(b) + When("pitch" \in b.move, 4) + 4
    + When("falling" \in b.move, 16) + When("elevation" \in b.move, 4) + 9 * 4
    + When("spline" \in b.move, IF parses THEN ParseSpline(b) ELSE SkipSpline(b))

\* What follows the position: the same fields in both paths.
ExtraBytes(b) ==
  When("unknown" \in b.extras, 4) + When("lowguid" \in b.extras, 4)
    + When("target" \in b.extras, Packed) + When("transport" \in b.extras, 4)
    + When("vehicle" \in b.extras, 4 + 4) + When("rotation" \in b.extras, 8)

\* readMovementUpdate.
ReadMovement(b, parses) ==
  2 + (IF b.shape = "living" THEN ReadLiving(b, parses)
       ELSE IF b.shape = "position" THEN Packed + 3 * 4 + 3 * 4 + 4 + 4
       ELSE When(b.shape = "stationary", 3 * 4 + 4))
    + ExtraBytes(b)

\* skipMovementUpdate.
SkipMovement(b) ==
  2 + (IF b.shape = "living"
       THEN 10 + 16 + TransportBytes(b) + When("pitch" \in b.move, 4) + 4
              + When("falling" \in b.move, 16) + When("elevation" \in b.move, 4) + 36
              + When("spline" \in b.move, SkipSpline(b))
       ELSE IF b.shape = "position" THEN Packed + 32
       ELSE When(b.shape = "stationary", 16))
    + ExtraBytes(b)

\* readValuesUpdate reads every mask word and a value for every bit.
ReadValues(blocks, low, high) == 1 + 4 * blocks + 4 * (low + high)

\* skipValuesUpdate reads the first SkipCap mask words and seeks over the values of
\* their bits.
SkipValues(blocks, low, high) ==
  IF blocks > SkipCap THEN 1 + 4 * SkipCap + 4 * low ELSE 1 + 4 * blocks + 4 * low

=============================================================================
