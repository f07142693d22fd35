--------------------------- MODULE FieldIntervals ---------------------------
(***************************************************************************)
(* What a cell of voxels can know of a body without resolving it           *)
(* (crates/substrate/src/interval/field_interval.rs and                    *)
(* solids/scoped_cell_classification.rs, and the cell_field_interval of    *)
(* the producers in crates/document/src): an interval that bounds the      *)
(* field over the cell, and how two intervals, or two sets of voxels,      *)
(* combine under the operations of the ordered fold.                       *)
(*                                                                         *)
(* Space is one axis: a leaf's box, a block and the chunk are half-open    *)
(* ranges of voxels.  Fields are measured in eighths of a voxel, and one   *)
(* eighth stands for the unit in the last place.                           *)
(***************************************************************************)
EXTENDS Integers, Sequences, FiniteSets

CONSTANTS
  Producers,      \* the bodies a leaf may resolve
  Kind,           \* of a producer: "sphere", "sdf" (any other solid),
                  \* "sketch" or "body" (no field)
  Box,            \* of a producer: its world box, <<low, high>> voxels
  Field,          \* of a producer: its signed field at every point
  SemiAxes,       \* of a sphere: its smallest and its largest semi-axis
  Gauge,          \* of a sphere: how far a point, with the axes scaled to a
                  \* ball of the smallest, lies from it, at every point
  Proven,         \* <<producer, cell>>: the cells a sketch proves solid
  Material,       \* of a producer: the block id it stamps, or NoMaterial
  OwnId,          \* of a producer: the id its voxels bring themselves
  Overlay,        \* of a producer: the on-face-grid flag of its node
  Density,        \* voxels_per_block
  ChunkBlocks,    \* CHUNK_BLOCKS
  NoMaterial, Empty, Nothing

Operations == {"union", "subtract", "intersect"}
Chunk == <<0, ChunkBlocks * Density>>
Blocks == {<<b * Density, (b + 1) * Density>> : b \in 0 .. ChunkBlocks - 1}
Cells == Blocks \cup {Chunk}
VoxelsOf(cell) == cell[1] .. cell[2] - 1
Points == 0 .. 8 * ChunkBlocks * Density
Center(v) == 8 * v + 4
Ids == {OwnId[p] : p \in Producers} \cup ({Material[p] : p \in Producers} \ {NoMaterial})
Stamps == [id : Ids, overlay : BOOLEAN]

Overlaps(box, cell) == box[1] < cell[2] /\ cell[1] < box[2]
Encloses(box, cell) == box[1] <= cell[1] /\ cell[2] <= box[2]
Distance(a, b) == IF a < b THEN b - a ELSE a - b
Least(a, b) == IF a < b THEN a ELSE b
Greatest(a, b) == IF a < b THEN b ELSE a

Covers(p, v) == Box[p][1] <= v /\ v < Box[p][2] /\ Field[p][Center(v)] <= 0

ASSUME GridAssumption ==
  Density \in Nat \ {0} /\ ChunkBlocks \in Nat \ {0}
ASSUME ProducerAssumption ==
  /\ Kind \in [Producers -> {"sphere", "sdf", "sketch", "body"}]
  /\ Box \in [Producers -> Int \X Int]
  /\ \A p \in Producers : Field[p] \in [Points -> Int]
  /\ Overlay \in [Producers -> BOOLEAN]
(* The fields are positive outside their boxes, and all but the spheres'   *)
(* change no faster than the distance travelled; a sketch's is at least    *)
(* its distance to the box, and what a sketch proves of a cell is so.      *)
IsSteady(field) == \A a, b \in Points : Distance(field[a], field[b]) <= Distance(a, b)
ASSUME FieldAssumption ==
  \A p \in Producers : Kind[p] # "body" =>
    /\ Kind[p] # "sphere" => IsSteady(Field[p])
    /\ \A v \in VoxelsOf(Chunk) :
         v < Box[p][1] \/ Box[p][2] <= v => Field[p][Center(v)] > 0
ASSUME SketchAssumption ==
  \A p \in Producers : Kind[p] = "sketch" =>
    /\ \A v \in VoxelsOf(Chunk) :
         /\ Field[p][Center(v)] >= 8 * Box[p][1] - Center(v)
         /\ Field[p][Center(v)] >= Center(v) - 8 * Box[p][2]
    /\ \A cell \in Cells : <<p, cell>> \in Proven =>
         \A v \in VoxelsOf(cell) : Field[p][Center(v)] <= 0
(* A sphere's box may have unlike sides.  Its field is the gauge times a   *)
(* factor between one and largest / smallest, which may leap from point to *)
(* point (signed_distance_ellipsoid: the gauge is smallest times           *)
(* distance_to_unit - 1, the factor distance_to_unit / gradient over       *)
(* smallest, and one at the very middle).  A gauge is steady; a field of   *)
(* unlike axes need not be.  With an axis of length zero it is anything.   *)
ASSUME SphereAssumption ==
  \A p \in Producers : Kind[p] = "sphere" =>
    /\ SemiAxes[p] \in Nat \X Nat /\ SemiAxes[p][1] <= SemiAxes[p][2]
    /\ SemiAxes[p][1] > 0 =>
         /\ Gauge[p] \in [Points -> Int] /\ IsSteady(Gauge[p])
         /\ \A x \in Points :
              /\ Field[p][x] <= 0 <=> Gauge[p][x] <= 0
              /\ Distance(Gauge[p][x], 0) <= Distance(Field[p][x], 0)
              /\ SemiAxes[p][1] * Distance(Field[p][x], 0) <= SemiAxes[p][2] * Distance(Gauge[p][x], 0)
(* What is proven of a cell is proven of the cells in it.                  *)
ASSUME ProofAssumption ==
  \A p \in Producers : <<p, Chunk>> \in Proven => \A cell \in Blocks : <<p, cell>> \in Proven
ASSUME SentinelAssumption ==
  /\ Empty \notin Int \X Int
  /\ Nothing \notin Stamps

-----------------------------------------------------------------------------
(* FieldInterval: <<minimum, maximum>>.                                    *)

FromLipschitzCenter(center, radius) == <<center - radius - 1, center + radius + 1>>

UnionOf(a, b) == <<Least(a[1], b[1]), Least(a[2], b[2])>>
IntersectOf(a, b) == <<Greatest(a[1], b[1]), Greatest(a[2], b[2])>>
Negated(a) == <<-a[2], -a[1]>>
SubtractOf(a, b) == IntersectOf(a, Negated(b))

(* A solid's field over the whole box of the cell, from its middle.  The   *)
(* radius of a sphere is widened by how unlike its axes are; one with an   *)
(* axis of length zero has no interval.                                    *)
HasInterval(p) == Kind[p] # "body" /\ (Kind[p] = "sphere" => SemiAxes[p][1] > 0)
IsStretched(p) == Kind[p] = "sphere" /\ SemiAxes[p][1] # SemiAxes[p][2]
AsItIs(p, radius) == radius
Widened(p, radius) ==
  IF Kind[p] = "sphere" THEN (SemiAxes[p][2] * radius) \div SemiAxes[p][1] ELSE radius
SdfInterval(p, cell) ==
  FromLipschitzCenter(Field[p][4 * (cell[1] + cell[2])], Widened(p, 4 * (cell[2] - cell[1])))

(* A sketch's over the span of the samples, raised by how far the span     *)
(* lies from the box and closed at zero where the cell is proven solid.    *)
Clearance(p, cell) ==
  Greatest(8 * Box[p][1] - Center(cell[2] - 1), Center(cell[1]) - 8 * Box[p][2])
Raised(low, clearance) == IF clearance > 0 THEN Greatest(low, clearance) ELSE low
ProvablySolid(p, cell) == Encloses(Box[p], cell) /\ <<p, cell>> \in Proven
SketchInterval(p, cell) ==
  LET bracket == FromLipschitzCenter(Field[p][4 * (cell[1] + cell[2])],
                                     4 * (cell[2] - cell[1]) - 4)
  IN  <<Raised(bracket[1], Clearance(p, cell)),
        IF ProvablySolid(p, cell) THEN Least(bracket[2], 0) ELSE bracket[2]>>

CellFieldInterval(p, cell) ==
  IF Kind[p] = "sketch" THEN SketchInterval(p, cell) ELSE SdfInterval(p, cell)

(* fold_into, and the close of a scope that composed nothing.              *)
IntervalInto(running, operand, operation) ==
  CASE operand = Empty -> IF operation = "intersect" THEN Empty ELSE running
    [] operand # Empty /\ running = Empty ->
         IF operation = "union" THEN operand ELSE Empty
    [] OTHER ->
         CASE operation = "union" -> UnionOf(running, operand)
           [] operation = "subtract" -> SubtractOf(running, operand)
           [] OTHER -> IntersectOf(running, operand)

(* The voxels: a union writes over, the masks only remove.                 *)
VoxelsInto(body, operand, operation) ==
  [v \in DOMAIN body |->
     CASE operation = "union" -> IF operand[v] # Nothing THEN operand[v] ELSE body[v]
       [] operation = "subtract" -> IF operand[v] # Nothing THEN Nothing ELSE body[v]
       [] OTHER -> IF operand[v] # Nothing THEN body[v] ELSE Nothing]

StampOf(p) ==
  [id |-> IF Material[p] = NoMaterial THEN OwnId[p] ELSE Material[p],
   overlay |-> Overlay[p]]
BodyOf(p, cell) == [v \in VoxelsOf(cell) |-> IF Covers(p, v) THEN StampOf(p) ELSE Nothing]
NoVoxels(cell) == [v \in VoxelsOf(cell) |-> Nothing]
IsEmptyBody(body) == \A v \in DOMAIN body : body[v] = Nothing
IsFullBody(body) == \A v \in DOMAIN body : body[v] # Nothing

=============================================================================
