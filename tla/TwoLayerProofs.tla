-------------------------- MODULE TwoLayerProofs ---------------------------
(***************************************************************************)
(* Proofs about the two-layer evaluation, for every set of producers that  *)
(* keeps the promises of FieldAssumption, SphereAssumption and             *)
(* SketchAssumption, every density, chunk size, fixture and scene.         *)
(*                                                                         *)
(* A level of a fold is sound when its interval never says more than its   *)
(* voxels bear out.  A body brings a sound level, the three operations     *)
(* keep soundness, and so every step of every fold does.                   *)
(*                                                                         *)
(* That a chunk as built is what the document means is the agreement of    *)
(* the folds with the sealed stack, the stack that drops no leaf and       *)
(* closes each scope once.  A fold drops the leaves that do not reach its  *)
(* cell, so the two have different scopes open.  Seen at one voxel, they   *)
(* hold the same at every level whose scopes they share, and what each     *)
(* has open beyond comes to the same when it closes (SealInv).  A voxel's  *)
(* stamp is that of a leaf that covers it (StampInv), so the producer a    *)
(* verdict names is the one the voxels carry.  The argument tells scopes   *)
(* apart by their nodes, and the code gives two placements of a fixture    *)
(* the nodes of its definition: the theorems assume MaxPlacements <= 1.    *)
(*                                                                         *)
(* That a verdict on a whole chunk is the verdict on each of its blocks is *)
(* the nesting of intervals: where one additive leaf encloses the chunk,   *)
(* the chunk's interval claims solid only what every block's does          *)
(* (NestInv).  It assumes, of a sketch, that what is proven of a cell is   *)
(* proven of the cells in it (ProofAssumption).  The intervals of a        *)
(* stretched sphere do not nest, since its field may leap: where one       *)
(* reaches the chunk, soundness leaves a block the sweep would not call    *)
(* coarse full of the very stamp (CoarseIsSpelledOut).                     *)
(***************************************************************************)
EXTENDS TwoLayer, SequenceTheorems, FiniteSetTheorems, TLAPS

Intervals == (Int \X Int) \cup {Empty}
Bodies(cell) == [VoxelsOf(cell) -> Stamps \cup {Nothing}]
Levels(cell) == [interval : Intervals, body : Bodies(cell)]

(***************************************************************************)
(* Cells, and what a producer brings to one.                               *)
(***************************************************************************)

(* A cell is a range of voxels of the chunk, and not an empty one.         *)
LEMMA CellsAreRanges ==
  ASSUME NEW cell \in Cells
  PROVE  /\ cell[1] \in Nat /\ cell[2] \in Nat
         /\ cell[1] < cell[2] /\ cell[2] <= ChunkBlocks * Density
         /\ ChunkBlocks * Density \in Nat
<1>1. ChunkBlocks \in Nat \ {0} /\ Density \in Nat \ {0}
  BY GridAssumption
<1>2. ChunkBlocks * Density \in Nat \ {0}
  BY <1>1
<1>3. CASE cell = Chunk
  BY <1>2, <1>3 DEF Chunk
<1>4. CASE cell \in Blocks
  <2>1. PICK b \in 0 .. ChunkBlocks - 1 : cell = <<b * Density, (b + 1) * Density>>
    BY <1>4 DEF Blocks
  <2>2. b \in Nat /\ ChunkBlocks - (b + 1) \in Nat
    BY <1>1, <2>1
  <2>3. b * Density \in Nat /\ (b + 1) * Density = b * Density + Density
    BY <1>1, <2>2
  <2>4. (ChunkBlocks - (b + 1)) * Density \in Nat
    BY <1>1, <2>2
  <2>5. (ChunkBlocks - (b + 1)) * Density = ChunkBlocks * Density - (b + 1) * Density
    BY <1>1, <2>2
  <2> QED
    BY <1>1, <1>2, <2>1, <2>3, <2>4, <2>5
<1> QED
  BY <1>3, <1>4 DEF Cells

(* A voxel of a cell is a voxel of the chunk, and its center and the       *)
(* middle of the cell are points the fields are given at.                  *)
LEMMA CentersArePoints ==
  ASSUME NEW cell \in Cells, NEW v \in VoxelsOf(cell)
  PROVE  /\ v \in VoxelsOf(Chunk) /\ v \in Int /\ cell[1] <= v /\ v <= cell[2] - 1
         /\ Center(v) \in Points /\ 4 * (cell[1] + cell[2]) \in Points
<1> DEFINE top == ChunkBlocks * Density
<1>1. /\ cell[1] \in Nat /\ cell[2] \in Nat
      /\ cell[1] < cell[2] /\ cell[2] <= top /\ top \in Nat
  BY CellsAreRanges
<1>2. Chunk[1] = 0 /\ Chunk[2] = top
  BY DEF Chunk
<1>3. Points = 0 .. 8 * top
  <2>1. 8 * top = 8 * ChunkBlocks * Density
    BY GridAssumption
  <2> QED
    BY <2>1 DEF Points
<1> HIDE DEF top
<1> QED
  BY <1>1, <1>2, <1>3 DEF VoxelsOf, Center

(* What a producer stamps is a stamp, so it is not nothing.                *)
LEMMA StampsAreStamps ==
  ASSUME NEW p \in Producers
  PROVE  StampOf(p) \in Stamps /\ StampOf(p) # Nothing
BY ProducerAssumption, SentinelAssumption DEF StampOf, Stamps, Ids

(* Where the field is positive nothing is covered, where it is not         *)
(* something is.                                                           *)
LEMMA CoveredByField ==
  ASSUME NEW p \in Producers, Kind[p] # "body", NEW v \in VoxelsOf(Chunk)
  PROVE  Covers(p, v) <=> Field[p][Center(v)] <= 0
<1>1. v \in Int
  <2>1. Chunk \in Cells
    BY DEF Cells
  <2> QED
    BY <2>1, CentersArePoints
<1>2. v < Box[p][1] \/ Box[p][2] <= v => Field[p][Center(v)] > 0
  BY FieldAssumption
<1>3. Box[p][1] \in Int /\ Box[p][2] \in Int
  BY ProducerAssumption
<1>4. Center(v) \in Points
  <2>1. Chunk \in Cells
    BY DEF Cells
  <2> QED
    BY <2>1, CentersArePoints
<1>5. Field[p][Center(v)] \in Int
  BY <1>4, ProducerAssumption
<1> QED
  BY <1>1, <1>2, <1>3, <1>5 DEF Covers

(* A producer's voxels are a body, which is empty where its field is       *)
(* positive all over the cell and full where it is nowhere positive.       *)
LEMMA BodyByField ==
  ASSUME NEW p \in Producers, Kind[p] # "body", NEW cell \in Cells
  PROVE  /\ (\A v \in VoxelsOf(cell) : Field[p][Center(v)] > 0) => IsEmptyBody(BodyOf(p, cell))
         /\ (\A v \in VoxelsOf(cell) : Field[p][Center(v)] <= 0) => IsFullBody(BodyOf(p, cell))
<1>1. \A v \in VoxelsOf(cell) : Covers(p, v) <=> Field[p][Center(v)] <= 0
  BY CoveredByField, CentersArePoints
<1>2. \A v \in VoxelsOf(cell) : Field[p][Center(v)] \in Int
  BY CentersArePoints, ProducerAssumption
<1>3. DOMAIN BodyOf(p, cell) = VoxelsOf(cell)
  BY DEF BodyOf
<1>4. \A v \in VoxelsOf(cell) :
        BodyOf(p, cell)[v] = IF Covers(p, v) THEN StampOf(p) ELSE Nothing
  BY DEF BodyOf
<1> QED
  BY <1>1, <1>2, <1>3, <1>4, StampsAreStamps DEF IsEmptyBody, IsFullBody

(* A steady field is within the distance travelled of what it is in the    *)
(* middle.                                                                 *)
LEMMA SteadyFromCenter ==
  ASSUME NEW field \in [Points -> Int], IsSteady(field), NEW cell \in Cells,
         NEW v \in VoxelsOf(cell)
  PROVE  LET middle == field[4 * (cell[1] + cell[2])]
             radius == 4 * (cell[2] - cell[1]) - 4
         IN  /\ middle \in Int /\ radius \in Nat /\ field[Center(v)] \in Int
             /\ middle - radius <= field[Center(v)]
             /\ field[Center(v)] <= middle + radius
<1> DEFINE m == 4 * (cell[1] + cell[2])
           c == Center(v)
<1>1. /\ cell[1] \in Nat /\ cell[2] \in Nat /\ cell[1] < cell[2]
      /\ v \in Int /\ cell[1] <= v /\ v <= cell[2] - 1
  BY CellsAreRanges, CentersArePoints
<1>2. m \in Points /\ c \in Points
  BY CentersArePoints
<1>3. field[m] \in Int /\ field[c] \in Int
  BY <1>2
<1>4. Distance(field[m], field[c]) <= Distance(m, c)
  BY <1>2 DEF IsSteady
<1>5. /\ m \in Int /\ c \in Int
      /\ Distance(m, c) <= 4 * (cell[2] - cell[1]) - 4
  BY <1>1 DEF Distance, Center
<1>6. Distance(m, c) \in Int
  BY <1>5 DEF Distance
<1> DEFINE r == 4 * (cell[2] - cell[1]) - 4
<1>7. r \in Nat /\ Distance(m, c) <= r
  BY <1>1, <1>5
<1> HIDE DEF m, c, r
<1>8. field[m] - r <= field[c] /\ field[c] <= field[m] + r
  <2> DEFINE a == field[m]
             b == field[c]
             d == Distance(m, c)
  <2>1. Distance(a, b) <= d /\ a \in Int /\ b \in Int /\ d \in Int /\ d <= r
    BY <1>3, <1>4, <1>6, <1>7
  <2> HIDE DEF a, b, d
  <2>2. a - r <= b /\ b <= a + r
    BY <2>1, <1>7 DEF Distance
  <2> QED
    BY <2>2 DEF a, b
<1> QED
  BY <1>3, <1>7, <1>8 DEF m, c, r

(* No field but a sphere's leaps.                                          *)
LEMMA FieldFromCenter ==
  ASSUME NEW p \in Producers, Kind[p] # "body", Kind[p] # "sphere", NEW cell \in Cells,
         NEW v \in VoxelsOf(cell)
  PROVE  LET middle == Field[p][4 * (cell[1] + cell[2])]
             radius == 4 * (cell[2] - cell[1]) - 4
         IN  /\ middle \in Int /\ radius \in Int /\ Field[p][Center(v)] \in Int
             /\ middle - radius <= Field[p][Center(v)]
             /\ Field[p][Center(v)] <= middle + radius
<1> DEFINE field == Field[p]
<1>1. field \in [Points -> Int] /\ IsSteady(field)
  BY FieldAssumption, ProducerAssumption
<1> HIDE DEF field
<1>2. /\ field[4 * (cell[1] + cell[2])] \in Int /\ 4 * (cell[2] - cell[1]) - 4 \in Nat
      /\ field[Center(v)] \in Int
      /\ field[4 * (cell[1] + cell[2])] - (4 * (cell[2] - cell[1]) - 4) <= field[Center(v)]
      /\ field[Center(v)] <= field[4 * (cell[1] + cell[2])] + (4 * (cell[2] - cell[1]) - 4)
  BY <1>1, SteadyFromCenter
<1> QED
  BY <1>2 DEF field

(***************************************************************************)
(* A sphere's field may leap, but its sign is the gauge's.                 *)
(***************************************************************************)

(* Division rounds down.                                                   *)
LEMMA Division ==
  ASSUME NEW a \in Int, NEW b \in Nat, b > 0
  PROVE  /\ a \div b \in Int /\ b * (a \div b) <= a /\ a < b * ((a \div b) + 1)
OBVIOUS

(* What a field may exceed the widened radius by, its gauge does the       *)
(* radius.                                                                 *)
LEMMA WideningReaches ==
  ASSUME NEW small \in Nat, NEW large \in Nat, NEW f \in Nat, NEW g \in Nat, NEW r \in Nat,
         small > 0, small * f <= large * g, f >= ((large * r) \div small) + 1
  PROVE  g > r
<1> DEFINE reach == large * r
           q == reach \div small
<1>1. reach \in Nat
  OBVIOUS
<1>2. q \in Int /\ reach < small * (q + 1)
  <2> HIDE DEF reach
  <2> QED
    BY <1>1, Division
<1>3. f >= q + 1
  OBVIOUS
<1> HIDE DEF q
<1>4. small * (q + 1) <= small * f
  <2>1. f - (q + 1) \in Nat
    BY <1>2, <1>3
  <2>2. small * (f - (q + 1)) \in Nat
    BY <2>1
  <2>3. small * (f - (q + 1)) = small * f - small * (q + 1)
    BY <1>2
  <2>4. small * f \in Int /\ small * (q + 1) \in Int
    BY <1>2
  <2> QED
    BY <2>2, <2>3, <2>4
<1>5. large * r < large * g
  <2>1. small * f \in Int /\ small * (q + 1) \in Int /\ large * g \in Int
    BY <1>2
  <2>2. reach < large * g
    <3> HIDE DEF reach
    <3> QED
      BY <1>1, <1>2, <1>4, <2>1
  <2> QED
    BY <2>2
<1>6. SUFFICES ASSUME g <= r
               PROVE  FALSE
  OBVIOUS
<1>7. large * (r - g) \in Nat /\ large * (r - g) = large * r - large * g
  <2>1. r - g \in Nat
    BY <1>6
  <2> QED
    BY <2>1
<1> QED
  BY <1>5, <1>7

(***************************************************************************)
(* What a producer brings is sound.                                        *)
(***************************************************************************)

(* A steady solid's interval, rounded outwards.                            *)
LEMMA SteadySolidsAreBounded ==
  ASSUME NEW p \in Producers, Kind[p] # "body", Kind[p] # "sphere", NEW cell \in Cells
  PROVE  /\ SdfInterval(p, cell) \in Int \X Int
         /\ SdfInterval(p, cell)[1] >= 0 => \A v \in VoxelsOf(cell) : Field[p][Center(v)] > 0
         /\ SdfInterval(p, cell)[2] <= 0 => \A v \in VoxelsOf(cell) : Field[p][Center(v)] <= 0
<1> DEFINE middle == Field[p][4 * (cell[1] + cell[2])]
           radius == 4 * (cell[2] - cell[1]) - 4
<1>1. \A v \in VoxelsOf(cell) :
        /\ Field[p][Center(v)] \in Int
        /\ middle - radius <= Field[p][Center(v)] /\ Field[p][Center(v)] <= middle + radius
  BY FieldFromCenter
<1>2. cell[1] \in Nat /\ cell[2] \in Nat /\ cell[1] < cell[2]
  BY CellsAreRanges
<1>3. middle \in Int
  <2>1. cell[1] \in VoxelsOf(cell)
    BY <1>2 DEF VoxelsOf
  <2> QED
    BY <2>1, FieldFromCenter
<1>4. radius \in Int /\ 4 * (cell[2] - cell[1]) = radius + 4
  BY <1>2
<1>5. /\ SdfInterval(p, cell)[1] = middle - (radius + 4) - 1
      /\ SdfInterval(p, cell)[2] = middle + (radius + 4) + 1
      /\ SdfInterval(p, cell) = <<middle - (radius + 4) - 1, middle + (radius + 4) + 1>>
  BY <1>4 DEF SdfInterval, FromLipschitzCenter, Widened
<1> HIDE DEF middle, radius
<1>6. SdfInterval(p, cell)[1] >= 0 => \A v \in VoxelsOf(cell) : Field[p][Center(v)] > 0
  BY <1>1, <1>3, <1>4, <1>5
<1>7. SdfInterval(p, cell)[2] <= 0 => \A v \in VoxelsOf(cell) : Field[p][Center(v)] <= 0
  BY <1>1, <1>3, <1>4, <1>5
<1>8. SdfInterval(p, cell) \in Int \X Int
  BY <1>3, <1>4, <1>5
<1> QED
  BY <1>6, <1>7, <1>8

(* A sphere's: a field that is further from zero in the middle than the    *)
(* widened radius has a gauge that is further from zero than the radius,   *)
(* and no voxel of the cell is that far.                                   *)
LEMMA SpheresAreBounded ==
  ASSUME NEW p \in Producers, Kind[p] = "sphere", SemiAxes[p][1] > 0, NEW cell \in Cells
  PROVE  /\ SdfInterval(p, cell) \in Int \X Int
         /\ SdfInterval(p, cell)[1] >= 0 => \A v \in VoxelsOf(cell) : Field[p][Center(v)] > 0
         /\ SdfInterval(p, cell)[2] <= 0 => \A v \in VoxelsOf(cell) : Field[p][Center(v)] <= 0
<1> DEFINE at == 4 * (cell[1] + cell[2])
           field == Field[p]
           gauge == Gauge[p]
           small == SemiAxes[p][1]
           large == SemiAxes[p][2]
           r == 4 * (cell[2] - cell[1])
           q == (large * r) \div small
<1>1. /\ small \in Nat /\ large \in Nat /\ small > 0
      /\ field \in [Points -> Int] /\ gauge \in [Points -> Int] /\ IsSteady(gauge)
      /\ \A x \in Points :
           /\ (field[x] <= 0) <=> (gauge[x] <= 0)
           /\ Distance(gauge[x], 0) <= Distance(field[x], 0)
           /\ small * Distance(field[x], 0) <= large * Distance(gauge[x], 0)
  BY SphereAssumption, ProducerAssumption
<1>2. /\ cell[1] \in Nat /\ cell[2] \in Nat /\ cell[1] < cell[2] /\ r \in Nat
      /\ cell[1] \in VoxelsOf(cell)
  BY CellsAreRanges DEF VoxelsOf
<1>3. SdfInterval(p, cell) = <<field[at] - q - 1, field[at] + q + 1>>
  BY DEF SdfInterval, FromLipschitzCenter, Widened
<1>4. ASSUME NEW v \in VoxelsOf(cell)
      PROVE  /\ Center(v) \in Points /\ gauge[Center(v)] \in Int
             /\ gauge[at] - r < gauge[Center(v)] /\ gauge[Center(v)] < gauge[at] + r
  <2> HIDE DEF gauge
  <2>1. /\ gauge[at] \in Int /\ 4 * (cell[2] - cell[1]) - 4 \in Nat /\ gauge[Center(v)] \in Int
        /\ gauge[at] - (4 * (cell[2] - cell[1]) - 4) <= gauge[Center(v)]
        /\ gauge[Center(v)] <= gauge[at] + (4 * (cell[2] - cell[1]) - 4)
    BY <1>1, SteadyFromCenter
  <2> DEFINE a == gauge[at]
             b == gauge[Center(v)]
  <2>2. a \in Int /\ b \in Int /\ a - (r - 4) <= b /\ b <= a + (r - 4)
    BY <2>1
  <2>3. Center(v) \in Points
    BY CentersArePoints
  <2> HIDE DEF a, b, r
  <2>4. a - r < b /\ b < a + r
    BY <1>2, <2>2
  <2> QED
    BY <2>2, <2>3, <2>4 DEF a, b
<1>5. at \in Points
  BY <1>2, CentersArePoints
<1> HIDE DEF at, field, gauge, small, large, r
<1>6. q \in Int
  <2>1. large * r \in Int
    BY <1>1, <1>2
  <2> QED
    BY <1>1, <2>1, Division
<1> DEFINE f == field[at]
           g == gauge[at]
<1>7. /\ f \in Int /\ g \in Int /\ (f <= 0 <=> g <= 0)
      /\ Distance(g, 0) <= Distance(f, 0) /\ small * Distance(f, 0) <= large * Distance(g, 0)
  BY <1>1, <1>5
<1> HIDE DEF f, g
<1>8. f - q - 1 >= 0 \/ f + q + 1 <= 0 => Distance(g, 0) > r
  <2> SUFFICES ASSUME f - q - 1 >= 0 \/ f + q + 1 <= 0
               PROVE  Distance(g, 0) > r
    OBVIOUS
  <2> DEFINE df == Distance(f, 0)
             dg == Distance(g, 0)
  <2>1. df \in Nat /\ dg \in Nat
    BY <1>7 DEF Distance
  <2>2. df >= q + 1
    <3> HIDE DEF q
    <3> QED
      BY <1>6, <1>7 DEF Distance
  <2>3. small * df <= large * dg
    BY <1>7
  <2> HIDE DEF df, dg
  <2>4. dg > r
    BY <1>1, <1>2, <2>1, <2>2, <2>3, WideningReaches
  <2> QED
    BY <2>4 DEF dg
<1>9. 0 <= q
  <2>1. large * r \in Nat
    BY <1>1, <1>2
  <2> DEFINE a == large * r
  <2>2. a < small * (q + 1)
    <3> HIDE DEF a
    <3> QED
      BY <1>1, <2>1, Division DEF a
  <2> HIDE DEF q
  <2>3. SUFFICES ASSUME q + 1 <= 0
                 PROVE  FALSE
    BY <1>6
  <2>4. small * (-(q + 1)) \in Nat /\ small * (-(q + 1)) = -(small * (q + 1))
    <3>1. -(q + 1) \in Nat
      BY <1>6, <2>3
    <3> QED
      BY <1>1, <1>6, <3>1
  <2>5. small * (q + 1) \in Int
    BY <1>1, <1>6
  <2> QED
    BY <2>1, <2>2, <2>4, <2>5
<1> HIDE DEF q
<1>10. f - q - 1 >= 0 => \A v \in VoxelsOf(cell) : field[Center(v)] > 0
  <2> SUFFICES ASSUME f - q - 1 >= 0, NEW v \in VoxelsOf(cell)
               PROVE  field[Center(v)] > 0
    OBVIOUS
  <2>1. g > 0
    BY <1>6, <1>7, <1>9
  <2>2. g > r
    BY <1>7, <1>8, <2>1 DEF Distance
  <2>3. gauge[Center(v)] > 0
    BY <1>2, <1>4, <1>7, <2>2 DEF g
  <2>4. Center(v) \in Points /\ field[Center(v)] \in Int /\ gauge[Center(v)] \in Int
    BY <1>1, <1>4
  <2> QED
    BY <1>1, <2>3, <2>4
<1>11. f + q + 1 <= 0 => \A v \in VoxelsOf(cell) : field[Center(v)] <= 0
  <2> SUFFICES ASSUME f + q + 1 <= 0, NEW v \in VoxelsOf(cell)
               PROVE  field[Center(v)] <= 0
    OBVIOUS
  <2>1. g <= 0
    BY <1>6, <1>7, <1>9
  <2>2. g + r < 0
    BY <1>2, <1>7, <1>8, <2>1 DEF Distance
  <2>3. gauge[Center(v)] <= 0
    BY <1>2, <1>4, <1>7, <2>2 DEF g
  <2>4. Center(v) \in Points
    BY <1>4
  <2> QED
    BY <1>1, <2>3, <2>4
<1>12. SdfInterval(p, cell) = <<f - q - 1, f + q + 1>>
  BY <1>3 DEF f, q
<1> QED
  BY <1>6, <1>7, <1>10, <1>11, <1>12 DEF field

(* A solid's interval and its voxels.                                      *)
LEMMA SolidsAreSound ==
  ASSUME NEW p \in Producers, HasInterval(p), NEW cell \in Cells
  PROVE  /\ SdfInterval(p, cell) \in Int \X Int
         /\ SdfInterval(p, cell)[1] >= 0 => IsEmptyBody(BodyOf(p, cell))
         /\ SdfInterval(p, cell)[2] <= 0 => IsFullBody(BodyOf(p, cell))
<1>1. /\ SdfInterval(p, cell) \in Int \X Int
      /\ SdfInterval(p, cell)[1] >= 0 => \A v \in VoxelsOf(cell) : Field[p][Center(v)] > 0
      /\ SdfInterval(p, cell)[2] <= 0 => \A v \in VoxelsOf(cell) : Field[p][Center(v)] <= 0
  BY SteadySolidsAreBounded, SpheresAreBounded DEF HasInterval
<1>2. Kind[p] # "body"
  BY DEF HasInterval
<1> QED
  BY <1>1, <1>2, BodyByField

(* A sketch's: raised where the samples lie outside its box, closed at     *)
(* zero where the cell is proven solid.                                    *)
LEMMA SketchesAreSound ==
  ASSUME NEW p \in Producers, Kind[p] = "sketch", NEW cell \in Cells
  PROVE  /\ SketchInterval(p, cell) \in Int \X Int
         /\ SketchInterval(p, cell)[1] >= 0 => IsEmptyBody(BodyOf(p, cell))
         /\ SketchInterval(p, cell)[2] <= 0 => IsFullBody(BodyOf(p, cell))
<1> DEFINE middle == Field[p][4 * (cell[1] + cell[2])]
           radius == 4 * (cell[2] - cell[1]) - 4
           low == middle - radius - 1
           high == middle + radius + 1
           clearance == Clearance(p, cell)
<1>0. Kind[p] # "body" /\ Kind[p] # "sphere"
  OBVIOUS
<1>1. \A v \in VoxelsOf(cell) :
        /\ Field[p][Center(v)] \in Int
        /\ middle - radius <= Field[p][Center(v)] /\ Field[p][Center(v)] <= middle + radius
  BY <1>0, FieldFromCenter
<1>2. cell[1] \in Nat /\ cell[2] \in Nat /\ cell[1] < cell[2]
  BY CellsAreRanges
<1>3. middle \in Int /\ radius \in Int /\ low \in Int /\ high \in Int
  <2>1. cell[1] \in VoxelsOf(cell)
    BY <1>2 DEF VoxelsOf
  <2>2. middle \in Int
    BY <1>0, <2>1, FieldFromCenter
  <2>3. radius \in Int
    BY <1>2
  <2> QED
    BY <2>2, <2>3
<1>4. Box[p][1] \in Int /\ Box[p][2] \in Int
  BY ProducerAssumption
<1>5. clearance \in Int
  BY <1>2, <1>4 DEF Clearance, Greatest, Center
<1>6. clearance > 0 => \A v \in VoxelsOf(cell) : Field[p][Center(v)] > 0
  <2> SUFFICES ASSUME clearance > 0, NEW v \in VoxelsOf(cell)
               PROVE  Field[p][Center(v)] > 0
    OBVIOUS
  <2>1. v \in Int /\ cell[1] <= v /\ v <= cell[2] - 1 /\ v \in VoxelsOf(Chunk)
    BY CentersArePoints
  <2>2. /\ Field[p][Center(v)] >= 8 * Box[p][1] - Center(v)
        /\ Field[p][Center(v)] >= Center(v) - 8 * Box[p][2]
    BY <2>1, SketchAssumption
  <2>3. Field[p][Center(v)] \in Int
    BY <1>1
  <2>4. 8 * Box[p][1] - Center(cell[2] - 1) > 0 \/ Center(cell[1]) - 8 * Box[p][2] > 0
    BY <1>2, <1>4 DEF Clearance, Greatest, Center
  <2> DEFINE field == Field[p][Center(v)]
  <2>5. field >= 8 * Box[p][1] - (8 * v + 4) /\ field >= (8 * v + 4) - 8 * Box[p][2]
    BY <2>2 DEF Center
  <2>6. 8 * Box[p][1] - (8 * (cell[2] - 1) + 4) > 0 \/ (8 * cell[1] + 4) - 8 * Box[p][2] > 0
    BY <2>4 DEF Center
  <2> HIDE DEF field
  <2>7. field \in Int
    BY <2>3 DEF field
  <2>8. field > 0
    BY <1>2, <1>4, <2>1, <2>5, <2>6, <2>7
  <2> QED
    BY <2>8 DEF field
<1>7. ProvablySolid(p, cell) => \A v \in VoxelsOf(cell) : Field[p][Center(v)] <= 0
  BY SketchAssumption DEF ProvablySolid
<1>8. SketchInterval(p, cell) =
        <<Raised(low, clearance), IF ProvablySolid(p, cell) THEN Least(high, 0) ELSE high>>
  BY DEF SketchInterval, FromLipschitzCenter
<1> HIDE DEF middle, radius, clearance
<1>9. SketchInterval(p, cell) \in Int \X Int
  BY <1>3, <1>5, <1>8 DEF Raised, Greatest, Least
<1>10. SketchInterval(p, cell)[1] >= 0 => \A v \in VoxelsOf(cell) : Field[p][Center(v)] > 0
  <2>1. CASE clearance > 0
    BY <1>6, <2>1
  <2>2. CASE ~(clearance > 0)
    <3>1. SketchInterval(p, cell)[1] = middle - radius - 1
      BY <1>8, <2>2 DEF Raised
    <3> QED
      BY <1>1, <1>3, <3>1
  <2> QED
    BY <2>1, <2>2
<1>11. SketchInterval(p, cell)[2] <= 0 => \A v \in VoxelsOf(cell) : Field[p][Center(v)] <= 0
  <2>1. CASE ProvablySolid(p, cell)
    BY <1>7, <2>1
  <2>2. CASE ~ProvablySolid(p, cell)
    <3>1. SketchInterval(p, cell)[2] = middle + radius + 1
      BY <1>8, <2>2
    <3> QED
      BY <1>1, <1>3, <3>1
  <2> QED
    BY <2>1, <2>2
<1> QED
  BY <1>0, <1>9, <1>10, <1>11, BodyByField

(* A producer's voxels are a body of the cell.                             *)
LEMMA BodiesAreBodies ==
  ASSUME NEW p \in Producers, NEW cell \in Cells
  PROVE  BodyOf(p, cell) \in Bodies(cell)
BY StampsAreStamps DEF BodyOf, Bodies

(* The level a bounded producer stands for is sound.                       *)
LEMMA ProducersAreSound ==
  ASSUME NEW p \in Producers, HasInterval(p), NEW cell \in Cells
  PROVE  LET level == [interval |-> CellFieldInterval(p, cell), body |-> BodyOf(p, cell)]
         IN  level \in Levels(cell) /\ LevelIsSound(level)
<1> DEFINE interval == CellFieldInterval(p, cell)
           body == BodyOf(p, cell)
<1>1. /\ interval \in Int \X Int
      /\ interval[1] >= 0 => IsEmptyBody(body)
      /\ interval[2] <= 0 => IsFullBody(body)
  BY SolidsAreSound, SketchesAreSound DEF CellFieldInterval
<1>2. interval # Empty
  BY <1>1, SentinelAssumption
<1>3. body \in Bodies(cell)
  BY BodiesAreBodies
<1> HIDE DEF interval, body
<1>4. [interval |-> interval, body |-> body] \in Levels(cell)
  BY <1>1, <1>3 DEF Levels, Intervals
<1>5. LevelIsSound([interval |-> interval, body |-> body])
  BY <1>1, <1>2 DEF LevelIsSound
<1> QED
  BY <1>4, <1>5 DEF interval, body

(* An accumulator nothing was composed into is sound.                      *)
LEMMA EmptyLevelIsSound ==
  ASSUME NEW cell \in Cells
  PROVE  EmptyLevel(cell) \in Levels(cell) /\ LevelIsSound(EmptyLevel(cell))
<1>1. NoVoxels(cell) \in Bodies(cell) /\ IsEmptyBody(NoVoxels(cell))
  BY DEF NoVoxels, Bodies, IsEmptyBody
<1> QED
  BY <1>1 DEF EmptyLevel, Levels, Intervals, LevelIsSound

(***************************************************************************)
(* The three operations keep soundness.                                    *)
(***************************************************************************)

(* What an operation makes of two bodies of a cell is a body of it: empty  *)
(* or full where the operands say so.                                      *)
LEMMA VoxelsIntoBodies ==
  ASSUME NEW cell, NEW a \in Bodies(cell), NEW b \in Bodies(cell), NEW op \in Operations
  PROVE  /\ VoxelsInto(a, b, op) \in Bodies(cell)
         /\ op = "union" =>
              /\ IsEmptyBody(a) /\ IsEmptyBody(b) => IsEmptyBody(VoxelsInto(a, b, op))
              /\ IsFullBody(a) \/ IsFullBody(b) => IsFullBody(VoxelsInto(a, b, op))
         /\ op = "subtract" =>
              /\ IsEmptyBody(a) \/ IsFullBody(b) => IsEmptyBody(VoxelsInto(a, b, op))
              /\ IsFullBody(a) /\ IsEmptyBody(b) => IsFullBody(VoxelsInto(a, b, op))
         /\ op = "intersect" =>
              /\ IsEmptyBody(a) \/ IsEmptyBody(b) => IsEmptyBody(VoxelsInto(a, b, op))
              /\ IsFullBody(a) /\ IsFullBody(b) => IsFullBody(VoxelsInto(a, b, op))
         /\ op # "intersect" /\ IsEmptyBody(b) => VoxelsInto(a, b, op) = a
<1> DEFINE c == VoxelsInto(a, b, op)
<1>1. DOMAIN a = VoxelsOf(cell) /\ DOMAIN b = VoxelsOf(cell) /\ DOMAIN c = VoxelsOf(cell)
  BY DEF Bodies, VoxelsInto
<1>2. \A v \in VoxelsOf(cell) :
        /\ op = "union" => c[v] = IF b[v] # Nothing THEN b[v] ELSE a[v]
        /\ op = "subtract" => c[v] = IF b[v] # Nothing THEN Nothing ELSE a[v]
        /\ op = "intersect" => c[v] = IF b[v] # Nothing THEN a[v] ELSE Nothing
  BY <1>1 DEF VoxelsInto
<1>3. \A v \in VoxelsOf(cell) :
        a[v] \in Stamps \cup {Nothing} /\ b[v] \in Stamps \cup {Nothing}
  BY DEF Bodies
<1>4. op = "union" \/ op = "subtract" \/ op = "intersect"
  BY DEF Operations
<1>5. c \in Bodies(cell)
  <2>1. \A v \in VoxelsOf(cell) : c[v] \in Stamps \cup {Nothing}
    BY <1>2, <1>3, <1>4
  <2>2. c = [v \in VoxelsOf(cell) |-> c[v]]
    BY <1>1 DEF VoxelsInto
  <2> HIDE DEF c
  <2> QED
    BY <2>1, <2>2 DEF Bodies
<1>6. op # "intersect" /\ IsEmptyBody(b) => c = a
  <2> SUFFICES ASSUME op # "intersect", IsEmptyBody(b)
               PROVE  c = a
    OBVIOUS
  <2>1. \A v \in VoxelsOf(cell) : c[v] = a[v]
    BY <1>1, <1>2, <1>4 DEF IsEmptyBody
  <2>2. c = [v \in VoxelsOf(cell) |-> c[v]] /\ a = [v \in VoxelsOf(cell) |-> a[v]]
    BY <1>1 DEF VoxelsInto, Bodies
  <2> HIDE DEF c
  <2> QED
    BY <2>1, <2>2
<1> HIDE DEF c
<1>7. op = "union" =>
        /\ IsEmptyBody(a) /\ IsEmptyBody(b) => IsEmptyBody(c)
        /\ IsFullBody(a) \/ IsFullBody(b) => IsFullBody(c)
  BY <1>1, <1>2 DEF IsEmptyBody, IsFullBody
<1>8. op = "subtract" =>
        /\ IsEmptyBody(a) \/ IsFullBody(b) => IsEmptyBody(c)
        /\ IsFullBody(a) /\ IsEmptyBody(b) => IsFullBody(c)
  BY <1>1, <1>2 DEF IsEmptyBody, IsFullBody
<1>9. op = "intersect" =>
        /\ IsEmptyBody(a) \/ IsEmptyBody(b) => IsEmptyBody(c)
        /\ IsFullBody(a) /\ IsFullBody(b) => IsFullBody(c)
  BY <1>1, <1>2 DEF IsEmptyBody, IsFullBody
<1> QED
  BY <1>5, <1>6, <1>7, <1>8, <1>9 DEF c

(* A sound level with a sound operand folded into it is sound.             *)
LEMMA IntoIsSound ==
  ASSUME NEW cell \in Cells, NEW level \in Levels(cell), NEW operand \in Levels(cell),
         NEW op \in Operations, LevelIsSound(level), LevelIsSound(operand)
  PROVE  LET into == Into(level, operand.interval, operand.body, op)
         IN  into \in Levels(cell) /\ LevelIsSound(into)
<1> DEFINE a == level.interval
           b == operand.interval
           c == IntervalInto(a, b, op)
           body == VoxelsInto(level.body, operand.body, op)
<1>1. /\ a \in Intervals /\ b \in Intervals
      /\ level.body \in Bodies(cell) /\ operand.body \in Bodies(cell)
  BY DEF Levels
<1>2. op = "union" \/ op = "subtract" \/ op = "intersect"
  BY DEF Operations
<1>3. /\ body \in Bodies(cell)
      /\ op = "union" =>
           /\ IsEmptyBody(level.body) /\ IsEmptyBody(operand.body) => IsEmptyBody(body)
           /\ IsFullBody(level.body) \/ IsFullBody(operand.body) => IsFullBody(body)
      /\ op = "subtract" =>
           /\ IsEmptyBody(level.body) \/ IsFullBody(operand.body) => IsEmptyBody(body)
           /\ IsFullBody(level.body) /\ IsEmptyBody(operand.body) => IsFullBody(body)
      /\ op = "intersect" =>
           /\ IsEmptyBody(level.body) \/ IsEmptyBody(operand.body) => IsEmptyBody(body)
           /\ IsFullBody(level.body) /\ IsFullBody(operand.body) => IsFullBody(body)
      /\ op # "intersect" /\ IsEmptyBody(operand.body) => body = level.body
  <2> DEFINE x == level.body
             y == operand.body
  <2>1. x \in Bodies(cell) /\ y \in Bodies(cell)
    BY <1>1
  <2> HIDE DEF x, y, a, b, c
  <2>2. VoxelsInto(x, y, op) \in Bodies(cell)
    BY <2>1, VoxelsIntoBodies
  <2>3. op = "union" =>
          /\ IsEmptyBody(x) /\ IsEmptyBody(y) => IsEmptyBody(VoxelsInto(x, y, op))
          /\ IsFullBody(x) \/ IsFullBody(y) => IsFullBody(VoxelsInto(x, y, op))
    BY <2>1, VoxelsIntoBodies
  <2>4. op = "subtract" =>
          /\ IsEmptyBody(x) \/ IsFullBody(y) => IsEmptyBody(VoxelsInto(x, y, op))
          /\ IsFullBody(x) /\ IsEmptyBody(y) => IsFullBody(VoxelsInto(x, y, op))
    BY <2>1, VoxelsIntoBodies
  <2>5. op = "intersect" =>
          /\ IsEmptyBody(x) \/ IsEmptyBody(y) => IsEmptyBody(VoxelsInto(x, y, op))
          /\ IsFullBody(x) /\ IsFullBody(y) => IsFullBody(VoxelsInto(x, y, op))
    BY <2>1, VoxelsIntoBodies
  <2>6. op # "intersect" /\ IsEmptyBody(y) => VoxelsInto(x, y, op) = x
    BY <2>1, VoxelsIntoBodies
  <2> QED
    BY <2>2, <2>3, <2>4, <2>5, <2>6 DEF x, y
<1>4. Into(level, b, operand.body, op) = [interval |-> c, body |-> body]
  BY DEF Into
<1> HIDE DEF body
<1>5. /\ a = Empty => IsEmptyBody(level.body)
      /\ a # Empty => /\ a[1] >= 0 => IsEmptyBody(level.body)
                      /\ a[2] <= 0 => IsFullBody(level.body)
      /\ b = Empty => IsEmptyBody(operand.body)
      /\ b # Empty => /\ b[1] >= 0 => IsEmptyBody(operand.body)
                      /\ b[2] <= 0 => IsFullBody(operand.body)
  BY DEF LevelIsSound
<1> HIDE DEF a, b
<1>6. CASE b = Empty
  <2>1. c = IF op = "intersect" THEN Empty ELSE a
    BY <1>6 DEF IntervalInto
  <2>2. IsEmptyBody(operand.body)
    BY <1>5, <1>6
  <2>3. CASE op = "intersect"
    <3>1. c = Empty /\ IsEmptyBody(body)
      BY <1>3, <2>1, <2>2, <2>3
    <3>2. [interval |-> c, body |-> body] \in Levels(cell)
      BY <1>3, <3>1 DEF Levels, Intervals
    <3>3. LevelIsSound([interval |-> c, body |-> body])
      BY <3>1 DEF LevelIsSound
    <3> QED
      BY <1>4, <3>2, <3>3 DEF b
  <2>4. CASE op # "intersect"
    <3>1. c = a /\ body = level.body
      BY <1>3, <2>1, <2>2, <2>4
    <3>2. [interval |-> c, body |-> body] \in Levels(cell)
      BY <1>1, <3>1 DEF Levels
    <3>3. LevelIsSound([interval |-> c, body |-> body])
      BY <1>5, <3>1 DEF LevelIsSound
    <3> QED
      BY <1>4, <3>2, <3>3 DEF b
  <2> QED
    BY <2>3, <2>4
<1>7. CASE b # Empty /\ a = Empty
  <2>1. c = IF op = "union" THEN b ELSE Empty
    BY <1>7 DEF IntervalInto
  <2>2. IsEmptyBody(level.body)
    BY <1>5, <1>7
  <2>3. CASE op = "union"
    <3>1. c = b
      BY <2>1, <2>3
    <3>2. [interval |-> c, body |-> body] \in Levels(cell)
      BY <1>1, <1>3, <3>1 DEF Levels
    <3>3. LevelIsSound([interval |-> c, body |-> body])
      BY <1>3, <1>5, <1>7, <2>2, <2>3, <3>1 DEF LevelIsSound
    <3> QED
      BY <1>4, <3>2, <3>3 DEF b
  <2>4. CASE op # "union"
    <3>1. c = Empty /\ IsEmptyBody(body)
      BY <1>2, <1>3, <2>1, <2>2, <2>4
    <3>2. [interval |-> c, body |-> body] \in Levels(cell)
      BY <1>3, <3>1 DEF Levels, Intervals
    <3>3. LevelIsSound([interval |-> c, body |-> body])
      BY <3>1 DEF LevelIsSound
    <3> QED
      BY <1>4, <3>2, <3>3 DEF b
  <2> QED
    BY <2>3, <2>4
<1>8. CASE b # Empty /\ a # Empty
  <2>1. a \in Int \X Int /\ b \in Int \X Int
    BY <1>1, <1>8 DEF Intervals
  <2>2. /\ a[1] \in Int /\ a[2] \in Int /\ b[1] \in Int /\ b[2] \in Int
    BY <2>1
  <2>3. /\ op = "union" => c = UnionOf(a, b)
        /\ op = "subtract" => c = SubtractOf(a, b)
        /\ op = "intersect" => c = IntersectOf(a, b)
    BY <1>8 DEF IntervalInto
  <2>4. /\ c \in Int \X Int
        /\ op = "union" =>
             /\ c[1] >= 0 => a[1] >= 0 /\ b[1] >= 0
             /\ c[2] <= 0 => a[2] <= 0 \/ b[2] <= 0
        /\ op = "subtract" =>
             /\ c[1] >= 0 => a[1] >= 0 \/ b[2] <= 0
             /\ c[2] <= 0 => a[2] <= 0 /\ b[1] >= 0
        /\ op = "intersect" =>
             /\ c[1] >= 0 => a[1] >= 0 \/ b[1] >= 0
             /\ c[2] <= 0 => a[2] <= 0 /\ b[2] <= 0
    <3> HIDE DEF c
    <3>1. CASE op = "union"
      BY <2>2, <2>3, <3>1 DEF UnionOf, Least
    <3>2. CASE op = "subtract"
      BY <2>2, <2>3, <3>2 DEF SubtractOf, IntersectOf, Negated, Greatest
    <3>3. CASE op = "intersect"
      BY <2>2, <2>3, <3>3 DEF IntersectOf, Greatest
    <3> QED
      BY <1>2, <3>1, <3>2, <3>3
  <2>5. c # Empty
    BY <2>4, SentinelAssumption
  <2> HIDE DEF c
  <2>6. (c[1] >= 0 => IsEmptyBody(body)) /\ (c[2] <= 0 => IsFullBody(body))
    BY <1>2, <1>3, <1>5, <1>8, <2>4
  <2>7. [interval |-> c, body |-> body] \in Levels(cell)
    BY <1>3, <2>4 DEF Levels, Intervals
  <2>8. LevelIsSound([interval |-> c, body |-> body])
    BY <2>5, <2>6 DEF LevelIsSound
  <2> QED
    BY <1>4, <2>7, <2>8 DEF b, c
<1> QED
  BY <1>6, <1>7, <1>8

(* Sound or not, it is a level.                                            *)
LEMMA IntoIsLevel ==
  ASSUME NEW cell \in Cells, NEW level \in Levels(cell), NEW operand \in Levels(cell),
         NEW op \in Operations
  PROVE  Into(level, operand.interval, operand.body, op) \in Levels(cell)
<1> DEFINE a == level.interval
           b == operand.interval
           x == level.body
           y == operand.body
<1>1. a \in Intervals /\ b \in Intervals /\ x \in Bodies(cell) /\ y \in Bodies(cell)
  BY DEF Levels
<1> HIDE DEF a, b, x, y
<1>2. VoxelsInto(x, y, op) \in Bodies(cell)
  BY <1>1, VoxelsIntoBodies
<1>3. IntervalInto(a, b, op) \in Intervals
  <2>1. CASE a = Empty \/ b = Empty
    BY <1>1, <2>1 DEF IntervalInto, Intervals
  <2>2. CASE a # Empty /\ b # Empty
    <3>1. a[1] \in Int /\ a[2] \in Int /\ b[1] \in Int /\ b[2] \in Int
      BY <1>1, <2>2 DEF Intervals
    <3>2. IntervalInto(a, b, op) \in {UnionOf(a, b), SubtractOf(a, b), IntersectOf(a, b)}
      BY <2>2 DEF IntervalInto
    <3>3. UnionOf(a, b) \in Int \X Int
      BY <3>1 DEF UnionOf, Least
    <3>4. IntersectOf(a, b) \in Int \X Int
      BY <3>1 DEF IntersectOf, Greatest
    <3>5. SubtractOf(a, b) \in Int \X Int
      BY <3>1 DEF SubtractOf, IntersectOf, Negated, Greatest
    <3> QED
      BY <3>2, <3>3, <3>4, <3>5 DEF Intervals
  <2> QED
    BY <2>1, <2>2
<1>4. [interval |-> IntervalInto(a, b, op), body |-> VoxelsInto(x, y, op)] \in Levels(cell)
  BY <1>2, <1>3 DEF Levels
<1> QED
  BY <1>4 DEF Into, a, b, x, y

(***************************************************************************)
(* The folds.                                                              *)
(***************************************************************************)
ScopeFrames == [node : Nat, operation : Operations, expansion : Nat]
LeafRecords == [producer : Producers, operation : Operations, frames : Seq(ScopeFrames)]

(* A fold holds one level more than it has open frames, and, as long as it *)
(* met no body without a field, each of them is sound.                     *)
SoundFold(f, cell) ==
  /\ f.frames \in Seq(ScopeFrames)
  /\ f.levels \in Seq(Levels(cell))
  /\ Len(f.levels) = Len(f.frames) + 1
  /\ f.unbound \in BOOLEAN
  /\ ~f.unbound => \A i \in 1 .. Len(f.levels) : LevelIsSound(f.levels[i])

(* A fold begins sound.                                                    *)
LEMMA EmptyFoldIsSound ==
  ASSUME NEW cell \in Cells
  PROVE  SoundFold(EmptyFold(cell), cell)
<1> DEFINE level == EmptyLevel(cell)
<1>1. level \in Levels(cell) /\ LevelIsSound(level)
  BY EmptyLevelIsSound
<1>2. <<level>> \in Seq(Levels(cell)) /\ Len(<<level>>) = 1 /\ <<level>>[1] = level
  BY <1>1
<1>3. << >> \in Seq(ScopeFrames) /\ Len(<< >>) = 0
  OBVIOUS
<1>4. /\ EmptyFold(cell).frames = << >> /\ EmptyFold(cell).levels = <<level>>
      /\ EmptyFold(cell).unbound = FALSE
  BY DEF EmptyFold
<1> HIDE DEF level
<1>5. \A i \in 1 .. Len(<<level>>) : LevelIsSound(<<level>>[i])
  BY <1>1, <1>2
<1>6. Len(<<level>>) = Len(<< >>) + 1
  BY <1>2, <1>3
<1> DEFINE f == EmptyFold(cell)
           levels == <<level>>
           frames == << >>
<1> HIDE DEF f, levels, frames
<1>7. f.frames = frames /\ f.levels = levels /\ f.unbound = FALSE
  BY <1>4 DEF f, levels, frames
<1>8. /\ frames \in Seq(ScopeFrames) /\ levels \in Seq(Levels(cell))
      /\ Len(levels) = Len(frames) + 1 /\ \A i \in 1 .. Len(levels) : LevelIsSound(levels[i])
  BY <1>2, <1>3, <1>5, <1>6 DEF levels, frames
<1>9. SoundFold(f, cell)
  BY <1>7, <1>8 DEF SoundFold
<1> QED
  BY <1>9 DEF f

(* The innermost scope closes into the one around it.                      *)
LEMMA ClosedIsSound ==
  ASSUME NEW cell \in Cells, NEW f, SoundFold(f, cell), f.frames # << >>
  PROVE  SoundFold(Closed(f), cell)
<1> DEFINE n == Len(f.frames)
           outer == Front(f.levels)
           inner == Last(f.levels)
           op == Last(f.frames).operation
           into == Into(outer[n], inner.interval, inner.body, op)
           levels == [outer EXCEPT ![n] = into]
<1>1. /\ f.frames \in Seq(ScopeFrames) /\ f.levels \in Seq(Levels(cell))
      /\ Len(f.levels) = n + 1 /\ f.unbound \in BOOLEAN
      /\ ~f.unbound => \A i \in 1 .. n + 1 : LevelIsSound(f.levels[i])
  BY DEF SoundFold
<1>2. n \in Nat \ {0}
  BY <1>1
<1>3. /\ outer \in Seq(Levels(cell)) /\ Len(outer) = n
      /\ \A i \in 1 .. n : outer[i] = f.levels[i]
  <2>1. \A i \in 1 .. n : f.levels[i] \in Levels(cell)
    BY <1>1, <1>2
  <2>2. outer = SubSeq(f.levels, 1, n)
    BY <1>1, <1>2 DEF Front
  <2> QED
    BY <1>2, <2>1, <2>2, SubSeqProperties
<1>4. Front(f.frames) \in Seq(ScopeFrames) /\ Len(Front(f.frames)) = n - 1
  <2>1. \A i \in 1 .. n - 1 : f.frames[i] \in ScopeFrames
    BY <1>1, <1>2
  <2>2. Front(f.frames) = SubSeq(f.frames, 1, n - 1)
    BY DEF Front
  <2> QED
    BY <1>2, <2>1, <2>2, SubSeqProperties
<1>5. inner = f.levels[n + 1] /\ inner \in Levels(cell)
  BY <1>1, <1>2 DEF Last
<1>6. op \in Operations
  <2>1. f.frames[n] \in ScopeFrames
    BY <1>1, <1>2
  <2> QED
    BY <2>1 DEF Last, ScopeFrames
<1>7. outer[n] \in Levels(cell) /\ outer[n] = f.levels[n]
  BY <1>1, <1>2, <1>3
<1>8. Closed(f) = [frames |-> Front(f.frames), levels |-> levels, unbound |-> f.unbound]
  <2>1. Closed(f) =
          [frames |-> Front(f.frames),
           levels |-> [outer EXCEPT ![Len(outer)] =
             Into(outer[Len(outer)], inner.interval, inner.body, op)],
           unbound |-> f.unbound]
    BY DEF Closed
  <2> QED
    BY <1>3, <2>1
<1> HIDE DEF outer, inner, op
<1>9. into \in Levels(cell)
  BY <1>5, <1>6, <1>7, IntoIsLevel
<1>10. ~f.unbound => LevelIsSound(into)
  <2> SUFFICES ASSUME ~f.unbound
               PROVE  LevelIsSound(into)
    OBVIOUS
  <2>1. LevelIsSound(outer[n]) /\ LevelIsSound(inner)
    BY <1>1, <1>2, <1>5, <1>7
  <2> QED
    BY <1>5, <1>6, <1>7, <2>1, IntoIsSound
<1> HIDE DEF into
<1>11. /\ levels \in Seq(Levels(cell)) /\ Len(levels) = n
       /\ \A i \in 1 .. n : levels[i] = IF i = n THEN into ELSE f.levels[i]
  BY <1>2, <1>3, <1>9
<1> HIDE DEF levels
<1>12. ~f.unbound => \A i \in 1 .. n : LevelIsSound(levels[i])
  BY <1>1, <1>2, <1>10, <1>11
<1>13. /\ Closed(f).frames = Front(f.frames) /\ Closed(f).levels = levels
       /\ Closed(f).unbound = f.unbound
  BY <1>8
<1>14. Len(Front(f.frames)) + 1 = n
  BY <1>2, <1>4
<1> HIDE DEF n
<1> QED
  BY <1>1, <1>4, <1>11, <1>12, <1>13, <1>14 DEF SoundFold

(* A leaf composes into the innermost of the frames it lies in.            *)
LEMMA ComposedIsSound ==
  ASSUME NEW cell \in Cells, NEW f, SoundFold(f, cell), NEW leaf \in LeafRecords
  PROVE  SoundFold(Composed(f, leaf, cell), cell)
<1> DEFINE n == Len(leaf.frames)
           opened == Opened(f, leaf.frames, cell)
           into == LeafInto(opened[n + 1], leaf, cell)
           levels == [opened EXCEPT ![n + 1] = into]
<1>1. /\ f.frames \in Seq(ScopeFrames) /\ f.levels \in Seq(Levels(cell))
      /\ Len(f.levels) = Len(f.frames) + 1 /\ f.unbound \in BOOLEAN
      /\ ~f.unbound => \A i \in 1 .. Len(f.levels) : LevelIsSound(f.levels[i])
  BY DEF SoundFold
<1>2. /\ leaf.producer \in Producers /\ leaf.operation \in Operations
      /\ leaf.frames \in Seq(ScopeFrames)
  BY DEF LeafRecords
<1>3. n \in Nat
  BY <1>2
<1>4. EmptyLevel(cell) \in Levels(cell) /\ LevelIsSound(EmptyLevel(cell))
  BY EmptyLevelIsSound
<1>5. opened = [i \in 1 .. n + 1 |-> IF i \in DOMAIN f.levels THEN f.levels[i] ELSE EmptyLevel(cell)]
  BY DEF Opened
<1>6. \A i \in 1 .. n + 1 : opened[i] \in Levels(cell)
  <2>1. \A i \in DOMAIN f.levels : f.levels[i] \in Levels(cell)
    BY <1>1
  <2> QED
    BY <1>4, <1>5, <2>1
<1>7. ~f.unbound => \A i \in 1 .. n + 1 : LevelIsSound(opened[i])
  <2>1. DOMAIN f.levels = 1 .. Len(f.levels)
    BY <1>1
  <2> QED
    BY <1>1, <1>4, <1>5, <2>1
<1>8. n + 1 \in 1 .. n + 1
  BY <1>3
<1>9. Composed(f, leaf, cell) =
        [frames |-> leaf.frames, levels |-> levels, unbound |-> f.unbound \/ IsUnboundable(leaf)]
  BY DEF Composed
<1> DEFINE level == opened[n + 1]
           body == BodyOf(leaf.producer, cell)
<1>10. level \in Levels(cell)
  BY <1>6, <1>8
<1>11. body \in Bodies(cell)
  BY <1>2, BodiesAreBodies
<1>12. into = LeafInto(level, leaf, cell)
  OBVIOUS
<1> HIDE DEF level, into
<1>13. CASE IsUnboundable(leaf)
  <2>1. into = [level EXCEPT !.body = VoxelsInto(level.body, body, leaf.operation)]
    BY <1>12, <1>13 DEF LeafInto
  <2>2. level.body \in Bodies(cell) /\ level.interval \in Intervals
    BY <1>10 DEF Levels
  <2> HIDE DEF body
  <2>3. VoxelsInto(level.body, body, leaf.operation) \in Bodies(cell)
    BY <1>2, <1>11, <2>2, VoxelsIntoBodies
  <2>4. into \in Levels(cell)
    BY <1>10, <2>1, <2>2, <2>3 DEF Levels
  <2>5. Composed(f, leaf, cell).unbound = TRUE
    <3>1. Composed(f, leaf, cell).unbound = (f.unbound \/ IsUnboundable(leaf))
      BY <1>9
    <3> QED
      BY <1>13, <3>1, Zenon
  <2>6. levels \in [1 .. n + 1 -> Levels(cell)]
    BY <1>5, <1>6, <2>4
  <2> HIDE DEF levels
  <2>7. levels \in Seq(Levels(cell)) /\ Len(levels) = n + 1
    BY <1>3, <2>6
  <2>8. Composed(f, leaf, cell).frames = leaf.frames /\ Composed(f, leaf, cell).levels = levels
    BY <1>9
  <2> QED
    BY <1>2, <2>5, <2>7, <2>8 DEF SoundFold
<1>14. CASE ~IsUnboundable(leaf)
  <2> DEFINE operand == [interval |-> CellFieldInterval(leaf.producer, cell), body |-> body]
  <2>1. operand \in Levels(cell) /\ LevelIsSound(operand)
    BY <1>2, <1>14, ProducersAreSound DEF IsUnboundable
  <2>2. into = Into(level, operand.interval, operand.body, leaf.operation)
    BY <1>12, <1>14 DEF LeafInto
  <2> HIDE DEF operand
  <2>3. into \in Levels(cell)
    BY <1>2, <1>10, <2>1, <2>2, IntoIsLevel
  <2>4. ~f.unbound => LevelIsSound(into)
    <3>1. ~f.unbound => LevelIsSound(level)
      BY <1>7, <1>8 DEF level
    <3> QED
      BY <1>2, <1>10, <2>1, <2>2, <3>1, IntoIsSound
  <2>5. Composed(f, leaf, cell).unbound = f.unbound
    BY <1>1, <1>9, <1>14
  <2>6. /\ levels \in [1 .. n + 1 -> Levels(cell)]
        /\ \A i \in 1 .. n + 1 : levels[i] = IF i = n + 1 THEN into ELSE opened[i]
    BY <1>5, <1>6, <2>3
  <2> HIDE DEF levels, opened
  <2>7. levels \in Seq(Levels(cell)) /\ Len(levels) = n + 1
    BY <1>3, <2>6
  <2>8. ~f.unbound => \A i \in 1 .. n + 1 : LevelIsSound(levels[i])
    BY <1>7, <2>4, <2>6
  <2>9. Composed(f, leaf, cell).frames = leaf.frames /\ Composed(f, leaf, cell).levels = levels
    BY <1>9
  <2> QED
    BY <1>1, <1>2, <2>5, <2>7, <2>8, <2>9 DEF SoundFold
<1> QED
  BY <1>13, <1>14

(***************************************************************************)
(* The steps.                                                              *)
(***************************************************************************)
FoldInv ==
  /\ leaves \in Seq(LeafRecords) /\ nodes \in Nat /\ composed \in 0 .. Len(leaves)
  /\ \A cell \in Cells : SoundFold(fold[cell], cell)

(* The frames the walk is inside of, and any prefix of them, are frames.   *)
LEMMA InsideIsFrames ==
  ASSUME leaves \in Seq(LeafRecords), NEW kept \in 0 .. Len(Inside)
  PROVE  Inside \in Seq(ScopeFrames) /\ SubSeq(Inside, 1, kept) \in Seq(ScopeFrames)
<1>1. Inside \in Seq(ScopeFrames)
  <2>1. CASE leaves = << >>
    BY <2>1 DEF Inside
  <2>2. CASE leaves # << >>
    <3> DEFINE frames == Last(leaves).frames
    <3>1. frames \in Seq(ScopeFrames)
      <4>1. Len(leaves) \in 1 .. Len(leaves)
        BY <2>2
      <4>2. leaves[Len(leaves)] \in LeafRecords
        BY <4>1
      <4> QED
        BY <4>2 DEF Last, LeafRecords
    <3>2. Inside = IF InFixture(frames) THEN Front(frames) ELSE frames
      BY <2>2 DEF Inside
    <3> HIDE DEF frames
    <3>3. frames # << >> => Front(frames) \in Seq(ScopeFrames)
      BY <3>1, SubSeqProperties DEF Front
    <3> QED
      BY <3>1, <3>2, <3>3 DEF InFixture
  <2> QED
    BY <2>1, <2>2
<1> DEFINE inside == Inside
<1> HIDE DEF inside
<1>2. SubSeq(inside, 1, kept) \in Seq(ScopeFrames)
  <2>1. inside \in Seq(ScopeFrames) /\ kept \in 0 .. Len(inside)
    BY <1>1 DEF inside
  <2>2. \A i \in 1 .. kept : inside[i] \in ScopeFrames
    BY <2>1
  <2> QED
    BY <2>1, <2>2, SubSeqProperties
<1> QED
  BY <1>1, <1>2 DEF inside

(* The walk adds leaves, and only while the folds have taken the ones      *)
(* before.                                                                 *)
LEMMA VisitKeeps ==
  ASSUME FoldInv, NEW p \in Producers, NEW operation \in Operations,
         NEW entered \in Entered, NEW kept \in 0 .. Len(Inside),
         Visit(p, operation, kept, entered)
  PROVE  FoldInv'
<1>1. leaves \in Seq(LeafRecords) /\ nodes \in Nat /\ composed \in 0 .. Len(leaves)
  BY DEF FoldInv
<1>2. PICK n \in 0 .. MaxNodes - nodes - 1 : entered \in [1 .. n -> Operations]
  BY DEF Entered
<1>3. n \in Nat /\ Len(entered) = n /\ DOMAIN entered = 1 .. n
  BY <1>1, <1>2, BoundsAssumption
<1> DEFINE opened == [i \in DOMAIN entered |-> Frame(nodes + i, entered[i], nodes + i)]
           frames == SubSeq(Inside, 1, kept) \o opened
           leaf == [producer |-> p, operation |-> operation, frames |-> frames]
<1>4. opened \in Seq(ScopeFrames)
  <2>1. \A i \in 1 .. n : Frame(nodes + i, entered[i], nodes + i) \in ScopeFrames
    BY <1>1, <1>2, <1>3 DEF Frame, ScopeFrames
  <2>2. opened \in [1 .. n -> ScopeFrames]
    BY <1>3, <2>1
  <2> HIDE DEF opened
  <2> QED
    BY <1>3, <2>2
<1> HIDE DEF opened
<1>5. frames \in Seq(ScopeFrames)
  BY <1>1, <1>4, InsideIsFrames, ConcatProperties
<1> HIDE DEF frames
<1>6. leaf \in LeafRecords
  BY <1>5 DEF LeafRecords
<1>7. leaves' = Append(leaves, leaf) /\ nodes' = nodes + Len(entered) + 1
  BY DEF Visit, frames, opened
<1> HIDE DEF leaf
<1>8. leaves' \in Seq(LeafRecords) /\ Len(leaves') = Len(leaves) + 1
  BY <1>1, <1>6, <1>7
<1>9. nodes' \in Nat
  BY <1>1, <1>3, <1>7
<1>10. UNCHANGED <<composed, fold>>
  BY DEF Visit
<1>11. composed' \in 0 .. Len(leaves')
  BY <1>1, <1>8, <1>10
<1>12. \A cell \in Cells : SoundFold(fold[cell], cell)'
  BY <1>10 DEF FoldInv
<1> QED
  BY <1>8, <1>9, <1>11, <1>12 DEF FoldInv

(* So does an instance of a fixture.                                       *)
LEMMA PlaceFixtureKeeps ==
  ASSUME FoldInv, NEW placed \in Fixtures, NEW kept \in 0 .. Len(Inside),
         PlaceFixture(placed, kept)
  PROVE  FoldInv'
<1>1. leaves \in Seq(LeafRecords) /\ nodes \in Nat /\ composed \in 0 .. Len(leaves)
  BY DEF FoldInv
<1>2. placed \in Seq([producer : Producers, operation : Operations])
  BY BoundsAssumption
<1>3. Len(placed) \in Nat /\ DOMAIN placed = 1 .. Len(placed)
  BY <1>2
<1> DEFINE frames == Append(SubSeq(Inside, 1, kept), Frame(FixtureGroup, FixtureOp, nodes + 1))
           leaf(i) == [producer |-> placed[i].producer, operation |-> placed[i].operation,
                       frames |-> frames]
           added == [i \in DOMAIN placed |-> leaf(i)]
<1>4. frames \in Seq(ScopeFrames)
  <2>1. Frame(FixtureGroup, FixtureOp, nodes + 1) \in ScopeFrames
    BY <1>1, BoundsAssumption DEF Frame, FixtureGroup, ScopeFrames
  <2> QED
    BY <1>1, <2>1, InsideIsFrames, AppendProperties
<1>5. leaves' = leaves \o added /\ nodes' = nodes + 1
  BY DEF PlaceFixture
<1> HIDE DEF frames
<1>6. \A i \in 1 .. Len(placed) : leaf(i) \in LeafRecords
  <2> SUFFICES ASSUME NEW i \in 1 .. Len(placed)
               PROVE  leaf(i) \in LeafRecords
    OBVIOUS
  <2>1. placed[i] \in [producer : Producers, operation : Operations]
    <3> DEFINE Stamped == [producer : Producers, operation : Operations]
    <3> HIDE DEF Stamped
    <3>1. placed \in Seq(Stamped)
      BY <1>2 DEF Stamped
    <3>2. placed[i] \in Stamped
      BY <1>3, <3>1
    <3> QED
      BY <3>2 DEF Stamped
  <2> QED
    BY <1>4, <2>1 DEF LeafRecords
<1> HIDE DEF leaf
<1>7. added \in Seq(LeafRecords) /\ Len(added) = Len(placed)
  <2>1. added \in [1 .. Len(placed) -> LeafRecords]
    BY <1>3, <1>6
  <2> HIDE DEF added
  <2> QED
    BY <1>3, <2>1
<1> HIDE DEF added
<1>8. leaves' \in Seq(LeafRecords) /\ Len(leaves') = Len(leaves) + Len(placed)
  <2> HIDE DEF LeafRecords
  <2>1. leaves \o added \in Seq(LeafRecords) /\ Len(leaves \o added) = Len(leaves) + Len(added)
    BY <1>1, <1>7, ConcatProperties
  <2> QED
    BY <1>5, <1>7, <2>1
<1>9. nodes' \in Nat
  BY <1>1, <1>5
<1>10. UNCHANGED <<composed, fold>>
  BY DEF PlaceFixture
<1>11. composed' \in 0 .. Len(leaves')
  BY <1>1, <1>3, <1>8, <1>10
<1>12. \A cell \in Cells : SoundFold(fold[cell], cell)'
  BY <1>10 DEF FoldInv
<1> QED
  BY <1>8, <1>9, <1>11, <1>12 DEF FoldInv

(* A fold that must close has a scope open.                                *)
LEMMA ClosingFoldsAreOpen ==
  ASSUME FoldInv, NEW cell \in Cells, FoldMustClose(cell)
  PROVE  fold[cell].frames # << >>
<1> SUFFICES ASSUME fold[cell].frames = << >>
             PROVE  FALSE
  OBVIOUS
<1>1. /\ WalkIsAhead
      /\ MustClose(PathOf(fold[cell].frames), ScopePath(leaves[composed + 1]))
  BY DEF FoldMustClose
<1> DEFINE path == ScopePath(leaves[composed + 1])
<1>2. PathOf(fold[cell].frames) = << >>
  BY DEF PathOf
<1>3. ~IsPrefix(<< >>, path)
  BY <1>1, <1>2 DEF MustClose
<1>4. path = [i \in 1 .. Len(leaves[composed + 1].frames) |->
                <<leaves[composed + 1].frames[i].node, leaves[composed + 1].frames[i].operation>>]
      /\ Len(leaves[composed + 1].frames) \in Nat
  <2>1. composed + 1 \in 1 .. Len(leaves) /\ leaves \in Seq(LeafRecords)
    BY <1>1 DEF FoldInv, WalkIsAhead
  <2>2. leaves[composed + 1] \in LeafRecords
    BY <2>1
  <2>3. leaves[composed + 1].frames \in Seq(ScopeFrames)
    BY <2>2 DEF LeafRecords
  <2> QED
    BY <2>3 DEF ScopePath, PathOf
<1> HIDE DEF path
<1>5. Len(path) \in Nat
  BY <1>4
<1>6. SubSeq(<< >>, 1, 0) = SubSeq(path, 1, 0) /\ Len(<< >>) = 0
  BY SubSeqEmpty
<1> QED
  BY <1>3, <1>5, <1>6 DEF IsPrefix

(* Closing scopes and composing a leaf keep every fold sound.              *)
LEMMA CloseScopeKeeps ==
  ASSUME FoldInv, CloseScope
  PROVE  FoldInv'
<1>1. fold' = [cell \in Cells |-> IF FoldMustClose(cell) THEN Closed(fold[cell]) ELSE fold[cell]]
  BY DEF CloseScope
<1>2. \A cell \in Cells : SoundFold(fold'[cell], cell)
  <2> SUFFICES ASSUME NEW cell \in Cells
               PROVE  SoundFold(fold'[cell], cell)
    OBVIOUS
  <2>1. SoundFold(fold[cell], cell)
    BY DEF FoldInv
  <2>2. CASE FoldMustClose(cell)
    <3>1. SoundFold(Closed(fold[cell]), cell)
      BY <2>1, <2>2, ClosingFoldsAreOpen, ClosedIsSound
    <3>2. fold'[cell] = Closed(fold[cell])
      BY <1>1, <2>2
    <3> QED
      BY <3>1, <3>2
  <2>3. CASE ~FoldMustClose(cell)
    BY <1>1, <2>1, <2>3
  <2> QED
    BY <2>2, <2>3
<1> QED
  BY <1>2 DEF FoldInv, CloseScope

(* Composing the next leaf into the fold it is due in does.                *)
LEMMA ComposeKeeps ==
  ASSUME FoldInv, Compose
  PROVE  FoldInv'
<1> DEFINE leaf == leaves[composed + 1]
<1>1. /\ fold' = [cell \in Cells |-> IF Keeps(leaf, cell) THEN Composed(fold[cell], leaf, cell)
                                     ELSE fold[cell]]
      /\ composed' = composed + 1 /\ UNCHANGED <<leaves, nodes>>
  BY DEF Compose
<1>2. composed + 1 \in 1 .. Len(leaves)
  BY DEF FoldInv, Compose, WalkIsAhead
<1>3. leaf \in LeafRecords
  BY <1>2 DEF FoldInv
<1> HIDE DEF leaf
<1>4. \A cell \in Cells : SoundFold(fold'[cell], cell)
  <2> SUFFICES ASSUME NEW cell \in Cells
               PROVE  SoundFold(fold'[cell], cell)
    OBVIOUS
  <2>1. SoundFold(fold[cell], cell)
    BY DEF FoldInv
  <2>2. SoundFold(Composed(fold[cell], leaf, cell), cell)
    BY <1>3, <2>1, ComposedIsSound
  <2> QED
    BY <1>1, <2>1, <2>2
<1> QED
  BY <1>1, <1>2, <1>4 DEF FoldInv

(* The invariant is inductive.                                             *)
LEMMA FoldInvIsInductive == Spec => []FoldInv
<1>1. Init => FoldInv
  <2> SUFFICES ASSUME Init
               PROVE  FoldInv
    OBVIOUS
  <2>1. leaves \in Seq(LeafRecords) /\ nodes \in Nat /\ composed \in 0 .. Len(leaves)
    BY DEF Init
  <2>2. \A cell \in Cells : SoundFold(fold[cell], cell)
    BY EmptyFoldIsSound DEF Init
  <2> QED
    BY <2>1, <2>2 DEF FoldInv
<1>2. FoldInv /\ [Next]_vars => FoldInv'
  <2> SUFFICES ASSUME FoldInv, [Next]_vars
               PROVE  FoldInv'
    OBVIOUS
  <2>1. ASSUME NEW entered \in Entered, NEW kept \in 0 .. Len(Inside),
               NEW p \in Producers, NEW operation \in Operations,
               Visit(p, operation, kept, entered)
        PROVE  FoldInv'
    BY <2>1, VisitKeeps
  <2>2. ASSUME NEW placed \in Fixtures, NEW kept \in 0 .. Len(Inside), PlaceFixture(placed, kept)
        PROVE  FoldInv'
    BY <2>2, PlaceFixtureKeeps
  <2>3. CASE EndWalk
    BY <2>3 DEF EndWalk, FoldInv
  <2>4. CASE CloseScope
    BY <2>4, CloseScopeKeeps
  <2>5. CASE Compose
    BY <2>5, ComposeKeeps
  <2>6. CASE UNCHANGED vars
    BY <2>6 DEF vars, FoldInv
  <2> QED
    BY <2>1, <2>2, <2>3, <2>4, <2>5, <2>6 DEF Next, Walk
<1> QED
  BY <1>1, <1>2, PTL DEF Spec

(* At every moment of every fold, at every depth of scopes, an interval    *)
(* never claims more than the voxels bear out, so that a block or a chunk  *)
(* decided from one need not be resolved.                                  *)
THEOREM IntervalsAreSound == Spec => []FoldIsSound
<1>1. FoldInv => FoldIsSound
  <2> SUFFICES ASSUME FoldInv, NEW cell \in Cells, ~fold[cell].unbound,
                      NEW i \in DOMAIN fold[cell].levels
               PROVE  LevelIsSound(fold[cell].levels[i])
    BY DEF FoldIsSound
  <2>1. SoundFold(fold[cell], cell)
    BY DEF FoldInv
  <2>2. DOMAIN fold[cell].levels = 1 .. Len(fold[cell].levels)
    BY <2>1 DEF SoundFold
  <2> QED
    BY <2>1, <2>2 DEF SoundFold
<1> QED
  BY <1>1, FoldInvIsInductive, PTL

(***************************************************************************)
(* One voxel of two folds: the frames that are open, and what the voxel    *)
(* holds at each level.                                                    *)
(***************************************************************************)
Values == Stamps \cup {Nothing}
Put(x, y, operation) ==
  CASE operation = "union" -> IF y # Nothing THEN y ELSE x
    [] operation = "subtract" -> IF y # Nothing THEN Nothing ELSE x
    [] OTHER -> IF y # Nothing THEN x ELSE Nothing

IsLane(f, a) == f \in Seq(ScopeFrames) /\ a \in [1 .. Len(f) + 1 -> Values]
LaneClosed(f, a) ==
  [k \in 1 .. Len(f) |-> IF k = Len(f) THEN Put(a[k], a[k + 1], f[k].operation) ELSE a[k]]
LaneComposed(f, a, t, x, operation) ==
  [k \in 1 .. Len(t) + 1 |->
     LET old == IF k <= Len(f) + 1 THEN a[k] ELSE Nothing
     IN  IF k = Len(t) + 1 THEN Put(old, x, operation) ELSE old]

(* The first p frames of f and s are the same, and no more.                *)
Shares(f, s, p) ==
  /\ p \in 0 .. Len(f) /\ p <= Len(s)
  /\ \A i \in 1 .. p : f[i] = s[i]
  /\ p < Len(f) /\ p < Len(s) => f[p + 1] # s[p + 1]
(* u is what the levels beyond p come to when they close.                  *)
FoldsTo(f, a, p, u) ==
  /\ u \in [p + 1 .. Len(f) + 1 -> Values]
  /\ u[Len(f) + 1] = a[Len(f) + 1]
  /\ \A k \in p + 1 .. Len(f) : u[k] = Put(a[k], u[k + 1], f[k].operation)
(* Beyond the level p + 1 of s there is nothing, and nothing comes of it.  *)
Idle(s, b, p, w) ==
  \A k \in p + 2 .. Len(s) + 1 :
    b[k] = Nothing /\ w[k] = Nothing /\ s[k - 1].operation # "intersect"
Agrees(f, a, s, b, awaited, p, u, w) ==
  /\ Shares(f, s, p)
  /\ \A k \in 1 .. p : a[k] = b[k]
  /\ FoldsTo(f, a, p, u) /\ FoldsTo(s, b, p, w) /\ u[p + 1] = w[p + 1]
  /\ p + 1 \in awaited => Idle(s, b, p, w)
Agree(f, a, s, b, awaited) == \E p, u, w : Agrees(f, a, s, b, awaited, p, u, w)

(* What an operation puts in a voxel.                                      *)
LEMMA PutIsValue ==
  ASSUME NEW x \in Values, NEW y \in Values, NEW op
  PROVE  /\ Put(x, y, op) \in Values
         /\ op \in Operations /\ op # "intersect" => Put(x, Nothing, op) = x
BY DEF Put, Values, Operations

(* The frames without the innermost.                                       *)
LEMMA FrontOfFrames ==
  ASSUME NEW f \in Seq(ScopeFrames), f # << >>
  PROVE  /\ Front(f) \in Seq(ScopeFrames) /\ Len(Front(f)) = Len(f) - 1
         /\ Len(f) \in Nat \ {0}
         /\ \A i \in 1 .. Len(f) - 1 : Front(f)[i] = f[i]
<1>1. Len(f) \in Nat \ {0} /\ \A i \in 1 .. Len(f) : f[i] \in ScopeFrames
  BY EmptySeq
<1>2. Front(f) = SubSeq(f, 1, Len(f) - 1)
  BY DEF Front
<1>3. \A i \in 1 .. Len(f) - 1 : f[i] \in ScopeFrames
  BY <1>1
<1> DEFINE n == Len(f) - 1
<1>4. n \in Nat
  BY <1>1
<1> HIDE DEF n
<1>5. /\ SubSeq(f, 1, n) \in Seq(ScopeFrames)
      /\ Len(SubSeq(f, 1, n)) = IF 1 <= n THEN n - 1 + 1 ELSE 0
      /\ \A i \in 1 .. n - 1 + 1 : SubSeq(f, 1, n)[i] = f[1 + i - 1]
  <2> HIDE DEF ScopeFrames
  <2>1. \A i \in 1 .. n : f[i] \in ScopeFrames
    BY <1>3 DEF n
  <2> QED
    BY <1>4, <2>1, SubSeqProperties
<1>6. Len(SubSeq(f, 1, n)) = n /\ \A i \in 1 .. n : SubSeq(f, 1, n)[i] = f[i]
  BY <1>4, <1>5
<1> QED
  BY <1>1, <1>2, <1>5, <1>6 DEF n

(* A voxel keeps its type when its innermost scope closes.                 *)
LEMMA LaneCloses ==
  ASSUME NEW f, NEW a, IsLane(f, a), f # << >>
  PROVE  /\ IsLane(Front(f), LaneClosed(f, a))
         /\ LaneClosed(f, a)[Len(f)] = Put(a[Len(f)], a[Len(f) + 1], f[Len(f)].operation)
         /\ \A k \in 1 .. Len(f) - 1 : LaneClosed(f, a)[k] = a[k]
<1> DEFINE n == Len(f)
<1>1. /\ Front(f) \in Seq(ScopeFrames) /\ Len(Front(f)) = n - 1 /\ n \in Nat \ {0}
      /\ a \in [1 .. n + 1 -> Values]
  BY FrontOfFrames DEF IsLane
<1> HIDE DEF n
<1>2. LaneClosed(f, a) = [k \in 1 .. n |-> IF k = n THEN Put(a[k], a[k + 1], f[k].operation) ELSE a[k]]
  BY DEF LaneClosed, n
<1>3. Put(a[n], a[n + 1], f[n].operation) \in Values
  BY <1>1, PutIsValue
<1>4. LaneClosed(f, a) \in [1 .. n -> Values]
  BY <1>1, <1>2, <1>3
<1>5. IsLane(Front(f), LaneClosed(f, a))
  BY <1>1, <1>4 DEF IsLane
<1>6. LaneClosed(f, a)[n] = Put(a[n], a[n + 1], f[n].operation)
  BY <1>1, <1>2
<1>7. \A k \in 1 .. n - 1 : LaneClosed(f, a)[k] = a[k]
  BY <1>1, <1>2
<1> QED
  BY <1>5, <1>6, <1>7 DEF n

(* The two still agree when the first closes its innermost scope, which    *)
(* the second is not waiting in.                                           *)
LEMMA FirstCloses ==
  ASSUME NEW f, NEW a, NEW s, NEW b, NEW awaited,
         IsLane(f, a), IsLane(s, b), f # << >>, Agree(f, a, s, b, awaited),
         Len(f) \in awaited => \E i \in 1 .. Len(f) : f[i] # s[i]
  PROVE  Agree(Front(f), LaneClosed(f, a), s, b, awaited)
<1> DEFINE n == Len(f)
           m == Len(s)
           g == Front(f)
           c == LaneClosed(f, a)
<1>1. /\ n \in Nat \ {0} /\ Len(g) = n - 1 /\ \A i \in 1 .. n - 1 : g[i] = f[i]
      /\ m \in Nat /\ a \in [1 .. n + 1 -> Values] /\ b \in [1 .. m + 1 -> Values]
  BY FrontOfFrames DEF IsLane
<1>2. /\ c \in [1 .. n -> Values]
      /\ c[n] = Put(a[n], a[n + 1], f[n].operation)
      /\ \A k \in 1 .. n - 1 : c[k] = a[k]
  <2>1. /\ IsLane(g, c)
        /\ c[n] = Put(a[n], a[n + 1], f[n].operation)
        /\ \A k \in 1 .. n - 1 : c[k] = a[k]
    <3> HIDE DEF IsLane, LaneClosed
    <3> QED
      BY LaneCloses
  <2> HIDE DEF g, c
  <2>2. c \in [1 .. n - 1 + 1 -> Values] /\ n - 1 + 1 = n
    BY <1>1, <2>1 DEF IsLane
  <2> QED
    BY <2>1, <2>2
<1>3. PICK p, u, w : Agrees(f, a, s, b, awaited, p, u, w)
  BY DEF Agree
<1> HIDE DEF g, c
<1>4. /\ p \in 0 .. n /\ p <= m
      /\ \A i \in 1 .. p : f[i] = s[i]
      /\ p < n /\ p < m => f[p + 1] # s[p + 1]
  BY <1>3 DEF Agrees, Shares
<1>5. /\ u \in [p + 1 .. n + 1 -> Values] /\ u[n + 1] = a[n + 1]
      /\ \A k \in p + 1 .. n : u[k] = Put(a[k], u[k + 1], f[k].operation)
  BY <1>3 DEF Agrees, FoldsTo
<1>6. /\ w \in [p + 1 .. m + 1 -> Values] /\ w[m + 1] = b[m + 1]
      /\ \A k \in p + 1 .. m : w[k] = Put(b[k], w[k + 1], s[k].operation)
  BY <1>3 DEF Agrees, FoldsTo
<1>7. /\ \A k \in 1 .. p : a[k] = b[k]
      /\ u[p + 1] = w[p + 1] /\ FoldsTo(s, b, p, w)
      /\ p + 1 \in awaited => Idle(s, b, p, w)
  BY <1>3 DEF Agrees
<1>8. n \in awaited => \E i \in 1 .. n : f[i] # s[i]
  OBVIOUS
<1> HIDE DEF n, m
<1>9. CASE p < n
  <2> DEFINE x == [k \in p + 1 .. n |-> u[k]]
  <2>1. x \in [p + 1 .. n -> Values] /\ \A k \in p + 1 .. n : x[k] = u[k]
    BY <1>1, <1>5
  <2> HIDE DEF x
  <2>2. FoldsTo(g, c, p, x)
    <3>1. Len(g) + 1 = n
      BY <1>1
    <3>2. x[n] = c[n]
      BY <1>1, <1>2, <1>4, <1>5, <1>9, <2>1
    <3>3. ASSUME NEW k \in p + 1 .. n - 1
          PROVE  x[k] = Put(c[k], x[k + 1], g[k].operation)
      <4>1. k \in p + 1 .. n /\ k + 1 \in p + 1 .. n /\ k \in 1 .. n - 1
        BY <1>1, <1>4
      <4>2. x[k] = u[k] /\ x[k + 1] = u[k + 1] /\ c[k] = a[k] /\ g[k] = f[k]
        BY <1>1, <1>2, <2>1, <4>1
      <4> QED
        BY <1>5, <4>1, <4>2
    <3> QED
      BY <1>1, <2>1, <3>1, <3>2, <3>3 DEF FoldsTo
  <2>3. Shares(g, s, p)
    BY <1>1, <1>4, <1>9 DEF Shares, m
  <2>4. \A k \in 1 .. p : c[k] = b[k]
    BY <1>1, <1>2, <1>4, <1>7, <1>9
  <2>5. x[p + 1] = w[p + 1]
    BY <1>1, <1>4, <1>7, <1>9, <2>1
  <2>6. Agrees(g, c, s, b, awaited, p, x, w)
    BY <1>7, <2>2, <2>3, <2>4, <2>5 DEF Agrees
  <2> QED
    BY <2>6 DEF Agree, g, c
<1>10. CASE p = n
  <2> DEFINE x == [k \in n .. n |-> c[k]]
             y == [k \in n .. m + 1 |-> IF k = n THEN Put(b[n], w[n + 1], s[n].operation) ELSE w[k]]
             q == n - 1
  <2>1. x \in [n .. n -> Values] /\ x[n] = c[n]
    BY <1>1, <1>2
  <2>2. w[n + 1] \in Values /\ b[n] \in Values /\ n <= m
    BY <1>1, <1>4, <1>6, <1>10
  <2>3. Put(b[n], w[n + 1], s[n].operation) \in Values
    BY <2>2, PutIsValue
  <2>4. /\ y \in [n .. m + 1 -> Values]
        /\ y[n] = Put(b[n], w[n + 1], s[n].operation)
        /\ \A k \in n + 1 .. m + 1 : y[k] = w[k]
    BY <1>1, <1>4, <1>6, <1>10, <2>2, <2>3
  <2> HIDE DEF x, y, q
  <2>5. q \in 0 .. n - 1 /\ q + 1 = n /\ Len(g) + 1 = n
    BY <1>1 DEF q
  <2>6. FoldsTo(g, c, q, x)
    BY <1>1, <2>1, <2>5 DEF FoldsTo
  <2>7. FoldsTo(s, b, q, y)
    <3>1. y \in [q + 1 .. m + 1 -> Values] /\ y[m + 1] = b[m + 1]
      BY <1>1, <1>6, <1>10, <2>2, <2>4, <2>5
    <3>2. ASSUME NEW k \in q + 1 .. m
          PROVE  y[k] = Put(b[k], y[k + 1], s[k].operation)
      <4>1. CASE k = n
        <5>1. y[n + 1] = w[n + 1]
          BY <1>1, <2>2, <2>4
        <5> QED
          BY <2>4, <4>1, <5>1
      <4>2. CASE k # n
        <5>1. k \in p + 1 .. m /\ k \in n + 1 .. m + 1 /\ k + 1 \in n + 1 .. m + 1
          BY <1>1, <1>10, <2>5, <4>2
        <5>2. y[k] = w[k] /\ y[k + 1] = w[k + 1]
          BY <2>4, <5>1
        <5> QED
          BY <1>6, <5>1, <5>2
      <4> QED
        BY <4>1, <4>2
    <3> QED
      BY <3>1, <3>2 DEF FoldsTo, m
  <2>8. Shares(g, s, q)
    <3>1. \A i \in 1 .. q : g[i] = s[i]
      BY <1>1, <1>4, <1>10, <2>5
    <3> QED
      BY <1>1, <2>2, <2>5, <3>1 DEF Shares, m
  <2>9. \A k \in 1 .. q : c[k] = b[k]
    BY <1>1, <1>2, <1>7, <1>10, <2>5
  <2>10. x[q + 1] = y[q + 1]
    <3>1. a[n] = b[n] /\ f[n] = s[n] /\ a[n + 1] = w[n + 1]
      BY <1>1, <1>4, <1>5, <1>7, <1>10
    <3> QED
      BY <1>2, <2>1, <2>4, <2>5, <3>1
  <2>11. q + 1 \notin awaited
    BY <1>4, <1>8, <1>10, <2>5
  <2>12. Agrees(g, c, s, b, awaited, q, x, y)
    BY <2>6, <2>7, <2>8, <2>9, <2>10, <2>11 DEF Agrees
  <2> QED
    BY <2>12 DEF Agree, g, c
<1> QED
  BY <1>1, <1>4, <1>9, <1>10

(* They agree when less is waited for.                                     *)
LEMMA AgreeNarrows ==
  ASSUME NEW f, NEW a, NEW s, NEW b, NEW awaited, NEW fewer \in SUBSET awaited,
         Agree(f, a, s, b, awaited)
  PROVE  Agree(f, a, s, b, fewer)
<1>1. PICK p, u, w : Agrees(f, a, s, b, awaited, p, u, w)
  BY DEF Agree
<1>2. Agrees(f, a, s, b, fewer, p, u, w)
  BY <1>1 DEF Agrees
<1> QED
  BY <1>2 DEF Agree

(* They agree when the second closes its innermost scope.                  *)
LEMMA SecondCloses ==
  ASSUME NEW f, NEW a, NEW s, NEW b, NEW awaited,
         IsLane(f, a), IsLane(s, b), s # << >>, Agree(f, a, s, b, awaited)
  PROVE  Agree(f, a, Front(s), LaneClosed(s, b), awaited)
<1> DEFINE n == Len(f)
           m == Len(s)
           g == Front(s)
           c == LaneClosed(s, b)
<1>1. /\ m \in Nat \ {0} /\ Len(g) = m - 1 /\ \A i \in 1 .. m - 1 : g[i] = s[i]
      /\ n \in Nat /\ a \in [1 .. n + 1 -> Values] /\ b \in [1 .. m + 1 -> Values]
  BY FrontOfFrames DEF IsLane
<1>2. /\ c \in [1 .. m -> Values]
      /\ c[m] = Put(b[m], b[m + 1], s[m].operation)
      /\ \A k \in 1 .. m - 1 : c[k] = b[k]
  <2>1. /\ IsLane(g, c)
        /\ c[m] = Put(b[m], b[m + 1], s[m].operation)
        /\ \A k \in 1 .. m - 1 : c[k] = b[k]
    <3> HIDE DEF IsLane, LaneClosed
    <3> QED
      BY LaneCloses
  <2> HIDE DEF g, c
  <2>2. c \in [1 .. m - 1 + 1 -> Values] /\ m - 1 + 1 = m
    BY <1>1, <2>1 DEF IsLane
  <2> QED
    BY <2>1, <2>2
<1>3. PICK p, u, w : Agrees(f, a, s, b, awaited, p, u, w)
  BY DEF Agree
<1> HIDE DEF g, c
<1>4. /\ p \in 0 .. n /\ p <= m
      /\ \A i \in 1 .. p : f[i] = s[i]
      /\ p < n /\ p < m => f[p + 1] # s[p + 1]
  BY <1>3 DEF Agrees, Shares
<1>5. /\ u \in [p + 1 .. n + 1 -> Values] /\ u[n + 1] = a[n + 1]
      /\ \A k \in p + 1 .. n : u[k] = Put(a[k], u[k + 1], f[k].operation)
  BY <1>3 DEF Agrees, FoldsTo
<1>6. /\ w \in [p + 1 .. m + 1 -> Values] /\ w[m + 1] = b[m + 1]
      /\ \A k \in p + 1 .. m : w[k] = Put(b[k], w[k + 1], s[k].operation)
  BY <1>3 DEF Agrees, FoldsTo
<1>7. /\ \A k \in 1 .. p : a[k] = b[k]
      /\ u[p + 1] = w[p + 1] /\ FoldsTo(f, a, p, u)
  BY <1>3 DEF Agrees
<1>8. p + 1 \in awaited => \A k \in p + 2 .. m + 1 :
        b[k] = Nothing /\ w[k] = Nothing /\ s[k - 1].operation # "intersect"
  BY <1>3 DEF Agrees, Idle
<1> HIDE DEF n, m
<1>9. CASE p < m
  <2> DEFINE x == [k \in p + 1 .. m |-> w[k]]
  <2>1. x \in [p + 1 .. m -> Values] /\ \A k \in p + 1 .. m : x[k] = w[k]
    BY <1>1, <1>6
  <2> HIDE DEF x
  <2>2. FoldsTo(g, c, p, x)
    <3>1. Len(g) + 1 = m
      BY <1>1
    <3>2. x[m] = c[m]
      BY <1>1, <1>2, <1>4, <1>6, <1>9, <2>1
    <3>3. ASSUME NEW k \in p + 1 .. m - 1
          PROVE  x[k] = Put(c[k], x[k + 1], g[k].operation)
      <4>1. k \in p + 1 .. m /\ k + 1 \in p + 1 .. m /\ k \in 1 .. m - 1
        BY <1>1, <1>4
      <4>2. x[k] = w[k] /\ x[k + 1] = w[k + 1] /\ c[k] = b[k] /\ g[k] = s[k]
        BY <1>1, <1>2, <2>1, <4>1
      <4> QED
        BY <1>6, <4>1, <4>2
    <3> QED
      BY <1>1, <2>1, <3>1, <3>2, <3>3 DEF FoldsTo
  <2>3. Shares(f, g, p)
    <3>1. \A i \in 1 .. p : f[i] = g[i]
      BY <1>1, <1>4, <1>9
    <3>2. p < n /\ p < m - 1 => f[p + 1] # g[p + 1]
      BY <1>1, <1>4
    <3> QED
      BY <1>1, <1>4, <1>9, <3>1, <3>2 DEF Shares, n
  <2>4. \A k \in 1 .. p : a[k] = c[k]
    BY <1>1, <1>2, <1>4, <1>7, <1>9
  <2>5. u[p + 1] = x[p + 1]
    BY <1>1, <1>4, <1>7, <1>9, <2>1
  <2>6. p + 1 \in awaited => Idle(g, c, p, x)
    <3> SUFFICES ASSUME p + 1 \in awaited, NEW k \in p + 2 .. m
                 PROVE  c[k] = Nothing /\ x[k] = Nothing /\ g[k - 1].operation # "intersect"
      BY <1>1 DEF Idle
    <3>1. k \in p + 2 .. m + 1 /\ k \in p + 1 .. m /\ k - 1 \in 1 .. m - 1
      BY <1>1, <1>4
    <3>2. b[k] = Nothing /\ w[k] = Nothing /\ s[k - 1].operation # "intersect"
      BY <1>8, <3>1
    <3>3. c[k] = Nothing
      <4>1. CASE k = m
        <5>1. x[m] = c[m]
          BY <1>1, <2>2 DEF FoldsTo
        <5> QED
          BY <2>1, <3>1, <3>2, <4>1, <5>1
      <4>2. CASE k # m
        <5>1. k \in 1 .. m - 1
          BY <1>1, <1>4, <3>1, <4>2
        <5> QED
          BY <1>2, <3>2, <5>1
      <4> QED
        BY <4>1, <4>2
    <3> QED
      BY <1>1, <2>1, <3>1, <3>2, <3>3
  <2>7. Agrees(f, a, g, c, awaited, p, u, x)
    BY <1>7, <2>2, <2>3, <2>4, <2>5, <2>6 DEF Agrees
  <2> QED
    BY <2>7 DEF Agree, g, c
<1>10. CASE p = m
  <2> DEFINE x == [k \in m .. m |-> c[k]]
             y == [k \in m .. n + 1 |-> IF k = m THEN Put(a[m], u[m + 1], f[m].operation) ELSE u[k]]
             q == m - 1
  <2>1. x \in [m .. m -> Values] /\ x[m] = c[m]
    BY <1>1, <1>2
  <2>2. u[m + 1] \in Values /\ a[m] \in Values /\ m <= n
    BY <1>1, <1>4, <1>5, <1>10
  <2>3. Put(a[m], u[m + 1], f[m].operation) \in Values
    BY <2>2, PutIsValue
  <2>4. /\ y \in [m .. n + 1 -> Values]
        /\ y[m] = Put(a[m], u[m + 1], f[m].operation)
        /\ \A k \in m + 1 .. n + 1 : y[k] = u[k]
    BY <1>1, <1>4, <1>5, <1>10, <2>2, <2>3
  <2> HIDE DEF x, y, q
  <2>5. q \in 0 .. m - 1 /\ q + 1 = m /\ Len(g) + 1 = m
    BY <1>1 DEF q
  <2>6. FoldsTo(g, c, q, x)
    BY <1>1, <2>1, <2>5 DEF FoldsTo
  <2>7. FoldsTo(f, a, q, y)
    <3>1. y \in [q + 1 .. n + 1 -> Values] /\ y[n + 1] = a[n + 1]
      BY <1>1, <1>5, <1>10, <2>2, <2>4, <2>5
    <3>2. ASSUME NEW k \in q + 1 .. n
          PROVE  y[k] = Put(a[k], y[k + 1], f[k].operation)
      <4>1. CASE k = m
        <5>1. y[m + 1] = u[m + 1]
          BY <1>1, <2>2, <2>4
        <5> QED
          BY <2>4, <4>1, <5>1
      <4>2. CASE k # m
        <5>1. k \in p + 1 .. n /\ k \in m + 1 .. n + 1 /\ k + 1 \in m + 1 .. n + 1
          BY <1>1, <1>10, <2>5, <4>2
        <5>2. y[k] = u[k] /\ y[k + 1] = u[k + 1]
          BY <2>4, <5>1
        <5> QED
          BY <1>5, <5>1, <5>2
      <4> QED
        BY <4>1, <4>2
    <3> QED
      BY <3>1, <3>2 DEF FoldsTo, n
  <2>8. Shares(f, g, q)
    <3>1. \A i \in 1 .. q : f[i] = g[i]
      BY <1>1, <1>4, <1>10, <2>5
    <3> QED
      BY <1>1, <2>2, <2>5, <3>1 DEF Shares, n
  <2>9. \A k \in 1 .. q : a[k] = c[k]
    BY <1>1, <1>2, <1>7, <1>10, <2>5
  <2>10. y[q + 1] = x[q + 1]
    <3>1. a[m] = b[m] /\ f[m] = s[m] /\ u[m + 1] = b[m + 1]
      BY <1>1, <1>4, <1>6, <1>7, <1>10
    <3> QED
      BY <1>2, <2>1, <2>4, <2>5, <3>1
  <2>11. Idle(g, c, q, x)
    BY <1>1, <2>5 DEF Idle
  <2>12. Agrees(f, a, g, c, awaited, q, y, x)
    BY <2>6, <2>7, <2>8, <2>9, <2>10, <2>11 DEF Agrees
  <2> QED
    BY <2>12 DEF Agree, g, c
<1> QED
  BY <1>1, <1>4, <1>9, <1>10

(* The frames of f are the first of t.                                     *)
Opens(f, t) == Len(f) <= Len(t) /\ \A i \in 1 .. Len(f) : f[i] = t[i]

(* A voxel keeps its type when a leaf composes into it: the levels that    *)
(* were open stay, the new ones are empty, the leaf goes into the last.    *)
LEMMA LaneComposes ==
  ASSUME NEW f, NEW a, IsLane(f, a), NEW t \in Seq(ScopeFrames), NEW x \in Values,
         NEW op, Opens(f, t)
  PROVE  LET c == LaneComposed(f, a, t, x, op)
             old == IF Len(t) = Len(f) THEN a[Len(t) + 1] ELSE Nothing
         IN  /\ IsLane(t, c)
             /\ c[Len(t) + 1] = Put(old, x, op) /\ old \in Values
             /\ \A k \in 1 .. Len(t) : c[k] = IF k <= Len(f) + 1 THEN a[k] ELSE Nothing
<1> DEFINE n == Len(f)
           m == Len(t)
           c == LaneComposed(f, a, t, x, op)
           old == IF m = n THEN a[m + 1] ELSE Nothing
           before == [k \in 1 .. m + 1 |-> IF k <= n + 1 THEN a[k] ELSE Nothing]
<1>1. n \in Nat /\ m \in Nat /\ n <= m /\ a \in [1 .. n + 1 -> Values]
  BY DEF IsLane, Opens
<1>2. c = [k \in 1 .. m + 1 |->
             LET was == IF k <= n + 1 THEN a[k] ELSE Nothing
             IN  IF k = m + 1 THEN Put(was, x, op) ELSE was]
  BY DEF LaneComposed
<1> HIDE DEF n, m, c
<1>3. \A k \in 1 .. m + 1 : before[k] \in Values
  BY <1>1 DEF Values
<1>4. before[m + 1] = old
  BY <1>1
<1>5. \A k \in 1 .. m + 1 : c[k] = IF k = m + 1 THEN Put(before[k], x, op) ELSE before[k]
  BY <1>1, <1>2
<1>6. m + 1 \in 1 .. m + 1
  BY <1>1
<1>7. c[m + 1] = Put(old, x, op) /\ old \in Values
  BY <1>3, <1>4, <1>5, <1>6
<1>8. Put(old, x, op) \in Values
  BY <1>7, PutIsValue
<1>9. c \in [1 .. m + 1 -> Values]
  <2>1. \A k \in 1 .. m + 1 : c[k] \in Values
    BY <1>3, <1>5, <1>7, <1>8
  <2> QED
    BY <1>2, <2>1
<1>10. \A k \in 1 .. m : c[k] = IF k <= n + 1 THEN a[k] ELSE Nothing
  BY <1>1, <1>5
<1>11. IsLane(t, c)
  BY <1>9 DEF IsLane, m
<1> QED
  BY <1>7, <1>10, <1>11 DEF n, m, c

(* A leaf both take leaves them equal, if what the second had opened       *)
(* beyond the first is idle.                                               *)
LEMMA BothCompose ==
  ASSUME NEW f, NEW a, NEW s, NEW b, NEW awaited, NEW later,
         IsLane(f, a), IsLane(s, b), Agree(f, a, s, b, awaited),
         NEW t \in Seq(ScopeFrames), NEW x \in Values, NEW op,
         Opens(f, t), Opens(s, t),
         Len(f) <= Len(s), Len(f) < Len(s) => Len(f) + 1 \in awaited
  PROVE  Agree(t, LaneComposed(f, a, t, x, op), t, LaneComposed(s, b, t, x, op), later)
<1> DEFINE n == Len(f)
           m == Len(s)
           z == Len(t)
           c == LaneComposed(f, a, t, x, op)
           d == LaneComposed(s, b, t, x, op)
<1>1. /\ n \in Nat /\ m \in Nat /\ z \in Nat /\ n <= m /\ m <= z
      /\ a \in [1 .. n + 1 -> Values] /\ b \in [1 .. m + 1 -> Values]
      /\ \A i \in 1 .. n : f[i] = t[i]
      /\ \A i \in 1 .. m : s[i] = t[i]
  BY DEF IsLane, Opens
<1>2. PICK p, u, w : Agrees(f, a, s, b, awaited, p, u, w)
  BY DEF Agree
<1>3. IsLane(t, c) /\ IsLane(t, d)
  BY LaneComposes
<1>4. /\ c[z + 1] = Put(IF z = n THEN a[z + 1] ELSE Nothing, x, op)
      /\ \A k \in 1 .. z : c[k] = IF k <= n + 1 THEN a[k] ELSE Nothing
  BY LaneComposes
<1>5. /\ d[z + 1] = Put(IF z = m THEN b[z + 1] ELSE Nothing, x, op)
      /\ \A k \in 1 .. z : d[k] = IF k <= m + 1 THEN b[k] ELSE Nothing
  BY LaneComposes
<1> HIDE DEF c, d
<1>6. p = n
  <2>1. p \in 0 .. n /\ (p < n /\ p < m => f[p + 1] # s[p + 1])
    BY <1>2 DEF Agrees, Shares
  <2>2. CASE p < n
    <3>1. p + 1 \in 1 .. n /\ p + 1 \in 1 .. m
      BY <1>1, <2>1, <2>2
    <3>2. f[p + 1] = t[p + 1] /\ s[p + 1] = t[p + 1]
      BY <1>1, <3>1
    <3> QED
      BY <1>1, <2>1, <2>2, <3>2
  <2> QED
    BY <1>1, <2>1, <2>2
<1>7. \A k \in 1 .. n : a[k] = b[k]
  BY <1>2, <1>6 DEF Agrees
<1>8. n < m => \A k \in n + 2 .. m + 1 :
        b[k] = Nothing /\ w[k] = Nothing /\ s[k - 1].operation # "intersect"
  BY <1>2, <1>6 DEF Agrees, Idle
<1>9. a[n + 1] = w[n + 1]
  BY <1>2, <1>6 DEF Agrees, FoldsTo
<1>10. /\ w \in [n + 1 .. m + 1 -> Values] /\ w[m + 1] = b[m + 1]
       /\ \A k \in n + 1 .. m : w[k] = Put(b[k], w[k + 1], s[k].operation)
  BY <1>2, <1>6 DEF Agrees, FoldsTo
<1>11. w[n + 1] = b[n + 1]
  <2>1. CASE n = m
    BY <1>10, <2>1
  <2>2. CASE n < m
    <3>1. n + 2 \in n + 2 .. m + 1 /\ n + 1 \in n + 1 .. m /\ n + 1 \in 1 .. m + 1
          /\ n + 1 \in 1 .. m /\ (n + 2) - 1 = n + 1
      BY <1>1, <2>2
    <3>2. w[n + 2] = Nothing /\ s[n + 1].operation # "intersect"
      BY <1>8, <2>2, <3>1
    <3>3. w[n + 1] = Put(b[n + 1], w[n + 2], s[n + 1].operation)
      BY <1>1, <1>10, <3>1
    <3>4. s[n + 1].operation \in Operations
      <4>1. s[n + 1] \in ScopeFrames
        BY <3>1 DEF IsLane
      <4> QED
        BY <4>1 DEF ScopeFrames
    <3>5. b[n + 1] \in Values /\ Nothing \in Values
      BY <1>1, <3>1 DEF Values
    <3> QED
      BY <3>2, <3>3, <3>4, <3>5, PutIsValue
  <2> QED
    BY <1>1, <2>1, <2>2
<1> DEFINE A(k) == IF k <= n + 1 THEN a[k] ELSE Nothing
           B(k) == IF k <= m + 1 THEN b[k] ELSE Nothing
<1>12. \A k \in 1 .. z + 1 : A(k) = B(k)
  <2> SUFFICES ASSUME NEW k \in 1 .. z + 1
               PROVE  A(k) = B(k)
    OBVIOUS
  <2>1. CASE k <= n
    BY <1>1, <1>7, <2>1
  <2>2. CASE k = n + 1
    BY <1>1, <1>9, <1>11, <2>2
  <2>3. CASE k > n + 1 /\ k <= m + 1
    BY <1>1, <1>8, <2>3
  <2>4. CASE k > m + 1
    BY <1>1, <2>4
  <2> QED
    BY <1>1, <2>1, <2>2, <2>3, <2>4
<1>13. c[z + 1] = d[z + 1]
  <2>1. z + 1 \in 1 .. z + 1
    BY <1>1
  <2>2. A(z + 1) = B(z + 1)
    BY <1>12, <2>1
  <2>3. A(z + 1) = IF z = n THEN a[z + 1] ELSE Nothing
    BY <1>1
  <2>4. B(z + 1) = IF z = m THEN b[z + 1] ELSE Nothing
    BY <1>1
  <2> QED
    BY <1>4, <1>5, <2>2, <2>3, <2>4
<1>14. \A k \in 1 .. z : c[k] = d[k]
  <2> SUFFICES ASSUME NEW k \in 1 .. z
               PROVE  c[k] = d[k]
    OBVIOUS
  <2>1. A(k) = B(k)
    BY <1>1, <1>12
  <2> QED
    BY <1>4, <1>5, <2>1
<1> DEFINE v == [k \in z + 1 .. z + 1 |-> c[k]]
<1>15. v \in [z + 1 .. z + 1 -> Values] /\ v[z + 1] = c[z + 1]
  <2>1. c \in [1 .. z + 1 -> Values] /\ z + 1 \in 1 .. z + 1
    BY <1>1, <1>3 DEF IsLane
  <2> QED
    BY <1>1, <2>1
<1> HIDE DEF v
<1>16. FoldsTo(t, c, z, v) /\ FoldsTo(t, d, z, v)
  BY <1>1, <1>13, <1>15 DEF FoldsTo, z
<1>17. Shares(t, t, z)
  BY <1>1 DEF Shares
<1>18. Idle(t, d, z, v)
  BY <1>1 DEF Idle
<1>19. Agrees(t, c, t, d, later, z, v, v)
  BY <1>14, <1>16, <1>17, <1>18 DEF Agrees
<1> QED
  BY <1>19 DEF Agree, c, d

(* A leaf only the second takes, which masks nothing and does not reach    *)
(* the voxel, leaves them agreeing, if it does not enter a scope the first *)
(* is in and the second has left.                                          *)
LEMMA SecondComposes ==
  ASSUME NEW f, NEW a, NEW s, NEW b, NEW awaited, NEW later,
         IsLane(f, a), IsLane(s, b), Agree(f, a, s, b, awaited),
         NEW t \in Seq(ScopeFrames), NEW op \in Operations, Opens(s, t),
         op # "intersect", \A i \in 1 .. Len(t) : t[i].operation # "intersect",
         Len(s) < Len(f) /\ Len(s) < Len(t) /\ (\A i \in 1 .. Len(s) : f[i] = t[i])
           => f[Len(s) + 1] # t[Len(s) + 1],
         1 .. Len(s) \subseteq awaited
  PROVE  Agree(f, a, t, LaneComposed(s, b, t, Nothing, op), later)
<1> DEFINE n == Len(f)
           m == Len(s)
           z == Len(t)
           d == LaneComposed(s, b, t, Nothing, op)
<1>1. /\ n \in Nat /\ m \in Nat /\ z \in Nat /\ m <= z
      /\ a \in [1 .. n + 1 -> Values] /\ b \in [1 .. m + 1 -> Values]
      /\ \A i \in 1 .. m : s[i] = t[i]
  BY DEF IsLane, Opens
<1>2. PICK p, u, w : Agrees(f, a, s, b, awaited, p, u, w)
  BY DEF Agree
<1>0. Nothing \in Values
  BY DEF Values
<1>3. IsLane(t, d)
  BY <1>0, LaneComposes
<1>4. /\ d[z + 1] = Put(IF z = m THEN b[z + 1] ELSE Nothing, Nothing, op)
      /\ (IF z = m THEN b[z + 1] ELSE Nothing) \in Values
      /\ \A k \in 1 .. z : d[k] = IF k <= m + 1 THEN b[k] ELSE Nothing
  BY <1>0, LaneComposes
<1> HIDE DEF d
<1>5. \A k \in 1 .. z + 1 : d[k] = IF k <= m + 1 THEN b[k] ELSE Nothing
  <2>1. d[z + 1] = IF z = m THEN b[z + 1] ELSE Nothing
    BY <1>4, PutIsValue
  <2>2. z + 1 <= m + 1 <=> z = m
    BY <1>1
  <2>3. \A k \in 1 .. z + 1 : k \in 1 .. z \/ k = z + 1
    BY <1>1
  <2> SUFFICES ASSUME NEW k \in 1 .. z + 1
               PROVE  d[k] = IF k <= m + 1 THEN b[k] ELSE Nothing
    OBVIOUS
  <2>4. CASE k \in 1 .. z
    BY <1>4, <2>4
  <2>5. CASE k = z + 1
    BY <2>1, <2>2, <2>5
  <2> QED
    BY <2>3, <2>4, <2>5
<1>6. /\ p \in 0 .. n /\ p <= m
      /\ \A i \in 1 .. p : f[i] = s[i]
      /\ p < n /\ p < m => f[p + 1] # s[p + 1]
  BY <1>2 DEF Agrees, Shares
<1>7. /\ \A k \in 1 .. p : a[k] = b[k]
      /\ FoldsTo(f, a, p, u) /\ u[p + 1] = w[p + 1]
  BY <1>2 DEF Agrees
<1>8. p < m => \A k \in p + 2 .. m + 1 :
        b[k] = Nothing /\ w[k] = Nothing /\ s[k - 1].operation # "intersect"
  <2> SUFFICES ASSUME p < m
               PROVE  Idle(s, b, p, w)
    BY DEF Idle
  <2>1. p + 1 \in 1 .. m
    BY <1>1, <1>6
  <2> QED
    BY <1>2, <2>1 DEF Agrees
<1>9. /\ w \in [p + 1 .. m + 1 -> Values] /\ w[m + 1] = b[m + 1]
      /\ \A k \in p + 1 .. m : w[k] = Put(b[k], w[k + 1], s[k].operation)
  BY <1>2 DEF Agrees, FoldsTo
<1>10. w[p + 1] = b[p + 1]
  <2>1. CASE p = m
    BY <1>9, <2>1
  <2>2. CASE p < m
    <3>1. p + 2 \in p + 2 .. m + 1 /\ p + 1 \in p + 1 .. m /\ p + 1 \in 1 .. m + 1
          /\ p + 1 \in 1 .. m /\ (p + 2) - 1 = p + 1
      BY <1>1, <1>6, <2>2
    <3>2. w[p + 2] = Nothing /\ s[p + 1].operation # "intersect"
      BY <1>8, <2>2, <3>1
    <3>3. w[p + 1] = Put(b[p + 1], w[p + 2], s[p + 1].operation)
      BY <1>1, <1>9, <3>1
    <3>4. s[p + 1].operation \in Operations
      <4>1. s[p + 1] \in ScopeFrames
        BY <3>1 DEF IsLane
      <4> QED
        BY <4>1 DEF ScopeFrames
    <3>5. b[p + 1] \in Values
      BY <1>1, <3>1
    <3> QED
      BY <1>0, <3>2, <3>3, <3>4, <3>5, PutIsValue
  <2> QED
    BY <1>1, <1>6, <2>1, <2>2
<1>11. \A k \in p + 2 .. z + 1 : d[k] = Nothing
  <2> SUFFICES ASSUME NEW k \in p + 2 .. z + 1
               PROVE  d[k] = Nothing
    OBVIOUS
  <2>1. k \in 1 .. z + 1
    BY <1>1, <1>6
  <2>2. CASE k <= m + 1
    BY <1>1, <1>5, <1>6, <1>8, <2>1, <2>2
  <2>3. CASE k > m + 1
    BY <1>1, <1>5, <2>1, <2>3
  <2> QED
    BY <1>1, <2>2, <2>3
<1>12. d[p + 1] = b[p + 1] /\ b[p + 1] \in Values
  <2>1. p + 1 \in 1 .. z + 1 /\ p + 1 <= m + 1 /\ p + 1 \in 1 .. m + 1
    BY <1>1, <1>6
  <2>2. d[p + 1] = IF p + 1 <= m + 1 THEN b[p + 1] ELSE Nothing
    BY <1>5, <2>1
  <2> QED
    BY <1>1, <2>1, <2>2
<1> DEFINE y == [k \in p + 1 .. z + 1 |-> IF k = p + 1 THEN b[p + 1] ELSE Nothing]
<1>13. /\ y \in [p + 1 .. z + 1 -> Values] /\ y[p + 1] = b[p + 1]
       /\ \A k \in p + 2 .. z + 1 : y[k] = Nothing
  BY <1>0, <1>1, <1>6, <1>12
<1> HIDE DEF y
<1>14. \A k \in p + 1 .. z + 1 : y[k] = d[k]
  <2>1. \A k \in p + 1 .. z + 1 : k = p + 1 \/ k \in p + 2 .. z + 1
    BY <1>1, <1>6
  <2> QED
    BY <1>11, <1>12, <1>13, <2>1
<1>15. FoldsTo(t, d, p, y)
  <2>1. y[z + 1] = d[z + 1]
    BY <1>1, <1>6, <1>14
  <2>2. ASSUME NEW k \in p + 1 .. z
        PROVE  y[k] = Put(d[k], y[k + 1], t[k].operation)
    <3>1. k \in p + 1 .. z + 1 /\ k + 1 \in p + 2 .. z + 1 /\ k \in 1 .. z
      BY <1>1, <1>6
    <3>2. y[k] = d[k] /\ y[k + 1] = Nothing /\ y[k] \in Values
      BY <1>13, <1>14, <3>1
    <3>3. t[k].operation \in Operations /\ t[k].operation # "intersect"
      <4>1. t[k] \in ScopeFrames
        BY <3>1
      <4> QED
        BY <3>1, <4>1 DEF ScopeFrames
    <3> QED
      BY <1>0, <3>2, <3>3, PutIsValue
  <2> QED
    BY <1>13, <2>1, <2>2 DEF FoldsTo, z
<1>16. Shares(f, t, p)
  <2>1. \A i \in 1 .. p : f[i] = t[i]
    BY <1>1, <1>6
  <2>2. p < n /\ p < z => f[p + 1] # t[p + 1]
    <3> SUFFICES ASSUME p < n, p < z
                 PROVE  f[p + 1] # t[p + 1]
      OBVIOUS
    <3>1. CASE p < m
      BY <1>1, <1>6, <3>1
    <3>2. CASE p = m
      BY <2>1, <3>2
    <3> QED
      BY <1>1, <1>6, <3>1, <3>2
  <2> QED
    BY <1>1, <1>6, <2>1, <2>2 DEF Shares, n, z
<1>17. \A k \in 1 .. p : a[k] = d[k]
  <2> SUFFICES ASSUME NEW k \in 1 .. p
               PROVE  a[k] = d[k]
    OBVIOUS
  <2>1. k \in 1 .. z + 1 /\ k <= m + 1
    BY <1>1, <1>6
  <2>2. d[k] = IF k <= m + 1 THEN b[k] ELSE Nothing
    BY <1>5, <2>1
  <2> QED
    BY <1>7, <2>1, <2>2
<1>18. u[p + 1] = y[p + 1]
  BY <1>7, <1>10, <1>13
<1>19. Idle(t, d, p, y)
  <2> SUFFICES ASSUME NEW k \in p + 2 .. z + 1
               PROVE  d[k] = Nothing /\ y[k] = Nothing /\ t[k - 1].operation # "intersect"
    BY DEF Idle
  <2>1. k - 1 \in 1 .. z
    BY <1>1, <1>6
  <2> QED
    BY <1>11, <1>13, <2>1
<1>20. Agrees(f, a, t, d, later, p, u, y)
  BY <1>7, <1>15, <1>16, <1>17, <1>18, <1>19 DEF Agrees
<1> QED
  BY <1>20 DEF Agree, d

StampAt(p, v) == IF Covers(p, v) THEN StampOf(p) ELSE Nothing
LaneOf(f, v) == [k \in 1 .. Len(f.frames) + 1 |-> f.levels[k].body[v]]
SealedLane(s, v) == [k \in 1 .. Len(s.frames) + 1 |-> s.bodies[k][v]]

SealedIsStack(s) ==
  /\ s.frames \in Seq(ScopeFrames)
  /\ s.bodies \in Seq(Bodies(Chunk))
  /\ Len(s.bodies) = Len(s.frames) + 1

(* A body as one voxel sees it.                                            *)
LEMMA VoxelByVoxel ==
  ASSUME NEW cell \in Cells, NEW v \in VoxelsOf(cell)
  PROVE  /\ \A a \in Bodies(cell), b \in Bodies(cell) : \A op :
              VoxelsInto(a, b, op)[v] = Put(a[v], b[v], op)
         /\ \A a \in Bodies(cell) : a[v] \in Values
         /\ \A p \in Producers : BodyOf(p, cell)[v] = StampAt(p, v) /\ StampAt(p, v) \in Values
         /\ NoVoxels(cell)[v] = Nothing
<1>1. ASSUME NEW a \in Bodies(cell), NEW b \in Bodies(cell), NEW op
      PROVE  VoxelsInto(a, b, op)[v] = Put(a[v], b[v], op)
  <2>1. DOMAIN a = VoxelsOf(cell)
    BY DEF Bodies
  <2> QED
    BY <2>1 DEF VoxelsInto, Put
<1>2. \A a \in Bodies(cell) : a[v] \in Values
  BY DEF Bodies, Values
<1>3. \A p \in Producers : BodyOf(p, cell)[v] = StampAt(p, v) /\ StampAt(p, v) \in Values
  BY StampsAreStamps DEF BodyOf, StampAt, Values
<1>4. NoVoxels(cell)[v] = Nothing
  BY DEF NoVoxels
<1> QED
  BY <1>1, <1>2, <1>3, <1>4

(* A fold and the sealed stack are stacks at every voxel.                  *)
LEMMA FoldIsLane ==
  ASSUME NEW cell \in Cells, NEW v \in VoxelsOf(cell), NEW f, SoundFold(f, cell)
  PROVE  IsLane(f.frames, LaneOf(f, v))
<1> DEFINE n == Len(f.frames)
<1>1. f.frames \in Seq(ScopeFrames) /\ f.levels \in Seq(Levels(cell)) /\ Len(f.levels) = n + 1
  BY DEF SoundFold
<1>2. \A k \in 1 .. n + 1 : f.levels[k].body[v] \in Values
  <2> SUFFICES ASSUME NEW k \in 1 .. n + 1
               PROVE  f.levels[k].body[v] \in Values
    OBVIOUS
  <2>1. f.levels[k] \in Levels(cell)
    BY <1>1
  <2>2. f.levels[k].body \in Bodies(cell)
    BY <2>1 DEF Levels
  <2> QED
    BY <2>2, VoxelByVoxel
<1> QED
  BY <1>1, <1>2 DEF IsLane, LaneOf

(* The chunk is a cell.                                                    *)
LEMMA ChunkIsCell ==
  Chunk \in Cells
BY DEF Cells

(* The sealed stack is a stack at every voxel of the chunk.                *)
LEMMA SealedIsLane ==
  ASSUME NEW v \in VoxelsOf(Chunk), NEW s, SealedIsStack(s)
  PROVE  IsLane(s.frames, SealedLane(s, v))
<1> DEFINE n == Len(s.frames)
<1>1. s.frames \in Seq(ScopeFrames) /\ s.bodies \in Seq(Bodies(Chunk)) /\ Len(s.bodies) = n + 1
  BY DEF SealedIsStack
<1>2. \A k \in 1 .. n + 1 : s.bodies[k][v] \in Values
  <2> SUFFICES ASSUME NEW k \in 1 .. n + 1
               PROVE  s.bodies[k][v] \in Values
    OBVIOUS
  <2>1. s.bodies[k] \in Bodies(Chunk)
    BY <1>1
  <2> QED
    BY <2>1, ChunkIsCell, VoxelByVoxel
<1> QED
  BY <1>1, <1>2 DEF IsLane, SealedLane

(* Closing a scope of a fold is closing it at every voxel.                 *)
LEMMA ClosedAtVoxel ==
  ASSUME NEW cell \in Cells, NEW v \in VoxelsOf(cell), NEW f, SoundFold(f, cell),
         f.frames # << >>
  PROVE  /\ Closed(f).frames = Front(f.frames)
         /\ LaneOf(Closed(f), v) = LaneClosed(f.frames, LaneOf(f, v))
<1> DEFINE n == Len(f.frames)
           outer == Front(f.levels)
           inner == Last(f.levels)
           op == Last(f.frames).operation
           into == Into(outer[n], inner.interval, inner.body, op)
           levels == [outer EXCEPT ![n] = into]
<1>1. /\ f.frames \in Seq(ScopeFrames) /\ f.levels \in Seq(Levels(cell))
      /\ Len(f.levels) = n + 1
  BY DEF SoundFold
<1>2. n \in Nat \ {0} /\ Len(Front(f.frames)) = n - 1
  BY <1>1, FrontOfFrames
<1>3. /\ outer \in Seq(Levels(cell)) /\ Len(outer) = n
      /\ \A i \in 1 .. n : outer[i] = f.levels[i]
  <2>1. \A i \in 1 .. n : f.levels[i] \in Levels(cell)
    BY <1>1, <1>2
  <2>2. outer = SubSeq(f.levels, 1, n)
    BY <1>1, <1>2 DEF Front
  <2> QED
    BY <1>2, <2>1, <2>2, SubSeqProperties
<1>4. /\ inner = f.levels[n + 1] /\ inner \in Levels(cell)
      /\ outer[n] = f.levels[n] /\ f.levels[n] \in Levels(cell)
      /\ op = f.frames[n].operation
  BY <1>1, <1>2, <1>3 DEF Last
<1>5. Closed(f) = [frames |-> Front(f.frames), levels |-> levels, unbound |-> f.unbound]
  <2>1. Closed(f) =
          [frames |-> Front(f.frames),
           levels |-> [outer EXCEPT ![Len(outer)] =
             Into(outer[Len(outer)], inner.interval, inner.body, op)],
           unbound |-> f.unbound]
    BY DEF Closed
  <2> QED
    BY <1>3, <2>1
<1> HIDE DEF outer, inner, op
<1>6. into.body[v] = Put(f.levels[n].body[v], f.levels[n + 1].body[v], f.frames[n].operation)
  <2>1. into.body = VoxelsInto(outer[n].body, inner.body, op)
    BY DEF Into
  <2>2. outer[n].body \in Bodies(cell) /\ inner.body \in Bodies(cell)
    BY <1>4 DEF Levels
  <2> QED
    BY <1>4, <2>1, <2>2, VoxelByVoxel
<1> HIDE DEF into
<1>7. \A i \in 1 .. n : levels[i] = IF i = n THEN into ELSE f.levels[i]
  BY <1>2, <1>3
<1> HIDE DEF levels
<1>8. Closed(f).frames = Front(f.frames) /\ Closed(f).levels = levels
  BY <1>5
<1>9. Len(Closed(f).frames) + 1 = n
  BY <1>2, <1>8
<1>10. LaneOf(Closed(f), v) = [k \in 1 .. n |-> levels[k].body[v]]
  BY <1>8, <1>9 DEF LaneOf
<1> DEFINE a == LaneOf(f, v)
<1>11. \A k \in 1 .. n + 1 : a[k] = f.levels[k].body[v]
  BY DEF LaneOf
<1> HIDE DEF a, n
<1>12. \A k \in 1 .. n : levels[k].body[v] =
         IF k = n THEN Put(a[k], a[k + 1], f.frames[k].operation) ELSE a[k]
  <2> SUFFICES ASSUME NEW k \in 1 .. n
               PROVE  levels[k].body[v] =
                        IF k = n THEN Put(a[k], a[k + 1], f.frames[k].operation) ELSE a[k]
    OBVIOUS
  <2>1. k \in 1 .. n + 1 /\ k + 1 \in 1 .. n + 1
    BY <1>2
  <2>2. CASE k = n
    BY <1>6, <1>7, <1>11, <2>1, <2>2
  <2>3. CASE k # n
    BY <1>7, <1>11, <2>1, <2>3
  <2> QED
    BY <2>2, <2>3
<1>13. LaneClosed(f.frames, a) =
         [k \in 1 .. n |-> IF k = n THEN Put(a[k], a[k + 1], f.frames[k].operation) ELSE a[k]]
  BY DEF LaneClosed, n
<1> QED
  BY <1>8, <1>10, <1>12, <1>13 DEF a

(* So it is of the sealed stack.                                           *)
SealedClosed(s) ==
  LET outer == Front(s.bodies)
  IN  [frames |-> Front(s.frames),
       bodies |-> [outer EXCEPT ![Len(outer)] =
         VoxelsInto(@, Last(s.bodies), Last(s.frames).operation)]]

(* Closing a scope of the sealed stack is closing it at every voxel.       *)
LEMMA SealedClosesAtVoxel ==
  ASSUME NEW s, SealedIsStack(s), s.frames # << >>
  PROVE  /\ SealedIsStack(SealedClosed(s))
         /\ SealedClosed(s).frames = Front(s.frames)
         /\ \A v \in VoxelsOf(Chunk) :
              SealedLane(SealedClosed(s), v) = LaneClosed(s.frames, SealedLane(s, v))
<1> DEFINE n == Len(s.frames)
           outer == Front(s.bodies)
           inner == Last(s.bodies)
           op == Last(s.frames).operation
           into == VoxelsInto(outer[n], inner, op)
           bodies == [outer EXCEPT ![n] = into]
<1>1. /\ s.frames \in Seq(ScopeFrames) /\ s.bodies \in Seq(Bodies(Chunk))
      /\ Len(s.bodies) = n + 1
  BY DEF SealedIsStack
<1>2. n \in Nat \ {0} /\ Len(Front(s.frames)) = n - 1 /\ Front(s.frames) \in Seq(ScopeFrames)
  BY <1>1, FrontOfFrames
<1>3. /\ outer \in Seq(Bodies(Chunk)) /\ Len(outer) = n
      /\ \A i \in 1 .. n : outer[i] = s.bodies[i]
  <2>1. \A i \in 1 .. n : s.bodies[i] \in Bodies(Chunk)
    BY <1>1, <1>2
  <2>2. outer = SubSeq(s.bodies, 1, n)
    BY <1>1, <1>2 DEF Front
  <2> QED
    BY <1>2, <2>1, <2>2, SubSeqProperties
<1>4. /\ inner = s.bodies[n + 1] /\ inner \in Bodies(Chunk)
      /\ outer[n] = s.bodies[n] /\ s.bodies[n] \in Bodies(Chunk)
      /\ op = s.frames[n].operation
  BY <1>1, <1>2, <1>3 DEF Last
<1>5. op \in Operations
  <2>1. s.frames[n] \in ScopeFrames
    BY <1>1, <1>2
  <2> QED
    BY <1>4, <2>1 DEF ScopeFrames
<1>6. SealedClosed(s) = [frames |-> Front(s.frames), bodies |-> bodies]
  <2>1. SealedClosed(s) =
          [frames |-> Front(s.frames),
           bodies |-> [outer EXCEPT ![Len(outer)] = VoxelsInto(outer[Len(outer)], inner, op)]]
    BY DEF SealedClosed
  <2> QED
    BY <1>3, <2>1
<1> HIDE DEF outer, inner, op
<1>7. into \in Bodies(Chunk)
  BY <1>4, <1>5, VoxelsIntoBodies
<1>8. \A v \in VoxelsOf(Chunk) : into[v] = Put(s.bodies[n][v], s.bodies[n + 1][v], s.frames[n].operation)
  BY <1>4, ChunkIsCell, VoxelByVoxel
<1> HIDE DEF into
<1>9. /\ \A i \in 1 .. n : bodies[i] = IF i = n THEN into ELSE s.bodies[i]
      /\ bodies \in Seq(Bodies(Chunk)) /\ Len(bodies) = n
  BY <1>2, <1>3, <1>7
<1> HIDE DEF bodies
<1>10. SealedClosed(s).frames = Front(s.frames) /\ SealedClosed(s).bodies = bodies
  BY <1>6
<1>11. Len(SealedClosed(s).frames) + 1 = n
  BY <1>2, <1>10
<1>12. SealedIsStack(SealedClosed(s))
  BY <1>2, <1>9, <1>10, <1>11 DEF SealedIsStack
<1>13. ASSUME NEW v \in VoxelsOf(Chunk)
       PROVE  SealedLane(SealedClosed(s), v) = LaneClosed(s.frames, SealedLane(s, v))
  <2>1. SealedLane(SealedClosed(s), v) = [k \in 1 .. n |-> bodies[k][v]]
    BY <1>10, <1>11 DEF SealedLane
  <2> DEFINE a == SealedLane(s, v)
  <2>2. \A k \in 1 .. n + 1 : a[k] = s.bodies[k][v]
    BY DEF SealedLane
  <2> HIDE DEF a, n
  <2>3. \A k \in 1 .. n : bodies[k][v] =
          IF k = n THEN Put(a[k], a[k + 1], s.frames[k].operation) ELSE a[k]
    <3> SUFFICES ASSUME NEW k \in 1 .. n
                 PROVE  bodies[k][v] =
                          IF k = n THEN Put(a[k], a[k + 1], s.frames[k].operation) ELSE a[k]
      OBVIOUS
    <3>1. k \in 1 .. n + 1 /\ k + 1 \in 1 .. n + 1
      BY <1>2
    <3>2. CASE k = n
      BY <1>8, <1>9, <2>2, <3>1, <3>2
    <3>3. CASE k # n
      BY <1>9, <2>2, <3>1, <3>3
    <3> QED
      BY <3>2, <3>3
  <2>4. LaneClosed(s.frames, a) =
          [k \in 1 .. n |-> IF k = n THEN Put(a[k], a[k + 1], s.frames[k].operation) ELSE a[k]]
    BY DEF LaneClosed, n
  <2> QED
    BY <2>1, <2>3, <2>4 DEF a
<1> QED
  BY <1>10, <1>12, <1>13

(* A leaf composes into a fold as it does at every voxel.                  *)
LEMMA ComposedAtVoxel ==
  ASSUME NEW cell \in Cells, NEW v \in VoxelsOf(cell), NEW f, SoundFold(f, cell),
         NEW leaf \in LeafRecords
  PROVE  /\ Composed(f, leaf, cell).frames = leaf.frames
         /\ LaneOf(Composed(f, leaf, cell), v) =
              LaneComposed(f.frames, LaneOf(f, v), leaf.frames, StampAt(leaf.producer, v),
                           leaf.operation)
<1> DEFINE n == Len(f.frames)
           m == Len(leaf.frames)
           x == StampAt(leaf.producer, v)
           op == leaf.operation
           body == BodyOf(leaf.producer, cell)
           opened == Opened(f, leaf.frames, cell)
           into == LeafInto(opened[m + 1], leaf, cell)
           levels == [opened EXCEPT ![m + 1] = into]
           a == LaneOf(f, v)
<1>1. /\ f.frames \in Seq(ScopeFrames) /\ f.levels \in Seq(Levels(cell))
      /\ Len(f.levels) = n + 1 /\ n \in Nat
  BY DEF SoundFold
<1>2. /\ leaf.producer \in Producers /\ leaf.operation \in Operations
      /\ leaf.frames \in Seq(ScopeFrames) /\ m \in Nat
  BY DEF LeafRecords
<1>3. EmptyLevel(cell) \in Levels(cell) /\ EmptyLevel(cell).body[v] = Nothing
  BY EmptyLevelIsSound, VoxelByVoxel DEF EmptyLevel
<1>4. opened = [i \in 1 .. m + 1 |-> IF i \in DOMAIN f.levels THEN f.levels[i] ELSE EmptyLevel(cell)]
  BY DEF Opened
<1>5. DOMAIN f.levels = 1 .. n + 1
  BY <1>1
<1>6. Composed(f, leaf, cell) =
        [frames |-> leaf.frames, levels |-> levels, unbound |-> f.unbound \/ IsUnboundable(leaf)]
  BY DEF Composed
<1>7. a = [k \in 1 .. n + 1 |-> f.levels[k].body[v]]
  BY DEF LaneOf
<1> HIDE DEF n, m, x, body, opened, a
<1> DEFINE old(k) == IF k <= n + 1 THEN a[k] ELSE Nothing
<1>8. \A k \in 1 .. m + 1 : opened[k] \in Levels(cell) /\ opened[k].body[v] = old(k)
  <2> SUFFICES ASSUME NEW k \in 1 .. m + 1
               PROVE  opened[k] \in Levels(cell) /\ opened[k].body[v] = old(k)
    OBVIOUS
  <2>1. CASE k <= n + 1
    <3>1. k \in 1 .. n + 1
      BY <1>1, <1>2, <2>1
    <3>2. opened[k] = f.levels[k]
      BY <1>4, <1>5, <3>1
    <3> QED
      BY <1>1, <1>7, <2>1, <3>1, <3>2
  <2>2. CASE k > n + 1
    <3>1. k \notin 1 .. n + 1 /\ ~(k <= n + 1)
      BY <1>1, <1>2, <2>2
    <3>2. opened[k] = EmptyLevel(cell)
      BY <1>4, <1>5, <3>1
    <3> QED
      BY <1>3, <3>1, <3>2
  <2> QED
    BY <1>1, <1>2, <2>1, <2>2
<1>9. m + 1 \in 1 .. m + 1
  BY <1>2
<1>10. body \in Bodies(cell) /\ body[v] = x
  BY <1>2, BodiesAreBodies, VoxelByVoxel DEF body, x
<1> DEFINE level == opened[m + 1]
<1>11. level \in Levels(cell) /\ level.body \in Bodies(cell) /\ level.body[v] = old(m + 1)
  BY <1>8, <1>9 DEF Levels
<1> HIDE DEF level, old
<1>12. into = LeafInto(level, leaf, cell)
  BY DEF level
<1> HIDE DEF into
<1>13. into.body = VoxelsInto(level.body, body, op)
  <2>1. CASE IsUnboundable(leaf)
    <3>1. into = [level EXCEPT !.body = VoxelsInto(level.body, body, op)]
      BY <1>12, <2>1 DEF LeafInto, body
    <3> QED
      BY <1>11, <3>1 DEF Levels
  <2>2. CASE ~IsUnboundable(leaf)
    <3>1. into = Into(level, CellFieldInterval(leaf.producer, cell), body, op)
      BY <1>12, <2>2 DEF LeafInto, body
    <3> QED
      BY <3>1 DEF Into
  <2> QED
    BY <2>1, <2>2
<1>14. into.body[v] = Put(old(m + 1), x, op)
  BY <1>10, <1>11, <1>13, VoxelByVoxel
<1>15. \A k \in 1 .. m + 1 : levels[k] = IF k = m + 1 THEN into ELSE opened[k]
  BY <1>4
<1> HIDE DEF levels
<1>16. Composed(f, leaf, cell).frames = leaf.frames /\ Composed(f, leaf, cell).levels = levels
  BY <1>6
<1>17. LaneOf(Composed(f, leaf, cell), v) = [k \in 1 .. m + 1 |-> levels[k].body[v]]
  BY <1>16 DEF LaneOf, m
<1>18. \A k \in 1 .. m + 1 : levels[k].body[v] = IF k = m + 1 THEN Put(old(k), x, op) ELSE old(k)
  BY <1>8, <1>14, <1>15
<1>19. LaneComposed(f.frames, a, leaf.frames, x, op) =
         [k \in 1 .. m + 1 |-> IF k = m + 1 THEN Put(old(k), x, op) ELSE old(k)]
  BY DEF LaneComposed, old, n, m
<1>20. LaneOf(Composed(f, leaf, cell), v) = LaneComposed(f.frames, a, leaf.frames, x, op)
  BY <1>17, <1>18, <1>19
<1> QED
  BY <1>16, <1>20 DEF a, x

(* And into the sealed stack.                                              *)
SealedComposed(s, leaf) ==
  LET bodies == [i \in 1 .. Len(leaf.frames) + 1 |->
                   IF i \in DOMAIN s.bodies THEN s.bodies[i] ELSE NoVoxels(Chunk)]
  IN  [frames |-> leaf.frames,
       bodies |-> [bodies EXCEPT ![Len(bodies)] =
         VoxelsInto(@, BodyOf(leaf.producer, Chunk), leaf.operation)]]

(* A leaf composes into the sealed stack as it does at every voxel.        *)
LEMMA SealedComposesAtVoxel ==
  ASSUME NEW s, SealedIsStack(s), NEW leaf \in LeafRecords
  PROVE  /\ SealedIsStack(SealedComposed(s, leaf))
         /\ SealedComposed(s, leaf).frames = leaf.frames
         /\ \A v \in VoxelsOf(Chunk) :
              SealedLane(SealedComposed(s, leaf), v) =
                LaneComposed(s.frames, SealedLane(s, v), leaf.frames,
                             StampAt(leaf.producer, v), leaf.operation)
<1> DEFINE n == Len(s.frames)
           m == Len(leaf.frames)
           op == leaf.operation
           body == BodyOf(leaf.producer, Chunk)
           opened == [i \in 1 .. m + 1 |->
                        IF i \in DOMAIN s.bodies THEN s.bodies[i] ELSE NoVoxels(Chunk)]
           into == VoxelsInto(opened[m + 1], body, op)
           bodies == [opened EXCEPT ![m + 1] = into]
<1>1. /\ s.frames \in Seq(ScopeFrames) /\ s.bodies \in Seq(Bodies(Chunk))
      /\ Len(s.bodies) = n + 1 /\ n \in Nat
  BY DEF SealedIsStack
<1>2. /\ leaf.producer \in Producers /\ leaf.operation \in Operations
      /\ leaf.frames \in Seq(ScopeFrames) /\ m \in Nat
  BY DEF LeafRecords
<1>3. NoVoxels(Chunk) \in Bodies(Chunk)
  BY DEF NoVoxels, Bodies
<1>4. DOMAIN s.bodies = 1 .. n + 1
  BY <1>1
<1>5. \A i \in 1 .. m + 1 : opened[i] \in Bodies(Chunk)
  <2>1. \A i \in DOMAIN s.bodies : s.bodies[i] \in Bodies(Chunk)
    BY <1>1
  <2> QED
    BY <1>3, <2>1
<1>6. DOMAIN opened = 1 .. m + 1 /\ m + 1 \in 1 .. m + 1
  BY <1>2
<1>7. Len(opened) = m + 1
  BY <1>2, <1>6
<1>8. SealedComposed(s, leaf) = [frames |-> leaf.frames, bodies |-> bodies]
  <2>1. SealedComposed(s, leaf) =
          [frames |-> leaf.frames,
           bodies |-> [opened EXCEPT ![Len(opened)] = VoxelsInto(opened[Len(opened)], body, op)]]
    BY DEF SealedComposed
  <2> QED
    BY <1>7, <2>1
<1>9. body \in Bodies(Chunk)
  BY <1>2, ChunkIsCell, BodiesAreBodies
<1>10. into \in Bodies(Chunk)
  BY <1>2, <1>5, <1>6, <1>9, VoxelsIntoBodies
<1>11. \A i \in 1 .. m + 1 : opened[i] = IF i <= n + 1 THEN s.bodies[i] ELSE NoVoxels(Chunk)
  BY <1>1, <1>2, <1>4
<1> HIDE DEF opened, into
<1>12. /\ \A i \in 1 .. m + 1 : bodies[i] = IF i = m + 1 THEN into ELSE opened[i]
       /\ bodies \in [1 .. m + 1 -> Bodies(Chunk)]
  BY <1>5, <1>6, <1>10
<1> HIDE DEF bodies
<1>13. bodies \in Seq(Bodies(Chunk)) /\ Len(bodies) = m + 1
  BY <1>2, <1>12
<1>14. SealedComposed(s, leaf).frames = leaf.frames /\ SealedComposed(s, leaf).bodies = bodies
  BY <1>8
<1>15. SealedIsStack(SealedComposed(s, leaf))
  BY <1>2, <1>13, <1>14 DEF SealedIsStack
<1>16. ASSUME NEW v \in VoxelsOf(Chunk)
       PROVE  SealedLane(SealedComposed(s, leaf), v) =
                LaneComposed(s.frames, SealedLane(s, v), leaf.frames,
                             StampAt(leaf.producer, v), leaf.operation)
  <2> DEFINE a == SealedLane(s, v)
             x == StampAt(leaf.producer, v)
             old(k) == IF k <= n + 1 THEN a[k] ELSE Nothing
  <2>1. \A k \in 1 .. n + 1 : a[k] = s.bodies[k][v]
    BY DEF SealedLane
  <2>2. body[v] = x /\ NoVoxels(Chunk)[v] = Nothing
    BY <1>2, ChunkIsCell, VoxelByVoxel
  <2> HIDE DEF a, x
  <2>3. SealedLane(SealedComposed(s, leaf), v) = [k \in 1 .. m + 1 |-> bodies[k][v]]
    BY <1>14 DEF SealedLane
  <2>4. LaneComposed(s.frames, a, leaf.frames, x, op) =
          [k \in 1 .. m + 1 |-> IF k = m + 1 THEN Put(old(k), x, op) ELSE old(k)]
    BY DEF LaneComposed
  <2> HIDE DEF n, m, body
  <2>5. \A k \in 1 .. m + 1 : opened[k][v] = old(k)
    <3> SUFFICES ASSUME NEW k \in 1 .. m + 1
                 PROVE  opened[k][v] = old(k)
      OBVIOUS
    <3>1. CASE k <= n + 1
      <4>1. k \in 1 .. n + 1
        BY <1>1, <1>2, <3>1
      <4> QED
        BY <1>11, <2>1, <3>1, <4>1
    <3>2. CASE ~(k <= n + 1)
      BY <1>11, <2>2, <3>2
    <3> QED
      BY <3>1, <3>2
  <2> HIDE DEF old
  <2>6. into[v] = Put(old(m + 1), x, op)
    <3>1. opened[m + 1] \in Bodies(Chunk)
      BY <1>5, <1>6
    <3>2. into[v] = Put(opened[m + 1][v], body[v], op)
      BY <1>9, <3>1, ChunkIsCell, VoxelByVoxel DEF into
    <3> QED
      BY <1>6, <2>2, <2>5, <3>2
  <2>7. \A k \in 1 .. m + 1 : bodies[k][v] = IF k = m + 1 THEN Put(old(k), x, op) ELSE old(k)
    BY <1>12, <2>5, <2>6
  <2> QED
    BY <2>3, <2>4, <2>7 DEF a, x
<1> QED
  BY <1>14, <1>15, <1>16

(***************************************************************************)
(* The walk: in a list of leaves with no scope expanded twice, the node of *)
(* a frame tells the frame, and the leaves of a scope stand together.      *)
(***************************************************************************)
FramesAreOfNodes(list, n, placed) ==
  \A j \in DOMAIN list : \A a \in DOMAIN list[j].frames :
    /\ list[j].frames[a].node <= n
    /\ placed = 0 => list[j].frames[a].node # FixtureGroup
NodesTellFrames(list) ==
  \A i, j \in DOMAIN list : \A a \in DOMAIN list[i].frames :
    a \in DOMAIN list[j].frames /\ list[i].frames[a].node = list[j].frames[a].node
      => list[i].frames[a] = list[j].frames[a]
ScopesStandTogether(list) ==
  \A i, j, k \in DOMAIN list : i <= j /\ j <= k =>
    \A a \in DOMAIN list[i].frames :
      a \in DOMAIN list[k].frames /\ list[i].frames[a] = list[k].frames[a]
        => a \in DOMAIN list[j].frames /\ list[j].frames[a] = list[i].frames[a]

(* The walk is inside of frames of its last leaf.                          *)
LEMMA InsideIsOfLast ==
  ASSUME leaves \in Seq(LeafRecords)
  PROVE  /\ Inside \in Seq(ScopeFrames)
         /\ leaves = << >> => Inside = << >>
         /\ leaves # << >> => \A i \in 1 .. Len(Inside) :
              /\ i \in DOMAIN leaves[Len(leaves)].frames
              /\ Inside[i] = leaves[Len(leaves)].frames[i]
<1>1. 0 \in 0 .. Len(Inside) => Inside \in Seq(ScopeFrames)
  BY InsideIsFrames
<1>2. CASE leaves = << >>
  BY <1>2 DEF Inside
<1>3. CASE leaves # << >>
  <2> DEFINE frames == Last(leaves).frames
  <2>1. frames = leaves[Len(leaves)].frames
    BY DEF Last
  <2>2. frames \in Seq(ScopeFrames)
    <3>1. Len(leaves) \in 1 .. Len(leaves)
      BY <1>3
    <3>2. leaves[Len(leaves)] \in LeafRecords
      BY <3>1
    <3> QED
      BY <2>1, <3>2 DEF LeafRecords
  <2>3. Inside = IF InFixture(frames) THEN Front(frames) ELSE frames
    BY <1>3 DEF Inside
  <2> HIDE DEF frames
  <2>4. frames # << >> => /\ Front(frames) \in Seq(ScopeFrames)
                          /\ Len(Front(frames)) = Len(frames) - 1
                          /\ \A i \in 1 .. Len(frames) - 1 : Front(frames)[i] = frames[i]
    BY <2>2, FrontOfFrames
  <2>5. Len(frames) \in Nat /\ DOMAIN frames = 1 .. Len(frames)
    BY <2>2
  <2>6. CASE InFixture(frames)
    <3>1. frames # << >> /\ Inside = Front(frames)
      BY <2>3, <2>6 DEF InFixture
    <3>2. \A i \in 1 .. Len(Inside) : i \in 1 .. Len(frames) - 1 /\ i \in DOMAIN frames
      BY <2>4, <2>5, <3>1
    <3> QED
      BY <1>3, <2>1, <2>4, <3>1, <3>2
  <2>7. CASE ~InFixture(frames)
    <3>1. Inside = frames
      BY <2>3, <2>7
    <3> QED
      BY <1>3, <2>1, <2>2, <2>5, <3>1
  <2> QED
    BY <2>6, <2>7
<1> QED
  BY <1>2, <1>3

(* Leaves that share their frames join the list: the frames are some of    *)
(* the last leaf's, and new ones.                                          *)
Extends(list, added, frames, kept) ==
  /\ \A i \in DOMAIN added : added[i].frames = frames
  /\ kept \in 0 .. Len(frames)
  /\ \A a \in 1 .. kept : /\ list # << >>
                          /\ a \in DOMAIN list[Len(list)].frames
                          /\ frames[a] = list[Len(list)].frames[a]
  /\ \A a \in kept + 1 .. Len(frames) :
       \A j \in DOMAIN list : \A b \in DOMAIN list[j].frames :
         list[j].frames[b].node # frames[a].node

(* A longer list of leaves begins with the shorter one, and the leaves     *)
(* added stand in the same frames.                                         *)
LEMMA ExtendedList ==
  ASSUME NEW list \in Seq(LeafRecords), NEW added \in Seq(LeafRecords),
         NEW frames \in Seq(ScopeFrames), NEW kept, Extends(list, added, frames, kept)
  PROVE  LET longer == list \o added
         IN  /\ longer \in Seq(LeafRecords) /\ Len(longer) = Len(list) + Len(added)
             /\ \A i \in DOMAIN list : i \in DOMAIN longer /\ longer[i] = list[i]
             /\ \A i \in DOMAIN longer : i \notin DOMAIN list => longer[i].frames = frames
<1> DEFINE n == Len(list)
           m == Len(added)
           longer == list \o added
<1>0. n \in Nat /\ m \in Nat /\ DOMAIN list = 1 .. n /\ DOMAIN added = 1 .. m
  BY Zenon, LenProperties DEF LeafRecords
<1>1. /\ longer \in Seq(LeafRecords) /\ Len(longer) = n + m
      /\ \A i \in 1 .. n + m : longer[i] = IF i <= n THEN list[i] ELSE added[i - n]
  <2> HIDE DEF LeafRecords
  <2> QED
    BY ConcatProperties
<1>2. DOMAIN longer = 1 .. n + m
  BY <1>1
<1> HIDE DEF n, m, longer
<1>3. \A i \in 1 .. n : i \in 1 .. n + m /\ longer[i] = list[i]
  BY <1>0, <1>1
<1>4. ASSUME NEW i \in 1 .. n + m, i \notin 1 .. n
      PROVE  longer[i].frames = frames
  <2>1. i - n \in 1 .. m /\ ~(i <= n)
    BY <1>0, <1>4
  <2>2. longer[i] = added[i - n]
    BY <1>1, <2>1
  <2> QED
    BY <1>0, <2>1, <2>2 DEF Extends
<1> QED
  BY <1>0, <1>1, <1>2, <1>3, <1>4 DEF longer, n, m

(* Nodes still tell frames apart in the longer list, and the leaves of a   *)
(* scope still stand together.                                             *)
LEMMA ExtendedTellsFrames ==
  ASSUME NEW list \in Seq(LeafRecords), NEW added \in Seq(LeafRecords),
         NEW frames \in Seq(ScopeFrames), NEW kept, Extends(list, added, frames, kept),
         NodesTellFrames(list), ScopesStandTogether(list)
  PROVE  NodesTellFrames(list \o added) /\ ScopesStandTogether(list \o added)
<1> DEFINE longer == list \o added
           n == Len(list)
<1>1. /\ longer \in Seq(LeafRecords) /\ Len(longer) = n + Len(added)
      /\ \A i \in DOMAIN list : i \in DOMAIN longer /\ longer[i] = list[i]
      /\ \A i \in DOMAIN longer : i \notin DOMAIN list => longer[i].frames = frames
  BY ExtendedList
<1>2. n \in Nat /\ DOMAIN list = 1 .. n /\ DOMAIN longer \subseteq Nat /\ 0 \notin DOMAIN longer
  BY <1>1
<1>3. list = << >> => n = 0
  OBVIOUS
<1>4. DOMAIN frames = 1 .. Len(frames) /\ Len(frames) \in Nat
  OBVIOUS
<1> HIDE DEF longer
(* A frame of an old leaf that is one of the new leaves' is the last       *)
(* leaf's.                                                                 *)
<1>5. ASSUME NEW i \in DOMAIN list, NEW a \in DOMAIN list[i].frames, a \in DOMAIN frames,
             list[i].frames[a].node = frames[a].node
      PROVE  /\ n \in DOMAIN list /\ a \in DOMAIN list[n].frames
             /\ list[n].frames[a] = frames[a] /\ list[i].frames[a] = frames[a]
  <2>1. a \in 1 .. kept
    BY <1>4, <1>5 DEF Extends
  <2>2. list # << >> /\ a \in DOMAIN list[n].frames /\ frames[a] = list[n].frames[a]
    BY <2>1 DEF Extends
  <2>3. n \in DOMAIN list
    BY <1>2, <1>5
  <2>4. list[i].frames[a] = list[n].frames[a]
    BY <1>5, <2>2, <2>3 DEF NodesTellFrames
  <2> QED
    BY <2>2, <2>3, <2>4
<1>6. NodesTellFrames(longer)
  <2> SUFFICES ASSUME NEW i \in DOMAIN longer, NEW j \in DOMAIN longer,
                      NEW a \in DOMAIN longer[i].frames, a \in DOMAIN longer[j].frames,
                      longer[i].frames[a].node = longer[j].frames[a].node
               PROVE  longer[i].frames[a] = longer[j].frames[a]
    BY DEF NodesTellFrames
  <2>1. CASE i \in DOMAIN list /\ j \in DOMAIN list
    <3>1. longer[i] = list[i] /\ longer[j] = list[j]
      BY <1>1, <2>1
    <3> QED
      BY <2>1, <3>1 DEF NodesTellFrames
  <2>2. CASE i \in DOMAIN list /\ j \notin DOMAIN list
    <3>1. longer[i] = list[i] /\ longer[j].frames = frames
      BY <1>1, <2>2
    <3> QED
      BY <1>5, <2>2, <3>1
  <2>3. CASE i \notin DOMAIN list /\ j \in DOMAIN list
    <3>1. longer[j] = list[j] /\ longer[i].frames = frames
      BY <1>1, <2>3
    <3> QED
      BY <1>5, <2>3, <3>1
  <2>4. CASE i \notin DOMAIN list /\ j \notin DOMAIN list
    BY <1>1, <2>4
  <2> QED
    BY <2>1, <2>2, <2>3, <2>4
<1>7. ScopesStandTogether(longer)
  <2> SUFFICES ASSUME NEW i \in DOMAIN longer, NEW j \in DOMAIN longer, NEW k \in DOMAIN longer,
                      i <= j, j <= k,
                      NEW a \in DOMAIN longer[i].frames, a \in DOMAIN longer[k].frames,
                      longer[i].frames[a] = longer[k].frames[a]
               PROVE  a \in DOMAIN longer[j].frames /\ longer[j].frames[a] = longer[i].frames[a]
    BY DEF ScopesStandTogether
  <2>1. i \in Nat /\ j \in Nat /\ k \in Nat
    BY <1>2
  <2>2. CASE k \in DOMAIN list
    <3>1. i \in DOMAIN list /\ j \in DOMAIN list
      BY <1>2, <2>1, <2>2
    <3>2. longer[i] = list[i] /\ longer[j] = list[j] /\ longer[k] = list[k]
      BY <1>1, <2>2, <3>1
    <3> QED
      BY <2>2, <3>1, <3>2 DEF ScopesStandTogether
  <2>3. CASE k \notin DOMAIN list /\ i \notin DOMAIN list
    <3>1. j \notin DOMAIN list
      BY <1>2, <2>1, <2>3
    <3> QED
      BY <1>1, <2>3, <3>1
  <2>4. CASE k \notin DOMAIN list /\ i \in DOMAIN list
    <3>1. longer[k].frames = frames /\ longer[i] = list[i]
      BY <1>1, <2>4
    <3>2. /\ n \in DOMAIN list /\ a \in DOMAIN list[n].frames
          /\ list[n].frames[a] = frames[a] /\ list[i].frames[a] = frames[a]
      BY <1>5, <2>4, <3>1
    <3>3. CASE j \in DOMAIN list
      <4>1. i <= j /\ j <= n /\ longer[j] = list[j]
        BY <1>1, <1>2, <2>1, <3>3
      <4>2. a \in DOMAIN list[j].frames /\ list[j].frames[a] = list[i].frames[a]
        BY <2>4, <3>1, <3>2, <3>3, <4>1 DEF ScopesStandTogether
      <4> QED
        BY <3>1, <4>1, <4>2
    <3>4. CASE j \notin DOMAIN list
      <4>1. longer[j].frames = frames
        BY <1>1, <3>4
      <4> QED
        BY <3>1, <3>2, <4>1
    <3> QED
      BY <3>3, <3>4
  <2> QED
    BY <2>2, <2>3, <2>4
<1> QED
  BY <1>6, <1>7 DEF longer

Due == leaves[composed + 1]
FramesAt(k) == leaves[k].frames

(* The open scopes of the sealed stack that the walk may still come back   *)
(* to, by their depth.                                                     *)
Awaited ==
  {n \in 1 .. Len(sealed.frames) :
     IF WalkIsAhead
     THEN \A i \in 1 .. n : i \in DOMAIN Due.frames /\ Due.frames[i] = sealed.frames[i]
     ELSE ~ended}

WalkInv ==
  /\ placements \in Nat
  /\ FramesAreOfNodes(leaves, nodes, placements)
  /\ NodesTellFrames(leaves) /\ ScopesStandTogether(leaves)

(* The sealed stack stands in frames of the last leaf it took, and has     *)
(* closed none of them that the next leaf shares.                          *)
SealedStands ==
  /\ SealedIsStack(sealed)
  /\ composed = 0 => sealed.frames = << >>
  /\ composed # 0 => \A i \in DOMAIN sealed.frames :
       i \in DOMAIN FramesAt(composed) /\ sealed.frames[i] = FramesAt(composed)[i]
  /\ composed # 0 /\ WalkIsAhead => \A n \in DOMAIN FramesAt(composed) :
       (\A i \in 1 .. n : i \in DOMAIN Due.frames /\ FramesAt(composed)[i] = Due.frames[i])
         => n <= Len(sealed.frames)
  /\ composed # 0 /\ ~WalkIsAhead /\ ~ended =>
       Len(sealed.frames) = Len(FramesAt(composed))

(* The frames of a fold are those of a leaf it took.                       *)
FoldStands(frames) ==
  frames = << >> \/ \E k \in 1 .. composed : \A i \in DOMAIN frames :
    i \in DOMAIN FramesAt(k) /\ frames[i] = FramesAt(k)[i]

AgreeAt(cell, v) ==
  Agree(fold[cell].frames, LaneOf(fold[cell], v), sealed.frames, SealedLane(sealed, v), Awaited)

SealInv ==
  /\ FoldInv /\ WalkInv /\ SealedStands
  /\ \A cell \in Cells : FoldStands(fold[cell].frames)
  /\ \A cell \in Cells : \A v \in VoxelsOf(cell) : AgreeAt(cell, v)

(* What the invariant says of the leaves.                                  *)
LEMMA LeavesAreTyped ==
  ASSUME FoldInv
  PROVE  /\ leaves \in Seq(LeafRecords) /\ composed \in 0 .. Len(leaves)
         /\ Len(leaves) \in Nat /\ DOMAIN leaves = 1 .. Len(leaves)
         /\ \A k \in DOMAIN leaves :
              /\ leaves[k] \in LeafRecords /\ FramesAt(k) \in Seq(ScopeFrames)
              /\ Len(FramesAt(k)) \in Nat /\ DOMAIN FramesAt(k) = 1 .. Len(FramesAt(k))
<1>1. leaves \in Seq(LeafRecords) /\ composed \in 0 .. Len(leaves)
  BY DEF FoldInv
<1>2. Len(leaves) \in Nat /\ DOMAIN leaves = 1 .. Len(leaves)
  BY <1>1
<1>3. ASSUME NEW k \in DOMAIN leaves
      PROVE  leaves[k] \in LeafRecords /\ FramesAt(k) \in Seq(ScopeFrames)
  <2>1. leaves[k] \in LeafRecords
    BY <1>1, <1>2
  <2> QED
    BY <2>1 DEF LeafRecords, FramesAt
<1>4. \A k \in DOMAIN leaves :
        Len(FramesAt(k)) \in Nat /\ DOMAIN FramesAt(k) = 1 .. Len(FramesAt(k))
  BY <1>3
<1> QED
  BY <1>1, <1>2, <1>3, <1>4

(***************************************************************************)
(* The walk adds leaves.                                                   *)
(***************************************************************************)

(* What the walk adds disturbs neither the stacks nor their agreement.     *)
LEMMA WalkDisturbsNothing ==
  ASSUME SealInv, ~WalkIsAhead, ~ended, FoldInv', WalkInv',
         \A i \in DOMAIN leaves : i \in DOMAIN leaves' /\ leaves'[i] = leaves[i],
         UNCHANGED <<composed, fold, sealed>>
  PROVE  SealInv'
<1>1. /\ FoldInv /\ SealedStands
      /\ \A cell \in Cells : FoldStands(fold[cell].frames)
      /\ \A cell \in Cells : \A v \in VoxelsOf(cell) : AgreeAt(cell, v)
  BY DEF SealInv
<1>2. composed' = composed /\ fold' = fold /\ sealed' = sealed
  OBVIOUS
<1>3. \A k \in 1 .. composed : k \in DOMAIN leaves /\ FramesAt(k)' = FramesAt(k)
  <2>1. composed \in 0 .. Len(leaves) /\ Len(leaves) \in Nat /\ DOMAIN leaves = 1 .. Len(leaves)
    BY <1>1, LeavesAreTyped
  <2>2. \A k \in 1 .. composed : k \in DOMAIN leaves
    BY <2>1
  <2> QED
    BY <2>2 DEF FramesAt
<1>4. composed # 0 => composed \in 1 .. composed
  BY <1>1, LeavesAreTyped
<1>5. SealedStands'
  <2> DEFINE old == FramesAt(composed)
  <2>1. composed # 0 => FramesAt(composed)' = old
    BY <1>2, <1>3, <1>4
  <2>2. composed # 0 => /\ Len(sealed.frames) = Len(old)
                        /\ \A i \in DOMAIN sealed.frames : i \in DOMAIN old /\ sealed.frames[i] = old[i]
    BY <1>1 DEF SealedStands
  <2>3. composed # 0 => \A n \in DOMAIN old : n <= Len(sealed.frames)
    <3> SUFFICES ASSUME composed # 0, NEW n \in DOMAIN old
                 PROVE  n <= Len(sealed.frames)
      OBVIOUS
    <3>1. DOMAIN old = 1 .. Len(old) /\ Len(old) \in Nat
      BY <1>1, <1>3, <1>4, LeavesAreTyped
    <3> QED
      BY <2>2, <3>1
  <2>4. SealedIsStack(sealed') /\ (composed' = 0 => sealed'.frames = << >>)
    BY <1>1, <1>2 DEF SealedStands
  <2> DEFINE new == FramesAt(composed)'
  <2>5. composed # 0 => new = old
    BY <2>1
  <2> HIDE DEF old, new
  <2>6. composed' # 0 => \A i \in DOMAIN sealed'.frames : i \in DOMAIN new /\ sealed'.frames[i] = new[i]
    BY <1>2, <2>2, <2>5
  <2>7. composed' # 0 => \A n \in DOMAIN new : n <= Len(sealed'.frames)
    BY <1>2, <2>3, <2>5
  <2>8. composed' # 0 => Len(sealed'.frames) = Len(new)
    BY <1>2, <2>2, <2>5
  <2> QED
    BY <2>4, <2>6, <2>7, <2>8 DEF SealedStands, new
<1>6. ASSUME NEW cell \in Cells
      PROVE  FoldStands(fold[cell].frames)'
  <2>1. FoldStands(fold[cell].frames)
    BY <1>1
  <2> DEFINE frames == fold[cell].frames
  <2>2. frames' = frames
    BY <1>2
  <2>3. CASE frames = << >>
    BY <2>2, <2>3 DEF FoldStands
  <2>4. CASE frames # << >>
    <3>1. PICK k \in 1 .. composed : \A i \in DOMAIN frames :
            i \in DOMAIN FramesAt(k) /\ frames[i] = FramesAt(k)[i]
      BY <2>1, <2>4 DEF FoldStands
    <3>2. FramesAt(k)' = FramesAt(k) /\ k \in 1 .. composed'
      BY <1>2, <1>3
    <3>3. k' = k
      OBVIOUS
    <3> HIDE DEF frames
    <3>4. \A i \in DOMAIN frames' : i \in DOMAIN FramesAt(k)' /\ frames'[i] = FramesAt(k)'[i]
      BY <2>2, <3>1, <3>2
    <3> QED
      BY <3>2, <3>4 DEF FoldStands, frames
  <2> QED
    BY <2>3, <2>4
<1>7. Awaited = 1 .. Len(sealed.frames)
  BY DEF Awaited
<1>8. Awaited' \in SUBSET Awaited
  BY <1>2, <1>7 DEF Awaited
<1>9. ASSUME NEW cell \in Cells, NEW v \in VoxelsOf(cell)
      PROVE  AgreeAt(cell, v)'
  <2>1. AgreeAt(cell, v)
    BY <1>1
  <2> DEFINE aw == Awaited'
             f == fold[cell].frames
             a == LaneOf(fold[cell], v)
             s == sealed.frames
             b == SealedLane(sealed, v)
  <2>2. Agree(f, a, s, b, Awaited)
    BY <2>1 DEF AgreeAt
  <2>3. AgreeAt(cell, v)' = Agree(f, a, s, b, aw)
    BY <1>2 DEF AgreeAt
  <2>4. aw \in SUBSET Awaited
    BY <1>8
  <2> HIDE DEF aw, f, a, s, b
  <2>5. Agree(f, a, s, b, aw)
    BY <2>2, <2>4, AgreeNarrows
  <2> QED
    BY <2>3, <2>5
<1> QED
  BY <1>5, <1>6, <1>9 DEF SealInv

(* A node visited adds a leaf to the walk, in scopes whose nodes are new,  *)
(* and what has composed still agrees.                                     *)
LEMMA VisitSeals ==
  ASSUME SealInv, FoldInv', NEW p \in Producers, NEW operation \in Operations,
         NEW entered \in Entered, NEW kept \in 0 .. Len(Inside),
         Visit(p, operation, kept, entered)
  PROVE  SealInv'
<1>1. /\ leaves \in Seq(LeafRecords) /\ nodes \in Nat /\ composed \in 0 .. Len(leaves)
      /\ WalkInv
  BY DEF SealInv, FoldInv
<1>2. PICK n \in 0 .. MaxNodes - nodes - 1 : entered \in [1 .. n -> Operations]
  BY DEF Entered
<1>3. n \in Nat /\ Len(entered) = n /\ DOMAIN entered = 1 .. n
  BY <1>1, <1>2, BoundsAssumption
<1> DEFINE opened == [i \in DOMAIN entered |-> Frame(nodes + i, entered[i], nodes + i)]
           first == SubSeq(Inside, 1, kept)
           frames == first \o opened
           leaf == [producer |-> p, operation |-> operation, frames |-> frames]
           added == <<leaf>>
<1>4. /\ opened \in Seq(ScopeFrames) /\ Len(opened) = n
      /\ \A i \in 1 .. n : opened[i].node = nodes + i
  <2>1. \A i \in 1 .. n : Frame(nodes + i, entered[i], nodes + i) \in ScopeFrames
    BY <1>1, <1>2, <1>3 DEF Frame, ScopeFrames
  <2>2. opened \in [1 .. n -> ScopeFrames]
    BY <1>3, <2>1
  <2>3. \A i \in 1 .. n : opened[i].node = nodes + i
    BY <1>3 DEF Frame
  <2> HIDE DEF opened
  <2> QED
    BY <1>3, <2>2, <2>3
<1> HIDE DEF opened
<1>5. /\ first \in Seq(ScopeFrames) /\ Len(first) = kept /\ kept \in Nat
      /\ \A i \in 1 .. kept : first[i] = Inside[i] /\ i \in 1 .. Len(Inside)
  <2> DEFINE inside == Inside
  <2>1. inside \in Seq(ScopeFrames)
    BY <1>1, InsideIsOfLast
  <2> HIDE DEF inside
  <2>2. Len(inside) \in Nat /\ kept \in 0 .. Len(inside)
    BY <2>1 DEF inside
  <2>3. \A i \in 1 .. kept : i \in 1 .. Len(inside) /\ inside[i] \in ScopeFrames
    BY <2>1, <2>2
  <2> HIDE DEF ScopeFrames
  <2>4. /\ SubSeq(inside, 1, kept) \in Seq(ScopeFrames)
        /\ Len(SubSeq(inside, 1, kept)) = IF 1 <= kept THEN kept - 1 + 1 ELSE 0
        /\ \A i \in 1 .. kept - 1 + 1 : SubSeq(inside, 1, kept)[i] = inside[1 + i - 1]
    BY <2>2, <2>3, SubSeqProperties
  <2> QED
    BY <2>2, <2>3, <2>4 DEF inside
<1> HIDE DEF first
<1>6. /\ frames \in Seq(ScopeFrames) /\ Len(frames) = kept + n
      /\ \A i \in 1 .. kept + n : frames[i] = IF i <= kept THEN first[i] ELSE opened[i - kept]
  <2> HIDE DEF ScopeFrames
  <2> QED
    BY <1>4, <1>5, ConcatProperties
<1> HIDE DEF frames
<1>7. leaf \in LeafRecords
  BY <1>6 DEF LeafRecords
<1>8. leaves' = leaves \o added /\ nodes' = nodes + n + 1
  <2>1. leaves' = Append(leaves, leaf) /\ nodes' = nodes + Len(entered) + 1
    BY DEF Visit, frames, first, opened
  <2> HIDE DEF leaf
  <2>2. Append(leaves, leaf) = leaves \o <<leaf>>
    BY <1>1, <1>7
  <2> QED
    BY <1>1, <1>3, <2>1, <2>2
<1>9. added \in Seq(LeafRecords) /\ DOMAIN added = {1} /\ added[1].frames = frames
  <2>1. leaf.frames = frames
    OBVIOUS
  <2> HIDE DEF leaf
  <2>2. added \in Seq(LeafRecords) /\ Len(added) = 1 /\ added[1] = leaf
    BY <1>7
  <2>3. DOMAIN added = 1 .. 1
    BY <2>2
  <2> QED
    BY <2>1, <2>2, <2>3
<1> HIDE DEF added, leaf
<1>10. \A a \in kept + 1 .. kept + n : frames[a].node > nodes /\ frames[a].node <= nodes'
  <2> SUFFICES ASSUME NEW a \in kept + 1 .. kept + n
               PROVE  frames[a].node > nodes /\ frames[a].node <= nodes'
    OBVIOUS
  <2>1. a - kept \in 1 .. n /\ a \in 1 .. kept + n /\ ~(a <= kept)
    BY <1>3, <1>5
  <2>2. frames[a].node = nodes + (a - kept)
    BY <1>4, <1>6, <2>1
  <2> QED
    BY <1>1, <1>3, <1>8, <2>1, <2>2
<1>11. \A a \in 1 .. kept : /\ leaves # << >>
                            /\ a \in DOMAIN leaves[Len(leaves)].frames
                            /\ frames[a] = leaves[Len(leaves)].frames[a]
  <2> SUFFICES ASSUME NEW a \in 1 .. kept
               PROVE  /\ leaves # << >>
                      /\ a \in DOMAIN leaves[Len(leaves)].frames
                      /\ frames[a] = leaves[Len(leaves)].frames[a]
    OBVIOUS
  <2>1. a \in 1 .. Len(Inside) /\ frames[a] = Inside[a]
    BY <1>3, <1>5, <1>6
  <2>2. leaves # << >>
    <3>1. CASE leaves = << >>
      <4>1. Inside = << >>
        BY <1>1, <3>1, InsideIsOfLast
      <4> QED
        BY <2>1, <4>1
    <3> QED
      BY <3>1
  <2> QED
    BY <1>1, <2>1, <2>2, InsideIsOfLast
<1>12. FramesAreOfNodes(leaves, nodes, placements) /\ placements \in Nat
  BY <1>1 DEF WalkInv
<1>13. leaves \in Seq(LeafRecords) /\ \A j \in DOMAIN leaves : \A b \in DOMAIN leaves[j].frames :
         leaves[j].frames[b].node \in Nat
  <2> SUFFICES ASSUME NEW j \in DOMAIN leaves, NEW b \in DOMAIN leaves[j].frames
               PROVE  leaves[j].frames[b].node \in Nat
    BY <1>1
  <2>1. leaves[j].frames \in Seq(ScopeFrames)
    BY LeavesAreTyped DEF SealInv, FramesAt
  <2>2. leaves[j].frames[b] \in ScopeFrames
    BY <2>1
  <2> QED
    BY <2>2 DEF ScopeFrames
<1>14. Extends(leaves, added, frames, kept)
  <2>1. kept \in 0 .. Len(frames)
    BY <1>3, <1>5, <1>6
  <2>2. \A a \in kept + 1 .. Len(frames) :
          \A j \in DOMAIN leaves : \A b \in DOMAIN leaves[j].frames :
            leaves[j].frames[b].node # frames[a].node
    <3> SUFFICES ASSUME NEW a \in kept + 1 .. kept + n, NEW j \in DOMAIN leaves,
                        NEW b \in DOMAIN leaves[j].frames
                 PROVE  leaves[j].frames[b].node # frames[a].node
      BY <1>6
    <3>1. leaves[j].frames[b].node <= nodes /\ leaves[j].frames[b].node \in Nat
      BY <1>12, <1>13 DEF FramesAreOfNodes
    <3>2. frames[a].node > nodes /\ frames[a].node \in Nat
      <4>1. frames[a] \in ScopeFrames
        BY <1>3, <1>5, <1>6
      <4> QED
        BY <1>10, <4>1 DEF ScopeFrames
    <3> QED
      BY <1>1, <3>1, <3>2
  <2> QED
    BY <1>9, <1>11, <2>1, <2>2 DEF Extends
<1>15. /\ leaves' \in Seq(LeafRecords)
       /\ \A i \in DOMAIN leaves : i \in DOMAIN leaves' /\ leaves'[i] = leaves[i]
       /\ \A i \in DOMAIN leaves' : i \notin DOMAIN leaves => leaves'[i].frames = frames
  BY <1>1, <1>6, <1>8, <1>9, <1>14, ExtendedList
<1>16. NodesTellFrames(leaves') /\ ScopesStandTogether(leaves')
  <2>1. NodesTellFrames(leaves) /\ ScopesStandTogether(leaves)
    BY <1>1 DEF WalkInv
  <2> QED
    BY <1>1, <1>6, <1>8, <1>9, <1>14, <2>1, ExtendedTellsFrames
<1>17. UNCHANGED <<ended, placements, composed, fold, sealed>> /\ ~WalkIsAhead /\ ~ended
  BY DEF Visit
<1>18. FramesAreOfNodes(leaves', nodes', placements)
  <2> SUFFICES ASSUME NEW j \in DOMAIN leaves', NEW a \in DOMAIN leaves'[j].frames
               PROVE  /\ leaves'[j].frames[a].node <= nodes'
                      /\ placements = 0 => leaves'[j].frames[a].node # FixtureGroup
    BY DEF FramesAreOfNodes
  <2>1. \A i \in DOMAIN leaves : \A b \in DOMAIN leaves[i].frames :
          /\ leaves[i].frames[b].node <= nodes'
          /\ placements = 0 => leaves[i].frames[b].node # FixtureGroup
    <3> SUFFICES ASSUME NEW i \in DOMAIN leaves, NEW b \in DOMAIN leaves[i].frames
                 PROVE  /\ leaves[i].frames[b].node <= nodes'
                        /\ placements = 0 => leaves[i].frames[b].node # FixtureGroup
      OBVIOUS
    <3>1. /\ leaves[i].frames[b].node <= nodes /\ leaves[i].frames[b].node \in Nat
          /\ placements = 0 => leaves[i].frames[b].node # FixtureGroup
      BY <1>12, <1>13 DEF FramesAreOfNodes
    <3> QED
      BY <1>1, <1>3, <1>8, <3>1
  <2>2. CASE j \in DOMAIN leaves
    BY <1>15, <2>1, <2>2
  <2>3. CASE j \notin DOMAIN leaves
    <3>1. leaves'[j].frames = frames
      BY <1>15, <2>3
    <3>2. a \in 1 .. kept + n
      BY <1>6, <3>1
    <3>3. CASE a \in 1 .. kept
      <4>1. Len(leaves) \in DOMAIN leaves
        <5>1. leaves # << >>
          BY <1>11, <3>3
        <5> QED
          BY <1>1, <5>1
      <4> QED
        BY <1>11, <2>1, <3>1, <3>3, <4>1
    <3>4. CASE a \notin 1 .. kept
      <4>1. a \in kept + 1 .. kept + n
        BY <1>3, <1>5, <3>2, <3>4
      <4>2. frames[a].node > nodes /\ frames[a].node <= nodes'
        BY <1>10, <4>1
      <4>3. frames[a] \in ScopeFrames
        BY <1>6, <3>2
      <4> QED
        BY <1>1, <3>1, <4>2, <4>3 DEF ScopeFrames, FixtureGroup
    <3> QED
      BY <3>3, <3>4
  <2> QED
    BY <2>2, <2>3
<1>19. WalkInv'
  BY <1>12, <1>16, <1>17, <1>18 DEF WalkInv
<1> QED
  BY <1>15, <1>17, <1>19, WalkDisturbsNothing

(* The first placement of a fixture does not disturb them either.          *)
LEMMA PlaceFixtureSeals ==
  ASSUME MaxPlacements <= 1, SealInv, FoldInv', NEW placed \in Fixtures,
         NEW kept \in 0 .. Len(Inside), PlaceFixture(placed, kept)
  PROVE  SealInv'
<1>1. /\ leaves \in Seq(LeafRecords) /\ nodes \in Nat /\ composed \in 0 .. Len(leaves)
      /\ WalkInv
  BY DEF SealInv, FoldInv
<1>2. placed \in Seq([producer : Producers, operation : Operations])
  BY BoundsAssumption
<1>3. Len(placed) \in Nat /\ DOMAIN placed = 1 .. Len(placed)
  BY <1>2
<1>4. /\ placements < MaxPlacements /\ placements' = placements + 1
      /\ UNCHANGED <<ended, composed, fold, sealed>> /\ ~WalkIsAhead /\ ~ended
  BY DEF PlaceFixture
<1>5. placements = 0 /\ FramesAreOfNodes(leaves, nodes, placements)
  BY <1>1, <1>4, BoundsAssumption DEF WalkInv
<1> DEFINE first == SubSeq(Inside, 1, kept)
           group == Frame(FixtureGroup, FixtureOp, nodes + 1)
           frames == Append(first, group)
           leaf(i) == [producer |-> placed[i].producer, operation |-> placed[i].operation,
                       frames |-> frames]
           added == [i \in DOMAIN placed |-> leaf(i)]
<1>6. /\ first \in Seq(ScopeFrames) /\ Len(first) = kept /\ kept \in Nat
      /\ \A i \in 1 .. kept : first[i] = Inside[i] /\ i \in 1 .. Len(Inside)
  <2> DEFINE inside == Inside
  <2>1. inside \in Seq(ScopeFrames)
    BY <1>1, InsideIsOfLast
  <2> HIDE DEF inside
  <2>2. Len(inside) \in Nat /\ kept \in 0 .. Len(inside)
    BY <2>1 DEF inside
  <2>3. \A i \in 1 .. kept : i \in 1 .. Len(inside) /\ inside[i] \in ScopeFrames
    BY <2>1, <2>2
  <2> HIDE DEF ScopeFrames
  <2>4. /\ SubSeq(inside, 1, kept) \in Seq(ScopeFrames)
        /\ Len(SubSeq(inside, 1, kept)) = IF 1 <= kept THEN kept - 1 + 1 ELSE 0
        /\ \A i \in 1 .. kept - 1 + 1 : SubSeq(inside, 1, kept)[i] = inside[1 + i - 1]
    BY <2>2, <2>3, SubSeqProperties
  <2> QED
    BY <2>2, <2>3, <2>4 DEF inside
<1>7. group \in ScopeFrames /\ group.node = FixtureGroup
  BY <1>1, BoundsAssumption DEF Frame, FixtureGroup, ScopeFrames
<1>8. leaves' = leaves \o added /\ nodes' = nodes + 1
  BY DEF PlaceFixture
<1> HIDE DEF first, group
<1>9. /\ frames \in Seq(ScopeFrames) /\ Len(frames) = kept + 1
      /\ \A i \in 1 .. kept : frames[i] = first[i]
      /\ frames[kept + 1] = group
  BY <1>6, <1>7, AppendProperties
<1> HIDE DEF frames
<1>10. \A i \in 1 .. Len(placed) : leaf(i) \in LeafRecords /\ leaf(i).frames = frames
  <2> SUFFICES ASSUME NEW i \in 1 .. Len(placed)
               PROVE  leaf(i) \in LeafRecords
    OBVIOUS
  <2> DEFINE Stamped == [producer : Producers, operation : Operations]
  <2>1. placed[i] \in Stamped
    <3> HIDE DEF Stamped
    <3>1. placed \in Seq(Stamped)
      BY <1>2 DEF Stamped
    <3> QED
      BY <1>3, <3>1
  <2> QED
    BY <1>9, <2>1 DEF LeafRecords
<1> HIDE DEF leaf
<1>11. /\ added \in Seq(LeafRecords) /\ Len(added) = Len(placed)
       /\ \A i \in DOMAIN added : added[i].frames = frames
  <2>1. added \in [1 .. Len(placed) -> LeafRecords] /\ \A i \in 1 .. Len(placed) : added[i].frames = frames
    BY <1>3, <1>10
  <2> HIDE DEF added
  <2> QED
    BY <1>3, <2>1
<1> HIDE DEF added
<1>12. \A a \in 1 .. kept : /\ leaves # << >>
                            /\ a \in DOMAIN leaves[Len(leaves)].frames
                            /\ frames[a] = leaves[Len(leaves)].frames[a]
  <2> SUFFICES ASSUME NEW a \in 1 .. kept
               PROVE  /\ leaves # << >>
                      /\ a \in DOMAIN leaves[Len(leaves)].frames
                      /\ frames[a] = leaves[Len(leaves)].frames[a]
    OBVIOUS
  <2>1. a \in 1 .. Len(Inside) /\ frames[a] = Inside[a]
    BY <1>6, <1>9
  <2>2. leaves # << >>
    <3>1. CASE leaves = << >>
      <4>1. Inside = << >>
        BY <1>1, <3>1, InsideIsOfLast
      <4> QED
        BY <2>1, <4>1
    <3> QED
      BY <3>1
  <2> QED
    BY <1>1, <2>1, <2>2, InsideIsOfLast
<1>13. \A j \in DOMAIN leaves : \A b \in DOMAIN leaves[j].frames :
         /\ leaves[j].frames[b].node <= nodes /\ leaves[j].frames[b].node \in Nat
         /\ leaves[j].frames[b].node # FixtureGroup
  <2> SUFFICES ASSUME NEW j \in DOMAIN leaves, NEW b \in DOMAIN leaves[j].frames
               PROVE  leaves[j].frames[b].node \in Nat
    BY <1>5 DEF FramesAreOfNodes
  <2>1. leaves[j].frames \in Seq(ScopeFrames)
    BY LeavesAreTyped DEF SealInv, FramesAt
  <2>2. leaves[j].frames[b] \in ScopeFrames
    BY <2>1
  <2> QED
    BY <2>2 DEF ScopeFrames
<1>14. Extends(leaves, added, frames, kept)
  <2>1. kept \in 0 .. Len(frames)
    BY <1>6, <1>9
  <2>2. \A a \in kept + 1 .. Len(frames) : frames[a].node = FixtureGroup
    <3> SUFFICES ASSUME NEW a \in kept + 1 .. kept + 1
                 PROVE  frames[a].node = FixtureGroup
      BY <1>9
    <3>1. a = kept + 1
      BY <1>6
    <3> QED
      BY <1>7, <1>9, <3>1
  <2> QED
    BY <1>11, <1>12, <1>13, <2>1, <2>2 DEF Extends
<1>15. /\ leaves' \in Seq(LeafRecords)
       /\ \A i \in DOMAIN leaves : i \in DOMAIN leaves' /\ leaves'[i] = leaves[i]
       /\ \A i \in DOMAIN leaves' : i \notin DOMAIN leaves => leaves'[i].frames = frames
  BY <1>1, <1>8, <1>9, <1>11, <1>14, ExtendedList
<1>16. NodesTellFrames(leaves') /\ ScopesStandTogether(leaves')
  <2>1. NodesTellFrames(leaves) /\ ScopesStandTogether(leaves)
    BY <1>1 DEF WalkInv
  <2> QED
    BY <1>1, <1>8, <1>9, <1>11, <1>14, <2>1, ExtendedTellsFrames
<1>17. FramesAreOfNodes(leaves', nodes', placements')
  <2>0. placements' # 0
    BY <1>4, <1>5
  <2> SUFFICES ASSUME NEW j \in DOMAIN leaves', NEW a \in DOMAIN leaves'[j].frames
               PROVE  leaves'[j].frames[a].node <= nodes'
    BY <2>0 DEF FramesAreOfNodes
  <2>1. \A i \in DOMAIN leaves : \A b \in DOMAIN leaves[i].frames :
          leaves[i].frames[b].node <= nodes'
    BY <1>1, <1>8, <1>13
  <2>2. CASE j \in DOMAIN leaves
    BY <1>15, <2>1, <2>2
  <2>3. CASE j \notin DOMAIN leaves
    <3>1. leaves'[j].frames = frames
      BY <1>15, <2>3
    <3>2. a \in 1 .. kept + 1
      BY <1>9, <3>1
    <3>3. CASE a \in 1 .. kept
      <4>1. Len(leaves) \in DOMAIN leaves
        <5>1. leaves # << >>
          BY <1>12, <3>3
        <5> QED
          BY <1>1, <5>1
      <4> QED
        BY <1>12, <2>1, <3>1, <3>3, <4>1
    <3>4. CASE a \notin 1 .. kept
      <4>1. a = kept + 1
        BY <1>6, <3>2, <3>4
      <4> QED
        BY <1>1, <1>7, <1>8, <1>9, <3>1, <4>1 DEF FixtureGroup
    <3> QED
      BY <3>3, <3>4
  <2> QED
    BY <2>2, <2>3
<1>18. WalkInv'
  BY <1>4, <1>5, <1>16, <1>17 DEF WalkInv
<1> QED
  BY <1>4, <1>15, <1>18, WalkDisturbsNothing

(* Nor does the end of the walk.                                           *)
LEMMA EndWalkSeals ==
  ASSUME SealInv, FoldInv', EndWalk
  PROVE  SealInv'
<1>1. ~WalkIsAhead /\ ~ended /\ leaves' = leaves /\ UNCHANGED <<nodes, placements, composed, fold, sealed>>
  BY DEF EndWalk
<1>2. WalkInv'
  BY <1>1 DEF SealInv, WalkInv
<1>3. \A i \in DOMAIN leaves : i \in DOMAIN leaves' /\ leaves'[i] = leaves[i]
  BY <1>1
<1> QED
  BY <1>1, <1>2, <1>3, WalkDisturbsNothing

(***************************************************************************)
(* Scopes close.                                                           *)
(***************************************************************************)

(* A prefix, element by element.                                           *)
LEMMA PrefixByElements ==
  ASSUME NEW S, NEW s \in Seq(S), NEW t \in Seq(S)
  PROVE  IsPrefix(s, t) <=> Opens(s, t)
<1> DEFINE n == Len(s)
<1>1. n \in Nat /\ Len(t) \in Nat
  OBVIOUS
<1>2. CASE n <= Len(t)
  <2>1. \A i \in 1 .. n : s[i] \in S /\ t[i] \in S
    BY <1>1, <1>2
  <2>2. /\ SubSeq(s, 1, n) \in Seq(S) /\ SubSeq(t, 1, n) \in Seq(S)
        /\ Len(SubSeq(s, 1, n)) = n /\ Len(SubSeq(t, 1, n)) = n
        /\ \A i \in 1 .. n : SubSeq(s, 1, n)[i] = s[i] /\ SubSeq(t, 1, n)[i] = t[i]
    <3> HIDE DEF n
    <3>1. /\ SubSeq(s, 1, n) \in Seq(S)
          /\ Len(SubSeq(s, 1, n)) = IF 1 <= n THEN n - 1 + 1 ELSE 0
          /\ \A i \in 1 .. n - 1 + 1 : SubSeq(s, 1, n)[i] = s[1 + i - 1]
      BY <1>1, <2>1, SubSeqProperties
    <3>2. /\ SubSeq(t, 1, n) \in Seq(S)
          /\ Len(SubSeq(t, 1, n)) = IF 1 <= n THEN n - 1 + 1 ELSE 0
          /\ \A i \in 1 .. n - 1 + 1 : SubSeq(t, 1, n)[i] = t[1 + i - 1]
      BY <1>1, <2>1, SubSeqProperties
    <3> QED
      BY <1>1, <3>1, <3>2
  <2> DEFINE x == SubSeq(s, 1, n)
             y == SubSeq(t, 1, n)
  <2> HIDE DEF x, y
  <2>3. x = y <=> \A i \in 1 .. n : s[i] = t[i]
    <3>1. x = y => \A i \in 1 .. n : s[i] = t[i]
      BY <2>2 DEF x, y
    <3>2. (\A i \in 1 .. n : s[i] = t[i]) => x = y
      BY <2>2, SeqEqual DEF x, y
    <3> QED
      BY <3>1, <3>2
  <2> QED
    BY <1>2, <2>3 DEF IsPrefix, Opens, x, y
<1>3. CASE ~(n <= Len(t))
  BY <1>3 DEF IsPrefix, Opens
<1> QED
  BY <1>2, <1>3

(* A fold tells frames apart by node and operation, and that is enough.    *)
LEMMA PathsTellFrames ==
  ASSUME FoldInv, WalkInv, NEW frames \in Seq(ScopeFrames), FoldStands(frames),
         NEW k \in DOMAIN leaves
  PROVE  MustClose(PathOf(frames), ScopePath(leaves[k])) <=> ~Opens(frames, leaves[k].frames)
<1> DEFINE t == leaves[k].frames
           P == Nat \X Operations
<1>1. t \in Seq(ScopeFrames)
  BY LeavesAreTyped DEF FramesAt
<1>2. ASSUME NEW f \in Seq(ScopeFrames)
      PROVE  /\ PathOf(f) \in Seq(P) /\ Len(PathOf(f)) = Len(f)
             /\ \A i \in 1 .. Len(f) : PathOf(f)[i] = <<f[i].node, f[i].operation>>
  <2>1. Len(f) \in Nat /\ DOMAIN f = 1 .. Len(f) /\ \A i \in 1 .. Len(f) : f[i] \in ScopeFrames
    OBVIOUS
  <2>2. PathOf(f) = [i \in 1 .. Len(f) |-> <<f[i].node, f[i].operation>>]
    BY <2>1 DEF PathOf
  <2>3. \A i \in 1 .. Len(f) : <<f[i].node, f[i].operation>> \in P
    BY <2>1 DEF ScopeFrames
  <2> HIDE DEF P
  <2>4. PathOf(f) \in [1 .. Len(f) -> P]
    BY <2>2, <2>3
  <2>5. \A i \in 1 .. Len(f) : PathOf(f)[i] = <<f[i].node, f[i].operation>>
    BY <2>2
  <2> DEFINE path == PathOf(f)
  <2> HIDE DEF path
  <2>6. path \in [1 .. Len(f) -> P]
    BY <2>4 DEF path
  <2>7. path \in Seq(P) /\ Len(path) = Len(f)
    BY <2>1, <2>6
  <2> QED
    BY <2>5, <2>7 DEF path
<1> DEFINE x == PathOf(frames)
           y == PathOf(t)
<1>3. /\ x \in Seq(P) /\ y \in Seq(P) /\ Len(x) = Len(frames) /\ Len(y) = Len(t)
      /\ \A i \in 1 .. Len(frames) : x[i] = <<frames[i].node, frames[i].operation>>
      /\ \A i \in 1 .. Len(t) : y[i] = <<t[i].node, t[i].operation>>
  BY <1>1, <1>2
<1>4. MustClose(x, y) <=> ~Opens(x, y)
  BY <1>3, PrefixByElements DEF MustClose
<1>5. Len(frames) \in Nat /\ Len(t) \in Nat /\ DOMAIN frames = 1 .. Len(frames) /\ DOMAIN t = 1 .. Len(t)
  BY <1>1
<1>6. ASSUME NEW i \in 1 .. Len(frames), i \in 1 .. Len(t)
      PROVE  x[i] = y[i] <=> frames[i] = t[i]
  <2>1. frames # << >>
    BY <1>6
  <2>2. PICK m \in 1 .. composed : \A j \in DOMAIN frames :
          j \in DOMAIN FramesAt(m) /\ frames[j] = FramesAt(m)[j]
    BY <2>1 DEF FoldStands
  <2>3. m \in DOMAIN leaves
    BY LeavesAreTyped
  <2>4. i \in DOMAIN leaves[m].frames /\ frames[i] = leaves[m].frames[i]
    BY <1>5, <2>2 DEF FramesAt
  <2>5. leaves[m].frames[i].node = t[i].node => leaves[m].frames[i] = t[i]
    BY <1>5, <1>6, <2>3, <2>4 DEF WalkInv, NodesTellFrames
  <2>6. x[i] = <<frames[i].node, frames[i].operation>> /\ y[i] = <<t[i].node, t[i].operation>>
    BY <1>3, <1>6
  <2> HIDE DEF x, y, t
  <2> QED
    BY <2>4, <2>5, <2>6
<1> HIDE DEF x, y, t
<1>7. Opens(x, y) <=> Opens(frames, t)
  <2>1. Len(frames) <= Len(t) => \A i \in 1 .. Len(frames) : i \in 1 .. Len(t)
    BY <1>5
  <2> QED
    BY <1>3, <1>6, <2>1 DEF Opens
<1> QED
  BY <1>4, <1>7 DEF x, y, t, ScopePath

(* The leaf due is a leaf.                                                 *)
LEMMA DueIsLeaf ==
  ASSUME FoldInv, WalkIsAhead
  PROVE  /\ composed + 1 \in DOMAIN leaves /\ Due \in LeafRecords
         /\ Due.frames \in Seq(ScopeFrames) /\ Due = leaves[composed + 1]
         /\ Due.producer \in Producers /\ Due.operation \in Operations
         /\ composed \in Nat
         /\ composed # 0 => composed \in DOMAIN leaves
<1>1. composed + 1 \in DOMAIN leaves /\ composed \in Nat /\ (composed # 0 => composed \in DOMAIN leaves)
  BY LeavesAreTyped DEF WalkIsAhead
<1>2. leaves[composed + 1] \in LeafRecords
  BY <1>1, LeavesAreTyped
<1> QED
  BY <1>1, <1>2 DEF Due, LeafRecords

(* The sealed stack closes what the leaf due does not stand in.            *)
LEMMA SealedMustCloseWhen ==
  ASSUME SealInv
  PROVE  /\ WalkIsAhead => (SealedMustClose <=> ~Opens(sealed.frames, Due.frames))
         /\ SealedMustClose => sealed.frames # << >>
         /\ SealedMustClose => WalkIsAhead \/ ended
<1>1. FoldInv /\ sealed.frames \in Seq(ScopeFrames)
  BY DEF SealInv, SealedStands, SealedIsStack
<1>2. WalkIsAhead => (SealedMustClose <=> ~Opens(sealed.frames, Due.frames))
  <2> SUFFICES ASSUME WalkIsAhead
               PROVE  SealedMustClose <=> ~Opens(sealed.frames, Due.frames)
    OBVIOUS
  <2>1. Due.frames \in Seq(ScopeFrames)
    BY <1>1, DueIsLeaf
  <2>2. SealedMustClose <=> ~IsPrefix(sealed.frames, Due.frames)
    BY DEF SealedMustClose, MustClose, Due
  <2> QED
    BY <1>1, <2>1, <2>2, PrefixByElements
<1>3. SealedMustClose => sealed.frames # << >>
  <2> SUFFICES ASSUME SealedMustClose, sealed.frames = << >>
               PROVE  FALSE
    OBVIOUS
  <2>1. WalkIsAhead
    BY DEF SealedMustClose
  <2>2. Due.frames \in Seq(ScopeFrames)
    BY <1>1, <2>1, DueIsLeaf
  <2>3. Opens(sealed.frames, Due.frames)
    BY <2>2 DEF Opens
  <2> QED
    BY <1>2, <2>1, <2>3
<1> QED
  BY <1>2, <1>3 DEF SealedMustClose

(* It keeps standing where it stood.                                       *)
LEMMA CloseScopeStands ==
  ASSUME SealInv, CloseScope
  PROVE  /\ SealedStands' /\ Awaited' \in SUBSET Awaited
         /\ sealed' = IF SealedMustClose THEN SealedClosed(sealed) ELSE sealed
<1>1. FoldInv /\ SealedStands /\ SealedIsStack(sealed) /\ sealed.frames \in Seq(ScopeFrames)
  BY DEF SealInv, SealedStands, SealedIsStack
<1>2. UNCHANGED <<leaves, ended, composed>>
  BY DEF CloseScope
<1>3. sealed' = IF SealedMustClose THEN SealedClosed(sealed) ELSE sealed
  BY DEF CloseScope, ClosedSealed, SealedClosed
<1>4. /\ SealedIsStack(sealed')
      /\ sealed'.frames \in Seq(ScopeFrames) /\ Len(sealed.frames) \in Nat
      /\ Len(sealed'.frames) = IF SealedMustClose THEN Len(sealed.frames) - 1 ELSE Len(sealed.frames)
      /\ Len(sealed'.frames) \in Nat
      /\ \A i \in 1 .. Len(sealed'.frames) : i \in 1 .. Len(sealed.frames) /\ sealed'.frames[i] = sealed.frames[i]
  <2>1. CASE SealedMustClose
    <3>1. sealed.frames # << >>
      BY <2>1, SealedMustCloseWhen
    <3>2. SealedIsStack(sealed') /\ sealed'.frames = Front(sealed.frames)
      BY <1>1, <1>3, <2>1, <3>1, SealedClosesAtVoxel
    <3>3. /\ Front(sealed.frames) \in Seq(ScopeFrames) /\ Len(sealed.frames) \in Nat \ {0}
          /\ Len(Front(sealed.frames)) = Len(sealed.frames) - 1
          /\ \A i \in 1 .. Len(sealed.frames) - 1 : Front(sealed.frames)[i] = sealed.frames[i]
      BY <1>1, <3>1, FrontOfFrames
    <3> QED
      BY <2>1, <3>2, <3>3
  <2>2. CASE ~SealedMustClose
    BY <1>1, <1>3, <2>2
  <2> QED
    BY <2>1, <2>2
<1> DEFINE s == sealed.frames
           t == sealed'.frames
<1>5. DOMAIN t = 1 .. Len(t) /\ DOMAIN s = 1 .. Len(s)
  BY <1>1, <1>4
<1>6. FramesAt(composed)' = FramesAt(composed) /\ Due' = Due /\ (WalkIsAhead' <=> WalkIsAhead)
  BY <1>2 DEF FramesAt, Due, WalkIsAhead
<1>7. Awaited' \in SUBSET Awaited
  <2> SUFFICES ASSUME NEW n \in Awaited'
               PROVE  n \in Awaited
    OBVIOUS
  <2>1. n \in 1 .. Len(t) /\ (IF WalkIsAhead
          THEN \A i \in 1 .. n : i \in DOMAIN Due.frames /\ Due.frames[i] = t[i] ELSE ~ended)
    BY <1>2, <1>6 DEF Awaited
  <2>2. n \in 1 .. Len(s) /\ \A i \in 1 .. n : t[i] = s[i]
    BY <1>4, <2>1
  <2> QED
    BY <2>1, <2>2 DEF Awaited
<1>8. SealedStands'
  <2> DEFINE old == FramesAt(composed)
             due == Due.frames
  <2>1. composed = 0 => t = << >>
    <3>1. composed = 0 => s = << >>
      BY <1>1 DEF SealedStands
    <3>2. s = << >> => Len(t) = 0
      BY <1>4, SealedMustCloseWhen
    <3> QED
      BY <1>4, <3>1, <3>2, EmptySeq
  <2>2. composed # 0 => \A i \in DOMAIN s : i \in DOMAIN old /\ s[i] = old[i]
    BY <1>1 DEF SealedStands
  <2>3. composed # 0 => \A i \in DOMAIN t : i \in DOMAIN old /\ t[i] = old[i]
    BY <1>4, <1>5, <2>2
  <2>4. ASSUME composed # 0, WalkIsAhead, NEW n \in DOMAIN old,
               \A i \in 1 .. n : i \in DOMAIN due /\ old[i] = due[i]
        PROVE  n <= Len(t)
    <3>1. n <= Len(s)
      BY <1>1, <2>4 DEF SealedStands
    <3>2. CASE SealedMustClose
      <4>1. ~Opens(s, due)
        BY <2>4, <3>2, SealedMustCloseWhen
      <4>2. n # Len(s)
        <5> SUFFICES ASSUME n = Len(s)
                     PROVE  Opens(s, due)
          BY <4>1
        <5>1. \A i \in 1 .. Len(s) : i \in DOMAIN due /\ s[i] = due[i]
          BY <1>5, <2>2, <2>4
        <5>2. DOMAIN due = 1 .. Len(due) /\ Len(due) \in Nat
          BY <1>1, <2>4, DueIsLeaf
        <5>3. Len(s) <= Len(due)
          BY <1>4, <5>1, <5>2
        <5> QED
          BY <5>1, <5>3 DEF Opens
      <4>3. n \in Nat
        <5>1. DOMAIN old = 1 .. Len(old)
          BY <1>1, <2>4, DueIsLeaf, LeavesAreTyped
        <5> QED
          BY <5>1
      <4> QED
        BY <1>4, <3>1, <3>2, <4>2, <4>3
    <3>3. CASE ~SealedMustClose
      BY <1>4, <3>1, <3>3
    <3> QED
      BY <3>2, <3>3
  <2>5. composed # 0 /\ ~WalkIsAhead /\ ~ended => Len(t) = Len(old)
    <3>1. composed # 0 /\ ~WalkIsAhead /\ ~ended => Len(s) = Len(old)
      BY <1>1 DEF SealedStands
    <3> QED
      BY <1>4, <3>1, SealedMustCloseWhen
  <2> DEFINE new == FramesAt(composed)'
             next == Due.frames'
  <2>6. new = old /\ next = due
    BY <1>6
  <2> HIDE DEF old, due, new, next, t
  <2>7. composed' # 0 /\ WalkIsAhead' => \A n \in DOMAIN new :
          (\A i \in 1 .. n : i \in DOMAIN next /\ new[i] = next[i]) => n <= Len(t)
    BY <1>2, <1>6, <2>4, <2>6
  <2>8. composed' # 0 => \A i \in DOMAIN t : i \in DOMAIN new /\ t[i] = new[i]
    BY <1>2, <2>3, <2>6
  <2>9. composed' # 0 /\ ~WalkIsAhead' /\ ~ended' => Len(t) = Len(new)
    BY <1>2, <1>6, <2>5, <2>6
  <2>10. composed' = 0 => t = << >>
    BY <1>2, <2>1
  <2> QED
    BY <1>4, <2>7, <2>8, <2>9, <2>10 DEF SealedStands, new, next, t
<1> QED
  BY <1>3, <1>7, <1>8

(* Closing scopes, here or there or in both, keeps the agreement.          *)
LEMMA CloseScopeSeals ==
  ASSUME SealInv, FoldInv', CloseScope
  PROVE  SealInv'
<1>1. /\ FoldInv /\ WalkInv /\ SealedStands /\ SealedIsStack(sealed)
      /\ \A cell \in Cells : FoldStands(fold[cell].frames)
      /\ \A cell \in Cells : \A v \in VoxelsOf(cell) : AgreeAt(cell, v)
  BY DEF SealInv, SealedStands
<1>2. UNCHANGED <<leaves, ended, nodes, placements, composed>>
  BY DEF CloseScope
<1>3. fold' = [cell \in Cells |-> IF FoldMustClose(cell) THEN Closed(fold[cell]) ELSE fold[cell]]
  BY DEF CloseScope
<1>4. /\ SealedStands' /\ Awaited' \in SUBSET Awaited
      /\ sealed' = IF SealedMustClose THEN SealedClosed(sealed) ELSE sealed
  BY CloseScopeStands
<1>5. WalkInv'
  BY <1>1, <1>2 DEF WalkInv
<1>6. ASSUME NEW cell \in Cells
      PROVE  /\ SoundFold(fold[cell], cell)
             /\ FoldMustClose(cell) => /\ fold[cell].frames # << >>
                                       /\ fold'[cell] = Closed(fold[cell])
                                       /\ Closed(fold[cell]).frames = Front(fold[cell].frames)
             /\ ~FoldMustClose(cell) => fold'[cell] = fold[cell]
  <2>1. SoundFold(fold[cell], cell)
    BY <1>1 DEF FoldInv
  <2>2. FoldMustClose(cell) => fold[cell].frames # << >>
    BY <1>1, ClosingFoldsAreOpen
  <2>3. FoldMustClose(cell) => Closed(fold[cell]).frames = Front(fold[cell].frames)
    BY DEF Closed
  <2> QED
    BY <1>3, <2>1, <2>2, <2>3
<1>7. ASSUME NEW cell \in Cells
      PROVE  FoldStands(fold[cell].frames)'
  <2> DEFINE f == fold[cell].frames
             g == fold'[cell].frames
  <2>1. f \in Seq(ScopeFrames) /\ FoldStands(f)
    BY <1>1, <1>6 DEF SoundFold
  <2>2. g = << >> \/ \A i \in DOMAIN g : i \in DOMAIN f /\ g[i] = f[i]
    <3>1. CASE FoldMustClose(cell)
      <4>1. f # << >> /\ g = Front(f)
        BY <1>6, <3>1
      <4>2. /\ Front(f) \in Seq(ScopeFrames) /\ Len(f) \in Nat \ {0}
            /\ Len(Front(f)) = Len(f) - 1
            /\ \A i \in 1 .. Len(f) - 1 : Front(f)[i] = f[i]
        BY <2>1, <4>1, FrontOfFrames
      <4> QED
        BY <2>1, <4>1, <4>2
    <3>2. CASE ~FoldMustClose(cell)
      BY <1>6, <3>2
    <3> QED
      BY <3>1, <3>2
  <2>3. CASE g = << >>
    BY <2>3 DEF FoldStands
  <2>4. CASE g # << >>
    <3>1. f # << >>
      <4> SUFFICES ASSUME f = << >>
                   PROVE  FALSE
        OBVIOUS
      <4>1. ~FoldMustClose(cell)
        BY <1>6
      <4> QED
        BY <1>6, <2>4, <4>1
    <3>2. PICK k \in 1 .. composed : \A i \in DOMAIN f :
            i \in DOMAIN FramesAt(k) /\ f[i] = FramesAt(k)[i]
      BY <2>1, <3>1 DEF FoldStands
    <3>3. k \in 1 .. composed' /\ FramesAt(k)' = FramesAt(k)
      BY <1>2 DEF FramesAt
    <3> HIDE DEF f, g
    <3>4. \A i \in DOMAIN g : i \in DOMAIN FramesAt(k)' /\ g[i] = FramesAt(k)'[i]
      BY <2>2, <2>4, <3>2, <3>3
    <3> QED
      BY <3>3, <3>4 DEF FoldStands, g
  <2> QED
    BY <2>3, <2>4
<1>8. ASSUME NEW cell \in Cells, NEW v \in VoxelsOf(cell)
      PROVE  AgreeAt(cell, v)'
  <2> DEFINE f == fold[cell].frames
             a == LaneOf(fold[cell], v)
             s == sealed.frames
             b == SealedLane(sealed, v)
             g == fold'[cell].frames
             c == LaneOf(fold'[cell], v)
             t == sealed'.frames
             d == SealedLane(sealed', v)
             wait == Awaited'
  <2>1. Agree(f, a, s, b, Awaited)
    BY <1>1 DEF AgreeAt
  <2>2. v \in VoxelsOf(Chunk)
    BY CentersArePoints
  <2>3. IsLane(f, a)
    BY <1>6, FoldIsLane
  <2>4. IsLane(s, b)
    BY <1>1, <2>2, SealedIsLane
  <2>5. IsLane(g, c)
    <3>1. SoundFold(fold'[cell], cell)
      BY DEF FoldInv
    <3> QED
      BY <3>1, FoldIsLane
  <2>6. FoldMustClose(cell) => /\ f # << >> /\ g = Front(f) /\ c = LaneClosed(f, a)
    BY <1>6, ClosedAtVoxel
  <2>7. ~FoldMustClose(cell) => g = f /\ c = a
    BY <1>6
  <2>8. SealedMustClose => s # << >> /\ t = Front(s) /\ d = LaneClosed(s, b)
    BY <1>1, <1>4, <2>2, SealedMustCloseWhen, SealedClosesAtVoxel
  <2>9. ~SealedMustClose => t = s /\ d = b
    BY <1>4
  <2>10. FoldMustClose(cell) => (Len(f) \in Awaited => \E i \in 1 .. Len(f) : f[i] # s[i])
    <3> SUFFICES ASSUME FoldMustClose(cell), Len(f) \in Awaited, \A i \in 1 .. Len(f) : f[i] = s[i]
                 PROVE  FALSE
      OBVIOUS
    <3>1. WalkIsAhead
      <4> SUFFICES ASSUME ~WalkIsAhead
                   PROVE  FALSE
        OBVIOUS
      <4>1. ended
        BY DEF FoldMustClose
      <4> QED
        BY <4>1 DEF Awaited
    <3>2. \A i \in 1 .. Len(f) : i \in DOMAIN Due.frames /\ Due.frames[i] = f[i]
      BY <3>1 DEF Awaited
    <3>3. Due.frames \in Seq(ScopeFrames) /\ composed + 1 \in DOMAIN leaves /\ Due = leaves[composed + 1]
      BY <1>1, <3>1, DueIsLeaf
    <3>4. f \in Seq(ScopeFrames) /\ Len(f) \in Nat /\ FoldStands(f)
      BY <1>1, <2>3 DEF IsLane
    <3>5. MustClose(PathOf(f), ScopePath(leaves[composed + 1]))
      BY <3>1 DEF FoldMustClose
    <3>6. ~Opens(f, Due.frames)
      <4> HIDE DEF f
      <4> QED
        BY <1>1, <3>3, <3>4, <3>5, PathsTellFrames
    <3> HIDE DEF f
    <3>7. Len(f) <= Len(Due.frames)
      <4>1. DOMAIN Due.frames = 1 .. Len(Due.frames) /\ Len(Due.frames) \in Nat
        BY <3>3
      <4> QED
        BY <3>2, <3>4, <4>1
    <3> QED
      BY <3>2, <3>6, <3>7 DEF Opens
  <2> HIDE DEF f, a, s, b, g, c, t, d
  <2>11. Agree(g, c, s, b, Awaited)
    <3>1. CASE FoldMustClose(cell)
      <4>1. f # << >> /\ (Len(f) \in Awaited => \E i \in 1 .. Len(f) : f[i] # s[i])
        BY <2>6, <2>10, <3>1
      <4>2. Agree(Front(f), LaneClosed(f, a), s, b, Awaited)
        BY <2>1, <2>3, <2>4, <4>1, FirstCloses
      <4> QED
        BY <2>6, <3>1, <4>2
    <3>2. CASE ~FoldMustClose(cell)
      BY <2>1, <2>7, <3>2
    <3> QED
      BY <3>1, <3>2
  <2>12. Agree(g, c, t, d, Awaited)
    <3>1. CASE SealedMustClose
      <4>1. Agree(g, c, Front(s), LaneClosed(s, b), Awaited)
        BY <2>4, <2>5, <2>8, <2>11, <3>1, SecondCloses
      <4> QED
        BY <2>8, <3>1, <4>1
    <3>2. CASE ~SealedMustClose
      BY <2>9, <2>11, <3>2
    <3> QED
      BY <3>1, <3>2
  <2>13. wait \in SUBSET Awaited
    BY <1>4
  <2> HIDE DEF wait
  <2>14. Agree(g, c, t, d, wait)
    BY <2>12, <2>13, AgreeNarrows
  <2>15. AgreeAt(cell, v)' = Agree(g, c, t, d, wait)
    BY DEF AgreeAt, g, c, t, d, wait
  <2> QED
    BY <2>14, <2>15
<1> QED
  BY <1>4, <1>5, <1>7, <1>8 DEF SealInv

(***************************************************************************)
(* A leaf composes.                                                        *)
(***************************************************************************)

(* A scope the sealed stack has left does not come back: a frame the leaf  *)
(* due shares with an earlier leaf, with all those around it open, is open *)
(* too.                                                                    *)
LEMMA NoScopeComesBack ==
  ASSUME SealInv, WalkIsAhead, NEW k \in 1 .. composed,
         NEW i \in DOMAIN FramesAt(k), i \in DOMAIN Due.frames, FramesAt(k)[i] = Due.frames[i],
         Opens(sealed.frames, Due.frames), i <= Len(sealed.frames) + 1
  PROVE  i <= Len(sealed.frames)
<1>1. /\ FoldInv /\ WalkInv /\ SealedStands
      /\ sealed.frames \in Seq(ScopeFrames) /\ Len(sealed.frames) \in Nat
      /\ DOMAIN sealed.frames = 1 .. Len(sealed.frames)
  BY DEF SealInv, SealedStands, SealedIsStack
<1>2. /\ composed + 1 \in DOMAIN leaves /\ Due = leaves[composed + 1] /\ composed \in Nat
      /\ DOMAIN leaves = 1 .. Len(leaves)
  BY <1>1, DueIsLeaf, LeavesAreTyped
<1>3. /\ composed \in DOMAIN leaves /\ k \in DOMAIN leaves /\ k <= composed /\ composed # 0
      /\ composed <= composed + 1
  BY <1>1, <1>2, DueIsLeaf
<1>4. i \in DOMAIN FramesAt(composed) /\ FramesAt(composed)[i] = Due.frames[i]
  <2>1. ScopesStandTogether(leaves)
    BY <1>1 DEF WalkInv
  <2> QED
    BY <1>2, <1>3, <2>1 DEF ScopesStandTogether, FramesAt
<1>5. i \in Nat
  <2>1. Due.frames \in Seq(ScopeFrames)
    BY <1>1, DueIsLeaf
  <2>2. DOMAIN Due.frames = 1 .. Len(Due.frames)
    BY <2>1
  <2> QED
    BY <2>2
<1>6. ASSUME NEW j \in 1 .. i
      PROVE  j \in DOMAIN Due.frames /\ FramesAt(composed)[j] = Due.frames[j]
  <2>1. CASE j = i
    BY <1>4, <2>1
  <2>2. CASE j # i
    <3>1. j \in 1 .. Len(sealed.frames)
      BY <1>1, <1>5, <2>2
    <3>2. sealed.frames[j] = FramesAt(composed)[j] /\ sealed.frames[j] = Due.frames[j]
      BY <1>1, <1>3, <3>1 DEF SealedStands, Opens
    <3>3. j \in DOMAIN Due.frames
      <4>1. Due.frames \in Seq(ScopeFrames)
        BY <1>1, DueIsLeaf
      <4>2. DOMAIN Due.frames = 1 .. Len(Due.frames) /\ Len(Due.frames) \in Nat
        BY <4>1
      <4> QED
        BY <1>1, <3>1, <4>2 DEF Opens
    <3> QED
      BY <3>2, <3>3
  <2> QED
    BY <2>1, <2>2
<1> QED
  BY <1>1, <1>3, <1>4, <1>6 DEF SealedStands

(* What a cell drops does not reach its voxels and masks nothing.          *)
LEMMA DroppedIsIdle ==
  ASSUME NEW leaf \in LeafRecords, NEW cell \in Cells, NEW v \in VoxelsOf(cell), ~Keeps(leaf, cell)
  PROVE  /\ StampAt(leaf.producer, v) = Nothing
         /\ leaf.operation # "intersect"
         /\ \A i \in 1 .. Len(leaf.frames) : leaf.frames[i].operation # "intersect"
<1>1. ~OverlapsLeaf(leaf, cell) /\ ~MasksBeyondBounds(leaf)
  BY DEF Keeps
<1>2. leaf.producer \in Producers /\ leaf.frames \in Seq(ScopeFrames)
  BY DEF LeafRecords
<1>3. /\ leaf.operation # "intersect"
      /\ \A i \in 1 .. Len(leaf.frames) : leaf.frames[i].operation # "intersect"
  BY <1>1, <1>2 DEF MasksBeyondBounds
<1>4. ~Covers(leaf.producer, v)
  <2>1. /\ cell[1] \in Nat /\ cell[2] \in Nat /\ v \in Int /\ cell[1] <= v /\ v <= cell[2] - 1
    BY CellsAreRanges, CentersArePoints
  <2>2. Box[leaf.producer][1] \in Int /\ Box[leaf.producer][2] \in Int
    <3>1. Box[leaf.producer] \in Int \X Int
      BY <1>2, ProducerAssumption
    <3> QED
      BY <3>1
  <2>3. ~(Box[leaf.producer][1] < cell[2] /\ cell[1] < Box[leaf.producer][2])
    BY <1>1 DEF OverlapsLeaf, Overlaps
  <2> QED
    BY <2>1, <2>2, <2>3 DEF Covers
<1> QED
  BY <1>3, <1>4 DEF StampAt

(* The sealed stack stands in the leaf it took.                            *)
LEMMA ComposeStands ==
  ASSUME SealInv, Compose
  PROVE  /\ SealedStands' /\ sealed' = SealedComposed(sealed, Due)
         /\ sealed'.frames = Due.frames
         /\ composed' = composed + 1 /\ FramesAt(composed)' = Due.frames
<1>1. FoldInv /\ SealedStands /\ SealedIsStack(sealed)
  BY DEF SealInv, SealedStands
<1>2. WalkIsAhead /\ composed' = composed + 1 /\ UNCHANGED <<leaves, ended>>
  BY DEF Compose
<1>3. /\ Due \in LeafRecords /\ Due = leaves[composed + 1] /\ composed \in Nat
      /\ Due.frames \in Seq(ScopeFrames)
  BY <1>1, <1>2, DueIsLeaf
<1>4. sealed' = SealedComposed(sealed, Due)
  BY DEF Compose, ComposedSealed, SealedComposed, Due
<1>5. SealedIsStack(sealed') /\ sealed'.frames = Due.frames
  BY <1>1, <1>3, <1>4, SealedComposesAtVoxel
<1>6. FramesAt(composed)' = Due.frames
  BY <1>2, <1>3 DEF FramesAt
<1>7. SealedStands'
  <2> DEFINE t == sealed'.frames
             new == FramesAt(composed)'
             next == Due.frames'
  <2>1. t = new /\ composed' # 0 /\ t \in Seq(ScopeFrames)
    BY <1>2, <1>3, <1>5, <1>6
  <2>2. DOMAIN t = 1 .. Len(t) /\ Len(t) \in Nat
    BY <2>1
  <2> HIDE DEF t, new, next
  <2>3. \A n \in DOMAIN new : n <= Len(t)
    BY <2>1, <2>2
  <2>4. \A i \in DOMAIN t : i \in DOMAIN new /\ t[i] = new[i]
    BY <2>1
  <2> QED
    BY <1>5, <2>1, <2>3, <2>4 DEF SealedStands, t, new, next
<1> QED
  BY <1>2, <1>4, <1>5, <1>6, <1>7

(* A leaf composes where it is kept and in the sealed stack, and they      *)
(* still agree.                                                            *)
LEMMA ComposeSeals ==
  ASSUME SealInv, FoldInv', Compose
  PROVE  SealInv'
<1>1. /\ FoldInv /\ WalkInv /\ SealedStands /\ SealedIsStack(sealed)
      /\ \A cell \in Cells : FoldStands(fold[cell].frames)
      /\ \A cell \in Cells : \A v \in VoxelsOf(cell) : AgreeAt(cell, v)
  BY DEF SealInv, SealedStands
<1>2. /\ WalkIsAhead /\ ~SomeMustClose
      /\ UNCHANGED <<leaves, ended, nodes, placements>>
      /\ fold' = [cell \in Cells |-> IF Keeps(Due, cell) THEN Composed(fold[cell], Due, cell)
                                     ELSE fold[cell]]
  BY DEF Compose, Due
<1>3. /\ SealedStands' /\ sealed' = SealedComposed(sealed, Due)
      /\ sealed'.frames = Due.frames
      /\ composed' = composed + 1 /\ FramesAt(composed)' = Due.frames
  BY ComposeStands
<1>4. /\ composed + 1 \in DOMAIN leaves /\ Due \in LeafRecords /\ Due = leaves[composed + 1]
      /\ Due.frames \in Seq(ScopeFrames) /\ composed \in Nat
      /\ Due.producer \in Producers /\ Due.operation \in Operations
  BY <1>1, <1>2, DueIsLeaf
<1>5. WalkInv'
  BY <1>1, <1>2 DEF WalkInv
<1>6. Opens(sealed.frames, Due.frames)
  BY <1>2, SealedMustCloseWhen DEF SomeMustClose
<1>7. sealed.frames \in Seq(ScopeFrames) /\ Len(sealed.frames) \in Nat
  BY <1>1 DEF SealedIsStack
<1>8. 1 .. Len(sealed.frames) \subseteq Awaited
  <2>1. DOMAIN Due.frames = 1 .. Len(Due.frames) /\ Len(Due.frames) \in Nat
    BY <1>4
  <2> SUFFICES ASSUME NEW n \in 1 .. Len(sealed.frames)
               PROVE  \A i \in 1 .. n : i \in DOMAIN Due.frames /\ Due.frames[i] = sealed.frames[i]
    BY <1>2 DEF Awaited
  <2> QED
    BY <1>6, <1>7, <2>1 DEF Opens
<1>9. ASSUME NEW cell \in Cells
      PROVE  /\ SoundFold(fold[cell], cell)
             /\ fold[cell].frames \in Seq(ScopeFrames) /\ FoldStands(fold[cell].frames)
             /\ Keeps(Due, cell) => /\ fold'[cell] = Composed(fold[cell], Due, cell)
                                    /\ fold'[cell].frames = Due.frames
                                    /\ Opens(fold[cell].frames, Due.frames)
             /\ ~Keeps(Due, cell) => fold'[cell] = fold[cell]
  <2>1. SoundFold(fold[cell], cell)
    BY <1>1 DEF FoldInv
  <2>2. Composed(fold[cell], Due, cell).frames = Due.frames
    BY DEF Composed
  <2>3. fold[cell].frames \in Seq(ScopeFrames) /\ FoldStands(fold[cell].frames)
    BY <1>1, <2>1 DEF SoundFold
  <2>4. Keeps(Due, cell) => Opens(fold[cell].frames, Due.frames)
    <3>1. ~FoldMustClose(cell)
      BY <1>2 DEF SomeMustClose
    <3>2. Keeps(Due, cell) => ~MustClose(PathOf(fold[cell].frames), ScopePath(leaves[composed + 1]))
      BY <1>2, <1>4, <3>1 DEF FoldMustClose
    <3>3. MustClose(PathOf(fold[cell].frames), ScopePath(leaves[composed + 1]))
            <=> ~Opens(fold[cell].frames, leaves[composed + 1].frames)
      BY <1>1, <1>4, <2>3, PathsTellFrames
    <3> QED
      BY <1>4, <3>2, <3>3
  <2> QED
    BY <1>2, <2>1, <2>2, <2>3, <2>4
<1>10. ASSUME NEW cell \in Cells
       PROVE  FoldStands(fold[cell].frames)'
  <2> DEFINE g == fold'[cell].frames
  <2>1. CASE Keeps(Due, cell)
    <3>1. g = FramesAt(composed)' /\ composed' \in 1 .. composed'
      BY <1>3, <1>4, <1>9, <2>1
    <3> HIDE DEF g
    <3>2. \E k \in 1 .. composed' : \A i \in DOMAIN g :
            i \in DOMAIN leaves'[k].frames /\ g[i] = leaves'[k].frames[i]
      BY <3>1 DEF FramesAt
    <3> QED
      BY <3>2 DEF FoldStands, FramesAt, g
  <2>2. CASE ~Keeps(Due, cell)
    <3>1. g = fold[cell].frames /\ FoldStands(g)
      BY <1>9, <2>2
    <3> HIDE DEF g
    <3>2. CASE g = << >>
      BY <3>2 DEF FoldStands, g
    <3>3. CASE g # << >>
      <4>1. PICK k \in 1 .. composed : \A i \in DOMAIN g :
              i \in DOMAIN leaves[k].frames /\ g[i] = leaves[k].frames[i]
        BY <3>1, <3>3 DEF FoldStands, FramesAt
      <4>2. k \in 1 .. composed' /\ leaves' = leaves
        BY <1>2, <1>3, <1>4
      <4>3. \E j \in 1 .. composed' : \A i \in DOMAIN g :
              i \in DOMAIN leaves'[j].frames /\ g[i] = leaves'[j].frames[i]
        BY <4>1, <4>2
      <4> QED
        BY <4>3 DEF FoldStands, FramesAt, g
    <3> QED
      BY <3>2, <3>3
  <2> QED
    BY <2>1, <2>2
<1>11. ASSUME NEW cell \in Cells, NEW v \in VoxelsOf(cell)
       PROVE  AgreeAt(cell, v)'
  <2> DEFINE f == fold[cell].frames
             a == LaneOf(fold[cell], v)
             s == sealed.frames
             b == SealedLane(sealed, v)
             g == fold'[cell].frames
             c == LaneOf(fold'[cell], v)
             t == sealed'.frames
             d == SealedLane(sealed', v)
             x == StampAt(Due.producer, v)
             op == Due.operation
             wait == Awaited'
  <2>1. Agree(f, a, s, b, Awaited)
    BY <1>1 DEF AgreeAt
  <2>2. v \in VoxelsOf(Chunk)
    BY CentersArePoints
  <2>3. IsLane(f, a)
    BY <1>9, FoldIsLane
  <2>4. IsLane(s, b)
    BY <1>1, <2>2, SealedIsLane
  <2>5. x \in Values
    BY <1>4, VoxelByVoxel
  <2>6. t = Due.frames /\ d = LaneComposed(s, b, t, x, op)
    BY <1>1, <1>3, <1>4, <2>2, SealedComposesAtVoxel
  <2>7. t \in Seq(ScopeFrames) /\ Opens(s, t) /\ op \in Operations
    BY <1>4, <1>6, <2>6
  <2>8. Keeps(Due, cell) => g = t /\ c = LaneComposed(f, a, t, x, op) /\ Opens(f, t)
    BY <1>4, <1>9, <2>6, ComposedAtVoxel
  <2>9. ~Keeps(Due, cell) => /\ g = f /\ c = a /\ x = Nothing /\ op # "intersect"
                             /\ \A i \in 1 .. Len(t) : t[i].operation # "intersect"
    BY <1>4, <1>9, <2>6, DroppedIsIdle
  <2>10. ASSUME Len(s) < Len(f), Len(s) < Len(t), f[Len(s) + 1] = t[Len(s) + 1]
         PROVE  FALSE
    <3> DEFINE i == Len(s) + 1
    <3>1. /\ DOMAIN f = 1 .. Len(f) /\ Len(f) \in Nat
          /\ DOMAIN t = 1 .. Len(t) /\ Len(t) \in Nat /\ Len(s) \in Nat
      BY <1>7, <2>3, <2>7 DEF IsLane
    <3>2. i \in DOMAIN f /\ i \in DOMAIN t /\ f # << >>
      BY <2>10, <3>1
    <3>3. PICK k \in 1 .. composed : \A j \in DOMAIN f :
            j \in DOMAIN FramesAt(k) /\ f[j] = FramesAt(k)[j]
      BY <1>9, <3>2 DEF FoldStands
    <3>4. i \in DOMAIN FramesAt(k) /\ i \in DOMAIN Due.frames /\ FramesAt(k)[i] = Due.frames[i]
      BY <2>6, <2>10, <3>2, <3>3
    <3>5. i <= Len(s)
      BY <1>2, <1>6, <3>4, NoScopeComesBack
    <3> QED
      BY <3>1, <3>5
  <2> HIDE DEF f, a, s, b, g, c, t, d, x, op, wait
  <2>11. Len(f) \in Nat /\ Len(s) \in Nat /\ Len(t) \in Nat
    BY <2>3, <2>4, <2>7 DEF IsLane
  <2>12. 1 .. Len(s) \subseteq Awaited
    BY <1>8 DEF s
  <2>13. Agree(g, c, t, d, wait)
    <3>1. CASE Keeps(Due, cell)
      <4>1. Len(f) <= Len(s)
        <5> SUFFICES ASSUME Len(s) < Len(f)
                     PROVE  FALSE
          BY <2>11
        <5>1. Len(s) + 1 \in 1 .. Len(f) /\ Len(s) < Len(t)
          BY <2>8, <2>11, <3>1 DEF Opens
        <5>2. f[Len(s) + 1] = t[Len(s) + 1]
          BY <2>8, <3>1, <5>1 DEF Opens
        <5> QED
          BY <2>10, <5>1, <5>2
      <4>2. Len(f) < Len(s) => Len(f) + 1 \in Awaited
        BY <2>11, <2>12
      <4>3. Opens(f, t)
        BY <2>8, <3>1
      <4>4. Agree(t, LaneComposed(f, a, t, x, op), t, LaneComposed(s, b, t, x, op), wait)
        BY <2>1, <2>3, <2>4, <2>5, <2>7, <4>1, <4>2, <4>3, BothCompose
      <4> QED
        BY <2>6, <2>8, <3>1, <4>4
    <3>2. CASE ~Keeps(Due, cell)
      <4>1. op # "intersect" /\ \A i \in 1 .. Len(t) : t[i].operation # "intersect"
        BY <2>9, <3>2
      <4>2. Len(s) < Len(f) /\ Len(s) < Len(t) /\ (\A i \in 1 .. Len(s) : f[i] = t[i])
              => f[Len(s) + 1] # t[Len(s) + 1]
        BY <2>10
      <4>3. Agree(f, a, t, LaneComposed(s, b, t, Nothing, op), wait)
        BY <2>1, <2>3, <2>4, <2>7, <2>12, <4>1, <4>2, SecondComposes
      <4> QED
        BY <2>6, <2>9, <3>2, <4>3
    <3> QED
      BY <3>1, <3>2
  <2>14. AgreeAt(cell, v)' = Agree(g, c, t, d, wait)
    BY DEF AgreeAt, g, c, t, d, wait
  <2> QED
    BY <2>13, <2>14
<1> QED
  BY <1>3, <1>5, <1>10, <1>11 DEF SealInv

(* The folds and the sealed stack begin in agreement.                      *)
LEMMA SealInvBegins ==
  ASSUME Init, FoldInv
  PROVE  SealInv
<1>1. /\ leaves = << >> /\ nodes = 0 /\ placements = 0 /\ composed = 0 /\ ended = FALSE
      /\ fold = [cell \in Cells |-> EmptyFold(cell)]
      /\ sealed = [frames |-> << >>, bodies |-> <<NoVoxels(Chunk)>>]
  BY DEF Init
<1>2. WalkInv
  BY <1>1 DEF WalkInv, FramesAreOfNodes, NodesTellFrames, ScopesStandTogether
<1>3. SealedIsStack(sealed) /\ sealed.frames = << >> /\ sealed.bodies = <<NoVoxels(Chunk)>>
  <2> DEFINE body == NoVoxels(Chunk)
             frames == << >>
             bodies == <<body>>
  <2>1. body \in Bodies(Chunk)
    BY DEF NoVoxels, Bodies
  <2>2. sealed.frames = frames /\ sealed.bodies = bodies
    BY <1>1
  <2> HIDE DEF body
  <2>3. bodies \in Seq(Bodies(Chunk)) /\ Len(bodies) = 1 /\ frames \in Seq(ScopeFrames) /\ Len(frames) = 0
    BY <2>1
  <2> HIDE DEF bodies, frames
  <2>4. SealedIsStack(sealed)
    BY <2>2, <2>3 DEF SealedIsStack
  <2> QED
    BY <2>2, <2>4 DEF bodies, frames, body
<1>4. SealedStands
  BY <1>1, <1>3 DEF SealedStands
<1>5. \A cell \in Cells : FoldStands(fold[cell].frames)
  BY <1>1 DEF FoldStands, EmptyFold
<1>6. ASSUME NEW cell \in Cells, NEW v \in VoxelsOf(cell)
      PROVE  AgreeAt(cell, v)
  <2> DEFINE f == fold[cell].frames
             a == LaneOf(fold[cell], v)
             s == sealed.frames
             b == SealedLane(sealed, v)
  <2>1. f = << >> /\ fold[cell].levels = <<EmptyLevel(cell)>>
    BY <1>1 DEF EmptyFold
  <2>2. v \in VoxelsOf(Chunk)
    BY CentersArePoints
  <2>3. a[1] = Nothing
    <3>1. a[1] = fold[cell].levels[1].body[v]
      BY <2>1 DEF LaneOf
    <3>2. fold[cell].levels[1].body = NoVoxels(cell)
      BY <2>1 DEF EmptyLevel
    <3> QED
      BY <3>1, <3>2, VoxelByVoxel
  <2>4. b[1] = Nothing
    <3>1. b[1] = sealed.bodies[1][v]
      BY <1>3 DEF SealedLane
    <3>2. sealed.bodies[1] = NoVoxels(Chunk)
      BY <1>3
    <3> QED
      BY <2>2, <3>1, <3>2, ChunkIsCell, VoxelByVoxel
  <2>5. s = << >> /\ Len(<< >>) = 0
    BY <1>3
  <2> DEFINE u == [k \in 1 .. 1 |-> Nothing]
  <2>6. u \in [1 .. 1 -> Values] /\ u[1] = Nothing
    BY DEF Values
  <2> HIDE DEF f, a, s, b, u
  <2>7. FoldsTo(f, a, 0, u) /\ FoldsTo(s, b, 0, u)
    BY <2>1, <2>3, <2>4, <2>5, <2>6 DEF FoldsTo
  <2>8. Shares(f, s, 0)
    BY <2>1, <2>5 DEF Shares
  <2>9. Idle(s, b, 0, u)
    BY <2>5 DEF Idle
  <2>10. Agrees(f, a, s, b, Awaited, 0, u, u)
    BY <2>7, <2>8, <2>9 DEF Agrees
  <2> QED
    BY <2>10 DEF Agree, AgreeAt, f, a, s, b
<1> QED
  BY <1>2, <1>4, <1>5, <1>6 DEF SealInv

(* A step that changes nothing keeps the agreement.                        *)
LEMMA StutterSeals ==
  ASSUME SealInv, FoldInv', UNCHANGED vars
  PROVE  SealInv'
<1>1. UNCHANGED <<leaves, ended, nodes, placements, composed, fold, sealed>>
  BY DEF vars
<1>2. WalkInv' /\ SealedStands'
  BY <1>1 DEF SealInv, WalkInv, SealedStands, FramesAt, Due, WalkIsAhead
<1>3. \A cell \in Cells : FoldStands(fold[cell].frames)'
  BY <1>1 DEF SealInv, FoldStands, FramesAt
<1>4. Awaited' = Awaited
  BY <1>1 DEF Awaited, Due, WalkIsAhead
<1>5. \A cell \in Cells : \A v \in VoxelsOf(cell) : AgreeAt(cell, v)'
  BY <1>1, <1>4 DEF SealInv, AgreeAt
<1> QED
  BY <1>2, <1>3, <1>5 DEF SealInv

(* The agreement is inductive, as long as no fixture is placed twice.      *)
LEMMA SealInvIsInductive ==
  ASSUME MaxPlacements <= 1
  PROVE  Spec => []SealInv
<1>1. Init /\ FoldInv => SealInv
  BY SealInvBegins
<1>2. SealInv /\ FoldInv' /\ [Next]_vars => SealInv'
  <2> SUFFICES ASSUME SealInv, FoldInv', [Next]_vars
               PROVE  SealInv'
    OBVIOUS
  <2>1. ASSUME NEW entered \in Entered, NEW kept \in 0 .. Len(Inside),
               NEW p \in Producers, NEW operation \in Operations,
               Visit(p, operation, kept, entered)
        PROVE  SealInv'
    BY <2>1, VisitSeals
  <2>2. ASSUME NEW placed \in Fixtures, NEW kept \in 0 .. Len(Inside), PlaceFixture(placed, kept)
        PROVE  SealInv'
    BY <2>2, PlaceFixtureSeals
  <2>3. CASE EndWalk
    BY <2>3, EndWalkSeals
  <2>4. CASE CloseScope
    BY <2>4, CloseScopeSeals
  <2>5. CASE Compose
    BY <2>5, ComposeSeals
  <2>6. CASE UNCHANGED vars
    BY <2>6, StutterSeals
  <2> QED
    BY <2>1, <2>2, <2>3, <2>4, <2>5, <2>6 DEF Next, Walk
<1> QED
  BY <1>1, <1>2, FoldInvIsInductive, PTL DEF Spec

(***************************************************************************)
(* What a voxel of the sealed stack holds, and who put it there.           *)
(***************************************************************************)

(* The leaf stamped x into the voxel v, and what it sits in beyond the     *)
(* level k of the frames s only adds.                                      *)
StampedBy(leaf, s, k, v, x) ==
  /\ leaf.operation = "union" /\ Covers(leaf.producer, v) /\ x = StampOf(leaf.producer)
  /\ k - 1 <= Len(leaf.frames)
  /\ \A j \in 1 .. k - 1 : leaf.frames[j] = s[j]
  /\ \A j \in k .. Len(leaf.frames) : leaf.frames[j].operation = "union"
Stamped(list, s, b, v) ==
  \A k \in 1 .. Len(s) + 1 : b[k] # Nothing => \E i \in DOMAIN list : StampedBy(list[i], s, k, v, b[k])
StampInv ==
  \A v \in VoxelsOf(Chunk) : Stamped(leaves, sealed.frames, SealedLane(sealed, v), v)

(* A scope that closes leaves its stamps to its parent only by a union.    *)
LEMMA ClosedIsStamped ==
  ASSUME NEW list, NEW s, NEW b, NEW v, IsLane(s, b), s # << >>, Stamped(list, s, b, v),
         \A i \in DOMAIN list : list[i].frames \in Seq(ScopeFrames)
  PROVE  Stamped(list, Front(s), LaneClosed(s, b), v)
<1> DEFINE n == Len(s)
           t == Front(s)
           d == LaneClosed(s, b)
<1>1. /\ t \in Seq(ScopeFrames) /\ Len(t) = n - 1 /\ n \in Nat \ {0}
      /\ \A i \in 1 .. n - 1 : t[i] = s[i]
      /\ b \in [1 .. n + 1 -> Values]
  BY FrontOfFrames DEF IsLane
<1>2. /\ d[n] = Put(b[n], b[n + 1], s[n].operation)
      /\ \A k \in 1 .. n - 1 : d[k] = b[k]
  BY LaneCloses
<1> SUFFICES ASSUME NEW k \in 1 .. n, d[k] # Nothing
             PROVE  \E i \in DOMAIN list : StampedBy(list[i], t, k, v, d[k])
  BY <1>1 DEF Stamped
<1> HIDE DEF t, d
<1>3. CASE d[k] = b[k]
  <2>1. PICK i \in DOMAIN list : StampedBy(list[i], s, k, v, b[k])
    BY <1>1, <1>3 DEF Stamped
  <2>2. StampedBy(list[i], t, k, v, d[k])
    BY <1>1, <1>3, <2>1 DEF StampedBy
  <2> QED
    BY <2>2
<1>4. CASE d[k] # b[k]
  <2>1. k = n /\ s[n].operation = "union" /\ d[n] = b[n + 1] /\ b[n + 1] # Nothing
    BY <1>1, <1>2, <1>4 DEF Put
  <2>2. PICK i \in DOMAIN list : StampedBy(list[i], s, n + 1, v, b[n + 1])
    BY <1>1, <2>1 DEF Stamped
  <2> DEFINE leaf == list[i]
  <2>3. Len(leaf.frames) \in Nat
    BY <2>2
  <2> HIDE DEF leaf
  <2>4. /\ leaf.operation = "union" /\ Covers(leaf.producer, v) /\ b[n + 1] = StampOf(leaf.producer)
        /\ n <= Len(leaf.frames) /\ \A j \in 1 .. n : leaf.frames[j] = s[j]
        /\ \A j \in n + 1 .. Len(leaf.frames) : leaf.frames[j].operation = "union"
    BY <1>1, <2>2 DEF StampedBy, leaf
  <2>5. \A j \in n .. Len(leaf.frames) : leaf.frames[j].operation = "union"
    <3> SUFFICES ASSUME NEW j \in n .. Len(leaf.frames)
                 PROVE  leaf.frames[j].operation = "union"
      OBVIOUS
    <3>1. CASE j = n
      BY <1>1, <2>1, <2>4, <3>1
    <3>2. CASE j # n
      BY <1>1, <2>3, <2>4, <3>2
    <3> QED
      BY <3>1, <3>2
  <2>6. StampedBy(leaf, t, n, v, d[n])
    BY <1>1, <2>1, <2>3, <2>4, <2>5 DEF StampedBy
  <2> QED
    BY <2>1, <2>6 DEF leaf
<1> QED
  BY <1>3, <1>4

(* A leaf that composes stamps by a union only, in its own scopes.         *)
LEMMA ComposedIsStamped ==
  ASSUME NEW list, NEW s, NEW b, NEW v, IsLane(s, b), Stamped(list, s, b, v),
         NEW due \in DOMAIN list, list[due] \in LeafRecords, Opens(s, list[due].frames),
         StampAt(list[due].producer, v) \in Values
  PROVE  Stamped(list, list[due].frames,
                 LaneComposed(s, b, list[due].frames, StampAt(list[due].producer, v),
                              list[due].operation), v)
<1> DEFINE leaf == list[due]
           t == leaf.frames
           x == StampAt(leaf.producer, v)
           op == leaf.operation
           d == LaneComposed(s, b, t, x, op)
           old == IF Len(t) = Len(s) THEN b[Len(t) + 1] ELSE Nothing
<1>1. leaf \in LeafRecords
  OBVIOUS
<1> HIDE DEF leaf
<1>2. t \in Seq(ScopeFrames) /\ op \in Operations
  BY <1>1 DEF LeafRecords
<1>3. x \in Values /\ Opens(s, t)
  BY DEF leaf
<1> HIDE DEF t, x, op
<1>4. /\ d[Len(t) + 1] = Put(old, x, op)
      /\ \A k \in 1 .. Len(t) : d[k] = IF k <= Len(s) + 1 THEN b[k] ELSE Nothing
  BY <1>2, <1>3, LaneComposes
<1>5. Len(t) \in Nat /\ Len(s) \in Nat /\ Len(s) <= Len(t) /\ \A i \in 1 .. Len(s) : s[i] = t[i]
  BY <1>2, <1>3 DEF IsLane, Opens
<1> SUFFICES ASSUME NEW k \in 1 .. Len(t) + 1, d[k] # Nothing
             PROVE  \E i \in DOMAIN list : StampedBy(list[i], t, k, v, d[k])
  BY DEF Stamped, t, d, x, op, leaf
<1> HIDE DEF d
<1>6. CASE k <= Len(s) + 1 /\ d[k] = b[k]
  <2>1. PICK i \in DOMAIN list : StampedBy(list[i], s, k, v, b[k])
    BY <1>5, <1>6 DEF Stamped
  <2>2. \A j \in 1 .. k - 1 : s[j] = t[j]
    BY <1>5, <1>6
  <2>3. StampedBy(list[i], t, k, v, d[k])
    BY <1>6, <2>1, <2>2 DEF StampedBy
  <2> QED
    BY <2>3
<1>7. CASE ~(k <= Len(s) + 1 /\ d[k] = b[k])
  <2>1. k = Len(t) + 1
    BY <1>4, <1>5, <1>7
  <2>2. op = "union" /\ x # Nothing /\ d[k] = x
    <3>1. k <= Len(s) + 1 => old = b[k]
      BY <1>5, <2>1
    <3>2. ~(k <= Len(s) + 1) => old = Nothing
      BY <1>5, <2>1
    <3>3. d[k] = Put(old, x, op)
      BY <1>4, <2>1
    <3> HIDE DEF old
    <3>4. d[k] # old
      BY <1>7, <3>1, <3>2
    <3> QED
      BY <3>3, <3>4 DEF Put
  <2>3. Covers(leaf.producer, v) /\ x = StampOf(leaf.producer)
    BY <2>2 DEF x, StampAt
  <2>4. StampedBy(leaf, t, k, v, d[k])
    BY <1>5, <2>1, <2>2, <2>3 DEF StampedBy, t, op
  <2> QED
    BY <2>4 DEF leaf
<1> QED
  BY <1>6, <1>7

(* More leaves take no stamp away.                                         *)
LEMMA StampsOutlast ==
  ASSUME NEW list, NEW longer, NEW s, NEW b, NEW v, Stamped(list, s, b, v),
         \A i \in DOMAIN list : i \in DOMAIN longer /\ longer[i] = list[i]
  PROVE  Stamped(longer, s, b, v)
<1> SUFFICES ASSUME NEW k \in 1 .. Len(s) + 1, b[k] # Nothing
             PROVE  \E i \in DOMAIN longer : StampedBy(longer[i], s, k, v, b[k])
  BY DEF Stamped
<1>1. PICK i \in DOMAIN list : StampedBy(list[i], s, k, v, b[k])
  BY DEF Stamped
<1> QED
  BY <1>1

(* The walk only adds to the list of leaves.                               *)
LEMMA WalkAddsLeaves ==
  ASSUME FoldInv, Walk
  PROVE  /\ \A i \in DOMAIN leaves : i \in DOMAIN leaves' /\ leaves'[i] = leaves[i]
         /\ sealed' = sealed
<1>1. leaves \in Seq(LeafRecords) /\ DOMAIN leaves = 1 .. Len(leaves) /\ Len(leaves) \in Nat
  BY LeavesAreTyped
<1> HIDE DEF LeafRecords
<1>2. ASSUME NEW entered \in Entered, NEW kept \in 0 .. Len(Inside),
             NEW p \in Producers, NEW operation \in Operations,
             Visit(p, operation, kept, entered)
      PROVE  /\ \A i \in DOMAIN leaves : i \in DOMAIN leaves' /\ leaves'[i] = leaves[i]
             /\ sealed' = sealed
  <2>1. PICK leaf : leaves' = Append(leaves, leaf)
    BY <1>2 DEF Visit
  <2> DEFINE S == LeafRecords \cup {leaf}
  <2>2. leaves \in Seq(S) /\ leaf \in S
    BY <1>1
  <2> HIDE DEF S
  <2>3. /\ Append(leaves, leaf) \in Seq(S) /\ Len(Append(leaves, leaf)) = Len(leaves) + 1
        /\ \A i \in 1 .. Len(leaves) : Append(leaves, leaf)[i] = leaves[i]
    BY <2>2, AppendProperties
  <2>4. DOMAIN leaves' = 1 .. Len(leaves) + 1
    BY <2>1, <2>3
  <2> QED
    BY <1>1, <1>2, <2>1, <2>3, <2>4 DEF Visit
<1>3. ASSUME NEW placed \in Fixtures, NEW kept \in 0 .. Len(Inside), PlaceFixture(placed, kept)
      PROVE  /\ \A i \in DOMAIN leaves : i \in DOMAIN leaves' /\ leaves'[i] = leaves[i]
             /\ sealed' = sealed
  <2> DEFINE frames == Append(SubSeq(Inside, 1, kept), Frame(FixtureGroup, FixtureOp, nodes + 1))
             leaf(i) == [producer |-> placed[i].producer, operation |-> placed[i].operation,
                         frames |-> frames]
             added == [i \in DOMAIN placed |-> leaf(i)]
  <2>1. leaves' = leaves \o added
    BY <1>3 DEF PlaceFixture
  <2> HIDE DEF leaf
  <2>2. DOMAIN placed = 1 .. Len(placed) /\ Len(placed) \in Nat
    BY BoundsAssumption
  <2> DEFINE S == LeafRecords \cup {leaf(i) : i \in DOMAIN placed}
             n == Len(placed)
  <2>3. leaves \in Seq(S)
    BY <1>1
  <2>4. added \in [1 .. n -> S]
    BY <2>1, <2>2
  <2> HIDE DEF S, n, added
  <2>5. n \in Nat
    BY <2>2 DEF n
  <2>6. added \in Seq(S) /\ Len(added) = n
    BY <2>4, <2>5
  <2>7. /\ leaves \o added \in Seq(S) /\ Len(leaves \o added) = Len(leaves) + Len(added)
        /\ \A i \in 1 .. Len(leaves) + Len(added) : (leaves \o added)[i] =
             IF i <= Len(leaves) THEN leaves[i] ELSE added[i - Len(leaves)]
    BY <2>3, <2>6, ConcatProperties
  <2>8. DOMAIN leaves' = 1 .. Len(leaves) + n
    BY <2>1, <2>6, <2>7
  <2> QED
    BY <1>1, <1>3, <2>1, <2>5, <2>6, <2>7, <2>8 DEF PlaceFixture
<1>4. CASE EndWalk
  BY <1>4 DEF EndWalk
<1> QED
  BY <1>2, <1>3, <1>4 DEF Walk

(* Every voxel of the sealed stack was stamped by a leaf.                  *)
LEMMA StampInvBegins ==
  ASSUME Init
  PROVE  StampInv
<1> SUFFICES ASSUME NEW v \in VoxelsOf(Chunk), NEW k \in 1 .. Len(sealed.frames) + 1
             PROVE  SealedLane(sealed, v)[k] = Nothing
  BY DEF StampInv, Stamped
<1> DEFINE body == NoVoxels(Chunk)
           bodies == <<body>>
<1>1. sealed.frames = << >> /\ sealed.bodies = bodies
  BY DEF Init
<1>2. body[v] = Nothing
  BY DEF NoVoxels
<1> HIDE DEF body
<1>3. k = 1 /\ bodies[k] = body
  <2>1. Len(<< >>) = 0
    OBVIOUS
  <2>2. k \in 1 .. 1
    BY <1>1, <2>1
  <2> QED
    BY <2>2
<1> HIDE DEF bodies
<1>4. SealedLane(sealed, v)[k] = sealed.bodies[k][v]
  BY DEF SealedLane
<1> QED
  BY <1>1, <1>2, <1>3, <1>4

(* It stays so.                                                            *)
LEMMA StampInvStays ==
  ASSUME SealInv, StampInv, [Next]_vars
  PROVE  StampInv'
<1> SUFFICES ASSUME NEW v \in VoxelsOf(Chunk)
             PROVE  Stamped(leaves, sealed.frames, SealedLane(sealed, v), v)'
  BY DEF StampInv
<1> DEFINE s == sealed.frames
           b == SealedLane(sealed, v)
           list == leaves
           t == sealed'.frames
           d == SealedLane(sealed', v)
           longer == leaves'
<1>1. Stamped(list, s, b, v)
  BY DEF StampInv
<1>2. FoldInv /\ SealedIsStack(sealed)
  BY DEF SealInv, SealedStands
<1>3. IsLane(s, b)
  BY <1>2, SealedIsLane
<1>4. \A i \in DOMAIN list : list[i] \in LeafRecords /\ list[i].frames \in Seq(ScopeFrames)
  BY <1>2, LeavesAreTyped DEF FramesAt
<1>5. CASE Walk
  <2>1. (\A i \in DOMAIN list : i \in DOMAIN longer /\ longer[i] = list[i]) /\ t = s /\ d = b
    BY <1>2, <1>5, WalkAddsLeaves
  <2> HIDE DEF s, b, list, t, d, longer
  <2>2. Stamped(longer, t, d, v)
    BY <1>1, <2>1, StampsOutlast
  <2> QED
    BY <2>2 DEF t, d, longer
<1>6. CASE CloseScope
  <2>1. longer = list
    BY <1>6 DEF CloseScope
  <2>2. sealed' = IF SealedMustClose THEN SealedClosed(sealed) ELSE sealed
    BY <1>6, CloseScopeStands
  <2>3. CASE SealedMustClose
    <3>1. s # << >> /\ t = Front(s) /\ d = LaneClosed(s, b)
      BY <1>2, <2>2, <2>3, SealedMustCloseWhen, SealedClosesAtVoxel
    <3> HIDE DEF s, b, list, t, d, longer
    <3>2. \A i \in DOMAIN list : list[i].frames \in Seq(ScopeFrames)
      BY <1>4
    <3>3. Stamped(list, Front(s), LaneClosed(s, b), v)
      BY <1>1, <1>3, <3>1, <3>2, ClosedIsStamped
    <3>4. Stamped(longer, t, d, v)
      BY <2>1, <3>1, <3>3
    <3> QED
      BY <3>4 DEF t, d, longer
  <2>4. CASE ~SealedMustClose
    <3>1. t = s /\ d = b
      BY <2>2, <2>4
    <3> HIDE DEF s, b, list, t, d, longer
    <3>2. Stamped(longer, t, d, v)
      BY <1>1, <2>1, <3>1
    <3> QED
      BY <3>2 DEF t, d, longer
  <2> QED
    BY <2>3, <2>4
<1>7. CASE Compose
  <2> DEFINE due == composed + 1
  <2>1. longer = list /\ sealed' = SealedComposed(sealed, Due) /\ WalkIsAhead
    BY <1>7, ComposeStands DEF Compose
  <2>2. due \in DOMAIN list /\ Due = list[due] /\ Due \in LeafRecords /\ Due.producer \in Producers
    BY <1>2, <2>1, DueIsLeaf
  <2>3. t = Due.frames
        /\ d = LaneComposed(s, b, Due.frames, StampAt(Due.producer, v), Due.operation)
    BY <1>2, <2>1, <2>2, SealedComposesAtVoxel
  <2>4. Opens(s, Due.frames)
    BY <1>7, <2>1, SealedMustCloseWhen DEF Compose, SomeMustClose
  <2>5. StampAt(Due.producer, v) \in Values
    BY <2>2, ChunkIsCell, VoxelByVoxel
  <2> DEFINE leaf == Due
  <2> HIDE DEF s, b, list, t, d, longer, due, leaf
  <2>6. leaf = list[due]
    BY <2>2 DEF leaf
  <2>7. Stamped(list, leaf.frames, LaneComposed(s, b, leaf.frames, StampAt(leaf.producer, v),
                                                 leaf.operation), v)
    <3>1. /\ list[due] \in LeafRecords /\ Opens(s, list[due].frames)
          /\ StampAt(list[due].producer, v) \in Values
      BY <2>2, <2>4, <2>5
    <3>2. Stamped(list, list[due].frames,
                  LaneComposed(s, b, list[due].frames, StampAt(list[due].producer, v),
                               list[due].operation), v)
      BY <1>1, <1>3, <2>2, <3>1, ComposedIsStamped
    <3> QED
      BY <2>6, <3>2
  <2>8. Stamped(longer, t, d, v)
    BY <2>1, <2>3, <2>7 DEF leaf
  <2> QED
    BY <2>8 DEF t, d, longer
<1>8. CASE UNCHANGED vars
  <2>1. longer = list /\ t = s /\ d = b
    BY <1>8 DEF vars
  <2> HIDE DEF s, b, list, t, d, longer
  <2>2. Stamped(longer, t, d, v)
    BY <1>1, <2>1
  <2> QED
    BY <2>2 DEF t, d, longer
<1> QED
  BY <1>5, <1>6, <1>7, <1>8 DEF Next

(* The agreement and the stamps hold throughout.                           *)
LEMMA StampInvIsInductive ==
  ASSUME MaxPlacements <= 1
  PROVE  Spec => [](SealInv /\ StampInv)
<1>1. Init => StampInv
  BY StampInvBegins
<1>2. SealInv /\ StampInv /\ [Next]_vars => StampInv'
  BY StampInvStays
<1> QED
  BY <1>1, <1>2, SealInvIsInductive, PTL DEF Spec

(***************************************************************************)
(* The folds are finished.                                                 *)
(***************************************************************************)

(* A cell that is finished holds what the sealed fold holds there.         *)
LEMMA FinishedCellsAgree ==
  ASSUME SealInv, Done, NEW cell \in Cells, NEW v \in VoxelsOf(cell)
  PROVE  /\ sealed.frames = << >> /\ fold[cell].frames = << >>
         /\ Root(cell).body[v] = sealed.bodies[1][v]
<1> DEFINE f == fold[cell].frames
           a == LaneOf(fold[cell], v)
           s == sealed.frames
           b == SealedLane(sealed, v)
<1>1. f = << >> /\ s = << >>
  BY DEF Done, SomeMustClose, FoldMustClose, SealedMustClose
<1>2. a[1] = Root(cell).body[v] /\ b[1] = sealed.bodies[1][v]
  <2>1. Len(f) = 0 /\ Len(s) = 0
    BY <1>1
  <2> QED
    BY <2>1 DEF LaneOf, SealedLane, Root
<1>3. Agree(f, a, s, b, Awaited)
  BY DEF SealInv, AgreeAt
<1> HIDE DEF f, a, s, b
<1>4. a[1] = b[1]
  <2>1. PICK p, u, w : Agrees(f, a, s, b, Awaited, p, u, w)
    BY <1>3 DEF Agree
  <2>2. Len(f) = 0 /\ Len(s) = 0
    BY <1>1
  <2>3. p = 0
    BY <2>1, <2>2 DEF Agrees, Shares
  <2>4. u[1] = a[1] /\ w[1] = b[1] /\ u[1] = w[1]
    BY <2>1, <2>2, <2>3 DEF Agrees, FoldsTo
  <2> QED
    BY <2>4
<1> QED
  BY <1>1, <1>2, <1>4 DEF f, s

(* What it holds was stamped by a leaf that only adds and overlaps it.     *)
LEMMA FinishedCellsAreStamped ==
  ASSUME SealInv, StampInv, Done, NEW cell \in Cells, NEW v \in VoxelsOf(cell),
         Root(cell).body[v] # Nothing
  PROVE  \E i \in AdditiveOver(cell) : Root(cell).body[v] = StampOf(leaves[i].producer)
<1> DEFINE x == sealed.bodies[1][v]
<1>1. sealed.frames = << >> /\ Root(cell).body[v] = x
  BY FinishedCellsAgree
<1>2. v \in VoxelsOf(Chunk) /\ v \in Int /\ cell[1] <= v /\ v <= cell[2] - 1
      /\ cell[1] \in Nat /\ cell[2] \in Nat
  BY CentersArePoints, CellsAreRanges
<1>3. Len(sealed.frames) = 0 /\ SealedLane(sealed, v)[1] = x
  <2>1. Len(sealed.frames) = 0
    BY <1>1
  <2> QED
    BY <2>1 DEF SealedLane
<1>4. PICK i \in DOMAIN leaves : StampedBy(leaves[i], sealed.frames, 1, v, x)
  <2>1. Stamped(leaves, sealed.frames, SealedLane(sealed, v), v)
    BY <1>2 DEF StampInv
  <2> QED
    BY <1>1, <1>3, <2>1 DEF Stamped
<1> HIDE DEF x
<1>5. /\ leaves[i] \in LeafRecords /\ DOMAIN leaves[i].frames = 1 .. Len(leaves[i].frames)
  BY LeavesAreTyped DEF SealInv, FramesAt
<1>6. IsPurelyAdditive(leaves[i])
  BY <1>4, <1>5 DEF StampedBy, IsPurelyAdditive
<1>7. OverlapsLeaf(leaves[i], cell)
  <2> DEFINE box == Box[leaves[i].producer]
  <2>1. leaves[i].producer \in Producers
    BY <1>5 DEF LeafRecords
  <2>2. box[1] \in Int /\ box[2] \in Int
    <3>1. box \in Int \X Int
      BY <2>1, ProducerAssumption
    <3> QED
      BY <3>1
  <2>3. box[1] <= v /\ v < box[2]
    BY <1>4 DEF StampedBy, Covers
  <2> HIDE DEF box
  <2>4. box[1] < cell[2] /\ cell[1] < box[2]
    BY <1>2, <2>2, <2>3
  <2> QED
    BY <2>4 DEF OverlapsLeaf, Overlaps, box
<1>8. x = StampOf(leaves[i].producer)
  BY <1>4 DEF StampedBy
<1> QED
  BY <1>1, <1>6, <1>7, <1>8 DEF AdditiveOver

(* Every voxel of the chunk lies in a block.                               *)
LEMMA BlocksCoverTheChunk ==
  ASSUME NEW v \in VoxelsOf(Chunk)
  PROVE  \E cell \in Blocks : v \in VoxelsOf(cell)
<1> DEFINE d == Density
           n == ChunkBlocks
           b == v \div d
<1>1. d \in Nat \ {0} /\ n \in Nat \ {0}
  BY GridAssumption
<1>2. v \in Nat /\ v < n * d
  <2>1. n * d \in Nat
    BY <1>1
  <2> QED
    BY <2>1 DEF VoxelsOf, Chunk
<1> HIDE DEF d, n
<1>3. b \in Int /\ b * d <= v /\ v < b * d + d
  BY <1>1, <1>2, SMT
<1> HIDE DEF b
<1>4. b <= n - 1
  <2> SUFFICES ASSUME b - n \in Nat
               PROVE  FALSE
    BY <1>1, <1>3
  <2>1. (b - n) * d \in Nat /\ (b - n) * d = b * d - n * d
    BY <1>1, <1>3
  <2>2. b * d \in Int /\ n * d \in Int
    BY <1>1, <1>3
  <2> QED
    BY <1>2, <1>3, <2>1, <2>2
<1>5. 0 <= b
  <2> SUFFICES ASSUME 0 - 1 - b \in Nat
               PROVE  FALSE
    BY <1>3
  <2>1. (0 - 1 - b) * d \in Nat /\ (0 - 1 - b) * d = 0 - d - b * d
    BY <1>1, <1>3
  <2>2. b * d \in Int
    BY <1>1, <1>3
  <2> QED
    BY <1>1, <1>2, <1>3, <2>1, <2>2
<1> DEFINE cell == <<b * d, (b + 1) * d>>
<1>6. cell \in Blocks
  BY <1>1, <1>3, <1>4, <1>5 DEF Blocks, n, d
<1>7. v \in VoxelsOf(cell)
  <2>1. (b + 1) * d = b * d + d /\ b * d \in Int
    BY <1>1, <1>3
  <2> QED
    BY <1>1, <1>2, <1>3, <2>1 DEF VoxelsOf
<1> QED
  BY <1>6, <1>7

(* Where one leaf alone stamps a cell, its stamp is the owner's.           *)
LEMMA OwnerIsTheOne ==
  ASSUME FoldInv, NEW cell \in Cells, Cardinality(AdditiveOver(cell)) = 1,
         NEW i \in AdditiveOver(cell)
  PROVE  OwnerOf(cell) = leaves[i]
<1> DEFINE over == AdditiveOver(cell)
<1>1. over \in SUBSET (1 .. Len(leaves)) /\ Len(leaves) \in Nat
  BY LeavesAreTyped DEF AdditiveOver
<1>2. IsFiniteSet(over)
  <2>1. IsFiniteSet(1 .. Len(leaves))
    BY <1>1, FS_Interval
  <2> QED
    BY <1>1, <2>1, FS_Subset
<1> HIDE DEF over
<1>3. over = {i} /\ i \in Nat
  <2>1. \E x : over = {x}
    BY <1>2, FS_Singleton DEF over
  <2> QED
    BY <1>1, <2>1 DEF over
<1>4. (CHOOSE j \in over : \A k \in over : j <= k) = i
  BY <1>3
<1> QED
  BY <1>4 DEF OwnerOf, over

(* The verdict on a cell says what each of its voxels holds.               *)
LEMMA VerdictsAreTrue ==
  ASSUME SealInv, StampInv, FoldIsSound, Done, NEW cell \in Cells, NEW v \in VoxelsOf(cell)
  PROVE  /\ AdditiveOver(cell) = {} => Root(cell).body[v] = Nothing
         /\ ClassifyBlock(cell) = Air => Root(cell).body[v] = Nothing
         /\ ClassifyBlock(cell).is = "coarse" =>
              /\ Root(cell).body[v] = Coarse(ClassifyBlock(cell), cell).stamp
              /\ Root(cell).body[v] # Nothing
         /\ ClassifyBlock(cell) = Air \/ ClassifyBlock(cell) = Boundary
              \/ ClassifyBlock(cell).is = "coarse"
<1> DEFINE root == Root(cell)
           x == root.body[v]
           interval == root.interval
<1>1. AdditiveOver(cell) = {} => x = Nothing
  BY FinishedCellsAreStamped
<1>2. root \in Levels(cell) /\ (~fold[cell].unbound => LevelIsSound(root))
  <2>1. SoundFold(fold[cell], cell)
    BY DEF SealInv, FoldInv
  <2> DEFINE f == fold[cell]
  <2>2. root = f.levels[1] /\ SoundFold(f, cell)
    BY <2>1 DEF Root
  <2> HIDE DEF f
  <2>3. f.levels \in Seq(Levels(cell)) /\ f.frames \in Seq(ScopeFrames) /\ Len(f.levels) = Len(f.frames) + 1
    BY <2>2 DEF SoundFold
  <2>4. 1 \in 1 .. Len(f.levels)
    BY <2>3
  <2> HIDE DEF root
  <2>5. root \in Levels(cell)
    BY <2>2, <2>3, <2>4
  <2>6. ~f.unbound => LevelIsSound(root)
    BY <2>2, <2>4 DEF SoundFold
  <2> QED
    BY <2>5, <2>6 DEF f
<1>3. DOMAIN root.body = VoxelsOf(cell) /\ interval \in Intervals
  BY <1>2 DEF Levels, Bodies
<1>4. interval = Empty \/ (interval # Empty /\ interval[1] \in Int /\ interval[2] \in Int)
  BY <1>3 DEF Intervals
<1> HIDE DEF root
<1>5. /\ ~fold[cell].unbound /\ (interval = Empty \/ interval[1] > 0) => x = Nothing
      /\ ~fold[cell].unbound /\ interval # Empty /\ interval[2] <= 0 => x # Nothing
  BY <1>2, <1>3, <1>4 DEF LevelIsSound, IsEmptyBody, IsFullBody
<1> DEFINE verdict == ClassifyBlock(cell)
<1>6. verdict =
        IF AdditiveOver(cell) = {} THEN Air
        ELSE IF fold[cell].unbound THEN Boundary
        ELSE IF interval = Empty \/ interval[1] > 0 THEN Air
        ELSE IF interval[2] <= 0 THEN SingleMaterial(cell) ELSE Boundary
  BY DEF ClassifyBlock, root
<1>7. Air.is = "air" /\ Boundary.is = "boundary"
  BY DEF Air, Boundary
<1>8. CASE AdditiveOver(cell) = {}
  BY <1>1, <1>6, <1>7, <1>8 DEF root
<1>9. CASE AdditiveOver(cell) # {} /\ fold[cell].unbound
  BY <1>6, <1>7, <1>9
<1>10. CASE /\ AdditiveOver(cell) # {} /\ ~fold[cell].unbound
            /\ interval = Empty \/ interval[1] > 0
  BY <1>5, <1>6, <1>7, <1>10 DEF root
<1>11. CASE /\ AdditiveOver(cell) # {} /\ ~fold[cell].unbound
            /\ ~(interval = Empty \/ interval[1] > 0) /\ interval[2] <= 0
  <2>1. verdict = SingleMaterial(cell) /\ x # Nothing
    BY <1>5, <1>6, <1>11
  <2>2. CASE Cardinality(AdditiveOver(cell)) = 1 /\ Material[OwnerOf(cell).producer] # NoMaterial
    <3> DEFINE p == OwnerOf(cell).producer
    <3>1. verdict = CoarseSolid(Material[p])
      BY <2>1, <2>2 DEF SingleMaterial
    <3>2. verdict.is = "coarse" /\ verdict.id = Material[p]
      BY <3>1 DEF CoarseSolid
    <3>3. PICK i \in AdditiveOver(cell) : x = StampOf(leaves[i].producer)
      BY <2>1, FinishedCellsAreStamped DEF root
    <3>4. OwnerOf(cell) = leaves[i]
      BY <2>2, OwnerIsTheOne DEF SealInv
    <3>5. x = StampOf(p)
      BY <3>3, <3>4
    <3> HIDE DEF verdict, x
    <3>6. Coarse(verdict, cell).stamp = [id |-> Material[p], overlay |-> Overlay[p]]
      BY <3>2 DEF Coarse
    <3>7. x = Coarse(verdict, cell).stamp
      BY <2>2, <3>5, <3>6 DEF StampOf
    <3> QED
      BY <1>7, <1>11, <2>1, <3>2, <3>7 DEF verdict, x, root
  <2>3. CASE ~(Cardinality(AdditiveOver(cell)) = 1 /\ Material[OwnerOf(cell).producer] # NoMaterial)
    BY <1>7, <1>11, <2>1, <2>3 DEF SingleMaterial
  <2> QED
    BY <2>2, <2>3
<1>12. CASE /\ AdditiveOver(cell) # {} /\ ~fold[cell].unbound
            /\ ~(interval = Empty \/ interval[1] > 0) /\ ~(interval[2] <= 0)
  BY <1>6, <1>7, <1>12
<1> QED
  BY <1>8, <1>9, <1>10, <1>11, <1>12

(* The voxels of what is built, at one voxel: v's block is some block.     *)
BlockAt(v) == CHOOSE c \in Blocks : v \in VoxelsOf(c)

(* What is built expands, at a voxel, to what its block holds there.       *)
LEMMA ExpandedAt ==
  ASSUME NEW built, NEW v \in VoxelsOf(Chunk)
  PROVE  /\ BlockAt(v) \in Blocks /\ BlockAt(v) \in Cells /\ v \in VoxelsOf(BlockAt(v))
         /\ Expand(built)[v] =
              CASE built[BlockAt(v)].block = "air" -> Nothing
                [] built[BlockAt(v)].block = "coarse" -> built[BlockAt(v)].stamp
                [] OTHER -> built[BlockAt(v)].voxels[v]
<1>1. BlockAt(v) \in Blocks /\ v \in VoxelsOf(BlockAt(v))
  BY BlocksCoverTheChunk DEF BlockAt
<1>2. BlockAt(v) \in Cells
  BY <1>1 DEF Cells
<1>3. Expand(built)[v] =
        CASE built[BlockAt(v)].block = "air" -> Nothing
          [] built[BlockAt(v)].block = "coarse" -> built[BlockAt(v)].stamp
          [] OTHER -> built[BlockAt(v)].voxels[v]
  BY DEF Expand, BlockAt
<1> QED
  BY <1>1, <1>2, <1>3

(* The root of a cell's fold holds a body of the cell.                     *)
LEMMA RootsAreBodies ==
  ASSUME FoldInv, NEW cell \in Cells
  PROVE  Root(cell).body \in Bodies(cell)
<1> DEFINE f == fold[cell]
           root == f.levels[1]
<1>1. SoundFold(f, cell)
  BY DEF FoldInv
<1> HIDE DEF f
<1>2. f.levels \in Seq(Levels(cell)) /\ f.frames \in Seq(ScopeFrames) /\ Len(f.levels) = Len(f.frames) + 1
  BY <1>1 DEF SoundFold
<1>3. root \in Levels(cell)
  BY <1>2
<1>4. Root(cell).body = root.body
  BY DEF Root, f
<1> HIDE DEF root
<1> QED
  BY <1>3, <1>4 DEF Levels

(* Block by block, what is built expands to what the chunk resolves to.    *)
LEMMA PerBlockIsDense ==
  ASSUME SealInv, StampInv, FoldIsSound, Done, NEW v \in VoxelsOf(Chunk)
  PROVE  Expand(BuiltPerBlock)[v] = Root(Chunk).body[v]
<1> DEFINE cell == BlockAt(v)
           x == Root(cell).body[v]
           block == BuiltBlock(cell)
<1>1. cell \in Blocks /\ cell \in Cells /\ v \in VoxelsOf(cell)
  BY ExpandedAt
<1>2. BuiltPerBlock[cell] = block
  BY <1>1 DEF BuiltPerBlock
<1>3. Expand(BuiltPerBlock)[v] =
        CASE block.block = "air" -> Nothing
          [] block.block = "coarse" -> block.stamp
          [] OTHER -> block.voxels[v]
  BY <1>2, ExpandedAt
<1>4. x = Root(Chunk).body[v]
  BY <1>1, ChunkIsCell, FinishedCellsAgree
<1> HIDE DEF cell
<1> DEFINE verdict == ClassifyBlock(cell)
           body == Root(cell).body
<1>5. /\ verdict = Air => x = Nothing
      /\ verdict.is = "coarse" => x = Coarse(verdict, cell).stamp
      /\ verdict = Air \/ verdict = Boundary \/ verdict.is = "coarse"
  BY <1>1, VerdictsAreTrue
<1>6. block = CASE verdict = Boundary /\ ~IsEmptyBody(body) -> [block |-> "micro", voxels |-> body]
                [] verdict.is = "coarse" -> Coarse(verdict, cell)
                [] OTHER -> [block |-> "air"]
  BY DEF BuiltBlock
<1>7. Coarse(verdict, cell).block = "coarse"
  BY DEF Coarse
<1>8. Air.is = "air" /\ Boundary.is = "boundary"
  BY DEF Air, Boundary
<1>9. IsEmptyBody(body) => x = Nothing
  <2>1. body \in Bodies(cell)
    BY <1>1, RootsAreBodies DEF SealInv
  <2>2. v \in DOMAIN body
    BY <1>1, <2>1 DEF Bodies
  <2> QED
    BY <2>2 DEF IsEmptyBody
<1>10. CASE verdict = Boundary /\ ~IsEmptyBody(body)
  <2>1. block = [block |-> "micro", voxels |-> body]
    BY <1>6, <1>8, <1>10
  <2>2. block.block = "micro" /\ block.voxels[v] = x
    BY <2>1
  <2> HIDE DEF block, x
  <2> QED
    BY <1>3, <1>4, <2>2 DEF cell
<1>11. CASE verdict.is = "coarse"
  <2>1. block = Coarse(verdict, cell)
    BY <1>6, <1>8, <1>11
  <2>2. block.block = "coarse" /\ block.stamp = x
    BY <1>5, <1>7, <1>11, <2>1
  <2> HIDE DEF block, x
  <2> QED
    BY <1>3, <1>4, <2>2 DEF cell
<1>12. CASE ~(verdict = Boundary /\ ~IsEmptyBody(body)) /\ verdict.is # "coarse"
  <2>1. block = [block |-> "air"]
    BY <1>6, <1>12
  <2>2. block.block = "air"
    BY <2>1
  <2>3. x = Nothing
    BY <1>5, <1>9, <1>12
  <2> HIDE DEF block, x
  <2> QED
    BY <1>3, <1>4, <2>2, <2>3 DEF cell
<1> QED
  BY <1>10, <1>11, <1>12

(* So does what the verdict on the whole chunk builds.                     *)
LEMMA WholeChunkIsDense ==
  ASSUME SealInv, StampInv, FoldIsSound, Done, NEW v \in VoxelsOf(Chunk)
  PROVE  /\ AdditiveOver(Chunk) = {} \/ ClassifyBlock(Chunk) = Air =>
              Expand(AllAir)[v] = Root(Chunk).body[v]
         /\ ClassifyBlock(Chunk).is = "coarse" => Expand(AllCoarse)[v] = Root(Chunk).body[v]
<1> DEFINE cell == BlockAt(v)
           x == Root(Chunk).body[v]
           coarse == Coarse(ClassifyBlock(Chunk), Chunk)
<1>1. cell \in Blocks
  BY ExpandedAt
<1>2. /\ AdditiveOver(Chunk) = {} \/ ClassifyBlock(Chunk) = Air => x = Nothing
      /\ ClassifyBlock(Chunk).is = "coarse" => x = coarse.stamp
  BY ChunkIsCell, VerdictsAreTrue
<1>3. Expand(AllAir)[v] = Nothing
  <2>1. AllAir[cell].block = "air"
    BY <1>1 DEF AllAir
  <2> QED
    BY <2>1, ExpandedAt
<1>4. Expand(AllCoarse)[v] = coarse.stamp
  <2>1. AllCoarse[cell] = coarse
    BY <1>1 DEF AllCoarse
  <2>2. coarse.block = "coarse"
    BY DEF Coarse
  <2> HIDE DEF coarse
  <2>3. Expand(AllCoarse)[v] =
          CASE AllCoarse[cell].block = "air" -> Nothing
            [] AllCoarse[cell].block = "coarse" -> AllCoarse[cell].stamp
            [] OTHER -> AllCoarse[cell].voxels[v]
    BY ExpandedAt
  <2> HIDE DEF cell
  <2> QED
    BY <2>1, <2>2, <2>3
<1> QED
  BY <1>2, <1>3, <1>4

(* A chunk as built is one of three things, each where it may be.          *)
LEMMA ChunksAreBuiltOneWay ==
  \/ BuildChunk = BuiltPerBlock
  \/ BuildChunk = AllAir /\ (AdditiveOver(Chunk) = {} \/ ClassifyBlock(Chunk) = Air)
  \/ /\ BuildChunk = AllCoarse /\ ClassifyBlock(Chunk).is = "coarse"
     /\ ~AnyMask /\ FoldIsScopeTransparent /\ Encloses(Box[OwnerOf(Chunk).producer], Chunk)
<1> DEFINE masked == AnyMask
           clear == FoldIsScopeTransparent
           none == AdditiveOver(Chunk) = {}
           verdict == ClassifyBlock(Chunk)
           contain == SubtractiveLeavesContainChunk
           enclosed == Encloses(Box[OwnerOf(Chunk).producer], Chunk)
<1>1. BuildChunk =
        IF masked THEN IF none THEN AllAir ELSE BuiltPerBlock
        ELSE IF ~clear THEN BuiltPerBlock
        ELSE IF verdict = Air THEN IF none \/ contain THEN AllAir ELSE BuiltPerBlock
        ELSE IF verdict.is = "coarse" THEN IF enclosed THEN AllCoarse ELSE BuiltPerBlock
        ELSE BuiltPerBlock
  <2>1. Air.is # "coarse"
    BY DEF Air
  <2> HIDE DEF masked, clear, none, verdict, contain, enclosed
  <2>2. BuildChunk =
          CASE masked -> IF none THEN AllAir ELSE BuiltPerBlock
            [] ~masked /\ ~clear -> BuiltPerBlock
            [] OTHER ->
                 CASE verdict = Air -> IF none \/ contain THEN AllAir ELSE BuiltPerBlock
                   [] verdict.is = "coarse" -> IF enclosed THEN AllCoarse ELSE BuiltPerBlock
                   [] OTHER -> BuiltPerBlock
    BY DEF BuildChunk, masked, clear, none, verdict, contain, enclosed
  <2> QED
    BY <2>1, <2>2
<1> HIDE DEF masked, clear, none, verdict, contain, enclosed
<1> QED
  BY <1>1 DEF masked, clear, none, verdict, enclosed

(* The chunk as built, with its dropped leaves, elided blocks and whole    *)
(* chunk verdicts, expands to what the reference resolver resolves, and    *)
(* that is what the document means, every scope sealed: as long as no      *)
(* fixture is placed twice, for then two expansions of one scope may be    *)
(* taken for one.                                                          *)
THEOREM BuiltChunksAreDense ==
  ASSUME MaxPlacements <= 1
  PROVE  Spec => []BuiltIsDense
<1>1. SealInv /\ StampInv /\ FoldIsSound => BuiltIsDense
  <2> SUFFICES ASSUME SealInv, StampInv, FoldIsSound, Done
               PROVE  Expand(BuildChunk) = ResolveChunk /\ ResolveChunk = sealed.bodies[1]
    BY DEF BuiltIsDense, ScopesStaySealed
  <2>1. ResolveChunk \in Bodies(Chunk) /\ ResolveChunk = Root(Chunk).body
    BY ChunkIsCell, RootsAreBodies DEF SealInv, ResolveChunk
  <2>2. sealed.bodies[1] \in Bodies(Chunk)
    <3> DEFINE s == sealed
    <3>1. SealedIsStack(s)
      BY DEF SealInv, SealedStands
    <3> HIDE DEF s
    <3>2. s.bodies \in Seq(Bodies(Chunk)) /\ s.frames \in Seq(ScopeFrames) /\ Len(s.bodies) = Len(s.frames) + 1
      BY <3>1 DEF SealedIsStack
    <3>3. s.bodies[1] \in Bodies(Chunk)
      BY <3>2
    <3> QED
      BY <3>3 DEF s
  <2>3. ASSUME NEW v \in VoxelsOf(Chunk)
        PROVE  /\ Expand(BuildChunk)[v] = ResolveChunk[v]
               /\ ResolveChunk[v] = sealed.bodies[1][v]
    <3>1. ResolveChunk[v] = sealed.bodies[1][v]
      BY <2>1, ChunkIsCell, FinishedCellsAgree
    <3>2. Expand(BuildChunk)[v] = Root(Chunk).body[v]
      BY ChunksAreBuiltOneWay, PerBlockIsDense, WholeChunkIsDense
    <3> QED
      BY <2>1, <3>1, <3>2
  <2> DEFINE built == BuildChunk
             x == Expand(built)
             y == ResolveChunk
             z == sealed.bodies[1]
  <2>4. x = [v \in VoxelsOf(Chunk) |-> x[v]]
    BY DEF Expand
  <2> HIDE DEF built, x, y, z
  <2>5. y = [v \in VoxelsOf(Chunk) |-> y[v]] /\ z = [v \in VoxelsOf(Chunk) |-> z[v]]
    BY <2>1, <2>2 DEF Bodies, y, z
  <2>6. \A v \in VoxelsOf(Chunk) : x[v] = y[v] /\ y[v] = z[v]
    BY <2>3 DEF x, y, z, built
  <2>7. x = y /\ y = z
    BY <2>4, <2>5, <2>6
  <2> QED
    BY <2>7 DEF x, y, z, built
<1> QED
  BY <1>1, StampInvIsInductive, IntervalsAreSound, PTL

(***************************************************************************)
(* A block lies in the chunk, and what is known of the chunk from one      *)
(* interval is known of the block.                                         *)
(***************************************************************************)

(* A block is a part of the chunk.                                         *)
LEMMA BlocksLieInTheChunk ==
  ASSUME NEW cell \in Blocks
  PROVE  /\ cell \in Cells /\ Chunk[1] = 0 /\ Chunk[1] <= cell[1] /\ cell[2] <= Chunk[2]
         /\ cell[1] \in Nat /\ cell[2] \in Nat /\ Chunk[2] \in Nat /\ cell[1] < cell[2]
         /\ \A leaf \in LeafRecords :
              /\ OverlapsLeaf(leaf, cell) => OverlapsLeaf(leaf, Chunk)
              /\ Encloses(Box[leaf.producer], Chunk) => OverlapsLeaf(leaf, cell)
<1>1. cell \in Cells
  BY DEF Cells
<1>2. /\ Chunk[1] = 0 /\ Chunk[2] = ChunkBlocks * Density
      /\ cell[1] \in Nat /\ cell[2] \in Nat /\ Chunk[2] \in Nat /\ cell[1] < cell[2]
      /\ cell[2] <= Chunk[2]
  BY <1>1, CellsAreRanges DEF Chunk
<1>3. ASSUME NEW leaf \in LeafRecords
      PROVE  /\ OverlapsLeaf(leaf, cell) => OverlapsLeaf(leaf, Chunk)
             /\ Encloses(Box[leaf.producer], Chunk) => OverlapsLeaf(leaf, cell)
  <2> DEFINE box == Box[leaf.producer]
  <2>1. box[1] \in Int /\ box[2] \in Int
    <3>1. leaf.producer \in Producers
      BY DEF LeafRecords
    <3>2. box \in Int \X Int
      BY <3>1, ProducerAssumption
    <3> QED
      BY <3>2
  <2> HIDE DEF box
  <2>2. /\ box[1] < cell[2] /\ cell[1] < box[2] => box[1] < Chunk[2] /\ Chunk[1] < box[2]
        /\ box[1] <= Chunk[1] /\ Chunk[2] <= box[2] => box[1] < cell[2] /\ cell[1] < box[2]
    BY <1>2, <2>1
  <2> QED
    BY <2>2 DEF OverlapsLeaf, Overlaps, Encloses, box
<1> QED
  BY <1>1, <1>2, <1>3

(* A sphere with axes alike has a steady field, and no wider radius.       *)
LEMMA RoundIsSteady ==
  ASSUME NEW p \in Producers, HasInterval(p), ~IsStretched(p)
  PROVE  IsSteady(Field[p]) /\ \A r \in Nat : Widened(p, r) = r
<1>1. CASE Kind[p] # "sphere"
  BY <1>1, FieldAssumption DEF HasInterval, Widened
<1>2. CASE Kind[p] = "sphere"
  <2> DEFINE field == Field[p]
             gauge == Gauge[p]
             small == SemiAxes[p][1]
  <2>1. /\ small \in Nat /\ small > 0 /\ SemiAxes[p][2] = small
        /\ field \in [Points -> Int] /\ gauge \in [Points -> Int] /\ IsSteady(gauge)
        /\ \A x \in Points :
             /\ (field[x] <= 0) <=> (gauge[x] <= 0)
             /\ Distance(gauge[x], 0) <= Distance(field[x], 0)
             /\ small * Distance(field[x], 0) <= small * Distance(gauge[x], 0)
    BY <1>2, SphereAssumption, ProducerAssumption DEF HasInterval, IsStretched
  <2>2. ASSUME NEW r \in Nat
        PROVE  Widened(p, r) = r
    <3> DEFINE q == (small * r) \div small
    <3>1. small * r \in Int
      BY <2>1
    <3>2. q \in Int /\ small * q <= small * r /\ small * r < small * (q + 1)
      BY <2>1, <3>1, Division
    <3>3. Widened(p, r) = q
      BY <1>2, <2>1 DEF Widened
    <3> HIDE DEF q, small
    <3>4. q <= r
      <4> SUFFICES ASSUME q - r - 1 \in Nat
                   PROVE  FALSE
        BY <3>2
      <4>1. small * (q - r - 1) \in Nat /\ small * (q - r - 1) = small * q - small * r - small
        BY <2>1, <3>2
      <4>2. small * q \in Int /\ small * r \in Int
        BY <2>1, <3>2
      <4> QED
        BY <2>1, <3>2, <4>1, <4>2
    <3>5. r <= q
      <4> SUFFICES ASSUME r - q - 1 \in Nat
                   PROVE  FALSE
        BY <3>2
      <4>1. small * (r - q - 1) \in Nat /\ small * (r - q - 1) = small * r - small * (q + 1)
        BY <2>1, <3>2
      <4>2. small * (q + 1) \in Int /\ small * r \in Int
        BY <2>1, <3>2
      <4> QED
        BY <2>1, <3>2, <4>1, <4>2
    <3> QED
      BY <3>2, <3>3, <3>4, <3>5
  <2>3. ASSUME NEW x \in Points
        PROVE  field[x] = gauge[x]
    <3> DEFINE f == field[x]
               g == gauge[x]
    <3>1. /\ f \in Int /\ g \in Int /\ (f <= 0 <=> g <= 0)
          /\ Distance(g, 0) <= Distance(f, 0) /\ small * Distance(f, 0) <= small * Distance(g, 0)
      BY <2>1
    <3> DEFINE df == Distance(f, 0)
               dg == Distance(g, 0)
    <3>2. df \in Nat /\ dg \in Nat
      BY <3>1 DEF Distance
    <3>3. small * df <= small * dg
      BY <3>1
    <3> HIDE DEF f, g, small
    <3>4. df <= dg
      <4> HIDE DEF df, dg
      <4> SUFFICES ASSUME df - dg - 1 \in Nat
                   PROVE  FALSE
        BY <3>2
      <4>1. small * (df - dg - 1) \in Nat /\ small * (df - dg - 1) = small * df - small * dg - small
        BY <2>1, <3>2
      <4>2. small * df \in Int /\ small * dg \in Int
        BY <2>1, <3>2
      <4> QED
        BY <2>1, <3>3, <4>1, <4>2
    <3>5. f = g
      BY <3>1, <3>4 DEF Distance
    <3> QED
      BY <3>5 DEF f, g
  <2>4. field = gauge
    <3> HIDE DEF field, gauge
    <3> QED
      BY <2>1, <2>3
  <2> QED
    BY <2>1, <2>2, <2>4
<1> QED
  BY <1>1, <1>2

(* A steady field's bracket over the chunk holds the one over a block.     *)
LEMMA BracketsNest ==
  ASSUME NEW p \in Producers, IsSteady(Field[p]), NEW cell \in Blocks
  PROVE  LET whole == Field[p][4 * (Chunk[1] + Chunk[2])]
             part == Field[p][4 * (cell[1] + cell[2])]
         IN  /\ whole \in Int /\ part \in Int
             /\ whole - 4 * (Chunk[2] - Chunk[1]) <= part - 4 * (cell[2] - cell[1])
             /\ part + 4 * (cell[2] - cell[1]) <= whole + 4 * (Chunk[2] - Chunk[1])
<1> DEFINE m == 4 * (Chunk[1] + Chunk[2])
           c == 4 * (cell[1] + cell[2])
           a == Field[p][m]
           b == Field[p][c]
           r == 4 * (Chunk[2] - Chunk[1]) - 4 * (cell[2] - cell[1])
<1>1. /\ cell \in Cells /\ Chunk[1] = 0 /\ cell[2] <= Chunk[2]
      /\ cell[1] \in Nat /\ cell[2] \in Nat /\ Chunk[2] \in Nat /\ cell[1] < cell[2]
  BY BlocksLieInTheChunk
<1>2. m \in Points /\ c \in Points
  <2>1. cell[1] \in VoxelsOf(cell) /\ 0 \in VoxelsOf(Chunk)
    BY <1>1 DEF VoxelsOf
  <2> QED
    BY <1>1, <2>1, ChunkIsCell, CentersArePoints
<1>3. a \in Int /\ b \in Int
  BY <1>2, ProducerAssumption
<1>4. Distance(a, b) <= Distance(m, c)
  BY <1>2 DEF IsSteady
<1>5. m \in Int /\ c \in Int /\ r \in Int /\ Distance(m, c) <= r /\ Distance(m, c) \in Int
  BY <1>1 DEF Distance
<1> HIDE DEF m, c, a, b
<1>6. Distance(a, b) <= r
  <2>1. Distance(a, b) \in Int
    BY <1>3 DEF Distance
  <2> HIDE DEF r
  <2> QED
    BY <1>4, <1>5, <2>1
<1>7. a - r <= b /\ b <= a + r
  <2> HIDE DEF r
  <2> QED
    BY <1>3, <1>5, <1>6 DEF Distance
<1>8. /\ a - 4 * (Chunk[2] - Chunk[1]) <= b - 4 * (cell[2] - cell[1])
      /\ b + 4 * (cell[2] - cell[1]) <= a + 4 * (Chunk[2] - Chunk[1])
  BY <1>1, <1>3, <1>7
<1> QED
  BY <1>3, <1>8 DEF a, b, m, c

(* What an interval over the chunk tells of the sign, the one over a block *)
(* tells too, unless it is a stretched sphere's.                           *)
LEMMA IntervalsNest ==
  ASSUME NEW p \in Producers, HasInterval(p), ~IsStretched(p), NEW cell \in Blocks
  PROVE  /\ CellFieldInterval(p, Chunk)[1] >= 0 => CellFieldInterval(p, cell)[1] >= 0
         /\ CellFieldInterval(p, Chunk)[2] <= 0 => CellFieldInterval(p, cell)[2] <= 0
<1> DEFINE whole == Field[p][4 * (Chunk[1] + Chunk[2])]
           part == Field[p][4 * (cell[1] + cell[2])]
           far == 4 * (Chunk[2] - Chunk[1])
           near == 4 * (cell[2] - cell[1])
<1>1. /\ Chunk[1] = 0 /\ Chunk[1] <= cell[1] /\ cell[2] <= Chunk[2]
      /\ cell[1] \in Nat /\ cell[2] \in Nat /\ Chunk[2] \in Nat /\ cell[1] < cell[2]
  BY BlocksLieInTheChunk
<1>2. /\ whole \in Int /\ part \in Int
      /\ whole - far <= part - near /\ part + near <= whole + far
  <2>1. IsSteady(Field[p])
    BY RoundIsSteady
  <2> QED
    BY <2>1, BracketsNest
<1>3. far \in Nat /\ near \in Nat
  BY <1>1
<1>4. CASE Kind[p] # "sketch"
  <2>1. /\ CellFieldInterval(p, Chunk)[1] = whole - far - 1
        /\ CellFieldInterval(p, Chunk)[2] = whole + far + 1
        /\ CellFieldInterval(p, cell)[1] = part - near - 1
        /\ CellFieldInterval(p, cell)[2] = part + near + 1
    <3>1. Widened(p, far) = far /\ Widened(p, near) = near
      BY <1>3, RoundIsSteady
    <3> QED
      BY <1>4, <3>1 DEF CellFieldInterval, SdfInterval, FromLipschitzCenter
  <2> HIDE DEF whole, part, far, near
  <2> QED
    BY <1>2, <1>3, <2>1
<1>5. CASE Kind[p] = "sketch"
  <2> DEFINE Low == whole - (far - 4) - 1
             High == whole + (far - 4) + 1
             low == part - (near - 4) - 1
             high == part + (near - 4) + 1
             Off == Clearance(p, Chunk)
             off == Clearance(p, cell)
  <2>1. /\ CellFieldInterval(p, Chunk) =
             <<Raised(Low, Off), IF ProvablySolid(p, Chunk) THEN Least(High, 0) ELSE High>>
        /\ CellFieldInterval(p, cell) =
             <<Raised(low, off), IF ProvablySolid(p, cell) THEN Least(high, 0) ELSE high>>
    BY <1>5 DEF CellFieldInterval, SketchInterval, FromLipschitzCenter
  <2>2. Box[p][1] \in Int /\ Box[p][2] \in Int
    <3>1. Box[p] \in Int \X Int
      BY ProducerAssumption
    <3> QED
      BY <3>1
  <2>3. Off \in Int /\ off \in Int /\ Off <= off
    BY <1>1, <2>2 DEF Clearance, Greatest, Center
  <2>4. ProvablySolid(p, Chunk) => ProvablySolid(p, cell)
    BY <1>1, <2>2, ProofAssumption DEF ProvablySolid, Encloses
  <2> HIDE DEF whole, part, far, near, Off, off
  <2>5. Low \in Int /\ High \in Int /\ low \in Int /\ high \in Int /\ Low <= low /\ high <= High
    BY <1>2, <1>3
  <2> HIDE DEF Low, High, low, high
  <2>6. Raised(Low, Off) >= 0 => Raised(low, off) >= 0
    BY <2>3, <2>5 DEF Raised, Greatest
  <2>7. (IF ProvablySolid(p, Chunk) THEN Least(High, 0) ELSE High) <= 0
          => (IF ProvablySolid(p, cell) THEN Least(high, 0) ELSE high) <= 0
    BY <2>4, <2>5 DEF Least
  <2> QED
    BY <2>1, <2>6, <2>7
<1> QED
  BY <1>4, <1>5

(***************************************************************************)
(* The intervals of a fold whose only stamps are one leaf's.               *)
(***************************************************************************)
Top(f) == f.levels[Len(f.frames) + 1].interval
Bare(f) == f.frames = << >> /\ Top(f) = Empty
(* One interval, in scopes that only add.                                  *)
Carries(f) ==
  /\ Top(f) # Empty
  /\ \A k \in 1 .. Len(f.frames) :
       f.levels[k].interval = Empty /\ f.frames[k].operation = "union"

(* The innermost interval of a fold is one.                                *)
LEMMA TopIsInterval ==
  ASSUME NEW cell \in Cells, NEW f, SoundFold(f, cell)
  PROVE  Top(f) \in Intervals
<1>1. f.frames \in Seq(ScopeFrames) /\ f.levels \in Seq(Levels(cell)) /\ Len(f.levels) = Len(f.frames) + 1
  BY DEF SoundFold
<1>2. f.levels[Len(f.frames) + 1] \in Levels(cell)
  BY <1>1
<1> QED
  BY <1>2 DEF Top, Levels

(* Scopes that only add hand their interval on when they close.            *)
LEMMA CarriersClose ==
  ASSUME NEW cell \in Cells, NEW f, SoundFold(f, cell), Carries(f), f.frames # << >>
  PROVE  /\ Carries(Closed(f)) /\ Top(Closed(f)) = Top(f)
         /\ Closed(f).unbound = f.unbound
<1> DEFINE n == Len(f.frames)
           outer == Front(f.levels)
           inner == Last(f.levels)
           op == Last(f.frames).operation
           into == Into(outer[n], inner.interval, inner.body, op)
           levels == [outer EXCEPT ![n] = into]
           frames == Front(f.frames)
<1>1. /\ f.frames \in Seq(ScopeFrames) /\ f.levels \in Seq(Levels(cell))
      /\ Len(f.levels) = n + 1
  BY DEF SoundFold
<1>2. /\ n \in Nat \ {0} /\ frames \in Seq(ScopeFrames) /\ Len(frames) = n - 1
      /\ \A i \in 1 .. n - 1 : frames[i] = f.frames[i]
  BY <1>1, FrontOfFrames
<1>3. /\ outer \in Seq(Levels(cell)) /\ Len(outer) = n
      /\ \A i \in 1 .. n : outer[i] = f.levels[i]
  <2>1. \A i \in 1 .. n : f.levels[i] \in Levels(cell)
    BY <1>1, <1>2
  <2>2. outer = SubSeq(f.levels, 1, n)
    BY <1>1, <1>2 DEF Front
  <2> QED
    BY <1>2, <2>1, <2>2, SubSeqProperties
<1>4. /\ inner = f.levels[n + 1] /\ outer[n] = f.levels[n] /\ op = f.frames[n].operation
  BY <1>1, <1>2, <1>3 DEF Last
<1>5. Closed(f) = [frames |-> frames, levels |-> levels, unbound |-> f.unbound]
  <2>1. Closed(f) =
          [frames |-> Front(f.frames),
           levels |-> [outer EXCEPT ![Len(outer)] =
             Into(outer[Len(outer)], inner.interval, inner.body, op)],
           unbound |-> f.unbound]
    BY DEF Closed
  <2> QED
    BY <1>3, <2>1
<1> HIDE DEF outer, inner, op
<1>6. into.interval = Top(f)
  <2> DEFINE x == inner.interval
  <2>1. into.interval = IntervalInto(outer[n].interval, x, op)
    BY DEF Into
  <2>2. n \in 1 .. n
    BY <1>2
  <2>3. outer[n].interval = Empty /\ op = "union"
    BY <1>4, <2>2 DEF Carries
  <2>4. x = Top(f) /\ x # Empty
    BY <1>4 DEF Carries, Top
  <2> HIDE DEF x, into
  <2>5. IntervalInto(Empty, x, "union") = x
    BY <2>4 DEF IntervalInto
  <2> QED
    BY <2>1, <2>3, <2>4, <2>5
<1> HIDE DEF into
<1>7. \A i \in 1 .. n : levels[i] = IF i = n THEN into ELSE f.levels[i]
  BY <1>2, <1>3
<1> HIDE DEF levels, frames
<1>8. /\ Closed(f).frames = frames /\ Closed(f).levels = levels
      /\ Closed(f).unbound = f.unbound
  BY <1>5
<1>9. Top(Closed(f)) = Top(f)
  <2>1. Len(frames) + 1 = n /\ n \in 1 .. n
    BY <1>2
  <2> QED
    BY <1>6, <1>7, <1>8, <2>1 DEF Top
<1>10. ASSUME NEW k \in 1 .. Len(frames)
       PROVE  levels[k].interval = Empty /\ frames[k].operation = "union"
  <2>1. k \in 1 .. n /\ k # n /\ k \in 1 .. n - 1
    BY <1>2
  <2>2. levels[k] = f.levels[k] /\ frames[k] = f.frames[k]
    BY <1>2, <1>7, <2>1
  <2> HIDE DEF n
  <2> QED
    BY <2>1, <2>2 DEF Carries, n
<1> QED
  BY <1>8, <1>9, <1>10 DEF Carries

(* A bounded leaf composes its interval into the innermost one, or into    *)
(* nothing where its scopes open.                                          *)
LEMMA IntervalComposes ==
  ASSUME NEW cell \in Cells, NEW f, SoundFold(f, cell), NEW leaf \in LeafRecords,
         ~IsUnboundable(leaf), f.frames = << >>
  PROVE  LET g == Composed(f, leaf, cell)
             old == IF leaf.frames = << >> THEN Top(f) ELSE Empty
         IN  /\ g.frames = leaf.frames
             /\ Top(g) = IntervalInto(old, CellFieldInterval(leaf.producer, cell), leaf.operation)
             /\ \A k \in 1 .. Len(leaf.frames) :
                  Top(f) = Empty => g.levels[k].interval = Empty
             /\ g.unbound = f.unbound
<1> DEFINE m == Len(leaf.frames)
           opened == Opened(f, leaf.frames, cell)
           into == LeafInto(opened[m + 1], leaf, cell)
           levels == [opened EXCEPT ![m + 1] = into]
           g == Composed(f, leaf, cell)
           x == CellFieldInterval(leaf.producer, cell)
           old == IF leaf.frames = << >> THEN Top(f) ELSE Empty
<1>1. f.levels \in Seq(Levels(cell)) /\ Len(f.levels) = 1 /\ DOMAIN f.levels = 1 .. 1
      /\ f.unbound \in BOOLEAN
  <2>1. Len(f.frames) = 0
    OBVIOUS
  <2>2. f.levels \in Seq(Levels(cell)) /\ Len(f.levels) = Len(f.frames) + 1
    BY DEF SoundFold
  <2> QED
    BY <2>1, <2>2 DEF SoundFold
<1>2. leaf.frames \in Seq(ScopeFrames) /\ m \in Nat
  BY DEF LeafRecords
<1>3. opened = [i \in 1 .. m + 1 |-> IF i \in DOMAIN f.levels THEN f.levels[i] ELSE EmptyLevel(cell)]
  BY DEF Opened
<1>4. EmptyLevel(cell).interval = Empty /\ Top(f) = f.levels[1].interval
  <2>1. Len(f.frames) = 0
    OBVIOUS
  <2> QED
    BY <2>1 DEF EmptyLevel, Top
<1>5. g = [frames |-> leaf.frames, levels |-> levels, unbound |-> f.unbound \/ IsUnboundable(leaf)]
  BY DEF Composed
<1>6. \A i \in 1 .. m + 1 : opened[i].interval = IF i = 1 THEN Top(f) ELSE Empty
  BY <1>1, <1>3, <1>4
<1>7. into.interval = IntervalInto(old, x, leaf.operation)
  <2>1. into.interval = IntervalInto(opened[m + 1].interval, x, leaf.operation)
    BY DEF LeafInto, Into
  <2>2. leaf.frames = << >> <=> m = 0
    BY <1>2, EmptySeq
  <2>3. m + 1 \in 1 .. m + 1 /\ (m + 1 = 1 <=> m = 0)
    BY <1>2
  <2>4. opened[m + 1].interval = old
    <3> HIDE DEF opened, m
    <3> QED
      BY <1>6, <2>2, <2>3
  <2> QED
    BY <2>1, <2>4
<1> HIDE DEF into
<1>8. \A i \in 1 .. m + 1 : levels[i] = IF i = m + 1 THEN into ELSE opened[i]
  BY <1>3
<1> HIDE DEF levels, g, opened
<1>9. g.frames = leaf.frames /\ g.levels = levels /\ g.unbound = f.unbound
  BY <1>1, <1>5
<1>10. Top(g) = into.interval
  <2>1. m + 1 \in 1 .. m + 1
    BY <1>2
  <2>2. levels[m + 1] = into
    BY <1>8, <2>1
  <2> QED
    BY <1>9, <2>2 DEF Top
<1>11. \A k \in 1 .. m : Top(f) = Empty => g.levels[k].interval = Empty
  <2> SUFFICES ASSUME NEW k \in 1 .. m, Top(f) = Empty
               PROVE  levels[k].interval = Empty
    BY <1>9
  <2>1. k \in 1 .. m + 1 /\ k # m + 1
    BY <1>2
  <2> QED
    BY <1>6, <1>8, <2>1
<1> QED
  BY <1>7, <1>9, <1>10, <1>11 DEF g

(* The one stamp comes.                                                    *)
LEMMA BareFoldsCarry ==
  ASSUME NEW cell \in Cells, NEW f, SoundFold(f, cell), Bare(f), NEW leaf \in LeafRecords,
         ~IsUnboundable(leaf), IsPurelyAdditive(leaf)
  PROVE  LET g == Composed(f, leaf, cell)
         IN  Carries(g) /\ Top(g) = CellFieldInterval(leaf.producer, cell) /\ g.unbound = f.unbound
<1> DEFINE g == Composed(f, leaf, cell)
           x == CellFieldInterval(leaf.producer, cell)
<1>1. f.frames = << >> /\ Top(f) = Empty
  BY DEF Bare
<1>2. /\ g.frames = leaf.frames
      /\ Top(g) = IntervalInto(IF leaf.frames = << >> THEN Top(f) ELSE Empty, x, leaf.operation)
      /\ \A k \in 1 .. Len(leaf.frames) : Top(f) = Empty => g.levels[k].interval = Empty
      /\ g.unbound = f.unbound
  BY <1>1, IntervalComposes
<1>3. leaf.operation = "union" /\ \A k \in 1 .. Len(leaf.frames) : leaf.frames[k].operation = "union"
  <2>1. leaf.frames \in Seq(ScopeFrames)
    BY DEF LeafRecords
  <2>2. DOMAIN leaf.frames = 1 .. Len(leaf.frames)
    BY <2>1
  <2> QED
    BY <2>2 DEF IsPurelyAdditive
<1>4. x # Empty
  <2>1. leaf.producer \in Producers /\ HasInterval(leaf.producer)
    BY DEF LeafRecords, IsUnboundable
  <2>2. x \in Int \X Int
    BY <2>1, SolidsAreSound, SketchesAreSound DEF CellFieldInterval
  <2> QED
    BY <2>2, SentinelAssumption
<1> HIDE DEF g, x
<1>5. Top(g) = IntervalInto(Empty, x, "union")
  BY <1>1, <1>2, <1>3
<1>6. Top(g) = x
  BY <1>4, <1>5 DEF IntervalInto
<1> QED
  BY <1>1, <1>2, <1>3, <1>4, <1>6 DEF Carries, g, x

(* What is subtracted from nothing leaves nothing, and from the one stamp, *)
(* what is still nowhere positive.                                         *)
LEMMA SubtractsCompose ==
  ASSUME NEW cell \in Cells, NEW f, SoundFold(f, cell), NEW leaf \in LeafRecords,
         ~IsUnboundable(leaf), leaf.operation = "subtract", leaf.frames = << >>, f.frames = << >>
  PROVE  LET g == Composed(f, leaf, cell)
             low == CellFieldInterval(leaf.producer, cell)[1]
         IN  /\ Bare(f) => Bare(g)
             /\ Carries(f) => Carries(g) /\ (Top(g)[2] <= 0 <=> Top(f)[2] <= 0 /\ low >= 0)
             /\ g.unbound = f.unbound
<1> DEFINE g == Composed(f, leaf, cell)
           x == CellFieldInterval(leaf.producer, cell)
           top == Top(f)
<1>1. /\ g.frames = << >> /\ Top(g) = IntervalInto(top, x, "subtract") /\ g.unbound = f.unbound
  BY IntervalComposes
<1>2. x \in Int \X Int /\ x # Empty /\ x[1] \in Int /\ x[2] \in Int
  <2>1. leaf.producer \in Producers /\ HasInterval(leaf.producer)
    BY DEF LeafRecords, IsUnboundable
  <2>2. x \in Int \X Int
    BY <2>1, SolidsAreSound, SketchesAreSound DEF CellFieldInterval
  <2> HIDE DEF x
  <2> QED
    BY <2>2, SentinelAssumption
<1>3. top \in Intervals
  BY TopIsInterval
<1> HIDE DEF g, x, top
<1>4. Bare(f) => Bare(g)
  <2> SUFFICES ASSUME top = Empty
               PROVE  Top(g) = Empty
    BY <1>1 DEF Bare, top
  <2> QED
    BY <1>1, <1>2 DEF IntervalInto
<1>5. ASSUME Carries(f)
      PROVE  Carries(g) /\ (Top(g)[2] <= 0 <=> top[2] <= 0 /\ x[1] >= 0)
  <2>1. top # Empty /\ top[1] \in Int /\ top[2] \in Int
    BY <1>3, <1>5 DEF Carries, top, Intervals
  <2>2. Top(g) = SubtractOf(top, x)
    BY <1>1, <1>2, <2>1 DEF IntervalInto
  <2>3. SubtractOf(top, x) \in Int \X Int /\ SubtractOf(top, x)[2] = Greatest(top[2], -x[1])
    BY <1>2, <2>1 DEF SubtractOf, IntersectOf, Negated, Greatest
  <2>4. Top(g) # Empty
    BY <2>2, <2>3, SentinelAssumption
  <2>5. Len(g.frames) = 0
    BY <1>1
  <2>6. Carries(g)
    BY <2>4, <2>5 DEF Carries
  <2>7. Greatest(top[2], -x[1]) <= 0 <=> top[2] <= 0 /\ x[1] >= 0
    BY <1>2, <2>1 DEF Greatest
  <2> QED
    BY <2>2, <2>3, <2>6, <2>7
<1> QED
  BY <1>1, <1>4, <1>5 DEF g, x, top

(***************************************************************************)
(* One additive leaf, which encloses the chunk, and subtractive ones in no *)
(* scope, none of them a stretched sphere: what the whole chunk's interval *)
(* says, each block's says.                                                *)
(***************************************************************************)
Adds(leaf) == IsPurelyAdditive(leaf) /\ OverlapsLeaf(leaf, Chunk)
OneEncloses(list) ==
  /\ \A i \in DOMAIN list : ~MasksBeyondBounds(list[i])
  /\ \A i \in DOMAIN list : OverlapsLeaf(list[i], Chunk) =>
       IsPurelyAdditive(list[i]) \/ list[i].frames = << >>
  /\ \A i \in DOMAIN list : OverlapsLeaf(list[i], Chunk) => ~IsStretched(list[i].producer)
  /\ \A i \in DOMAIN list : Adds(list[i]) => Encloses(Box[list[i].producer], Chunk)
  /\ \A i, j \in DOMAIN list : Adds(list[i]) /\ Adds(list[j]) => i = j
Took(list, n) == \E i \in 1 .. n : i \in DOMAIN list /\ Adds(list[i])
(* Of a block's fold and the chunk's, once the folds took n of the list.   *)
Nests(f, whole, list, n) ==
  /\ ~f.unbound
  /\ \/ Bare(f) /\ Bare(whole)
     \/ /\ Carries(f) /\ Carries(whole) /\ Took(list, n)
        /\ Top(whole)[2] <= 0 => Top(f)[2] <= 0
NestInv ==
  OneEncloses(leaves) /\ ~fold[Chunk].unbound =>
    \A cell \in Blocks : Nests(fold[cell], fold[Chunk], leaves, composed)

(* What holds of a longer list held of the shorter.                        *)
LEMMA OneEnclosedBefore ==
  ASSUME NEW list, NEW longer, OneEncloses(longer),
         \A i \in DOMAIN list : i \in DOMAIN longer /\ longer[i] = list[i]
  PROVE  /\ OneEncloses(list)
         /\ \A n : Took(list, n) => Took(longer, n)
BY DEF OneEncloses, Took

(* A fold closes a scope and its interval stays.                           *)
LEMMA ClosingKeepsTheInterval ==
  ASSUME FoldInv, CloseScope, NEW cell \in Cells
  PROVE  /\ fold'[cell].unbound = fold[cell].unbound
         /\ Bare(fold[cell]) => Bare(fold'[cell])
         /\ Carries(fold[cell]) => Carries(fold'[cell]) /\ Top(fold'[cell]) = Top(fold[cell])
<1> DEFINE f == fold[cell]
           g == fold'[cell]
<1>1. SoundFold(f, cell)
  BY DEF FoldInv
<1>2. FoldMustClose(cell) => f.frames # << >> /\ g = Closed(f)
  BY ClosingFoldsAreOpen DEF CloseScope
<1>3. ~FoldMustClose(cell) => g = f
  BY DEF CloseScope
<1>4. Closed(f).unbound = f.unbound
  BY DEF Closed
<1> HIDE DEF f, g
<1>5. CASE FoldMustClose(cell)
  <2>1. ~Bare(f)
    BY <1>2, <1>5 DEF Bare
  <2>2. Carries(f) => Carries(g) /\ Top(g) = Top(f)
    BY <1>1, <1>2, <1>5, CarriersClose
  <2> QED
    BY <1>2, <1>4, <1>5, <2>1, <2>2 DEF f, g
<1>6. CASE ~FoldMustClose(cell)
  BY <1>3, <1>6 DEF f, g
<1> QED
  BY <1>5, <1>6

(* A leaf in no scope composes where no scope is open.                     *)
LEMMA NoScopeIsOpen ==
  ASSUME SealInv, Compose, NEW cell \in Cells, Keeps(Due, cell), Due.frames = << >>
  PROVE  fold[cell].frames = << >>
<1> DEFINE frames == fold[cell].frames
<1>1. FoldInv /\ WalkInv /\ FoldStands(frames) /\ WalkIsAhead
  BY DEF SealInv, Compose
<1>2. composed + 1 \in DOMAIN leaves /\ Due = leaves[composed + 1]
  BY <1>1, DueIsLeaf
<1>3. frames \in Seq(ScopeFrames)
  BY <1>1 DEF FoldInv, SoundFold
<1>4. ~MustClose(PathOf(frames), ScopePath(leaves[composed + 1]))
  BY <1>1, <1>2 DEF Compose, SomeMustClose, FoldMustClose
<1> HIDE DEF frames
<1>5. Opens(frames, Due.frames)
  BY <1>1, <1>2, <1>3, <1>4, PathsTellFrames
<1>6. Len(frames) <= 0 /\ Len(frames) \in Nat
  <2>1. Len(<< >>) = 0
    OBVIOUS
  <2> QED
    BY <1>3, <1>5, <2>1 DEF Opens
<1> QED
  BY <1>3, <1>6, EmptySeq DEF frames

(* A leaf composes into a block and into the chunk, or into neither, or    *)
(* into the chunk alone.                                                   *)
LEMMA ComposeNests ==
  ASSUME SealInv, NestInv, Compose, OneEncloses(leaves), ~fold'[Chunk].unbound,
         NEW cell \in Blocks
  PROVE  Nests(fold'[cell], fold'[Chunk], leaves, composed + 1)
<1> DEFINE f == fold[cell]
           whole == fold[Chunk]
           g == fold'[cell]
           chunk == fold'[Chunk]
           leaf == Due
           p == leaf.producer
<1>1. FoldInv /\ WalkIsAhead
  BY DEF SealInv, Compose
<1>2. /\ composed + 1 \in DOMAIN leaves /\ leaf \in LeafRecords /\ leaf = leaves[composed + 1]
      /\ composed \in Nat /\ p \in Producers /\ leaf.operation \in Operations
  BY <1>1, DueIsLeaf
<1>3. cell \in Cells /\ (OverlapsLeaf(leaf, cell) => OverlapsLeaf(leaf, Chunk))
      /\ (Encloses(Box[p], Chunk) => OverlapsLeaf(leaf, cell))
  BY <1>2, BlocksLieInTheChunk
<1>4. SoundFold(f, cell) /\ SoundFold(whole, Chunk)
  BY <1>1, <1>3, ChunkIsCell DEF FoldInv
<1>5. /\ ~MasksBeyondBounds(leaf)
      /\ OverlapsLeaf(leaf, Chunk) => IsPurelyAdditive(leaf) \/ leaf.frames = << >>
      /\ OverlapsLeaf(leaf, Chunk) => ~IsStretched(p)
      /\ Adds(leaf) => Encloses(Box[p], Chunk)
      /\ Adds(leaf) => \A i \in DOMAIN leaves : Adds(leaves[i]) => i = composed + 1
  BY <1>2 DEF OneEncloses
<1>6. /\ Keeps(leaf, cell) <=> OverlapsLeaf(leaf, cell)
      /\ Keeps(leaf, Chunk) <=> OverlapsLeaf(leaf, Chunk)
  BY <1>5 DEF Keeps
<1>7. /\ g = IF Keeps(leaf, cell) THEN Composed(f, leaf, cell) ELSE f
      /\ chunk = IF Keeps(leaf, Chunk) THEN Composed(whole, leaf, Chunk) ELSE whole
  BY <1>3, ChunkIsCell DEF Compose, Due
<1>8. Took(leaves, composed) => Took(leaves, composed + 1)
  BY <1>2 DEF Took
<1>9. /\ Keeps(leaf, cell) /\ leaf.frames = << >> => f.frames = << >>
      /\ Keeps(leaf, Chunk) /\ leaf.frames = << >> => whole.frames = << >>
  BY <1>3, ChunkIsCell, NoScopeIsOpen
<1>10. ~whole.unbound /\ (Keeps(leaf, Chunk) => ~IsUnboundable(leaf))
  <2>1. Composed(whole, leaf, Chunk).unbound = (whole.unbound \/ IsUnboundable(leaf))
    BY DEF Composed
  <2>2. whole.unbound \in BOOLEAN /\ IsUnboundable(leaf) \in BOOLEAN
    BY <1>4 DEF SoundFold, IsUnboundable
  <2> HIDE DEF whole, leaf, chunk
  <2>3. ~chunk.unbound
    BY DEF chunk
  <2> QED
    BY <1>7, <2>1, <2>2, <2>3, Zenon
<1>11. Nests(f, whole, leaves, composed)
  BY <1>10 DEF NestInv
<1> HIDE DEF f, whole, g, chunk, leaf, p
<1>12. CASE ~OverlapsLeaf(leaf, Chunk)
  <2>1. g = f /\ chunk = whole
    BY <1>3, <1>6, <1>7, <1>12
  <2> QED
    BY <1>8, <1>11, <2>1 DEF Nests, g, chunk
<1>13. CASE OverlapsLeaf(leaf, Chunk) /\ IsPurelyAdditive(leaf)
  <2>1. Adds(leaf)
    BY <1>13 DEF Adds
  <2>2. /\ g = Composed(f, leaf, cell) /\ chunk = Composed(whole, leaf, Chunk)
        /\ ~IsUnboundable(leaf)
    BY <1>3, <1>5, <1>6, <1>7, <1>10, <1>13, <2>1
  <2>3. ~Took(leaves, composed)
    <3> SUFFICES ASSUME Took(leaves, composed)
                 PROVE  FALSE
      OBVIOUS
    <3>1. PICK i \in 1 .. composed : i \in DOMAIN leaves /\ Adds(leaves[i])
      BY DEF Took
    <3>2. i = composed + 1
      BY <1>5, <2>1, <3>1
    <3> QED
      BY <1>2, <3>1, <3>2
  <2>4. Bare(f) /\ Bare(whole) /\ ~f.unbound
    BY <1>11, <2>3 DEF Nests
  <2>5. /\ Carries(g) /\ Top(g) = CellFieldInterval(p, cell) /\ g.unbound = f.unbound
        /\ Carries(chunk) /\ Top(chunk) = CellFieldInterval(p, Chunk)
    BY <1>2, <1>3, <1>4, <1>13, <2>2, <2>4, ChunkIsCell, BareFoldsCarry DEF p
  <2>6. Top(chunk)[2] <= 0 => Top(g)[2] <= 0
    <3>1. HasInterval(p) /\ ~IsStretched(p)
      BY <1>5, <1>13, <2>2 DEF IsUnboundable, p
    <3> QED
      BY <1>2, <2>5, <3>1, IntervalsNest
  <2>7. Took(leaves, composed + 1)
    BY <1>2, <2>1 DEF Took
  <2>8. ~g.unbound
    BY <2>4, <2>5
  <2> QED
    BY <2>5, <2>6, <2>7, <2>8 DEF Nests, g, chunk
<1>14. CASE OverlapsLeaf(leaf, Chunk) /\ ~IsPurelyAdditive(leaf)
  <2>1. leaf.frames = << >> /\ leaf.operation = "subtract"
    <3>1. leaf.frames = << >>
      BY <1>5, <1>14
    <3>2. leaf.operation # "intersect"
      BY <1>5 DEF MasksBeyondBounds
    <3>3. leaf.operation # "union"
      BY <1>14, <3>1 DEF IsPurelyAdditive
    <3> QED
      BY <1>2, <3>1, <3>2, <3>3 DEF Operations
  <2> DEFINE low == CellFieldInterval(p, Chunk)[1]
             near == CellFieldInterval(p, cell)[1]
  <2>2. ~IsUnboundable(leaf) /\ whole.frames = << >> /\ chunk = Composed(whole, leaf, Chunk)
    BY <1>6, <1>7, <1>9, <1>10, <1>14, <2>1
  <2>3. /\ Bare(whole) => Bare(chunk)
        /\ Carries(whole) => Carries(chunk) /\ (Top(chunk)[2] <= 0 <=> Top(whole)[2] <= 0 /\ low >= 0)
    BY <1>2, <1>4, <2>1, <2>2, ChunkIsCell, SubtractsCompose DEF p
  <2>4. low >= 0 => near >= 0
    <3>1. HasInterval(p) /\ ~IsStretched(p)
      BY <1>5, <1>14, <2>2 DEF IsUnboundable, p
    <3> QED
      BY <1>2, <3>1, IntervalsNest
  <2> HIDE DEF low
  <2>5. /\ Bare(f) => Bare(g)
        /\ Carries(f) => Carries(g) /\ (Top(f)[2] <= 0 /\ near >= 0 => Top(g)[2] <= 0)
        /\ g.unbound = f.unbound
    <3>1. CASE Keeps(leaf, cell)
      <4>1. f.frames = << >> /\ g = Composed(f, leaf, cell)
        BY <1>7, <1>9, <2>1, <3>1
      <4> QED
        BY <1>2, <1>3, <1>4, <2>1, <2>2, <4>1, SubtractsCompose DEF p
    <3>2. CASE ~Keeps(leaf, cell)
      BY <1>7, <3>2
    <3> QED
      BY <3>1, <3>2
  <2> HIDE DEF near
  <2>6. Nests(g, chunk, leaves, composed + 1)
    BY <1>8, <1>11, <2>3, <2>4, <2>5 DEF Nests
  <2> QED
    BY <2>6 DEF g, chunk
<1> QED
  BY <1>12, <1>13, <1>14 DEF g, chunk

(* The chunk tells of its blocks throughout.                               *)
LEMMA NestInvIsInductive ==
  ASSUME MaxPlacements <= 1
  PROVE  Spec => []NestInv
<1>1. ASSUME Init
      PROVE  NestInv
  <2> SUFFICES ASSUME NEW cell \in Blocks
               PROVE  Nests(fold[cell], fold[Chunk], leaves, composed)
    BY DEF NestInv
  <2>1. ASSUME NEW c \in Cells
        PROVE  Bare(fold[c]) /\ ~fold[c].unbound
    <3> DEFINE level == EmptyLevel(c)
               levels == <<level>>
    <3>1. fold[c].frames = << >> /\ fold[c].levels = levels /\ fold[c].unbound = FALSE
      BY <1>1 DEF Init, EmptyFold
    <3>2. level.interval = Empty
      BY DEF EmptyLevel
    <3> HIDE DEF level
    <3>3. levels[1] = level
      OBVIOUS
    <3> HIDE DEF levels
    <3>4. Len(<< >>) = 0
      OBVIOUS
    <3> QED
      BY <3>1, <3>2, <3>3, <3>4 DEF Bare, Top
  <2>2. cell \in Cells /\ Chunk \in Cells
    BY BlocksLieInTheChunk, ChunkIsCell
  <2> QED
    BY <2>1, <2>2 DEF Nests
<1>2. ASSUME SealInv, NestInv, [Next]_vars
      PROVE  NestInv'
  <2> SUFFICES ASSUME OneEncloses(leaves'), ~fold'[Chunk].unbound, NEW cell \in Blocks
               PROVE  Nests(fold'[cell], fold'[Chunk], leaves', composed')
    BY DEF NestInv
  <2>1. FoldInv /\ cell \in Cells /\ Chunk \in Cells
    BY <1>2, BlocksLieInTheChunk, ChunkIsCell DEF SealInv
  <2>2. CASE Walk
    <3>1. \A i \in DOMAIN leaves : i \in DOMAIN leaves' /\ leaves'[i] = leaves[i]
      BY <2>1, <2>2, WalkAddsLeaves
    <3>2. fold' = fold /\ composed' = composed
      BY <2>2 DEF Walk, Visit, PlaceFixture, EndWalk
    <3> DEFINE list == leaves
               longer == leaves'
    <3>3. OneEncloses(longer) /\ \A i \in DOMAIN list : i \in DOMAIN longer /\ longer[i] = list[i]
      BY <3>1
    <3> HIDE DEF list, longer
    <3>4. OneEncloses(list) /\ \A n : Took(list, n) => Took(longer, n)
      BY <3>3, OneEnclosedBefore
    <3>5. Nests(fold[cell], fold[Chunk], list, composed)
      BY <1>2, <3>2, <3>4 DEF NestInv, list
    <3> QED
      BY <3>2, <3>4, <3>5 DEF Nests, longer
  <2>3. CASE CloseScope
    <3>1. leaves' = leaves /\ composed' = composed
      BY <2>3 DEF CloseScope
    <3>2. /\ fold'[cell].unbound = fold[cell].unbound
          /\ Bare(fold[cell]) => Bare(fold'[cell])
          /\ Carries(fold[cell]) => Carries(fold'[cell]) /\ Top(fold'[cell]) = Top(fold[cell])
      BY <2>1, <2>3, ClosingKeepsTheInterval
    <3>3. /\ fold'[Chunk].unbound = fold[Chunk].unbound
          /\ Bare(fold[Chunk]) => Bare(fold'[Chunk])
          /\ Carries(fold[Chunk]) => Carries(fold'[Chunk]) /\ Top(fold'[Chunk]) = Top(fold[Chunk])
      BY <2>1, <2>3, ClosingKeepsTheInterval
    <3>4. Nests(fold[cell], fold[Chunk], leaves, composed)
      BY <1>2, <3>1, <3>3 DEF NestInv
    <3> QED
      BY <3>1, <3>2, <3>3, <3>4 DEF Nests
  <2>4. CASE Compose
    <3>1. leaves' = leaves /\ composed' = composed + 1
      BY <2>4 DEF Compose
    <3> QED
      BY <1>2, <2>4, <3>1, ComposeNests
  <2>5. CASE UNCHANGED vars
    <3>1. leaves' = leaves /\ composed' = composed /\ fold' = fold
      BY <2>5 DEF vars
    <3> QED
      BY <1>2, <3>1 DEF NestInv
  <2> QED
    BY <1>2, <2>2, <2>3, <2>4, <2>5 DEF Next
<1> QED
  BY <1>1, <1>2, SealInvIsInductive, PTL DEF Spec

(* A chunk of air is a chunk of blocks of air.                             *)
LEMMA AirIsTheSweep ==
  ASSUME SealInv, StampInv, FoldIsSound, Done,
         AdditiveOver(Chunk) = {} \/ ClassifyBlock(Chunk) = Air, NEW cell \in Blocks
  PROVE  BuiltBlock(cell) = [block |-> "air"]
<1> DEFINE verdict == ClassifyBlock(cell)
           body == Root(cell).body
<1>1. /\ cell \in Cells /\ cell[1] \in Nat /\ cell[2] \in Nat /\ cell[1] < cell[2]
  BY BlocksLieInTheChunk
<1>2. \A v \in VoxelsOf(cell) : body[v] = Nothing
  <2> SUFFICES ASSUME NEW v \in VoxelsOf(cell)
               PROVE  body[v] = Nothing
    OBVIOUS
  <2>1. v \in VoxelsOf(Chunk)
    BY <1>1, CentersArePoints
  <2>2. Root(Chunk).body[v] = Nothing
    BY <2>1, ChunkIsCell, VerdictsAreTrue
  <2>3. body[v] = sealed.bodies[1][v] /\ Root(Chunk).body[v] = sealed.bodies[1][v]
    BY <1>1, <2>1, ChunkIsCell, FinishedCellsAgree
  <2> QED
    BY <2>2, <2>3
<1>3. cell[1] \in VoxelsOf(cell)
  BY <1>1 DEF VoxelsOf
<1>4. verdict.is # "coarse"
  <2> SUFFICES ASSUME verdict.is = "coarse"
               PROVE  FALSE
    OBVIOUS
  <2>1. body[cell[1]] # Nothing
    BY <1>1, <1>3, VerdictsAreTrue
  <2> QED
    BY <1>2, <1>3, <2>1
<1>5. IsEmptyBody(body)
  <2>1. DOMAIN body = VoxelsOf(cell)
    BY <1>1, RootsAreBodies DEF SealInv, Bodies
  <2> QED
    BY <1>2, <2>1 DEF IsEmptyBody
<1> HIDE DEF verdict, body
<1>6. BuiltBlock(cell) =
        CASE verdict = Boundary /\ ~IsEmptyBody(body) -> [block |-> "micro", voxels |-> body]
          [] verdict.is = "coarse" -> Coarse(verdict, cell)
          [] OTHER -> [block |-> "air"]
  BY DEF BuiltBlock, verdict, body
<1> QED
  BY <1>4, <1>5, <1>6

(* A coarse chunk is a chunk of blocks that are each as coarse.            *)
LEMMA CoarseIsTheSweep ==
  ASSUME SealInv, StampInv, NestInv, FoldIsSound, Done, ClassifyBlock(Chunk).is = "coarse",
         ~AnyMask, FoldIsScopeTransparent, Encloses(Box[OwnerOf(Chunk).producer], Chunk),
         ~AnyStretched, NEW cell \in Blocks
  PROVE  BuiltBlock(cell) = Coarse(ClassifyBlock(Chunk), Chunk)
<1> DEFINE over == AdditiveOver(Chunk)
           owner == OwnerOf(Chunk)
           whole == fold[Chunk]
           f == fold[cell]
<1>1. /\ cell \in Cells /\ cell[1] \in Nat /\ cell[2] \in Nat /\ cell[1] < cell[2]
      /\ \A leaf \in LeafRecords :
           /\ OverlapsLeaf(leaf, cell) => OverlapsLeaf(leaf, Chunk)
           /\ Encloses(Box[leaf.producer], Chunk) => OverlapsLeaf(leaf, cell)
  BY BlocksLieInTheChunk
<1>2. FoldInv /\ \A i \in DOMAIN leaves : leaves[i] \in LeafRecords
  BY LeavesAreTyped DEF SealInv
<1>3. SoundFold(f, cell) /\ SoundFold(whole, Chunk)
  BY <1>1, <1>2, ChunkIsCell DEF FoldInv
<1>4. f.frames = << >> /\ whole.frames = << >>
  <2>1. cell[1] \in VoxelsOf(cell)
    BY <1>1 DEF VoxelsOf
  <2>2. cell[1] \in VoxelsOf(Chunk)
    BY <1>1, <2>1, CentersArePoints
  <2> QED
    BY <1>1, <2>1, <2>2, ChunkIsCell, FinishedCellsAgree
<1>5. Top(f) = Root(cell).interval /\ Top(whole) = Root(Chunk).interval
  <2>1. Len(<< >>) = 0
    OBVIOUS
  <2> QED
    BY <1>4, <2>1 DEF Top, Root
<1>6. /\ over # {} /\ ~whole.unbound
      /\ Top(whole) # Empty /\ Top(whole)[2] <= 0 /\ ClassifyBlock(Chunk) = SingleMaterial(Chunk)
      /\ Cardinality(over) = 1
  <2>1. Air.is # "coarse" /\ Boundary.is # "coarse"
    BY DEF Air, Boundary
  <2>2. ClassifyBlock(Chunk) =
          IF over = {} THEN Air
          ELSE IF whole.unbound THEN Boundary
          ELSE IF Top(whole) = Empty \/ Top(whole)[1] > 0 THEN Air
          ELSE IF Top(whole)[2] <= 0 THEN SingleMaterial(Chunk) ELSE Boundary
    BY <1>5 DEF ClassifyBlock
  <2>3. SingleMaterial(Chunk).is = "coarse" => Cardinality(over) = 1
    BY <2>1 DEF SingleMaterial
  <2> HIDE DEF over, whole
  <2> QED
    BY <2>1, <2>2, <2>3
<1>7. PICK only \in over : \A i \in over : i = only
  <2>1. over \in SUBSET (1 .. Len(leaves)) /\ Len(leaves) \in Nat
    BY <1>2, LeavesAreTyped DEF AdditiveOver
  <2>2. IsFiniteSet(over)
    <3>1. IsFiniteSet(1 .. Len(leaves))
      BY <2>1, FS_Interval
    <3> QED
      BY <2>1, <3>1, FS_Subset
  <2> HIDE DEF over
  <2>3. \E x : over = {x}
    BY <1>6, <2>2, FS_Singleton
  <2> QED
    BY <2>3
<1>8. owner = leaves[only] /\ Encloses(Box[leaves[only].producer], Chunk)
  BY <1>2, <1>6, <1>7, ChunkIsCell, OwnerIsTheOne
<1>9. AdditiveOver(cell) = over
  <2>1. \A i \in AdditiveOver(cell) : i \in over
    BY <1>1, <1>2 DEF AdditiveOver
  <2>2. only \in AdditiveOver(cell)
    BY <1>1, <1>2, <1>7, <1>8 DEF AdditiveOver
  <2> HIDE DEF over
  <2> QED
    BY <1>7, <2>1, <2>2
<1>10. OneEncloses(leaves)
  <2>1. \A i \in DOMAIN leaves : Adds(leaves[i]) <=> i \in over
    BY DEF Adds, AdditiveOver
  <2>2. \A i \in DOMAIN leaves : Adds(leaves[i]) => Encloses(Box[leaves[i].producer], Chunk)
    BY <1>7, <1>8, <2>1
  <2>3. \A i, j \in DOMAIN leaves : Adds(leaves[i]) /\ Adds(leaves[j]) => i = j
    <3> HIDE DEF over
    <3> QED
      BY <1>7, <2>1
  <2>4. \A i \in DOMAIN leaves : ~MasksBeyondBounds(leaves[i])
    BY DEF AnyMask
  <2>5. \A i \in DOMAIN leaves : OverlapsLeaf(leaves[i], Chunk) =>
          IsPurelyAdditive(leaves[i]) \/ leaves[i].frames = << >>
    BY DEF FoldIsScopeTransparent
  <2>6. \A i \in DOMAIN leaves : OverlapsLeaf(leaves[i], Chunk) => ~IsStretched(leaves[i].producer)
    BY DEF AnyStretched
  <2> QED
    BY <2>2, <2>3, <2>4, <2>5, <2>6 DEF OneEncloses
<1>11. ~f.unbound /\ Top(f) # Empty /\ Top(f)[2] <= 0
  <2>1. Nests(f, whole, leaves, composed)
    BY <1>6, <1>10 DEF NestInv
  <2> HIDE DEF f, whole
  <2> QED
    BY <1>6, <2>1 DEF Nests, Bare, Carries
<1>12. ~(Top(f)[1] > 0)
  <2> SUFFICES ASSUME Top(f)[1] > 0
               PROVE  FALSE
    OBVIOUS
  <2>1. LevelIsSound(Root(cell))
    <3>1. 1 \in DOMAIN f.levels
      <4>1. f.levels \in Seq(Levels(cell)) /\ f.frames \in Seq(ScopeFrames) /\ Len(f.levels) = Len(f.frames) + 1
        BY <1>3 DEF SoundFold
      <4> HIDE DEF f
      <4> QED
        BY <4>1
    <3> QED
      BY <1>1, <1>11, <3>1 DEF FoldIsSound, Root
  <2>2. Top(f) \in Intervals
    BY <1>1, <1>3, TopIsInterval
  <2>3. Top(f)[1] \in Int
    <3> DEFINE top == Top(f)
    <3>1. top \in Int \X Int
      BY <1>11, <2>2 DEF Intervals
    <3> HIDE DEF top
    <3>2. top[1] \in Int
      BY <3>1
    <3> QED
      BY <3>2 DEF top
  <2>4. IsEmptyBody(Root(cell).body) /\ IsFullBody(Root(cell).body)
    BY <1>5, <1>11, <2>1, <2>3 DEF LevelIsSound
  <2>5. cell[1] \in DOMAIN Root(cell).body
    BY <1>1, RootsAreBodies DEF SealInv, Bodies, VoxelsOf
  <2> QED
    BY <2>4, <2>5 DEF IsEmptyBody, IsFullBody
<1>13. OwnerOf(cell) = owner /\ SingleMaterial(cell) = SingleMaterial(Chunk)
  BY <1>9 DEF OwnerOf, SingleMaterial
<1>14. ClassifyBlock(cell) = ClassifyBlock(Chunk)
  <2>1. ClassifyBlock(cell) =
          IF AdditiveOver(cell) = {} THEN Air
          ELSE IF f.unbound THEN Boundary
          ELSE IF Top(f) = Empty \/ Top(f)[1] > 0 THEN Air
          ELSE IF Top(f)[2] <= 0 THEN SingleMaterial(cell) ELSE Boundary
    BY <1>5 DEF ClassifyBlock
  <2> HIDE DEF over, f
  <2> QED
    BY <1>6, <1>9, <1>11, <1>12, <1>13, <2>1
<1>15. BuiltBlock(cell) = Coarse(ClassifyBlock(cell), cell)
  <2>1. Boundary.is # "coarse"
    BY DEF Boundary
  <2> DEFINE verdict == ClassifyBlock(cell)
  <2>2. verdict.is = "coarse"
    BY <1>14
  <2>3. verdict # Boundary
    BY <2>1, <2>2
  <2> HIDE DEF verdict
  <2>4. BuiltBlock(cell) =
          CASE verdict = Boundary /\ ~IsEmptyBody(Root(cell).body) ->
                 [block |-> "micro", voxels |-> Root(cell).body]
            [] verdict.is = "coarse" -> Coarse(verdict, cell)
            [] OTHER -> [block |-> "air"]
    BY DEF BuiltBlock, verdict
  <2>5. BuiltBlock(cell) = Coarse(verdict, cell)
    BY <2>2, <2>3, <2>4
  <2> QED
    BY <2>5 DEF verdict
<1> QED
  BY <1>13, <1>14, <1>15 DEF Coarse

(* A coarse chunk is one of blocks each of which the sweep stores as       *)
(* coarse, or as voxels that all have its stamp: either way the chunk's    *)
(* voxels are those of the sweep's blocks.                                 *)
LEMMA CoarseIsSpelledOut ==
  ASSUME SealInv, StampInv, FoldIsSound, Done, BuildChunk = AllCoarse,
         ClassifyBlock(Chunk).is = "coarse", NEW cell \in Blocks
  PROVE  \/ BuildChunk[cell] = BuiltPerBlock[cell]
         \/ /\ BuildChunk[cell].block = "coarse"
            /\ BuiltPerBlock[cell] = SpelledOut(BuildChunk[cell], cell)
<1> DEFINE chunk == BuildChunk
           swept == BuiltPerBlock
           coarse == Coarse(ClassifyBlock(Chunk), Chunk)
           verdict == ClassifyBlock(cell)
           body == Root(cell).body
<1>1. /\ cell \in Cells /\ cell[1] \in Nat /\ cell[2] \in Nat /\ cell[1] < cell[2]
  BY BlocksLieInTheChunk
<1>2. chunk[cell] = coarse /\ swept[cell] = BuiltBlock(cell)
  BY DEF AllCoarse, BuiltPerBlock
<1>3. coarse.block = "coarse" /\ coarse = [block |-> "coarse", stamp |-> coarse.stamp]
  BY DEF Coarse
<1>4. body \in Bodies(cell)
  BY <1>1, RootsAreBodies DEF SealInv
<1>5. ASSUME NEW v \in VoxelsOf(cell)
      PROVE  body[v] = coarse.stamp /\ body[v] # Nothing
  <2>1. v \in VoxelsOf(Chunk)
    BY <1>1, CentersArePoints
  <2>2. /\ Root(Chunk).body[v] # Nothing
        /\ Root(Chunk).body[v] = coarse.stamp
    BY <2>1, ChunkIsCell, VerdictsAreTrue DEF Coarse
  <2>3. body[v] = sealed.bodies[1][v] /\ Root(Chunk).body[v] = sealed.bodies[1][v]
    BY <1>1, <2>1, ChunkIsCell, FinishedCellsAgree
  <2> QED
    BY <2>2, <2>3
<1>6. cell[1] \in VoxelsOf(cell)
  BY <1>1 DEF VoxelsOf
<1>7. BuiltBlock(cell) =
        CASE verdict = Boundary /\ ~IsEmptyBody(body) -> [block |-> "micro", voxels |-> body]
          [] verdict.is = "coarse" -> Coarse(verdict, cell)
          [] OTHER -> [block |-> "air"]
  BY DEF BuiltBlock
<1>8. Boundary.is # "coarse"
  BY DEF Boundary
<1>9. CASE verdict = Air
  <2>1. body[cell[1]] = Nothing
    BY <1>1, <1>6, <1>9, VerdictsAreTrue
  <2> QED
    BY <1>5, <1>6, <2>1
<1>10. CASE verdict.is = "coarse"
  <2> DEFINE mine == Coarse(verdict, cell)
  <2>1. mine.stamp = body[cell[1]]
    BY <1>1, <1>6, <1>10, VerdictsAreTrue
  <2>2. mine.stamp = coarse.stamp
    BY <1>5, <1>6, <2>1
  <2>3. mine = [block |-> "coarse", stamp |-> mine.stamp]
    BY DEF Coarse
  <2>4. BuiltBlock(cell) = mine
    <3> HIDE DEF verdict, body, mine
    <3>1. verdict # Boundary
      BY <1>8, <1>10
    <3> QED
      BY <1>7, <1>10, <3>1 DEF mine
  <2> HIDE DEF mine, coarse
  <2>5. mine = coarse
    BY <1>3, <2>2, <2>3
  <2> QED
    BY <1>2, <2>4, <2>5
<1>11. CASE verdict = Boundary
  <2> HIDE DEF verdict, body, coarse
  <2>1. DOMAIN body = VoxelsOf(cell) /\ body = [v \in VoxelsOf(cell) |-> body[v]]
    BY <1>4 DEF Bodies
  <2>2. ~IsEmptyBody(body)
    BY <1>5, <1>6, <2>1 DEF IsEmptyBody
  <2>3. body = [v \in VoxelsOf(cell) |-> coarse.stamp]
    BY <1>5, <2>1
  <2>4. BuiltBlock(cell) = [block |-> "micro", voxels |-> body]
    <3>1. verdict = Boundary /\ ~IsEmptyBody(body)
      BY <1>11, <2>2
    <3>2. verdict.is # "coarse"
      BY <1>8, <1>11
    <3> QED
      BY <1>7, <3>1, <3>2
  <2>5. swept[cell] = SpelledOut(coarse, cell)
    BY <1>2, <2>3, <2>4 DEF SpelledOut
  <2> HIDE DEF chunk, swept
  <2>6. chunk[cell].block = "coarse" /\ swept[cell] = SpelledOut(chunk[cell], cell)
    BY <1>2, <1>3, <2>5
  <2> QED
    BY <2>6 DEF chunk, swept
<1>12. verdict = Air \/ verdict.is = "coarse" \/ verdict = Boundary
  BY <1>1, <1>6, VerdictsAreTrue
<1> QED
  BY <1>9, <1>10, <1>11, <1>12

(* Deciding the whole chunk from one interval stores the very blocks the   *)
(* block by block sweep would have stored: air where they are air, and     *)
(* where the chunk is coarse each of them as coarse, or, where a stretched *)
(* sphere reaches the chunk, as voxels that all have the coarse stamp; as  *)
(* long as no fixture is placed twice.                                     *)
THEOREM WholeChunksAreTheSweep ==
  ASSUME MaxPlacements <= 1
  PROVE  Spec => []FastPathIsTheSweep
<1>1. SealInv /\ StampInv /\ NestInv /\ FoldIsSound => FastPathIsTheSweep
  <2> SUFFICES ASSUME SealInv, StampInv, NestInv, FoldIsSound, Done
               PROVE  \A cell \in Blocks :
                        \/ BuildChunk[cell] = BuiltPerBlock[cell]
                        \/ /\ AnyStretched
                           /\ BuildChunk[cell].block = "coarse"
                           /\ BuiltPerBlock[cell] = SpelledOut(BuildChunk[cell], cell)
    BY DEF FastPathIsTheSweep
  <2>1. CASE BuildChunk = AllAir /\ (AdditiveOver(Chunk) = {} \/ ClassifyBlock(Chunk) = Air)
    <3>1. \A cell \in Blocks : BuiltBlock(cell) = [block |-> "air"]
      BY <2>1, AirIsTheSweep
    <3>2. AllAir = BuiltPerBlock
      BY <3>1 DEF AllAir, BuiltPerBlock
    <3> QED
      BY <2>1, <3>2
  <2>2. CASE /\ BuildChunk = AllCoarse /\ ClassifyBlock(Chunk).is = "coarse"
             /\ ~AnyMask /\ FoldIsScopeTransparent
             /\ Encloses(Box[OwnerOf(Chunk).producer], Chunk)
    <3>1. CASE ~AnyStretched
      <4>1. \A cell \in Blocks : BuiltBlock(cell) = Coarse(ClassifyBlock(Chunk), Chunk)
        BY <2>2, <3>1, CoarseIsTheSweep
      <4>2. AllCoarse = BuiltPerBlock
        BY <4>1 DEF AllCoarse, BuiltPerBlock
      <4> QED
        BY <2>2, <4>2
    <3>2. CASE AnyStretched
      BY <2>2, <3>2, CoarseIsSpelledOut
    <3> QED
      BY <3>1, <3>2
  <2>3. CASE BuildChunk = BuiltPerBlock
    BY <2>3
  <2> QED
    BY <2>1, <2>2, <2>3, ChunksAreBuiltOneWay
<1> QED
  BY <1>1, StampInvIsInductive, NestInvIsInductive, IntervalsAreSound, PTL
=============================================================================
