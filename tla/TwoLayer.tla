------------------------------ MODULE TwoLayer ------------------------------
(***************************************************************************)
(* How a chunk of the display is evaluated from the scene                  *)
(* (crates/evaluation/src/two_layer_store over the leaf walk of            *)
(* crates/document/src/scene/producers).                                   *)
(*                                                                         *)
(* The walk of the node tree lists the leaves in document order, each with *)
(* the frames of the scopes that enclose it.  Every block of the chunk,    *)
(* and the chunk as one cell, drops the leaves that cannot matter to it    *)
(* and folds the rest, the interval and the voxels alike.  A scope is      *)
(* folded apart and enters its parent when it closes; nothing but the      *)
(* frames of two consecutive leaves tells where one closes.  Where the     *)
(* interval decides a block, its voxels are never resolved.                *)
(*                                                                         *)
(* The fold of the whole chunk is also that of the reference resolver,     *)
(* resolve_chunk.  sealed is what the document means: each expansion of a  *)
(* scope folded on its own, no leaf dropped.                               *)
(***************************************************************************)
EXTENDS FieldIntervals, SequencesExt

CONSTANTS
  Fixtures,       \* placements of a fixture: the leaves of its one Group
  FixtureOp,      \* the operation of that Group
  MaxNodes,       \* bound: leaves, groups and instances in the scene
  MaxPlacements   \* bound: placements of the fixture

ASSUME BoundsAssumption ==
  /\ MaxNodes \in Nat /\ MaxPlacements \in Nat
  /\ FixtureOp \in Operations
  /\ \A f \in Fixtures : f \in Seq([producer : Producers, operation : Operations])

FixtureGroup == 0  \* the Group inside the definition: one node, however placed

VARIABLES
  leaves,      \* the leaf list, as far as the walk has come
  ended,       \* the walk has emitted its last leaf
  nodes,       \* how many nodes the walk has come to; their identities
  placements,  \* of the fixture
  composed,    \* how many leaves the folds have taken
  fold,        \* of every cell: the open frames and the accumulators
  sealed       \* the same over the true expansions, voxels only

vars == <<leaves, ended, nodes, placements, composed, fold, sealed>>

(* A ScopeFrame, and which expansion of its node it is.                    *)
Frame(node, operation, expansion) ==
  [node |-> node, operation |-> operation, expansion |-> expansion]
PathOf(frames) == [i \in DOMAIN frames |-> <<frames[i].node, frames[i].operation>>]
ScopePath(leaf) == PathOf(leaf.frames)

MasksBeyondBounds(leaf) ==
  \/ leaf.operation = "intersect"
  \/ \E i \in DOMAIN leaf.frames : leaf.frames[i].operation = "intersect"
IsPurelyAdditive(leaf) ==
  /\ leaf.operation = "union"
  /\ \A i \in DOMAIN leaf.frames : leaf.frames[i].operation = "union"

OverlapsLeaf(leaf, cell) == Overlaps(Box[leaf.producer], cell)
KeepsOverlapping(leaf, cell) == OverlapsLeaf(leaf, cell)
Keeps(leaf, cell) == OverlapsLeaf(leaf, cell) \/ MasksBeyondBounds(leaf)

EmptyLevel(cell) == [interval |-> Empty, body |-> NoVoxels(cell)]
EmptyFold(cell) == [frames |-> << >>, levels |-> <<EmptyLevel(cell)>>, unbound |-> FALSE]

Init ==
  /\ leaves = << >>
  /\ ended = FALSE
  /\ nodes = 0
  /\ placements = 0
  /\ composed = 0
  /\ fold = [cell \in Cells |-> EmptyFold(cell)]
  /\ sealed = [frames |-> << >>, bodies |-> <<NoVoxels(Chunk)>>]

-----------------------------------------------------------------------------
(* The walk.                                                               *)

(* The frames the walk is inside of: those of its last leaf, without a     *)
(* fixture's Group, which the walk has left.                               *)
InFixture(frames) == frames # << >> /\ Last(frames).node = FixtureGroup
Inside ==
  CASE leaves = << >> -> << >>
    [] leaves # << >> /\ InFixture(Last(leaves).frames) -> Front(Last(leaves).frames)
    [] OTHER -> Last(leaves).frames

WalkIsAhead == composed < Len(leaves)

(* The walk comes to a leaf: it has left some scopes and entered others.   *)
Visit(p, operation, kept, entered) ==
  /\ ~ended
  /\ ~WalkIsAhead
  /\ nodes + Len(entered) < MaxNodes
  /\ leaves' = Append(leaves,
       [producer |-> p, operation |-> operation,
        frames |-> SubSeq(Inside, 1, kept) \o
                     [i \in DOMAIN entered |-> Frame(nodes + i, entered[i], nodes + i)]])
  /\ nodes' = nodes + Len(entered) + 1
  /\ UNCHANGED <<ended, placements, composed, fold, sealed>>

(* The walk comes to an instance of a fixture: no frame for the instance,  *)
(* the leaves of the Group inside it follow in its hosting scope.          *)
PlaceFixture(placed, kept) ==
  /\ ~ended
  /\ ~WalkIsAhead
  /\ placements < MaxPlacements
  /\ nodes < MaxNodes
  /\ leaves' = leaves \o
       [i \in DOMAIN placed |->
          [producer |-> placed[i].producer, operation |-> placed[i].operation,
           frames |-> Append(SubSeq(Inside, 1, kept),
                             Frame(FixtureGroup, FixtureOp, nodes + 1))]]
  /\ nodes' = nodes + 1
  /\ placements' = placements + 1
  /\ UNCHANGED <<ended, composed, fold, sealed>>

EndWalk ==
  /\ ~ended
  /\ ~WalkIsAhead
  /\ ended' = TRUE
  /\ UNCHANGED <<leaves, nodes, placements, composed, fold, sealed>>

-----------------------------------------------------------------------------
(* The folds.                                                              *)

(* The path a cell's fold must stand in next.                              *)
MustClose(frames, target) == ~IsPrefix(frames, target)

Into(level, interval, body, operation) ==
  [interval |-> IntervalInto(level.interval, interval, operation),
   body |-> VoxelsInto(level.body, body, operation)]
Closed(f) ==
  LET closed == Last(f.levels)
      outer == Front(f.levels)
  IN  [frames |-> Front(f.frames),
       levels |-> [outer EXCEPT ![Len(outer)] =
                     Into(@, closed.interval, closed.body, Last(f.frames).operation)],
       unbound |-> f.unbound]

ClosedSealed ==
  LET outer == Front(sealed.bodies)
  IN  [frames |-> Front(sealed.frames),
       bodies |-> [outer EXCEPT ![Len(outer)] =
         VoxelsInto(@, Last(sealed.bodies), Last(sealed.frames).operation)]]

(* A fold closes its innermost scope when the next leaf it keeps is not in *)
(* it, or when no leaf is left.                                            *)
FoldMustClose(cell) ==
  \/ /\ WalkIsAhead
     /\ Keeps(leaves[composed + 1], cell)
     /\ MustClose(PathOf(fold[cell].frames), ScopePath(leaves[composed + 1]))
  \/ ~WalkIsAhead /\ ended /\ fold[cell].frames # << >>
SealedMustClose ==
  \/ WalkIsAhead /\ MustClose(sealed.frames, leaves[composed + 1].frames)
  \/ ~WalkIsAhead /\ ended /\ sealed.frames # << >>
SomeMustClose == SealedMustClose \/ \E cell \in Cells : FoldMustClose(cell)

CloseScope ==
  /\ SomeMustClose
  /\ fold' = [cell \in Cells |-> IF FoldMustClose(cell) THEN Closed(fold[cell]) ELSE fold[cell]]
  /\ sealed' = IF SealedMustClose THEN ClosedSealed ELSE sealed
  /\ UNCHANGED <<leaves, ended, nodes, placements, composed>>

(* The frames beyond the open ones open, each on an empty accumulator, and *)
(* the leaf composes into the innermost.                                   *)
Opened(f, frames, cell) ==
  [i \in 1 .. Len(frames) + 1 |-> IF i \in DOMAIN f.levels THEN f.levels[i] ELSE EmptyLevel(cell)]
IsUnboundable(leaf) == ~HasInterval(leaf.producer)
LeafInto(level, leaf, cell) ==
  IF IsUnboundable(leaf)
  THEN [level EXCEPT !.body = VoxelsInto(@, BodyOf(leaf.producer, cell), leaf.operation)]
  ELSE Into(level, CellFieldInterval(leaf.producer, cell), BodyOf(leaf.producer, cell),
            leaf.operation)
Composed(f, leaf, cell) ==
  [frames |-> leaf.frames,
   levels |-> [Opened(f, leaf.frames, cell) EXCEPT
                 ![Len(leaf.frames) + 1] = LeafInto(@, leaf, cell)],
   unbound |-> f.unbound \/ IsUnboundable(leaf)]

ComposedSealed(leaf) ==
  LET bodies == [i \in 1 .. Len(leaf.frames) + 1 |->
                   IF i \in DOMAIN sealed.bodies THEN sealed.bodies[i] ELSE NoVoxels(Chunk)]
  IN  [frames |-> leaf.frames,
       bodies |-> [bodies EXCEPT ![Len(bodies)] =
         VoxelsInto(@, BodyOf(leaf.producer, Chunk), leaf.operation)]]

Compose ==
  /\ WalkIsAhead
  /\ ~SomeMustClose
  /\ LET leaf == leaves[composed + 1]
     IN  /\ fold' = [cell \in Cells |->
                       IF Keeps(leaf, cell) THEN Composed(fold[cell], leaf, cell)
                       ELSE fold[cell]]
         /\ sealed' = ComposedSealed(leaf)
  /\ composed' = composed + 1
  /\ UNCHANGED <<leaves, ended, nodes, placements>>

Entered == UNION {[1 .. n -> Operations] : n \in 0 .. MaxNodes - nodes - 1}
Walk ==
  \/ \E entered \in Entered, kept \in 0 .. Len(Inside) :
       \E p \in Producers, operation \in Operations : Visit(p, operation, kept, entered)
  \/ \E placed \in Fixtures, kept \in 0 .. Len(Inside) : PlaceFixture(placed, kept)
  \/ EndWalk

Next == Walk \/ CloseScope \/ Compose

Spec == Init /\ [][Next]_vars

Done == ended /\ ~WalkIsAhead /\ ~SomeMustClose

-----------------------------------------------------------------------------
(* What is built of the finished folds.                                    *)

Root(cell) == fold[cell].levels[1]

AdditiveOver(cell) ==
  {i \in DOMAIN leaves : IsPurelyAdditive(leaves[i]) /\ OverlapsLeaf(leaves[i], cell)}
(* single_overlapping_leaf: the first of them.                             *)
OwnerOf(cell) == leaves[CHOOSE i \in AdditiveOver(cell) : \A j \in AdditiveOver(cell) : i <= j]

Air == [is |-> "air"]
Boundary == [is |-> "boundary"]
CoarseSolid(id) == [is |-> "coarse", id |-> id]

SingleMaterial(cell) ==
  IF Cardinality(AdditiveOver(cell)) = 1 /\ Material[OwnerOf(cell).producer] # NoMaterial
  THEN CoarseSolid(Material[OwnerOf(cell).producer]) ELSE Boundary

ClassifyBlock(cell) ==
  CASE AdditiveOver(cell) = {} -> Air
    [] AdditiveOver(cell) # {} /\ fold[cell].unbound -> Boundary
    [] OTHER ->
         LET interval == Root(cell).interval
         IN  IF interval = Empty \/ interval[1] > 0 THEN Air
             ELSE IF interval[2] <= 0 THEN SingleMaterial(cell)
             ELSE Boundary

(* A block as stored: nothing, one id with the owner's grid flag, or its   *)
(* voxels; a boundary block that resolves to no voxel stores nothing.      *)
Coarse(verdict, cell) ==
  [block |-> "coarse", stamp |-> [id |-> verdict.id, overlay |-> Overlay[OwnerOf(cell).producer]]]
BuiltBlock(cell) ==
  CASE ClassifyBlock(cell) = Boundary /\ ~IsEmptyBody(Root(cell).body) ->
         [block |-> "micro", voxels |-> Root(cell).body]
    [] ClassifyBlock(cell).is = "coarse" -> Coarse(ClassifyBlock(cell), cell)
    [] OTHER -> [block |-> "air"]

BuiltPerBlock == [cell \in Blocks |-> BuiltBlock(cell)]
AllAir == [cell \in Blocks |-> [block |-> "air"]]
AllCoarsePlain ==
  [cell \in Blocks |->
     [block |-> "coarse", stamp |-> [id |-> ClassifyBlock(Chunk).id, overlay |-> FALSE]]]
AllCoarse == [cell \in Blocks |-> Coarse(ClassifyBlock(Chunk), Chunk)]

(* classify_whole_chunk: one interval over the chunk may decide it.        *)
AnyMask == \E i \in DOMAIN leaves : MasksBeyondBounds(leaves[i])
FoldIsScopeTransparent ==
  \A i \in DOMAIN leaves : OverlapsLeaf(leaves[i], Chunk) =>
    IsPurelyAdditive(leaves[i]) \/ leaves[i].frames = << >>
SubtractiveLeavesContainChunk ==
  \A i \in DOMAIN leaves :
    ~IsPurelyAdditive(leaves[i]) /\ OverlapsLeaf(leaves[i], Chunk) =>
      Encloses(Box[leaves[i].producer], Chunk)

BuildChunk ==
  CASE AnyMask ->
         IF AdditiveOver(Chunk) = {} THEN AllAir ELSE BuiltPerBlock
    [] ~AnyMask /\ ~FoldIsScopeTransparent -> BuiltPerBlock
    [] OTHER ->
         CASE ClassifyBlock(Chunk) = Air ->
                IF AdditiveOver(Chunk) = {} \/ SubtractiveLeavesContainChunk
                THEN AllAir ELSE BuiltPerBlock
           [] ClassifyBlock(Chunk).is = "coarse" ->
                IF Encloses(Box[OwnerOf(Chunk).producer], Chunk)
                THEN AllCoarse ELSE BuiltPerBlock
           [] OTHER -> BuiltPerBlock

(* expand_occupancy_into.                                                  *)
Expand(built) ==
  [v \in VoxelsOf(Chunk) |->
     LET cell == CHOOSE c \in Blocks : v \in VoxelsOf(c)
     IN  CASE built[cell].block = "air" -> Nothing
           [] built[cell].block = "coarse" -> built[cell].stamp
           [] OTHER -> built[cell].voxels[v]]

ResolveChunk == Root(Chunk).body

-----------------------------------------------------------------------------
(* Properties.                                                             *)

(* At every moment of the fold, at every depth of scopes and for every     *)
(* cell whose leaves are all bounded, the interval never claims more than  *)
(* the voxels bear out: a level that folded to nothing or to a field that  *)
(* is never negative holds no voxel, one that is never positive is full.   *)
(* The zero belongs to both: a field that reaches zero is occupied there,  *)
(* and it is subtracted as well as added.                                  *)
LevelIsSound(level) ==
  /\ level.interval = Empty => IsEmptyBody(level.body)
  /\ level.interval # Empty =>
       /\ level.interval[1] >= 0 => IsEmptyBody(level.body)
       /\ level.interval[2] <= 0 => IsFullBody(level.body)
FoldIsSound ==
  \A cell \in Cells : ~fold[cell].unbound =>
    \A i \in DOMAIN fold[cell].levels : LevelIsSound(fold[cell].levels[i])

(* Each expansion of a scope is sealed: the reference resolver, which      *)
(* tells scopes apart by their frames and skips the leaves that miss the   *)
(* chunk, resolves what folding every expansion apart gives.               *)
ScopesStaySealed == Done => ResolveChunk = sealed.bodies[1]

(* The chunk as built, with its dropped leaves, elided blocks and whole    *)
(* chunk verdicts, expands to exactly the voxels, ids and grid flags the   *)
(* reference resolver resolves, and those are the sealed fold's.           *)
BuiltIsDense == (Done => Expand(BuildChunk) = ResolveChunk) /\ ScopesStaySealed

(* Deciding the whole chunk from one interval stores the very blocks the   *)
(* block by block sweep would have stored, coarse where it is coarse.      *)
(* Where a stretched sphere reaches the chunk the code promises the same,  *)
(* but it may store coarse a block the sweep would have stored as voxels   *)
(* that all have the coarse block's stamp, and no more than that.          *)
AnyStretched == \E i \in DOMAIN leaves :
  IsStretched(leaves[i].producer) /\ OverlapsLeaf(leaves[i], Chunk)
SpelledOut(built, cell) ==
  [block |-> "micro", voxels |-> [v \in VoxelsOf(cell) |-> built.stamp]]
FastPathIsTheSweep ==
  Done => \A cell \in Blocks :
    \/ BuildChunk[cell] = BuiltPerBlock[cell]
    \/ /\ AnyStretched
       /\ BuildChunk[cell].block = "coarse"
       /\ BuiltPerBlock[cell] = SpelledOut(BuildChunk[cell], cell)

(* What the code says of every chunk: "only a verdict that provably        *)
(* implies the identical per-block outcome short-circuits".                *)
FastPathIsIdentical == Done => BuildChunk = BuiltPerBlock

=============================================================================
