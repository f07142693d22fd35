-------------------------- MODULE ChunkedRebuild --------------------------
(***************************************************************************)
(* AppCore::rebuild and what it feeds.  An edit of the scene is diffed      *)
(* against the leaf index of the last build; the box it dirtied evicts      *)
(* resident chunks, the covering chunks that are missing are resolved, and  *)
(* the hint "only these chunks changed" lets the cuboid mesher and the      *)
(* brick mirror patch what they hold instead of building it again.          *)
(*                                                                          *)
(* Space is one axis of voxels.  A leaf is a box with a content; a chunk's  *)
(* content is the fold of the leaves at each of its voxels.  The two faces  *)
(* of that axis stand for the six; union, subtract and intersect stand for  *)
(* the operations, of which intersect is the one that acts beyond its box.  *)
(***************************************************************************)
EXTENDS Integers, FiniteSets

CONSTANTS
    Slots,           \* places in document order: a finite set of naturals
    Leaves,          \* what an edit may put in a slot
    Densities,       \* voxels per block an edit may choose
    ChunkBlocks,     \* CHUNK_BLOCKS: blocks per chunk edge
    MaxChunkExtent,  \* a chunk with more voxels than this is rejected
    MaxPendingEdits, \* bound: edits between two successful builds
    Air, Nothing     \* no material; an empty slot or a value not there yet

ASSUME SlotsAreOrdered == Slots \subseteq Nat /\ IsFiniteSet(Slots)
ASSUME DensitiesArePositive ==
    /\ Densities \subseteq Nat \ {0}
    /\ ChunkBlocks \in Nat \ {0} /\ MaxChunkExtent \in Nat
    /\ MaxPendingEdits \in Nat
\* A leaf is a Tool, an outset scope composed into one body, or a cloud field.
Contents == {leaf.content : leaf \in Leaves}
LeafRecords ==
    [kind : {"tool", "composed", "cloud"}, op : {"union", "subtract", "intersect"},
     low : Nat, size : Nat \ {0}, content : Contents]
ASSUME LeavesAreLeaves == Leaves \subseteq LeafRecords
ASSUME NothingIsNoLeaf ==
    Nothing \notin LeafRecords /\ Nothing \notin [spanning : BOOLEAN, key : LeafRecords]

VARIABLES
    scene,      \* [Slots -> leaf or Nothing]: the document's leaves in order
    density,    \* scene.voxels_per_block
    dirty,      \* an edit asked for a rebuild that has not run yet
    pending,    \* edits since the last successful build
    previous,   \* previous_leaf_index, previous_recenter_voxels, previous_density
    cache,      \* two_layer_cache.resident: chunk coordinate -> content
    bound,      \* two_layer_cache.bound_density
    output,     \* two_layer_chunks handed to the shell by the last build
    hint,       \* incremental_dirty_chunks of the last build, or Nothing
    mesh,       \* the cuboid renderer's per-chunk state
    mirror      \* the brick mirror's records

vars == <<scene, density, dirty, pending, previous, cache, bound, output, hint,
          mesh, mirror>>

(***************************************************************************)
(* The scene: extents, index and the fold.                                  *)
(***************************************************************************)
Filled(s) == {i \in Slots : s[i] # Nothing}
Sized(s) == {i \in Filled(s) : s[i].kind # "cloud"}

Low(s) == CHOOSE n \in {s[i].low : i \in Sized(s)} :
              \A i \in Sized(s) : n <= s[i].low
High(s) == CHOOSE n \in {s[i].low + s[i].size : i \in Sized(s)} :
              \A i \in Sized(s) : n >= s[i].low + s[i].size
RegionSize(s) == IF Sized(s) = {} THEN 0 ELSE High(s) - Low(s)

\* placed_composite_center_voxels: the floor of the midpoint.
Recenter(s) == IF Sized(s) = {} THEN 0 ELSE (Low(s) + High(s)) \div 2

\* A cloud fills the whole composite region from its own offset.
Covers(s, i, v) ==
    LET extent == IF s[i].kind = "cloud" THEN RegionSize(s) ELSE s[i].size
    IN  s[i].low <= v /\ v < s[i].low + extent

\* What slot i stamps; a cloud's pattern depends on the region it is sized to.
Stamp(s, i) ==
    IF s[i].kind = "cloud" THEN <<s[i].content, RegionSize(s)>> ELSE <<s[i].content>>

\* The fold at one voxel, in document order: a union stamps over what is there,
\* a subtract clears what it covers, an intersect clears what it does not.
Clears(s, j, v) ==
    \/ s[j].op \in {"union", "subtract"} /\ Covers(s, j, v)
    \/ s[j].op = "intersect" /\ ~Covers(s, j, v)
Last(s, v) ==
    {i \in Filled(s) : /\ s[i].op = "union" /\ Covers(s, i, v)
                       /\ \A j \in Filled(s) : j > i => ~Clears(s, j, v)}
Cell(s, v) ==
    LET last == Last(s, v)
    IN  IF last = {} THEN Air ELSE Stamp(s, CHOOSE i \in last : TRUE)

Extent(d) == ChunkBlocks * d
ChunkVoxels(c, d) == c * Extent(d) .. (c + 1) * Extent(d) - 1

\* covering_chunk_range of a box [low, high).
ChunkRange(low, high, d) ==
    IF high <= low THEN {} ELSE low \div Extent(d) .. (high - 1) \div Extent(d)
Covering(s, d) ==
    IF Sized(s) = {} THEN {} ELSE ChunkRange(Low(s), High(s), d)

\* build_two_layer_chunk.
ResolveChunk(s, d, c) == [v \in ChunkVoxels(c, d) |-> Cell(s, v)]
ResolveAll(s, d) == [c \in Covering(s, d) |-> ResolveChunk(s, d, c)]

(***************************************************************************)
(* The leaf index and its diff.                                             *)
(***************************************************************************)
\* A composed scope's key carries its members' ids and its box, not what the
\* members hold; the slot stands for those ids.
Entry(s, i) ==
    IF s[i] = Nothing THEN Nothing
    ELSE [spanning |-> s[i].kind = "cloud" \/ s[i].op = "intersect",
          key |-> IF s[i].kind = "composed" THEN [s[i] EXCEPT !.content = i] ELSE s[i]]

LeafIndex(s) == [i \in Slots |-> Entry(s, i)]

Count(index, e) == Cardinality({i \in Slots : index[i] = e})
\* The multiset symmetric difference of two indexes.
ChangedEntries(index, old) ==
    {e \in {index[i] : i \in Slots} \cup {old[i] : i \in Slots} :
        e # Nothing /\ Count(index, e) # Count(old, e)}

\* edit_aabb_since gives no box: another density, or a leaf whose effect is not
\* confined to its box is among the changes.
NotLocalizable(index, old, d, oldDensity) ==
    \/ d # oldDensity
    \/ \E e \in ChangedEntries(index, old) : e.spanning

\* Slip: only where a leaf now is, not where it was.
DirtyRangeOfNewBoxes(index, old, d) ==
    LET changed == ChangedEntries(index, old) \cap {index[i] : i \in Slots}
    IN  UNION {ChunkRange(e.key.low, e.key.low + e.key.size, d) : e \in changed}

\* The chunks of the box that encloses every changed entry.
DirtyRange(index, old, d) ==
    LET changed == ChangedEntries(index, old)
        lows == {e.key.low : e \in changed}
        highs == {e.key.low + e.key.size : e \in changed}
    IN  IF changed = {} THEN {}
        ELSE ChunkRange(CHOOSE n \in lows : \A m \in lows : n <= m,
                        CHOOSE n \in highs : \A m \in highs : n >= m, d)

(***************************************************************************)
(* What the display derives from the covering chunks.                       *)
(***************************************************************************)
Occupied(chunks) == {c \in DOMAIN chunks : \E v \in DOMAIN chunks[c] : chunks[c][v] # Air}
Neighbourhood(coords) == UNION {{c - 1, c, c + 1} : c \in coords}

SolidAt(chunks, d, v) ==
    LET c == v \div Extent(d)
    IN  c \in DOMAIN chunks /\ chunks[c][v] # Air

\* One chunk's cuboids: its cells, the faces its neighbours cover, and the
\* recenter baked into every vertex.
MeshOfChunk(chunks, d, origin, c) ==
    [cells   |-> chunks[c],
     covered |-> <<SolidAt(chunks, d, c * Extent(d) - 1),
                   SolidAt(chunks, d, (c + 1) * Extent(d))>>,
     origin  |-> origin]

WholesaleMesh(chunks, d, origin) ==
    [sources |-> chunks,
     buffers |-> [c \in Occupied(chunks) |-> MeshOfChunk(chunks, d, origin, c)]]

\* Slip: the neighbours of a changed chunk keep their buffers.
PatchMeshUndilated(old, chunks, d, origin, evicted) ==
    LET occupied == Occupied(chunks)
        rebuild == (evicted \cup (occupied \ DOMAIN old.sources)) \cap occupied
        buffer(c) == IF c \in rebuild THEN MeshOfChunk(chunks, d, origin, c)
                     ELSE old.buffers[c]
    IN  [sources |-> [c \in occupied |-> chunks[c]],
         buffers |-> [c \in (DOMAIN old.buffers \cap occupied) \cup rebuild |-> buffer(c)]]

\* cuboid_incremental_plan and its application.
PatchMesh(old, chunks, d, origin, evicted) ==
    LET occupied == Occupied(chunks)
        seed == evicted \cup (occupied \ DOMAIN old.sources)
        rebuild == Neighbourhood(seed) \cap occupied
        kept(coords) == (coords \cap occupied) \ rebuild
    IN  [sources |-> [c \in kept(DOMAIN old.sources) \cup rebuild |->
                        IF c \in rebuild THEN chunks[c] ELSE old.sources[c]],
         buffers |-> [c \in kept(DOMAIN old.buffers) \cup rebuild |->
                        IF c \in rebuild THEN MeshOfChunk(chunks, d, origin, c)
                        ELSE old.buffers[c]]]

BlockVoxels(b, d) == b * d .. (b + 1) * d - 1
BlocksOf(c) == c * ChunkBlocks .. (c + 1) * ChunkBlocks - 1
ChunkOfBlock(b) == b \div ChunkBlocks

\* classify_block_brick: air gives no brick, one material a coarse one, the
\* rest a sculpted one.  A coarse brick between two solid faces is elided.
IsCoarse(cells) == \E m \in {cells[v] : v \in DOMAIN cells} :
                       \A v \in DOMAIN cells : cells[v] = m
Bricks(chunks, d, c) ==
    {[block |-> b,
      coarse |-> IsCoarse([v \in BlockVoxels(b, d) |-> chunks[c][v]]),
      cells |-> [v \in BlockVoxels(b, d) |-> chunks[c][v]]] :
        b \in {k \in BlocksOf(c) :
            \E v \in BlockVoxels(k, d) : chunks[c][v] # Air}}
Shown(chunks, d, brick) ==
    ~ /\ brick.coarse
      /\ SolidAt(chunks, d, brick.block * d - 1)
      /\ SolidAt(chunks, d, (brick.block + 1) * d)
ShownBricks(chunks, d, c) == {r \in Bricks(chunks, d, c) : Shown(chunks, d, r)}

\* build_brick_field.
WholesaleMirror(chunks, d) == UNION {ShownBricks(chunks, d, c) : c \in DOMAIN chunks}

\* Slip: only the dirty chunks' own records are built again.
PatchMirrorNoRing(old, chunks, d, changed) ==
    {r \in old : ChunkOfBlock(r.block) \notin changed}
        \cup UNION {ShownBricks(chunks, d, c) : c \in DOMAIN chunks \cap changed}

\* apply_dirty_update: a dirty chunk's records are built again; around it only
\* coarse records are, and sculpted ones stay as they are.
PatchMirror(old, chunks, d, changed) ==
    LET ring == Neighbourhood(changed) \ changed
        kept == {r \in old : /\ ChunkOfBlock(r.block) \notin changed
                             /\ ChunkOfBlock(r.block) \in ring => ~r.coarse}
        added == UNION {{r \in ShownBricks(chunks, d, c) : c \in ring => r.coarse} :
                            c \in DOMAIN chunks \cap (changed \cup ring)}
    IN  kept \cup added

(***************************************************************************)
(* Actions.                                                                 *)
(***************************************************************************)
Init ==
    /\ scene = [i \in Slots |-> Nothing]
    /\ density \in {d \in Densities : Extent(d) <= MaxChunkExtent}
    /\ dirty = TRUE /\ pending = 0
    /\ previous = Nothing /\ bound = Nothing /\ cache = <<>>
    /\ output = <<>> /\ hint = Nothing
    /\ mesh = [sources |-> <<>>, buffers |-> <<>>] /\ mirror = {}

\* Any intent that changes one leaf: add, remove, enable, move, resize, recolour,
\* change its operation; and the undo of each.
Edit(i, leaf) ==
    /\ pending < MaxPendingEdits
    /\ leaf # scene[i]
    /\ scene' = [scene EXCEPT ![i] = leaf]
    /\ dirty' = TRUE /\ pending' = pending + 1
    /\ UNCHANGED <<density, previous, cache, bound, output, hint, mesh, mirror>>

\* Intent::SetDensity keeps every leaf's place by rescaling it.
Rescaled(leaf, from, to) ==
    IF leaf = Nothing THEN Nothing
    ELSE [leaf EXCEPT !.low = (leaf.low * to) \div from,
                      !.size = IF (leaf.size * to) \div from = 0 THEN 1
                               ELSE (leaf.size * to) \div from]
SetDensity(d) ==
    /\ d # density
    /\ scene' = [i \in Slots |-> Rescaled(scene[i], density, d)]
    /\ density' = d /\ dirty' = TRUE
    /\ UNCHANGED <<pending, previous, cache, bound, output, hint, mesh, mirror>>

\* A density whose chunk is too large: nothing but the warning changes.
RejectDensity ==
    /\ dirty /\ Extent(density) > MaxChunkExtent
    /\ dirty' = FALSE
    /\ UNCHANGED <<scene, density, pending, previous, cache, bound, output, hint,
                   mesh, mirror>>

\* What stays resident when the build begins, and what the diff evicted.
Localized == /\ previous # Nothing
             /\ ~NotLocalizable(LeafIndex(scene), previous.index,
                                density, previous.density)
Evicted ==
    IF bound # Nothing /\ bound # density THEN DOMAIN cache
    ELSE DOMAIN cache \cap DirtyRange(LeafIndex(scene), previous.index, density)
Kept == IF Localized THEN DOMAIN cache \ Evicted ELSE {}
\* A chunk buffer bakes the recenter and the chunk grid into what it holds.
Reframed == /\ previous # Nothing
            /\ \/ previous.density # density
               \/ previous.recenter # Recenter(scene)

\* Slip: the hint lists where the changed leaves are, not where they were.
HintOfNewBoxes ==
    IF Localized /\ ~Reframed
    THEN Evicted \cap DirtyRangeOfNewBoxes(LeafIndex(scene), previous.index, density)
    ELSE Nothing

Hint == IF Localized /\ ~Reframed THEN Evicted ELSE Nothing

\* A cache bound to another density is dropped.
Resident == IF bound \in {Nothing, density} THEN Kept ELSE {}

Rebuild ==
    /\ dirty /\ Extent(density) <= MaxChunkExtent
    /\ LET resident == Resident
           covering == Covering(scene, density)
           filled == [c \in resident \cup covering |->
                        IF c \in resident THEN cache[c]
                        ELSE ResolveChunk(scene, density, c)]
           chunks == [c \in covering |-> filled[c]]
           origin == Recenter(scene)
       IN  /\ cache' = filled
           /\ output' = chunks
           /\ hint' = Hint
           /\ mesh' = IF hint' = Nothing THEN WholesaleMesh(chunks, density, origin)
                      ELSE PatchMesh(mesh, chunks, density, origin, hint')
           /\ mirror' = IF hint' = Nothing THEN WholesaleMirror(chunks, density)
                        ELSE PatchMirror(mirror, chunks, density, hint')
    /\ bound' = density
    /\ previous' = [index |-> LeafIndex(scene), density |-> density,
                    recenter |-> Recenter(scene)]
    /\ dirty' = FALSE /\ pending' = 0
    /\ UNCHANGED <<scene, density>>

Next ==
    \/ \E i \in Slots, leaf \in Leaves \cup {Nothing} : Edit(i, leaf)
    \/ \E d \in Densities : SetDensity(d)
    \/ RejectDensity
    \/ Rebuild

Spec == Init /\ [][Next]_vars

(***************************************************************************)
(* Properties.                                                              *)
(***************************************************************************)
\* The last build was of this scene at this density.
Settled == ~dirty /\ Extent(density) <= MaxChunkExtent

\* Evicting only the chunks the diff dirtied leaves what resolving every chunk
\* again would give, for the chunks handed out and for the residents that lie
\* outside the scene for now (AppCore::rebuild: "byte-identical either way").
ReassemblyIsWholesale ==
    Settled =>
        /\ output = ResolveAll(scene, density)
        /\ \A c \in DOMAIN cache : cache[c] = ResolveChunk(scene, density, c)

\* Meshing only what the plan names gives the buffers of a whole re-mesh, at
\* the present origin (cuboid_incremental_plan).
MeshIsWholesale ==
    Settled =>
        LET whole == WholesaleMesh(output, density, Recenter(scene))
        IN  /\ mesh.buffers = whole.buffers
            /\ \A c \in Occupied(output) :
                  c \in DOMAIN mesh.sources /\ mesh.sources[c] = output[c]

\* Patching the mirror gives the bricks of a whole build
\* (IncrementalBrickField::apply_dirty_update).
MirrorIsWholesale == Settled => mirror = WholesaleMirror(output, density)

\* A patch that starts from an exact mirror and covers the same chunks ends
\* with an exact mirror.
PatchKeepsMirrorExact ==
    [][/\ hint' # Nothing /\ previous # previous'
       /\ mirror = WholesaleMirror(output, density)
       /\ DOMAIN output = DOMAIN output'
       => mirror' = WholesaleMirror(output', density)]_vars

\* A chunk handed out before and after an incremental build and not named by
\* the hint holds what it held.
HintNamesEveryChange ==
    [][/\ hint' # Nothing /\ previous' # previous
       => \A c \in DOMAIN output \cap DOMAIN output' :
              output[c] # output'[c] => c \in hint']_vars

=============================================================================
