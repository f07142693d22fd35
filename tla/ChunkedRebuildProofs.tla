------------------------ MODULE ChunkedRebuildProofs ------------------------
(***************************************************************************)
(* Proofs about the incremental rebuild, for every grid, every density and *)
(* every set of leaves.                                                    *)
(*                                                                         *)
(* What the hint names is what was evicted, so the hint and the brick      *)
(* patch are exact whatever the leaves are.  That the chunks kept are those *)
(* of the scene rests on the diff: it sees which leaves changed, and not   *)
(* that leaves it takes as unchanged stand in another order.               *)
(***************************************************************************)
EXTENDS ChunkedRebuild, FiniteSetTheorems, WellFoundedInduction, TLAPS

(***************************************************************************)
(* Finite sets of integers.                                                *)
(***************************************************************************)

(* A finite set of integers that is not empty has a largest element.       *)
LEMMA LargestExists ==
  ASSUME NEW S \in SUBSET Int, IsFiniteSet(S), S # {}
  PROVE  \E m \in S : \A n \in S : m >= n
<1> DEFINE HasLargest(T) == \E m \in T : \A n \in T : m >= n
           Without == {T \in FiniteSubsetsOf(S) : T # {} /\ ~HasLargest(T)}
<1>1. S \in FiniteSubsetsOf(S)
  BY DEF FiniteSubsetsOf
<1>2. SUFFICES ASSUME Without # {} PROVE FALSE
  BY <1>1
<1>3. IsWellFoundedOn(StrictSubsetOrdering(S), FiniteSubsetsOf(S))
  BY FS_StrictSubsetOrderingWellFounded
<1>4. PICK T \in Without : \A U \in Without : <<U, T>> \notin StrictSubsetOrdering(S)
  BY <1>2, <1>3, WFMin
<1>5. PICK x \in T : TRUE
  BY <1>4
<1>6. T \subseteq Int /\ IsFiniteSet(T) /\ T \subseteq S
  BY <1>4 DEF FiniteSubsetsOf
<1> DEFINE rest == T \ {x}
<1>7. IsFiniteSet(rest) /\ rest \subseteq S
  BY <1>6, FS_RemoveElement
<1>8. rest \notin Without
  BY <1>4, <1>5, <1>6, <1>7 DEF StrictSubsetOrdering
<1>9. rest = {} \/ HasLargest(rest)
  BY <1>7, <1>8 DEF FiniteSubsetsOf
<1>10. CASE rest = {}
  <2>1. T = {x}
    BY <1>5, <1>10
  <2> QED
    BY <1>4, <1>5, <1>6, <2>1
<1>11. CASE HasLargest(rest)
  <2>1. PICK m \in rest : \A n \in rest : m >= n
    BY <1>11
  <2>2. \A n \in T : n = x \/ m >= n
    BY <2>1
  <2>3. m \in Int /\ x \in Int /\ m \in T /\ T \subseteq Int
    BY <1>5, <1>6, <2>1
  <2>4. CASE m >= x
    BY <1>4, <2>2, <2>3, <2>4
  <2>5. CASE ~(m >= x)
    <3>1. \A n \in T : x >= n
      BY <2>2, <2>3, <2>5
    <3> QED
      BY <1>4, <1>5, <3>1
  <2> QED
    BY <2>4, <2>5
<1> QED
  BY <1>9, <1>10, <1>11

(* And a least one.                                                        *)
LEMMA LeastExists ==
  ASSUME NEW S \in SUBSET Int, IsFiniteSet(S), S # {}
  PROVE  \E m \in S : \A n \in S : m <= n
<1> DEFINE f == [n \in S |-> 0 - n]
           T == {0 - n : n \in S}
<1>1. f \in Surjection(S, T)
  BY DEF Surjection
<1>2. IsFiniteSet(T)
  BY <1>1, FS_Surjection
<1>3. T \in SUBSET Int /\ T # {}
  OBVIOUS
<1> HIDE DEF T
<1>4. PICK k \in T : \A l \in T : k >= l
  BY <1>2, <1>3, LargestExists
<1>5. PICK m \in S : k = 0 - m
  BY <1>4 DEF T
<1>6. \A n \in S : 0 - n \in T
  BY DEF T
<1>7. \A n \in S : m <= n
  BY <1>4, <1>5, <1>6
<1> QED
  BY <1>7

(***************************************************************************)
(* Chunks, blocks and voxels.                                              *)
(***************************************************************************)

(* A chunk is as wide as its blocks, so it has a voxel at least.           *)
LEMMA ExtentIsPositive ==
  ASSUME NEW d \in Nat \ {0}
  PROVE  Extent(d) \in Nat \ {0}
<1>1. ChunkBlocks \in Nat \ {0}
  BY DensitiesArePositive
<1> QED
  BY <1>1 DEF Extent

(* Dividing by a width finds the interval of that width a number lies in.  *)
LEMMA Bucket ==
  ASSUME NEW e \in Nat \ {0}, NEW c \in Int, NEW v \in Int,
         c * e <= v, v < (c + 1) * e
  PROVE  v \div e = c
<1>1. /\ v \div e \in Int /\ (v \div e) * e <= v /\ v < (v \div e + 1) * e
  OBVIOUS
<1> DEFINE q == v \div e
<1>2. q \in Int /\ q * e <= v /\ v < (q + 1) * e
  BY <1>1
<1> HIDE DEF q
<1>3. ~(q < c)
  <2>1. SUFFICES ASSUME q < c PROVE FALSE
    OBVIOUS
  <2>2. c - (q + 1) \in Nat
    BY <1>2, <2>1
  <2>3. (c - (q + 1)) * e \in Nat /\ (c - (q + 1)) * e = c * e - (q + 1) * e
    BY <1>2, <2>2
  <2>4. c * e \in Int /\ (q + 1) * e \in Int
    BY <1>2
  <2> QED
    BY <1>2, <2>3, <2>4
<1>4. ~(c < q)
  <2>1. SUFFICES ASSUME c < q PROVE FALSE
    OBVIOUS
  <2>2. q - (c + 1) \in Nat
    BY <1>2, <2>1
  <2>3. (q - (c + 1)) * e \in Nat /\ (q - (c + 1)) * e = q * e - (c + 1) * e
    BY <1>2, <2>2
  <2>4. q * e \in Int /\ (c + 1) * e \in Int
    BY <1>2
  <2> QED
    BY <1>2, <2>3, <2>4
<1> QED
  BY <1>2, <1>3, <1>4 DEF q

(* Each number lies in the interval dividing finds.                        *)
LEMMA InBucket ==
  ASSUME NEW e \in Nat \ {0}, NEW v \in Int
  PROVE  /\ v \div e \in Int /\ (v \div e) * e <= v /\ v < (v \div e + 1) * e
OBVIOUS

(* Dividing keeps the order.                                               *)
LEMMA BucketsAreOrdered ==
  ASSUME NEW e \in Nat \ {0}, NEW v \in Int, NEW w \in Int, v <= w
  PROVE  v \div e <= w \div e
<1> DEFINE p == v \div e
           q == w \div e
<1>1. /\ p \in Int /\ p * e <= v /\ v < (p + 1) * e
      /\ q \in Int /\ q * e <= w /\ w < (q + 1) * e
  BY InBucket
<1> HIDE DEF p, q
<1>2. SUFFICES ASSUME q < p PROVE FALSE
  BY <1>1 DEF p, q
<1>3. p - (q + 1) \in Nat
  BY <1>1, <1>2
<1>4. (p - (q + 1)) * e \in Nat /\ (p - (q + 1)) * e = p * e - (q + 1) * e
  BY <1>1, <1>3
<1>5. p * e \in Int /\ (q + 1) * e \in Int
  BY <1>1
<1> QED
  BY <1>1, <1>4, <1>5

(***************************************************************************)
(* The hint.                                                               *)
(***************************************************************************)

\* Every chunk handed out is the resident one.
HandedOut ==
    /\ density \in Nat \ {0}
    /\ DOMAIN output \subseteq Int
    /\ \A c \in DOMAIN output : c \in DOMAIN cache /\ output[c] = cache[c]

(* The chunks that cover a box are integers.                               *)
LEMMA CoveringIsInt ==
  ASSUME NEW s, NEW d
  PROVE  Covering(s, d) \subseteq Int
BY DEF Covering, ChunkRange

(* A build hands out what it keeps resident: what it found there and did   *)
(* not evict, or what it resolved.                                         *)
LEMMA RebuildHandsOut ==
  ASSUME Rebuild
  PROVE  /\ DOMAIN output' = Covering(scene, density)
         /\ DOMAIN cache' = Resident \cup Covering(scene, density)
         /\ \A c \in DOMAIN output' : c \in DOMAIN cache' /\ output'[c] = cache'[c]
         /\ \A c \in DOMAIN cache' :
                cache'[c] = IF c \in Resident THEN cache[c]
                            ELSE ResolveChunk(scene, density, c)
<1> DEFINE covering == Covering(scene, density)
           filled == [c \in Resident \cup covering |->
                        IF c \in Resident THEN cache[c]
                        ELSE ResolveChunk(scene, density, c)]
<1>1. cache' = filled /\ output' = [c \in covering |-> filled[c]]
  BY DEF Rebuild, Resident
<1>2. DOMAIN filled = Resident \cup covering
  OBVIOUS
<1>3. \A c \in Resident \cup covering :
        filled[c] = IF c \in Resident THEN cache[c] ELSE ResolveChunk(scene, density, c)
  OBVIOUS
<1> HIDE DEF filled, covering
<1> QED
  BY <1>1, <1>2, <1>3 DEF covering

(* Every step keeps what is handed out resident.                           *)
LEMMA HandedOutIsInductive ==
  Init /\ [][Next]_vars => []HandedOut
<1>1. Init => HandedOut
  BY DensitiesArePositive DEF Init, HandedOut
<1>2. HandedOut /\ [Next]_vars => HandedOut'
  <2> SUFFICES ASSUME HandedOut, [Next]_vars PROVE HandedOut'
    OBVIOUS
  <2>1. CASE \E i \in Slots, leaf \in Leaves \cup {Nothing} : Edit(i, leaf)
    BY <2>1 DEF HandedOut, Edit
  <2>2. CASE \E d \in Densities : SetDensity(d)
    BY <2>2, DensitiesArePositive DEF HandedOut, SetDensity
  <2>3. CASE RejectDensity
    BY <2>3 DEF HandedOut, RejectDensity
  <2>4. CASE Rebuild
    <3>1. density' = density
      BY <2>4 DEF Rebuild
    <3> QED
      BY <2>4, <3>1, RebuildHandsOut, CoveringIsInt DEF HandedOut
  <2>5. CASE UNCHANGED vars
    BY <2>5 DEF HandedOut, vars
  <2> QED
    BY <2>1, <2>2, <2>3, <2>4, <2>5 DEF Next
<1> QED
  BY <1>1, <1>2, PTL

(* A build with a hint kept or evicted every resident, and the hint is what *)
(* it evicted.                                                             *)
LEMMA HintIsTheEvicted ==
  ASSUME Rebuild, hint' # Nothing
  PROVE  /\ hint' = Evicted /\ Localized
         /\ \A c \in DOMAIN cache : c \in Resident \/ c \in Evicted
<1>1. hint' = Evicted /\ Localized
  BY DEF Rebuild, Hint
<1>2. CASE bound \in {Nothing, density}
  BY <1>1, <1>2 DEF Resident, Kept
<1>3. CASE bound \notin {Nothing, density}
  BY <1>1, <1>3 DEF Evicted
<1> QED
  BY <1>1, <1>2, <1>3

(* Whatever the leaves are, a chunk handed out before and after an         *)
(* incremental build and not named by its hint holds what it held: the     *)
(* hint AppCore::rebuild gives the shell is enough to patch by.            *)
THEOREM HintIsExact ==
  Spec => HintNamesEveryChange
<1> DEFINE Named == hint' # Nothing /\ previous' # previous
                    => \A c \in DOMAIN output \cap DOMAIN output' :
                           output[c] # output'[c] => c \in hint'
<1>1. HandedOut /\ [Next]_vars => [Named]_vars
  <2> SUFFICES ASSUME HandedOut, Next, hint' # Nothing, previous' # previous,
                      NEW c \in DOMAIN output \cap DOMAIN output', c \notin hint'
               PROVE  output[c] = output'[c]
    OBVIOUS
  <2>1. Rebuild
    BY DEF Next, Edit, SetDensity, RejectDensity
  <2>2. c \in DOMAIN cache /\ output[c] = cache[c]
    BY DEF HandedOut
  <2>3. c \in Resident
    BY <2>1, <2>2, HintIsTheEvicted
  <2> QED
    BY <2>1, <2>2, <2>3, RebuildHandsOut
<1>2. Spec => []HandedOut
  BY HandedOutIsInductive DEF Spec
<1>3. Spec => [][Named]_vars
  BY <1>1, <1>2, PTL DEF Spec
<1> QED
  BY <1>3, PTL DEF HintNamesEveryChange

(***************************************************************************)
(* The brick mirror.                                                       *)
(***************************************************************************)

(* A chunk's bricks sit in its own blocks.                                 *)
LEMMA BricksStayInTheirChunk ==
  ASSUME NEW chunks, NEW d, NEW c \in Int, NEW r \in Bricks(chunks, d, c)
  PROVE  r.block \in Int /\ ChunkOfBlock(r.block) = c
<1>1. r.block \in BlocksOf(c)
  <2> DEFINE Cells(b) == [v \in BlockVoxels(b, d) |-> chunks[c][v]]
             Record(b) == [block |-> b, coarse |-> IsCoarse(Cells(b)), cells |-> Cells(b)]
  <2>1. PICK b \in BlocksOf(c) : r = Record(b)
    BY DEF Bricks
  <2>2. Record(b).block = b
    <3> HIDE DEF Cells
    <3> QED
      OBVIOUS
  <2> QED
    BY <2>1, <2>2
<1>2. ChunkBlocks \in Nat \ {0}
  BY DensitiesArePositive
<1>3. c * ChunkBlocks \in Int /\ (c + 1) * ChunkBlocks \in Int
  BY <1>2
<1>4. r.block \in Int /\ c * ChunkBlocks <= r.block /\ r.block < (c + 1) * ChunkBlocks
  BY <1>1, <1>3 DEF BlocksOf
<1> QED
  BY <1>2, <1>4, Bucket DEF ChunkOfBlock

(* The voxels before and after a block lie in its chunk or the one next to *)
(* it on that side.                                                        *)
LEMMA FacesLieNextDoor ==
  ASSUME NEW d \in Nat \ {0}, NEW b \in Int
  PROVE  LET c == ChunkOfBlock(b)
         IN  /\ c \in Int
             /\ (b * d - 1) \div Extent(d) \in {c - 1, c}
             /\ ((b + 1) * d) \div Extent(d) \in {c, c + 1}
<1> DEFINE c == ChunkOfBlock(b)
           e == Extent(d)
           before == (b * d - 1) \div e
           after == ((b + 1) * d) \div e
<1>1. ChunkBlocks \in Nat \ {0} /\ e = ChunkBlocks * d /\ e \in Nat \ {0}
  BY DensitiesArePositive, ExtentIsPositive DEF Extent
<1>2. c \in Int /\ c * ChunkBlocks <= b /\ b < (c + 1) * ChunkBlocks
  BY <1>1, InBucket DEF ChunkOfBlock
<1> HIDE DEF c
<1>3. /\ b - c * ChunkBlocks \in Nat
      /\ (c + 1) * ChunkBlocks - (b + 1) \in Nat
  BY <1>1, <1>2
<1>4. /\ (b - c * ChunkBlocks) * d \in Nat
      /\ (b - c * ChunkBlocks) * d = b * d - c * (ChunkBlocks * d)
      /\ ((c + 1) * ChunkBlocks - (b + 1)) * d \in Nat
      /\ ((c + 1) * ChunkBlocks - (b + 1)) * d
            = (c + 1) * (ChunkBlocks * d) - (b + 1) * d
  BY <1>1, <1>2, <1>3
<1>5. /\ b * d \in Int /\ (b + 1) * d = b * d + d
      /\ c * e \in Int /\ (c + 1) * e = c * e + e
      /\ (c - 1) * e = c * e - e /\ ((c + 1) + 1) * e = c * e + e + e
  BY <1>1, <1>2
<1>6. c * e <= b * d /\ (b + 1) * d <= c * e + e
  BY <1>1, <1>4, <1>5
<1> HIDE DEF e
<1>7. before \in {c - 1, c}
  <2>1. CASE c * e <= b * d - 1
    <3>1. b * d - 1 \in Int /\ b * d - 1 < (c + 1) * e
      BY <1>1, <1>5, <1>6
    <3> QED
      BY <1>1, <1>2, <2>1, <3>1, Bucket
  <2>2. CASE ~(c * e <= b * d - 1)
    <3>1. /\ b * d - 1 \in Int /\ c - 1 \in Int
          /\ (c - 1) * e <= b * d - 1 /\ b * d - 1 < ((c - 1) + 1) * e
      BY <1>1, <1>2, <1>5, <1>6, <2>2
    <3> QED
      BY <1>1, <3>1, Bucket
  <2> QED
    BY <2>1, <2>2
<1>8. after \in {c, c + 1}
  <2> DEFINE w == (b + 1) * d
  <2>1. w \in Int /\ c * e <= w /\ w <= c * e + e
    BY <1>1, <1>5, <1>6
  <2> HIDE DEF w
  <2>2. CASE w < (c + 1) * e
    <3>1. w \div e = c
      BY <1>1, <1>2, <2>1, <2>2, Bucket
    <3> QED
      BY <3>1 DEF w
  <2>3. CASE ~(w < (c + 1) * e)
    <3>1. c + 1 \in Int /\ (c + 1) * e <= w /\ w < ((c + 1) + 1) * e
      BY <1>1, <1>2, <1>5, <2>1, <2>3
    <3>2. w \div e = c + 1
      BY <1>1, <2>1, <3>1, Bucket
    <3> QED
      BY <3>2 DEF w
  <2> QED
    BY <2>2, <2>3
<1> QED
  BY <1>2, <1>7, <1>8 DEF c, e

(* A chunk whose content is the same in two builds has the same bricks.    *)
LEMMA SameContentSameBricks ==
  ASSUME NEW old, NEW new, NEW d, NEW c, old[c] = new[c]
  PROVE  Bricks(old, d, c) = Bricks(new, d, c)
BY DEF Bricks

(* Where neither a chunk nor its neighbours changed, the same bricks of it *)
(* are shown.                                                              *)
LEMMA SameNeighboursSameShown ==
  ASSUME NEW d \in Nat \ {0}, NEW old, NEW new, NEW changed,
         DOMAIN old = DOMAIN new,
         \A c \in DOMAIN old : old[c] # new[c] => c \in changed,
         NEW r, r.block \in Int,
         LET c == ChunkOfBlock(r.block)
         IN  c - 1 \notin changed /\ c \notin changed /\ c + 1 \notin changed
  PROVE  Shown(old, d, r) <=> Shown(new, d, r)
<1> DEFINE c == ChunkOfBlock(r.block)
           before == r.block * d - 1
           after == (r.block + 1) * d
<1>1. /\ before \div Extent(d) \in {c - 1, c}
      /\ after \div Extent(d) \in {c, c + 1}
  BY FacesLieNextDoor
<1>2. before \div Extent(d) \notin changed /\ after \div Extent(d) \notin changed
  BY <1>1
<1> HIDE DEF before, after
<1>3. \A v : v \div Extent(d) \notin changed => (SolidAt(old, d, v) <=> SolidAt(new, d, v))
  BY DEF SolidAt
<1>4. /\ SolidAt(old, d, before) <=> SolidAt(new, d, before)
      /\ SolidAt(old, d, after) <=> SolidAt(new, d, after)
  BY <1>2, <1>3
<1> QED
  BY <1>4 DEF Shown, before, after

(* A patched mirror is the mirror of a whole build: a changed chunk's      *)
(* records are built again, around it the coarse ones are, and a sculpted  *)
(* record is shown whatever its neighbours hold.                           *)
LEMMA PatchIsWholesale ==
  ASSUME NEW d \in Nat \ {0}, NEW old, NEW new, NEW changed,
         DOMAIN old = DOMAIN new, DOMAIN new \subseteq Int,
         \A c \in DOMAIN old : old[c] # new[c] => c \in changed
  PROVE  PatchMirror(WholesaleMirror(old, d), new, d, changed) = WholesaleMirror(new, d)
<1> DEFINE ring == Neighbourhood(changed) \ changed
           Home(r) == ChunkOfBlock(r.block)
           Old == WholesaleMirror(old, d)
           New == WholesaleMirror(new, d)
           kept == {r \in Old : /\ Home(r) \notin changed
                                /\ Home(r) \in ring => ~r.coarse}
           added == UNION {{r \in ShownBricks(new, d, c) : c \in ring => r.coarse} :
                               c \in DOMAIN new \cap (changed \cup ring)}
<1>1. PatchMirror(Old, new, d, changed) = kept \cup added
  BY DEF PatchMirror
<1>2. \A r : r \in Old <=> \E c \in DOMAIN new : r \in Bricks(old, d, c) /\ Shown(old, d, r)
  BY DEF WholesaleMirror, ShownBricks
<1>3. \A r : r \in New <=> \E c \in DOMAIN new : r \in Bricks(new, d, c) /\ Shown(new, d, r)
  BY DEF WholesaleMirror, ShownBricks
<1>4. \A r : r \in added <=> \E c \in DOMAIN new :
                /\ r \in Bricks(new, d, c) /\ Shown(new, d, r)
                /\ c \in changed \cup ring /\ (c \in ring => r.coarse)
  BY DEF ShownBricks
<1>5. \A c \in DOMAIN new : c \notin changed => Bricks(old, d, c) = Bricks(new, d, c)
  BY SameContentSameBricks
<1>6. \A c \in DOMAIN new : \A r \in Bricks(new, d, c) \cup Bricks(old, d, c) :
        r.block \in Int /\ Home(r) = c
  BY BricksStayInTheirChunk
<1>7. \A c \in DOMAIN new : c \notin changed \cup ring
          => c - 1 \notin changed /\ c + 1 \notin changed
  BY DEF Neighbourhood
<1>8. \A r : ~r.coarse => Shown(old, d, r) /\ Shown(new, d, r)
  BY DEF Shown
<1>9. ASSUME NEW c \in DOMAIN new, NEW r \in Bricks(new, d, c), c \notin changed \cup ring
      PROVE  Shown(old, d, r) <=> Shown(new, d, r)
  <2>1. r.block \in Int /\ ChunkOfBlock(r.block) = c
    BY <1>6
  <2>2. c - 1 \notin changed /\ c \notin changed /\ c + 1 \notin changed
    BY <1>7, <1>9
  <2> QED
    BY <2>1, <2>2, SameNeighboursSameShown
<1> HIDE DEF Old, New, added, ring
<1>10. ASSUME NEW r \in kept PROVE r \in New
  <2>1. PICK c \in DOMAIN new : r \in Bricks(old, d, c) /\ Shown(old, d, r)
    BY <1>2
  <2>2. c \notin changed /\ (c \in ring => ~r.coarse)
    BY <1>6, <2>1
  <2>3. r \in Bricks(new, d, c)
    BY <1>5, <2>1, <2>2
  <2>4. Shown(new, d, r)
    BY <1>8, <1>9, <2>1, <2>2, <2>3
  <2> QED
    BY <1>3, <2>3, <2>4
<1>11. ASSUME NEW r \in New PROVE r \in kept \cup added
  <2>1. PICK c \in DOMAIN new : r \in Bricks(new, d, c) /\ Shown(new, d, r)
    BY <1>3
  <2>2. CASE c \in changed \cup ring /\ (c \in ring => r.coarse)
    BY <1>4, <2>1, <2>2
  <2>3. CASE c \notin changed /\ (c \in ring => ~r.coarse)
    <3>1. r \in Bricks(old, d, c)
      BY <1>5, <2>1, <2>3
    <3>2. Shown(old, d, r)
      BY <1>8, <1>9, <2>1, <2>3
    <3>3. Home(r) = c /\ r \in Old
      BY <1>2, <1>6, <3>1, <3>2
    <3> QED
      BY <2>3, <3>3
  <2>4. c \in changed => c \notin ring
    BY DEF ring
  <2> QED
    BY <2>2, <2>3, <2>4
<1>12. \A r : r \in added => r \in New
  BY <1>3, <1>4
<1>13. kept \cup added = New
  BY <1>10, <1>11, <1>12
<1> QED
  BY <1>1, <1>13 DEF Old, New

(* Whatever the leaves are, a patch that starts from an exact mirror and   *)
(* covers the same chunks ends with the mirror a whole build would give    *)
(* (IncrementalBrickField::apply_dirty_update).                            *)
THEOREM MirrorPatchIsExact ==
  Spec => PatchKeepsMirrorExact
<1> DEFINE Exact == /\ hint' # Nothing /\ previous # previous'
                    /\ mirror = WholesaleMirror(output, density)
                    /\ DOMAIN output = DOMAIN output'
                    => mirror' = WholesaleMirror(output', density)
<1>1. HandedOut /\ [Next]_vars => [Exact]_vars
  <2> SUFFICES ASSUME HandedOut, Next, hint' # Nothing, previous # previous',
                      mirror = WholesaleMirror(output, density),
                      DOMAIN output = DOMAIN output'
               PROVE  mirror' = WholesaleMirror(output', density)
    OBVIOUS
  <2>1. Rebuild
    BY DEF Next, Edit, SetDensity, RejectDensity
  <2>2. density \in Nat \ {0} /\ DOMAIN output \subseteq Int
    BY DEF HandedOut
  <2>3. \A c \in DOMAIN output : output[c] # output'[c] => c \in hint'
    <3> SUFFICES ASSUME NEW c \in DOMAIN output, c \notin hint'
                 PROVE  output[c] = output'[c]
      OBVIOUS
    <3>1. c \in DOMAIN cache /\ output[c] = cache[c]
      BY DEF HandedOut
    <3>2. c \in Resident
      BY <2>1, <3>1, HintIsTheEvicted
    <3> QED
      BY <2>1, <3>1, <3>2, RebuildHandsOut
  <2>4. mirror' = PatchMirror(mirror, output', density, hint')
    BY <2>1 DEF Rebuild
  <2> QED
    BY <2>2, <2>3, <2>4, PatchIsWholesale
<1>2. Spec => []HandedOut
  BY HandedOutIsInductive DEF Spec
<1>3. Spec => [][Exact]_vars
  BY <1>1, <1>2, PTL DEF Spec
<1> QED
  BY <1>3, PTL DEF PatchKeepsMirrorExact

(***************************************************************************)
(* The leaf diff, for scenes of tools.                                     *)
(***************************************************************************)
Tool == {leaf \in LeafRecords : leaf.kind = "tool"}
Scenes == [Slots -> Tool \cup {Nothing}]

\* The entry is in both indexes, the same number of times.
Steady(entry, index, old) ==
    entry # Nothing /\ entry \notin ChangedEntries(index, old)

\* Equal entries paired off: every steady one of each index has a partner, and
\* partners stand in the same order.
Matches(pairs, index, old) ==
    /\ \A i \in Slots : Steady(index[i], index, old) => \E j \in Slots : <<i, j>> \in pairs
    /\ \A j \in Slots : Steady(old[j], index, old) => \E i \in Slots : <<i, j>> \in pairs
    /\ \A i, j \in Slots : <<i, j>> \in pairs => index[i] = old[j]
    /\ \A i, j, k, l \in Slots :
            <<i, j>> \in pairs /\ <<k, l>> \in pairs => (i < k <=> j < l)

\* The leaves the diff takes as unchanged stand in the order they stood in.
SameOrder(index, old) ==
    \E pairs \in SUBSET (Slots \X Slots) : Matches(pairs, index, old)

(* A tool's entry is its key and says whether it spans, and so names it.   *)
LEMMA EntryOfATool ==
  ASSUME NEW s \in Scenes, NEW i \in Slots
  PROVE  /\ s[i] = Nothing => LeafIndex(s)[i] = Nothing
         /\ s[i] # Nothing => /\ s[i] \in Tool /\ LeafIndex(s)[i] # Nothing
                              /\ LeafIndex(s)[i].key = s[i]
                              /\ LeafIndex(s)[i].spanning = (s[i].op = "intersect")
<1>1. LeafIndex(s)[i] = Entry(s, i)
  BY DEF LeafIndex
<1>2. CASE s[i] = Nothing
  BY <1>1, <1>2 DEF Entry
<1>3. CASE s[i] # Nothing
  <2> DEFINE e == [spanning |-> s[i].op = "intersect", key |-> s[i]]
  <2>1. s[i] \in Tool
    BY <1>3 DEF Scenes
  <2>2. s[i] \in LeafRecords /\ s[i].kind = "tool"
    BY <2>1 DEF Tool
  <2>3. Entry(s, i) = e
    BY <1>3, <2>2 DEF Entry
  <2>4. e \in [spanning : BOOLEAN, key : LeafRecords]
    BY <2>2
  <2>5. e # Nothing
    BY <2>4, NothingIsNoLeaf
  <2>6. e.key = s[i] /\ e.spanning = (s[i].op = "intersect")
    OBVIOUS
  <2> QED
    BY <1>1, <1>3, <2>1, <2>3, <2>5, <2>6
<1> QED
  BY <1>2, <1>3

(* Which box a tool covers is its own business.                            *)
LEMMA ToolCovers ==
  ASSUME NEW s \in Scenes, NEW i \in Filled(s), NEW v
  PROVE  /\ i \in Slots /\ s[i] \in Tool /\ s[i].low \in Nat /\ s[i].size \in Nat \ {0}
         /\ s[i].op \in {"union", "subtract", "intersect"}
         /\ Covers(s, i, v) <=> s[i].low <= v /\ v < s[i].low + s[i].size
         /\ Stamp(s, i) = <<s[i].content>>
<1>1. i \in Slots /\ s[i] # Nothing
  BY DEF Filled
<1>2. s[i] \in Tool
  BY <1>1 DEF Scenes
<1>3. s[i] \in LeafRecords /\ s[i].kind = "tool"
  BY <1>2 DEF Tool
<1>4. /\ s[i].low \in Nat /\ s[i].size \in Nat \ {0}
      /\ s[i].op \in {"union", "subtract", "intersect"}
  BY <1>3 DEF LeafRecords
<1>5. /\ Covers(s, i, v) <=> s[i].low <= v /\ v < s[i].low + s[i].size
      /\ Stamp(s, i) = <<s[i].content>>
  BY <1>3 DEF Covers, Stamp
<1> QED
  BY <1>1, <1>2, <1>4, <1>5

(* At most one leaf is the last to stamp a voxel: of two, the later would  *)
(* stamp over the earlier.                                                 *)
LEMMA LastIsUnique ==
  ASSUME NEW s, NEW v, NEW i \in Last(s, v), NEW j \in Last(s, v)
  PROVE  i = j
<1>1. i \in Nat /\ j \in Nat
  BY SlotsAreOrdered DEF Last, Filled
<1>2. ~(j > i) /\ ~(i > j)
  BY DEF Last, Clears
<1> QED
  BY <1>1, <1>2

\* Whether a tool has a say in what a voxel holds.
Acts(leaf, v) == leaf.op = "intersect" \/ (leaf.low <= v /\ v < leaf.low + leaf.size)

\* Every leaf of the scene with a say at the voxel is steady.
Undisturbed(s, index, old, v) ==
    \A i \in Filled(s) : Acts(s[i], v) => Steady(LeafIndex(s)[i], index, old)

(* Where no changed leaf has a say, the last leaf to stamp a voxel has a   *)
(* partner that is the last to stamp it in the other scene.                *)
LEMMA LastCarriesOver ==
  ASSUME NEW s \in Scenes, NEW t \in Scenes, NEW v,
         NEW pairs, Matches(pairs, LeafIndex(s), LeafIndex(t)),
         Undisturbed(s, LeafIndex(s), LeafIndex(t), v),
         Undisturbed(t, LeafIndex(s), LeafIndex(t), v),
         NEW i \in Last(s, v)
  PROVE  \E j \in Last(t, v) : t[j] = s[i]
<1> DEFINE index == LeafIndex(s)
           old == LeafIndex(t)
<1>1. i \in Filled(s) /\ s[i].op = "union" /\ Covers(s, i, v)
  BY DEF Last
<1>2. i \in Slots /\ s[i] # Nothing /\ Acts(s[i], v)
  BY <1>1, ToolCovers DEF Acts, Filled
<1>3. Steady(index[i], index, old)
  BY <1>1, <1>2 DEF Undisturbed
<1>4. PICK j \in Slots : <<i, j>> \in pairs
  BY <1>2, <1>3 DEF Matches
<1>5. index[i] = old[j]
  BY <1>2, <1>4 DEF Matches
<1>6. t[j] = s[i] /\ j \in Filled(t)
  BY <1>2, <1>5, EntryOfATool DEF Filled
<1>7. t[j].op = "union" /\ Covers(t, j, v)
  BY <1>1, <1>6, ToolCovers
<1>8. ASSUME NEW k \in Filled(t), k > j, Clears(t, k, v) PROVE FALSE
  <2>1. k \in Slots /\ t[k] # Nothing
    BY DEF Filled
  <2>2. Acts(t[k], v)
    BY <1>8, ToolCovers DEF Acts, Clears
  <2>3. Steady(old[k], index, old)
    BY <2>2 DEF Undisturbed
  <2>4. PICK h \in Slots : <<h, k>> \in pairs
    BY <2>1, <2>3 DEF Matches
  <2>5. index[h] = old[k]
    BY <2>1, <2>4 DEF Matches
  <2>6. s[h] = t[k] /\ h \in Filled(s)
    BY <2>1, <2>5, EntryOfATool DEF Filled
  <2>7. Covers(s, h, v) <=> Covers(t, k, v)
    BY <2>6, ToolCovers
  <2>8. Clears(s, h, v)
    BY <1>8, <2>6, <2>7 DEF Clears
  <2>9. i < h <=> j < k
    BY <1>2, <1>4, <2>1, <2>4 DEF Matches
  <2>10. h > i
    BY <1>2, <1>8, <2>1, <2>9, SlotsAreOrdered
  <2> QED
    BY <2>6, <2>8, <2>10 DEF Last
<1>9. j \in Last(t, v)
  BY <1>6, <1>7, <1>8 DEF Last
<1> QED
  BY <1>6, <1>9

(* Partners can be read either way.                                        *)
LEMMA MatchesAreSymmetric ==
  ASSUME NEW index, NEW old, NEW pairs, Matches(pairs, index, old)
  PROVE  Matches({<<pair[2], pair[1]>> : pair \in pairs \cap (Slots \X Slots)}, old, index)
<1> DEFINE back == {<<pair[2], pair[1]>> : pair \in pairs \cap (Slots \X Slots)}
<1>1. \A i, j \in Slots : <<i, j>> \in back <=> <<j, i>> \in pairs
  <2> TAKE i, j \in Slots
  <2>1. ASSUME <<i, j>> \in back PROVE <<j, i>> \in pairs
    <3>1. PICK pair \in pairs \cap (Slots \X Slots) : <<i, j>> = <<pair[2], pair[1]>>
      BY <2>1
    <3>2. pair = <<j, i>>
      BY <3>1
    <3> QED
      BY <3>1, <3>2
  <2>2. ASSUME <<j, i>> \in pairs PROVE <<i, j>> \in back
    BY <2>2
  <2> QED
    BY <2>1, <2>2
<1>2. ChangedEntries(index, old) = ChangedEntries(old, index)
  BY DEF ChangedEntries
<1>3. \A e : Steady(e, index, old) <=> Steady(e, old, index)
  BY <1>2 DEF Steady
<1> HIDE DEF back
<1>4. \A i \in Slots : Steady(old[i], old, index) => \E j \in Slots : <<i, j>> \in back
  BY <1>1, <1>3 DEF Matches
<1>5. \A j \in Slots : Steady(index[j], old, index) => \E i \in Slots : <<i, j>> \in back
  BY <1>1, <1>3 DEF Matches
<1>6. \A i, j \in Slots : <<i, j>> \in back => old[i] = index[j]
  BY <1>1 DEF Matches
<1>7. \A i, j, k, l \in Slots :
          <<i, j>> \in back /\ <<k, l>> \in back => (i < k <=> j < l)
  <2> TAKE i, j, k, l \in Slots
  <2> HAVE <<i, j>> \in back /\ <<k, l>> \in back
  <2>1. <<j, i>> \in pairs /\ <<l, k>> \in pairs
    BY <1>1
  <2>2. j < l <=> i < k
    BY <2>1 DEF Matches
  <2> QED
    BY <2>2
<1>8. Matches(back, old, index)
  BY <1>4, <1>5, <1>6, <1>7 DEF Matches
<1> QED
  BY <1>8 DEF back

(* A voxel no changed leaf has a say in holds what it held.                *)
LEMMA CellIsLocal ==
  ASSUME NEW s \in Scenes, NEW t \in Scenes, NEW v,
         SameOrder(LeafIndex(s), LeafIndex(t)),
         Undisturbed(s, LeafIndex(s), LeafIndex(t), v),
         Undisturbed(t, LeafIndex(s), LeafIndex(t), v)
  PROVE  Cell(s, v) = Cell(t, v)
<1>1. PICK pairs \in SUBSET (Slots \X Slots) : Matches(pairs, LeafIndex(s), LeafIndex(t))
  BY DEF SameOrder
<1>2. \A i \in Last(s, v) : \E j \in Last(t, v) : t[j] = s[i]
  BY <1>1, LastCarriesOver
<1>3. \A j \in Last(t, v) : \E i \in Last(s, v) : s[i] = t[j]
  <2>1. ChangedEntries(LeafIndex(s), LeafIndex(t)) = ChangedEntries(LeafIndex(t), LeafIndex(s))
    BY DEF ChangedEntries
  <2>2. /\ Undisturbed(s, LeafIndex(t), LeafIndex(s), v)
        /\ Undisturbed(t, LeafIndex(t), LeafIndex(s), v)
    BY <2>1 DEF Undisturbed, Steady
  <2>3. \E back : Matches(back, LeafIndex(t), LeafIndex(s))
    BY <1>1, MatchesAreSymmetric
  <2> QED
    BY <2>2, <2>3, LastCarriesOver
<1>4. CASE Last(s, v) = {}
  BY <1>3, <1>4 DEF Cell
<1>5. CASE Last(s, v) # {}
  <2> DEFINE i == CHOOSE k \in Last(s, v) : TRUE
             j == CHOOSE k \in Last(t, v) : TRUE
  <2>1. i \in Last(s, v) /\ Last(t, v) # {}
    BY <1>2, <1>5
  <2>2. j \in Last(t, v)
    BY <2>1
  <2>3. Cell(s, v) = Stamp(s, i) /\ Cell(t, v) = Stamp(t, j)
    BY <1>5, <2>1 DEF Cell
  <2> HIDE DEF i, j
  <2>4. PICK k \in Last(t, v) : t[k] = s[i]
    BY <1>2, <2>1
  <2>5. k = j
    BY <2>2, <2>4, LastIsUnique
  <2>6. i \in Filled(s) /\ j \in Filled(t)
    BY <2>1, <2>2 DEF Last
  <2>7. Stamp(s, i) = <<s[i].content>> /\ Stamp(t, j) = <<t[j].content>>
    BY <2>6, ToolCovers
  <2> QED
    BY <2>3, <2>4, <2>5, <2>7
<1> QED
  BY <1>4, <1>5

(* The image of a finite set is finite, for a function.                    *)
LEMMA FiniteImage ==
  ASSUME NEW S, IsFiniteSet(S), NEW f, DOMAIN f = S, f = [x \in S |-> f[x]]
  PROVE  IsFiniteSet({f[x] : x \in S})
<1> DEFINE T == {f[x] : x \in S}
<1>1. f \in Surjection(S, T)
  BY DEF Surjection
<1> QED
  BY <1>1, FS_Surjection

(* The changed entries are finitely many, each that of a tool in one of    *)
(* the two scenes.                                                         *)
LEMMA ChangedAreTools ==
  ASSUME NEW s \in Scenes, NEW t \in Scenes
  PROVE  LET changed == ChangedEntries(LeafIndex(s), LeafIndex(t))
         IN  /\ IsFiniteSet(changed)
             /\ \A e \in changed : e.key.low \in Nat /\ e.key.size \in Nat \ {0}
<1> DEFINE index == LeafIndex(s)
           old == LeafIndex(t)
           changed == ChangedEntries(index, old)
           mine == {index[i] : i \in Slots}
           theirs == {old[i] : i \in Slots}
<1>1. IsFiniteSet(mine) /\ IsFiniteSet(theirs)
  <2>1. /\ DOMAIN index = Slots /\ index = [i \in Slots |-> index[i]]
        /\ DOMAIN old = Slots /\ old = [i \in Slots |-> old[i]]
    BY DEF LeafIndex
  <2> HIDE DEF index, old
  <2> QED
    BY <2>1, SlotsAreOrdered, FiniteImage
<1>2. IsFiniteSet(mine \cup theirs)
  BY <1>1, FS_Union
<1>3. changed \in SUBSET (mine \cup theirs)
  BY DEF ChangedEntries
<1>4. IsFiniteSet(changed)
  BY <1>2, <1>3, FS_Subset
<1>5. ASSUME NEW e \in changed PROVE e.key.low \in Nat /\ e.key.size \in Nat \ {0}
  <2>1. e # Nothing /\ \E i \in Slots : e = index[i] \/ e = old[i]
    BY DEF ChangedEntries
  <2>2. e.key \in Tool
    BY <2>1, EntryOfATool
  <2>3. e.key \in LeafRecords
    BY <2>2 DEF Tool
  <2> QED
    BY <2>3 DEF LeafRecords
<1> QED
  BY <1>4, <1>5

(* A chunk outside the dirty range has no voxel in a changed leaf's box.   *)
LEMMA DirtyRangeCoversChanges ==
  ASSUME NEW s \in Scenes, NEW t \in Scenes, NEW d \in Nat \ {0}, NEW c \in Int,
         c \notin DirtyRange(LeafIndex(s), LeafIndex(t), d),
         NEW v \in ChunkVoxels(c, d),
         NEW e \in ChangedEntries(LeafIndex(s), LeafIndex(t))
  PROVE  ~(e.key.low <= v /\ v < e.key.low + e.key.size)
<1> DEFINE changed == ChangedEntries(LeafIndex(s), LeafIndex(t))
           lows == {x.key.low : x \in changed}
           highs == {x.key.low + x.key.size : x \in changed}
           low == CHOOSE n \in lows : \A m \in lows : n <= m
           high == CHOOSE n \in highs : \A m \in highs : n >= m
           w == Extent(d)
<1>1. c \notin ChunkRange(low, high, d)
  BY DEF DirtyRange
<1>2. IsFiniteSet(changed) /\ \A x \in changed : x.key.low \in Nat /\ x.key.size \in Nat \ {0}
  BY ChangedAreTools
<1>3. e \in changed
  OBVIOUS
<1> HIDE DEF changed
<1>4. IsFiniteSet(lows) /\ IsFiniteSet(highs)
  <2> DEFINE f == [x \in changed |-> x.key.low]
             g == [x \in changed |-> x.key.low + x.key.size]
  <2>1. IsFiniteSet({f[x] : x \in changed}) /\ IsFiniteSet({g[x] : x \in changed})
    <3>1. DOMAIN f = changed /\ f = [x \in changed |-> f[x]]
      OBVIOUS
    <3>2. DOMAIN g = changed /\ g = [x \in changed |-> g[x]]
      OBVIOUS
    <3> HIDE DEF f, g
    <3> QED
      BY <1>2, <3>1, <3>2, FiniteImage
  <2>2. {f[x] : x \in changed} = lows /\ {g[x] : x \in changed} = highs
    OBVIOUS
  <2> HIDE DEF f, g, lows, highs
  <2> QED
    BY <2>1, <2>2
<1>5. lows \in SUBSET Int /\ highs \in SUBSET Int
  BY <1>2
<1>6. e.key.low \in lows /\ e.key.low + e.key.size \in highs
  BY <1>3
<1> HIDE DEF lows, highs
<1>7. low \in lows /\ \A m \in lows : low <= m
  BY <1>4, <1>5, <1>6, LeastExists
<1>8. high \in highs /\ \A m \in highs : high >= m
  BY <1>4, <1>5, <1>6, LargestExists
<1> HIDE DEF low, high
<1>9. /\ low \in Int /\ high \in Int /\ e.key.low \in Nat /\ e.key.size \in Nat
      /\ low <= e.key.low /\ e.key.low + e.key.size <= high
  BY <1>2, <1>3, <1>5, <1>6, <1>7, <1>8
<1>10. w \in Nat \ {0}
  BY ExtentIsPositive
<1>11. v \in Int /\ v \div w = c
  <2>1. c * w \in Int /\ (c + 1) * w \in Int
    BY <1>10
  <2>2. v \in Int /\ c * w <= v /\ v < (c + 1) * w
    BY <2>1 DEF ChunkVoxels
  <2> HIDE DEF w
  <2> QED
    BY <1>10, <2>2, Bucket
<1>12. SUFFICES ASSUME e.key.low <= v, v < e.key.low + e.key.size PROVE FALSE
  OBVIOUS
<1>13. low <= v /\ v <= high - 1 /\ low < high
  BY <1>9, <1>11, <1>12
<1>14. low \div w <= c /\ c <= (high - 1) \div w
  <2> HIDE DEF w
  <2>1. low \div w <= v \div w
    BY <1>9, <1>10, <1>11, <1>13, BucketsAreOrdered
  <2>2. v \div w <= (high - 1) \div w
    <3>1. high - 1 \in Int
      BY <1>9
    <3> QED
      BY <1>10, <1>11, <1>13, <3>1, BucketsAreOrdered
  <2> QED
    BY <1>11, <2>1, <2>2
<1>15. low \div w \in Int /\ (high - 1) \div w \in Int
  BY <1>9, <1>10
<1>16. c \in low \div w .. (high - 1) \div w
  BY <1>14, <1>15
<1>17. ~(high <= low)
  BY <1>9, <1>13
<1> QED
  BY <1>1, <1>16, <1>17 DEF ChunkRange

(* A chunk the diff leaves alone holds what it held, when no spanning leaf *)
(* changed and the others kept their order.                                *)
LEMMA ChunkIsLocal ==
  ASSUME NEW s \in Scenes, NEW t \in Scenes, NEW d \in Nat \ {0}, NEW c \in Int,
         c \notin DirtyRange(LeafIndex(s), LeafIndex(t), d),
         ~NotLocalizable(LeafIndex(s), LeafIndex(t), d, d),
         SameOrder(LeafIndex(s), LeafIndex(t))
  PROVE  ResolveChunk(s, d, c) = ResolveChunk(t, d, c)
<1> DEFINE index == LeafIndex(s)
           old == LeafIndex(t)
<1>1. ASSUME NEW v \in ChunkVoxels(c, d), NEW u \in {s, t}
      PROVE  Undisturbed(u, index, old, v)
  <2> SUFFICES ASSUME NEW i \in Filled(u), Acts(u[i], v),
                      LeafIndex(u)[i] \in ChangedEntries(index, old)
               PROVE  FALSE
    <3>1. \A i \in Filled(u) : LeafIndex(u)[i] # Nothing
      BY EntryOfATool DEF Filled
    <3> QED
      BY <3>1 DEF Undisturbed, Steady
  <2>1. u \in Scenes /\ i \in Slots /\ u[i] # Nothing
    BY DEF Filled
  <2>2. /\ LeafIndex(u)[i].key = u[i]
        /\ LeafIndex(u)[i].spanning = (u[i].op = "intersect")
    BY <2>1, EntryOfATool
  <2>3. ~LeafIndex(u)[i].spanning
    BY DEF NotLocalizable
  <2>4. u[i].op # "intersect"
    BY <2>2, <2>3
  <2> DEFINE e == LeafIndex(u)[i]
  <2>5. ~(e.key.low <= v /\ v < e.key.low + e.key.size)
    <3> HIDE DEF e
    <3>1. e \in ChangedEntries(index, old)
      BY DEF e
    <3> QED
      BY <3>1, DirtyRangeCoversChanges
  <2> QED
    BY <2>2, <2>4, <2>5 DEF Acts
<1>2. \A v \in ChunkVoxels(c, d) : Cell(s, v) = Cell(t, v)
  BY <1>1, CellIsLocal
<1> QED
  BY <1>2 DEF ResolveChunk

(***************************************************************************)
(* Reassembly, for scenes of tools.                                        *)
(***************************************************************************)

\* The residents are those of the scene the index was taken of.
BuiltFrom(built) ==
    /\ previous.index = LeafIndex(built)
    /\ \A c \in DOMAIN cache :
          c \in Int /\ cache[c] = ResolveChunk(built, previous.density, c)

RebuildInv ==
    /\ scene \in Scenes /\ density \in Nat \ {0}
    /\ previous # Nothing => \E built \in Scenes : BuiltFrom(built)
    /\ ReassemblyIsWholesale

\* No build takes leaves as unchanged that stand in another order.
KeepsOrder == Rebuild /\ Localized => SameOrder(LeafIndex(scene), previous.index)

(* A leaf an edit may put in a slot is a tool, when all of them are.       *)
LEMMA EditsAreTools ==
  ASSUME \A leaf \in Leaves : leaf.kind = "tool"
  PROVE  Leaves \subseteq Tool
BY LeavesAreLeaves DEF Tool

(* A rescaled tool is a tool.                                              *)
LEMMA RescaledIsATool ==
  ASSUME NEW leaf \in Tool \cup {Nothing}, NEW from \in Nat \ {0}, NEW to \in Nat \ {0}
  PROVE  Rescaled(leaf, from, to) \in Tool \cup {Nothing}
<1>1. CASE leaf = Nothing
  BY <1>1 DEF Rescaled
<1>2. CASE leaf # Nothing
  <2>1. leaf \in LeafRecords /\ leaf.kind = "tool"
    BY <1>2 DEF Tool
  <2>2. leaf.low \in Nat /\ leaf.size \in Nat \ {0}
    BY <2>1 DEF LeafRecords
  <2>3. ASSUME NEW n \in Nat PROVE (n * to) \div from \in Nat
    <3>1. n * to \in Nat
      OBVIOUS
    <3> QED
      BY <3>1
  <2> DEFINE low == (leaf.low * to) \div from
             wide == (leaf.size * to) \div from
             size == IF wide = 0 THEN 1 ELSE wide
  <2>4. low \in Nat /\ wide \in Nat
    BY <2>2, <2>3
  <2>5. size \in Nat \ {0}
    BY <2>4
  <2>6. Rescaled(leaf, from, to) = [leaf EXCEPT !.low = low, !.size = size]
    BY <1>2 DEF Rescaled
  <2> HIDE DEF low, size
  <2>7. [leaf EXCEPT !.low = low, !.size = size] \in LeafRecords
    BY <2>1, <2>4, <2>5 DEF LeafRecords
  <2>8. [leaf EXCEPT !.low = low, !.size = size].kind = "tool"
    BY <2>1 DEF LeafRecords
  <2> QED
    BY <2>6, <2>7, <2>8 DEF Tool
<1> QED
  BY <1>1, <1>2

(* What a build keeps resident is what resolving it again would give.      *)
LEMMA KeptIsWholesale ==
  ASSUME RebuildInv, Rebuild, KeepsOrder, NEW c \in Resident
  PROVE  c \in Int /\ cache[c] = ResolveChunk(scene, density, c)
<1>1. Localized /\ c \in DOMAIN cache /\ c \notin Evicted
  BY DEF Resident, Kept
<1>2. previous # Nothing /\ density = previous.density
  BY <1>1 DEF Localized, NotLocalizable
<1>3. PICK built \in Scenes : BuiltFrom(built)
  BY <1>2 DEF RebuildInv
<1>4. /\ previous.index = LeafIndex(built) /\ c \in Int
      /\ cache[c] = ResolveChunk(built, density, c)
  BY <1>1, <1>2, <1>3 DEF BuiltFrom
<1>5. c \notin DirtyRange(LeafIndex(scene), LeafIndex(built), density)
  BY <1>1, <1>4 DEF Evicted
<1>6. ~NotLocalizable(LeafIndex(scene), LeafIndex(built), density, density)
  BY <1>1, <1>2, <1>4 DEF Localized
<1>7. SameOrder(LeafIndex(scene), LeafIndex(built))
  BY <1>1, <1>4 DEF KeepsOrder
<1>8. ResolveChunk(scene, density, c) = ResolveChunk(built, density, c)
  BY <1>3, <1>4, <1>5, <1>6, <1>7, ChunkIsLocal DEF RebuildInv
<1> QED
  BY <1>4, <1>8

(* After a build every resident, and so every chunk handed out, is that of *)
(* the scene.                                                              *)
LEMMA RebuildKeepsInv ==
  ASSUME RebuildInv, Rebuild, KeepsOrder
  PROVE  RebuildInv'
<1>1. /\ scene' = scene /\ density' = density
      /\ previous' = [index |-> LeafIndex(scene), density |-> density,
                      recenter |-> Recenter(scene)]
  BY DEF Rebuild
<1>2. previous'.index = LeafIndex(scene) /\ previous'.density = density
  BY <1>1
<1>3. \A c \in DOMAIN cache' : c \in Int /\ cache'[c] = ResolveChunk(scene, density, c)
  BY RebuildHandsOut, KeptIsWholesale, CoveringIsInt
<1>4. BuiltFrom(scene)'
  BY <1>1, <1>2, <1>3 DEF BuiltFrom, LeafIndex, Entry
<1>5. output' = ResolveAll(scene, density)
  <2>1. DOMAIN output' = Covering(scene, density)
    BY RebuildHandsOut
  <2>2. \A c \in Covering(scene, density) : output'[c] = ResolveChunk(scene, density, c)
    BY <1>3, <2>1, RebuildHandsOut
  <2>3. output' = [c \in Covering(scene, density) |-> output'[c]]
    BY <2>1 DEF Rebuild
  <2> QED
    BY <2>2, <2>3 DEF ResolveAll
<1>6. ResolveAll(scene, density)' = ResolveAll(scene, density)
  BY <1>1
<1>7. ReassemblyIsWholesale'
  BY <1>1, <1>3, <1>5 DEF ReassemblyIsWholesale
<1> QED
  BY <1>1, <1>4, <1>7 DEF RebuildInv

(* Every step keeps the invariant, as long as no build is shown its leaves *)
(* in another order.                                                       *)
LEMMA RebuildInvIsInductive ==
  ASSUME \A leaf \in Leaves : leaf.kind = "tool"
  PROVE  Spec /\ [][KeepsOrder]_vars => []RebuildInv
<1>1. Init => RebuildInv
  BY DensitiesArePositive DEF Init, RebuildInv, Scenes, ReassemblyIsWholesale, Settled
<1>2. RebuildInv /\ [Next]_vars /\ [KeepsOrder]_vars => RebuildInv'
  <2> SUFFICES ASSUME RebuildInv, [Next]_vars, [KeepsOrder]_vars PROVE RebuildInv'
    OBVIOUS
  <2>1. CASE UNCHANGED vars
    BY <2>1 DEF RebuildInv, BuiltFrom, ReassemblyIsWholesale, Settled, vars
  <2>2. ASSUME NEW i \in Slots, NEW leaf \in Leaves \cup {Nothing}, Edit(i, leaf)
        PROVE  RebuildInv'
    <3>1. scene' \in Scenes
      BY <2>2, EditsAreTools DEF Edit, RebuildInv, Scenes
    <3>2. /\ density' = density /\ previous' = previous /\ cache' = cache /\ dirty'
      BY <2>2 DEF Edit
    <3> QED
      BY <3>1, <3>2 DEF RebuildInv, BuiltFrom, ReassemblyIsWholesale, Settled
  <2>3. ASSUME NEW d \in Densities, SetDensity(d) PROVE RebuildInv'
    <3>1. d \in Nat \ {0} /\ density \in Nat \ {0}
      BY DensitiesArePositive DEF RebuildInv
    <3>2. \A i \in Slots : scene[i] \in Tool \cup {Nothing}
      BY DEF RebuildInv, Scenes
    <3>3. scene' \in Scenes
      BY <2>3, <3>1, <3>2, RescaledIsATool DEF SetDensity, Scenes
    <3>4. density' = d /\ previous' = previous /\ cache' = cache /\ dirty'
      BY <2>3 DEF SetDensity
    <3> QED
      BY <3>1, <3>3, <3>4 DEF RebuildInv, BuiltFrom, ReassemblyIsWholesale, Settled
  <2>4. CASE RejectDensity
    <3>1. /\ scene' = scene /\ density' = density /\ previous' = previous
          /\ cache' = cache /\ Extent(density) > MaxChunkExtent
      BY <2>4 DEF RejectDensity
    <3>2. Extent(density) \in Nat /\ MaxChunkExtent \in Nat
      BY DensitiesArePositive, ExtentIsPositive DEF RebuildInv
    <3>3. ~Settled'
      BY <3>1, <3>2 DEF Settled
    <3> QED
      BY <3>1, <3>3 DEF RebuildInv, BuiltFrom, ReassemblyIsWholesale
  <2>5. ASSUME Rebuild, ~UNCHANGED vars PROVE RebuildInv'
    BY <2>5, RebuildKeepsInv
  <2> QED
    BY <2>1, <2>2, <2>3, <2>4, <2>5 DEF Next
<1> QED
  BY <1>1, <1>2, PTL DEF Spec

(* When every leaf is a tool and no build is shown the leaves it takes as  *)
(* unchanged in another order, evicting only what the diff dirtied leaves   *)
(* what resolving every chunk again would give (AppCore::rebuild: the       *)
(* resident cache is "byte-identical either way").                         *)
THEOREM EvictionIsEnough ==
  ASSUME \A leaf \in Leaves : leaf.kind = "tool"
  PROVE  Spec /\ [][KeepsOrder]_vars => []ReassemblyIsWholesale
<1>1. RebuildInv => ReassemblyIsWholesale
  BY DEF RebuildInv
<1> QED
  BY <1>1, RebuildInvIsInductive, PTL

(***************************************************************************)
(* One edit for each build, at one density.                                *)
(***************************************************************************)
OneApart(s, t) == \A i, j \in Slots : s[i] # t[i] /\ s[j] # t[j] => i = j

(* Where two indexes differ in one place, the entry found there is not     *)
(* steady: one of them has it once more than the other.                    *)
LEMMA OddOneOut ==
  ASSUME NEW index, NEW old, NEW k \in Slots, index[k] # old[k],
         \A i \in Slots \ {k} : index[i] = old[i]
  PROVE  ~Steady(index[k], index, old) /\ ~Steady(old[k], index, old)
<1> DEFINE At(x, e) == {i \in Slots : x[i] = e}
<1>1. \A x : \A e : IsFiniteSet(At(x, e))
  BY SlotsAreOrdered, FS_Subset
<1>2. ASSUME NEW e, IsFiniteSet(At(index, e)), IsFiniteSet(At(old, e)), e = index[k]
      PROVE  Count(index, e) # Count(old, e)
  <2>1. At(index, e) = At(old, e) \cup {k} /\ k \notin At(old, e)
    BY <1>2
  <2>2. Cardinality(At(index, e)) = Cardinality(At(old, e)) + 1
    BY <1>2, <2>1, FS_AddElement
  <2>3. Cardinality(At(old, e)) \in Nat
    BY <1>2, FS_CardinalityType
  <2> QED
    BY <2>2, <2>3 DEF Count
<1>3. ASSUME NEW e, IsFiniteSet(At(index, e)), IsFiniteSet(At(old, e)), e = old[k]
      PROVE  Count(index, e) # Count(old, e)
  <2>1. At(old, e) = At(index, e) \cup {k} /\ k \notin At(index, e)
    BY <1>3
  <2>2. Cardinality(At(old, e)) = Cardinality(At(index, e)) + 1
    BY <1>3, <2>1, FS_AddElement
  <2>3. Cardinality(At(index, e)) \in Nat
    BY <1>3, FS_CardinalityType
  <2> QED
    BY <2>2, <2>3 DEF Count
<1>4. Count(index, index[k]) # Count(old, index[k])
  BY <1>1, <1>2
<1>5. Count(index, old[k]) # Count(old, old[k])
  BY <1>1, <1>3
<1> QED
  BY <1>4, <1>5 DEF Steady, ChangedEntries

(* Scenes one slot apart keep the order of their steady leaves: each stands *)
(* where it stood.                                                         *)
LEMMA OneApartKeepsOrder ==
  ASSUME NEW s \in Scenes, NEW t \in Scenes, OneApart(s, t)
  PROVE  SameOrder(LeafIndex(s), LeafIndex(t))
<1> DEFINE index == LeafIndex(s)
           old == LeafIndex(t)
           pairs == {pair \in Slots \X Slots :
                        pair[1] = pair[2] /\ index[pair[1]] = old[pair[1]]}
<1>1. \A i, j \in Slots : <<i, j>> \in pairs <=> i = j /\ index[i] = old[i]
  OBVIOUS
<1>2. \A i \in Slots : s[i] = t[i] => index[i] = old[i]
  BY DEF LeafIndex, Entry
<1>3. ASSUME NEW k \in Slots, index[k] # old[k]
      PROVE  ~Steady(index[k], index, old) /\ ~Steady(old[k], index, old)
  <2>1. \A i \in Slots \ {k} : index[i] = old[i]
    BY <1>2, <1>3 DEF OneApart
  <2> HIDE DEF index, old
  <2> QED
    BY <1>3, <2>1, OddOneOut
<1>4. pairs \in SUBSET (Slots \X Slots)
  OBVIOUS
<1> HIDE DEF pairs, index, old
<1>5. \A i, j \in Slots : <<i, j>> \in pairs => index[i] = old[j]
  BY <1>1
<1>6. \A i, j, k, l \in Slots :
          <<i, j>> \in pairs /\ <<k, l>> \in pairs => (i < k <=> j < l)
  BY <1>1
<1>7. Matches(pairs, index, old)
  BY <1>1, <1>3, <1>5, <1>6 DEF Matches
<1> QED
  BY <1>4, <1>7 DEF SameOrder, index, old

\* The scene is at most one edit away from the one the index was taken of.
NearTheIndex ==
    /\ scene \in Scenes /\ density \in Densities /\ pending \in {0, 1}
    /\ previous # Nothing =>
         \E built \in Scenes : /\ previous.index = LeafIndex(built)
                               /\ OneApart(scene, built)
                               /\ pending = 0 => scene = built

(* With one edit for each build at one density, every step keeps the scene *)
(* near the index.                                                         *)
LEMMA NearTheIndexIsInductive ==
  ASSUME \A leaf \in Leaves : leaf.kind = "tool",
         MaxPendingEdits <= 1, NEW only, Densities = {only}
  PROVE  Spec => []NearTheIndex
<1>1. Init => NearTheIndex
  BY DEF Init, NearTheIndex, Scenes
<1>2. NearTheIndex /\ [Next]_vars => NearTheIndex'
  <2> SUFFICES ASSUME NearTheIndex, [Next]_vars PROVE NearTheIndex'
    OBVIOUS
  <2>1. CASE UNCHANGED vars
    BY <2>1 DEF NearTheIndex, vars
  <2>2. ASSUME NEW i \in Slots, NEW leaf \in Leaves \cup {Nothing}, Edit(i, leaf)
        PROVE  NearTheIndex'
    <3>1. /\ scene' = [scene EXCEPT ![i] = leaf] /\ pending' = pending + 1
          /\ density' = density /\ previous' = previous /\ pending < MaxPendingEdits
      BY <2>2 DEF Edit
    <3>2. pending = 0 /\ pending' = 1
      BY <3>1, DensitiesArePositive DEF NearTheIndex
    <3>3. scene' \in Scenes
      BY <3>1, EditsAreTools DEF NearTheIndex, Scenes
    <3>4. ASSUME previous # Nothing
          PROVE  \E built \in Scenes : previous.index = LeafIndex(built) /\ OneApart(scene', built)
      <4>1. previous.index = LeafIndex(scene)
        BY <3>2, <3>4 DEF NearTheIndex
      <4>2. scene \in Scenes /\ \A j \in Slots : scene'[j] # scene[j] => j = i
        BY <3>1 DEF NearTheIndex, Scenes
      <4> QED
        BY <4>1, <4>2 DEF OneApart
    <3> QED
      BY <3>1, <3>2, <3>3, <3>4 DEF NearTheIndex, OneApart
  <2>3. ASSUME NEW d \in Densities, SetDensity(d) PROVE FALSE
    BY <2>3 DEF SetDensity, NearTheIndex
  <2>4. CASE RejectDensity
    BY <2>4 DEF RejectDensity, NearTheIndex
  <2>5. CASE Rebuild
    <3>1. /\ scene' = scene /\ density' = density /\ pending' = 0
          /\ previous' = [index |-> LeafIndex(scene), density |-> density,
                          recenter |-> Recenter(scene)]
      BY <2>5 DEF Rebuild
    <3>2. previous'.index = LeafIndex(scene')
      BY <3>1
    <3>3. OneApart(scene', scene')
      BY DEF OneApart
    <3> QED
      BY <3>1, <3>2, <3>3 DEF NearTheIndex, LeafIndex, Entry, OneApart
  <2> QED
    BY <2>1, <2>2, <2>3, <2>4, <2>5 DEF Next
<1> QED
  BY <1>1, <1>2, PTL DEF Spec

(* So no build is shown its leaves in another order: SameOrder is what one *)
(* edit for each build comes to.                                           *)
LEMMA OneEditKeepsOrder ==
  ASSUME \A leaf \in Leaves : leaf.kind = "tool",
         MaxPendingEdits <= 1, NEW only, Densities = {only}
  PROVE  Spec => [][KeepsOrder]_vars
<1>1. NearTheIndex => KeepsOrder
  <2> SUFFICES ASSUME NearTheIndex, Localized
               PROVE  SameOrder(LeafIndex(scene), previous.index)
    BY DEF KeepsOrder
  <2>1. PICK built \in Scenes : previous.index = LeafIndex(built) /\ OneApart(scene, built)
    BY DEF NearTheIndex, Localized
  <2> QED
    BY <2>1, OneApartKeepsOrder DEF NearTheIndex
<1>2. NearTheIndex => [KeepsOrder]_vars
  BY <1>1
<1>3. Spec => []NearTheIndex
  BY NearTheIndexIsInductive
<1> QED
  BY <1>2, <1>3, PTL

(***************************************************************************)
(* The cuboid mesh, for scenes of tools.                                   *)
(***************************************************************************)

(* A voxel that holds anything lies in a chunk that covers the scene.      *)
LEMMA SolidIsCovered ==
  ASSUME NEW s \in Scenes, NEW d \in Nat \ {0}, NEW c \in Int,
         NEW v \in ChunkVoxels(c, d), Cell(s, v) # Air
  PROVE  c \in Covering(s, d)
<1> DEFINE lows == {s[k].low : k \in Sized(s)}
           highs == {s[k].low + s[k].size : k \in Sized(s)}
           w == Extent(d)
<1>1. PICK i \in Last(s, v) : TRUE
  BY DEF Cell
<1>2. i \in Filled(s) /\ Covers(s, i, v)
  BY <1>1 DEF Last
<1>3. Sized(s) \subseteq Filled(s) /\ i \in Sized(s)
  BY <1>2, ToolCovers DEF Sized, Tool
<1>4. \A k \in Sized(s) : s[k].low \in Nat /\ s[k].size \in Nat
  BY <1>3, ToolCovers
<1>5. s[i].low <= v /\ v < s[i].low + s[i].size
  BY <1>2, ToolCovers
<1>6. IsFiniteSet(Sized(s))
  BY SlotsAreOrdered, FS_Subset DEF Sized, Filled
<1>7. IsFiniteSet(lows) /\ IsFiniteSet(highs)
  <2> DEFINE f == [k \in Sized(s) |-> s[k].low]
             g == [k \in Sized(s) |-> s[k].low + s[k].size]
  <2>1. IsFiniteSet({f[k] : k \in Sized(s)}) /\ IsFiniteSet({g[k] : k \in Sized(s)})
    <3>1. DOMAIN f = Sized(s) /\ f = [k \in Sized(s) |-> f[k]]
      OBVIOUS
    <3>2. DOMAIN g = Sized(s) /\ g = [k \in Sized(s) |-> g[k]]
      OBVIOUS
    <3> HIDE DEF f, g
    <3> QED
      BY <1>6, <3>1, <3>2, FiniteImage
  <2>2. {f[k] : k \in Sized(s)} = lows /\ {g[k] : k \in Sized(s)} = highs
    OBVIOUS
  <2> HIDE DEF f, g, lows, highs
  <2> QED
    BY <2>1, <2>2
<1>8. lows \in SUBSET Int /\ highs \in SUBSET Int
  BY <1>4
<1>9. Low(s) <= s[i].low /\ Low(s) \in Int
  <2>1. \E m \in lows : \A n \in lows : m <= n
    <3>1. s[i].low \in lows
      BY <1>3
    <3> HIDE DEF lows
    <3> QED
      BY <1>7, <1>8, <3>1, LeastExists
  <2>2. \E m \in lows : \A k \in Sized(s) : m <= s[k].low
    BY <2>1
  <2>3. Low(s) \in lows /\ \A k \in Sized(s) : Low(s) <= s[k].low
    BY <2>2 DEF Low
  <2> QED
    BY <1>3, <1>8, <2>3
<1>10. High(s) >= s[i].low + s[i].size /\ High(s) \in Int
  <2>1. \E m \in highs : \A n \in highs : m >= n
    <3>1. s[i].low + s[i].size \in highs
      BY <1>3
    <3> HIDE DEF highs
    <3> QED
      BY <1>7, <1>8, <3>1, LargestExists
  <2>2. \E m \in highs : \A k \in Sized(s) : m >= s[k].low + s[k].size
    BY <2>1
  <2>3. High(s) \in highs /\ \A k \in Sized(s) : High(s) >= s[k].low + s[k].size
    BY <2>2 DEF High
  <2> QED
    BY <1>3, <1>8, <2>3
<1>11. w \in Nat \ {0}
  BY ExtentIsPositive
<1>12. v \in Int /\ v \div w = c
  <2>1. c * w \in Int /\ (c + 1) * w \in Int
    BY <1>11
  <2>2. v \in Int /\ c * w <= v /\ v < (c + 1) * w
    BY <2>1 DEF ChunkVoxels
  <2> HIDE DEF w
  <2> QED
    BY <1>11, <2>2, Bucket
<1>13. Low(s) <= v /\ v <= High(s) - 1 /\ High(s) - 1 \in Int
  BY <1>3, <1>4, <1>5, <1>9, <1>10, <1>12
<1>14. Low(s) \div w <= c /\ c <= (High(s) - 1) \div w
  <2> HIDE DEF w
  <2> QED
    BY <1>9, <1>11, <1>12, <1>13, BucketsAreOrdered
<1>15. c \in Low(s) \div w .. (High(s) - 1) \div w
  <2>1. Low(s) \div w \in Int /\ (High(s) - 1) \div w \in Int
    BY <1>9, <1>11, <1>13
  <2> QED
    BY <1>14, <2>1
<1>16. ~(High(s) <= Low(s))
  BY <1>9, <1>10, <1>12, <1>13
<1> QED
  BY <1>3, <1>15, <1>16 DEF Covering, ChunkRange

(* The voxels on the two sides of a chunk lie in its neighbours.           *)
LEMMA SidesLieNextDoor ==
  ASSUME NEW d \in Nat \ {0}, NEW c \in Int
  PROVE  LET before == c * Extent(d) - 1
             after == (c + 1) * Extent(d)
         IN  /\ before \div Extent(d) = c - 1 /\ before \in ChunkVoxels(c - 1, d)
             /\ after \div Extent(d) = c + 1 /\ after \in ChunkVoxels(c + 1, d)
<1> DEFINE w == Extent(d)
<1>1. w \in Nat \ {0}
  BY ExtentIsPositive
<1>2. /\ c * w \in Int /\ (c + 1) * w = c * w + w
      /\ ((c + 1) + 1) * w = c * w + w + w
      /\ (c - 1) * w = c * w - w /\ ((c - 1) + 1) * w = c * w
  BY <1>1
<1>3. /\ c * w - 1 \in Int /\ (c - 1) * w <= c * w - 1 /\ c * w - 1 < ((c - 1) + 1) * w
      /\ (c + 1) * w \in Int /\ (c + 1) * w < ((c + 1) + 1) * w
  BY <1>1, <1>2
<1>4. (c * w - 1) \div w = c - 1 /\ ((c + 1) * w) \div w = c + 1
  <2> HIDE DEF w
  <2>1. c - 1 \in Int /\ c + 1 \in Int /\ (c + 1) * w <= (c + 1) * w
    BY <1>3
  <2> QED
    BY <1>1, <1>3, <2>1, Bucket
<1>5. c * w - 1 \in (c - 1) * w .. ((c - 1) + 1) * w - 1
  BY <1>1, <1>2, <1>3
<1>6. (c + 1) * w \in (c + 1) * w .. ((c + 1) + 1) * w - 1
  BY <1>1, <1>2, <1>3
<1> QED
  BY <1>4, <1>5, <1>6 DEF ChunkVoxels

\* What the renderer holds is the mesh of these chunks.
MeshOf(m, chunks, d, origin) ==
    /\ DOMAIN m.sources \subseteq DOMAIN chunks
    /\ Occupied(chunks) \subseteq DOMAIN m.sources
    /\ \A c \in DOMAIN m.sources : m.sources[c] = chunks[c]
    /\ DOMAIN m.buffers = Occupied(chunks)
    /\ \A c \in Occupied(chunks) : m.buffers[c] = MeshOfChunk(chunks, d, origin, c)

(* A mesh of everything is one.                                            *)
LEMMA WholesaleIsTheMesh ==
  ASSUME NEW chunks, NEW d, NEW origin
  PROVE  MeshOf(WholesaleMesh(chunks, d, origin), chunks, d, origin)
<1>1. Occupied(chunks) \subseteq DOMAIN chunks
  BY DEF Occupied
<1> QED
  BY <1>1 DEF MeshOf, WholesaleMesh

\* Chunks of one grid.
OnGrid(chunks, d) ==
    /\ DOMAIN chunks \subseteq Int
    /\ \A c \in DOMAIN chunks : DOMAIN chunks[c] = ChunkVoxels(c, d)

(* A patch of the mesh: the evicted chunks, those that were not meshed and *)
(* the neighbours of both get new buffers, and the others are as they were, *)
(* provided nothing solid left the scene without being evicted.            *)
LEMMA MeshPatchIsWholesale ==
  ASSUME NEW d \in Nat \ {0}, NEW origin, NEW evicted, NEW m, NEW old, NEW new,
         MeshOf(m, old, d, origin), OnGrid(old, d), OnGrid(new, d),
         \A c \in DOMAIN old \cap DOMAIN new : c \notin evicted => old[c] = new[c],
         \A c \in Occupied(old) : c \notin evicted => c \in DOMAIN new
  PROVE  /\ MeshOf(PatchMesh(m, new, d, origin, evicted), new, d, origin)
         /\ PatchMesh(m, new, d, origin, evicted).buffers
              = WholesaleMesh(new, d, origin).buffers
<1> DEFINE occupied == Occupied(new)
           seed == evicted \cup (occupied \ DOMAIN m.sources)
           rebuild == Neighbourhood(seed) \cap occupied
           sourced == ((DOMAIN m.sources \cap occupied) \ rebuild) \cup rebuild
           buffered == ((DOMAIN m.buffers \cap occupied) \ rebuild) \cup rebuild
           Source(c) == IF c \in rebuild THEN new[c] ELSE m.sources[c]
           Buffer(c) == IF c \in rebuild THEN MeshOfChunk(new, d, origin, c) ELSE m.buffers[c]
           patched == PatchMesh(m, new, d, origin, evicted)
<1>1. patched = [sources |-> [c \in sourced |-> Source(c)],
                 buffers |-> [c \in buffered |-> Buffer(c)]]
  BY DEF PatchMesh
<1>2. Occupied(old) \subseteq DOMAIN old /\ occupied \subseteq DOMAIN new
  BY DEF Occupied
<1>3. ASSUME NEW c \in occupied \ rebuild
      PROVE  /\ c \in DOMAIN m.sources /\ m.sources[c] = new[c]
             /\ c \in DOMAIN m.buffers /\ m.buffers[c] = MeshOfChunk(new, d, origin, c)
  <2>1. c \in Int /\ c \notin Neighbourhood(seed)
    BY <1>2 DEF OnGrid
  <2>2. c - 1 \notin seed /\ c \notin seed /\ c + 1 \notin seed
    BY <2>1 DEF Neighbourhood
  <2>3. ASSUME NEW n \in Int, n \notin seed, n \in occupied
        PROVE  n \in DOMAIN m.sources /\ n \in DOMAIN old /\ old[n] = new[n]
    BY <1>2, <2>3 DEF MeshOf
  <2>4. c \in DOMAIN m.sources /\ c \in DOMAIN old /\ old[c] = new[c]
    BY <2>1, <2>2, <2>3
  <2>5. c \in Occupied(old)
    BY <2>4 DEF Occupied
  <2>6. ASSUME NEW v, NEW n \in Int, n = v \div Extent(d), v \in ChunkVoxels(n, d), n \notin seed
        PROVE  SolidAt(old, d, v) = SolidAt(new, d, v)
    <3>1. ASSUME n \in DOMAIN new, new[n][v] # Air
          PROVE  n \in DOMAIN old /\ old[n][v] # Air
      <4>1. n \in occupied
        BY <2>6, <3>1 DEF Occupied, OnGrid
      <4> QED
        BY <2>3, <2>6, <3>1, <4>1
    <3>2. ASSUME n \in DOMAIN old, old[n][v] # Air
          PROVE  n \in DOMAIN new /\ new[n][v] # Air
      <4>1. n \in Occupied(old)
        BY <2>6, <3>2 DEF Occupied, OnGrid
      <4>2. n \in DOMAIN new
        BY <2>6, <4>1
      <4> QED
        BY <2>6, <3>2, <4>2
    <3> QED
      BY <2>6, <3>1, <3>2 DEF SolidAt
  <2> DEFINE before == c * Extent(d) - 1
             after == (c + 1) * Extent(d)
  <2>7. SolidAt(old, d, before) = SolidAt(new, d, before)
    BY <2>1, <2>2, <2>6, SidesLieNextDoor
  <2>8. SolidAt(old, d, after) = SolidAt(new, d, after)
    BY <2>1, <2>2, <2>6, SidesLieNextDoor
  <2>9. MeshOfChunk(old, d, origin, c) = MeshOfChunk(new, d, origin, c)
    BY <2>4, <2>7, <2>8 DEF MeshOfChunk
  <2> QED
    BY <2>4, <2>5, <2>9 DEF MeshOf
<1> HIDE DEF patched, rebuild
<1>4. sourced = occupied /\ buffered = occupied
  BY <1>3 DEF rebuild
<1>5. \A c \in occupied : Source(c) = new[c] /\ Buffer(c) = MeshOfChunk(new, d, origin, c)
  BY <1>3
<1> HIDE DEF sourced, buffered, Source, Buffer
<1>6. /\ patched.sources = [c \in occupied |-> new[c]]
      /\ patched.buffers = [c \in occupied |-> MeshOfChunk(new, d, origin, c)]
  BY <1>1, <1>4, <1>5
<1>7. MeshOf(patched, new, d, origin)
  <2> HIDE DEF occupied
  <2> QED
    BY <1>2, <1>6 DEF MeshOf, occupied
<1>8. patched.buffers = WholesaleMesh(new, d, origin).buffers
  BY <1>6 DEF WholesaleMesh
<1> QED
  BY <1>7, <1>8 DEF patched

\* The renderer holds the mesh of the chunks the last build handed out.
MeshInv ==
    /\ previous # Nothing => /\ OnGrid(output, previous.density)
                             /\ MeshOf(mesh, output, previous.density, previous.recenter)
    /\ MeshIsWholesale

(* A resolved chunk is one of the grid.                                    *)
LEMMA ResolvedIsOnGrid ==
  ASSUME NEW s, NEW d
  PROVE  OnGrid(ResolveAll(s, d), d)
BY CoveringIsInt DEF OnGrid, ResolveAll, ResolveChunk

(* A build leaves the mesh of what it hands out, patched or built again.   *)
LEMMA RebuildKeepsMesh ==
  ASSUME RebuildInv, HandedOut, MeshInv, Rebuild, KeepsOrder
  PROVE  MeshInv'
<1> DEFINE origin == Recenter(scene)
<1>1. /\ scene' = scene /\ density' = density /\ dirty' = FALSE
      /\ previous' = [index |-> LeafIndex(scene), density |-> density, recenter |-> origin]
  BY DEF Rebuild
<1>2. previous'.density = density /\ previous'.recenter = origin
  BY <1>1
<1>3. output' = ResolveAll(scene, density)
  <2>1. RebuildInv' /\ Settled'
    BY <1>1, RebuildKeepsInv DEF Settled, Rebuild, Extent
  <2> QED
    BY <1>1, <2>1 DEF RebuildInv, ReassemblyIsWholesale
<1>4. OnGrid(output', density)
  BY <1>3, ResolvedIsOnGrid
<1>5. /\ MeshOf(mesh', output', density, origin)
      /\ mesh'.buffers = WholesaleMesh(output', density, origin).buffers
  <2>1. CASE hint' = Nothing
    <3>1. mesh' = WholesaleMesh(output', density, origin)
      BY <2>1 DEF Rebuild
    <3> QED
      BY <3>1, WholesaleIsTheMesh
  <2>2. CASE hint' # Nothing
    <3>1. mesh' = PatchMesh(mesh, output', density, origin, hint')
      BY <2>2 DEF Rebuild
    <3>2. Localized /\ ~Reframed
      BY <2>2 DEF Rebuild, Hint
    <3>3. previous # Nothing /\ previous.density = density /\ previous.recenter = origin
      BY <3>2 DEF Localized, Reframed
    <3>4. OnGrid(output, density) /\ MeshOf(mesh, output, density, origin)
      BY <3>3 DEF MeshInv
    <3>5. \A c \in DOMAIN output : c \notin hint' => c \in Resident /\ output[c] = cache[c]
      BY <2>2, HintIsTheEvicted DEF HandedOut
    <3>6. \A c \in DOMAIN output \cap DOMAIN output' : c \notin hint' => output[c] = output'[c]
      BY <3>5, RebuildHandsOut
    <3>7. ASSUME NEW c \in Occupied(output), c \notin hint' PROVE c \in DOMAIN output'
      <4>1. c \in DOMAIN output /\ \E v \in DOMAIN output[c] : output[c][v] # Air
        BY DEF Occupied
      <4>2. c \in Int /\ output[c] = ResolveChunk(scene, density, c)
        BY <3>5, <3>7, <4>1, KeptIsWholesale
      <4>3. PICK v \in ChunkVoxels(c, density) : Cell(scene, v) # Air
        BY <4>1, <4>2 DEF ResolveChunk
      <4>4. c \in Covering(scene, density)
        BY <4>2, <4>3, SolidIsCovered DEF RebuildInv
      <4> QED
        BY <4>4, RebuildHandsOut
    <3>8. density \in Nat \ {0}
      BY DEF HandedOut
    <3> QED
      BY <1>4, <3>1, <3>4, <3>6, <3>7, <3>8, MeshPatchIsWholesale
  <2> QED
    BY <2>1, <2>2
<1>6. MeshIsWholesale'
  <2>1. Recenter(scene)' = origin
    BY <1>1
  <2>2. \A c \in Occupied(output') : c \in DOMAIN mesh'.sources /\ mesh'.sources[c] = output'[c]
    BY <1>5 DEF MeshOf
  <2> QED
    BY <1>1, <1>5, <2>1, <2>2 DEF MeshIsWholesale
<1> QED
  BY <1>2, <1>4, <1>5, <1>6 DEF MeshInv

(* Under the same conditions, meshing only what the plan names gives the   *)
(* buffers of a whole re-mesh at the present origin, and the renderer      *)
(* keeps every occupied chunk to mesh from (cuboid_incremental_plan).      *)
THEOREM MeshPatchIsEnough ==
  ASSUME \A leaf \in Leaves : leaf.kind = "tool"
  PROVE  Spec /\ [][KeepsOrder]_vars => []MeshIsWholesale
<1>1. Init => MeshInv
  BY DEF Init, MeshInv, MeshIsWholesale, Settled
<1>2. RebuildInv /\ HandedOut /\ MeshInv /\ [Next]_vars /\ [KeepsOrder]_vars => MeshInv'
  <2> SUFFICES ASSUME RebuildInv, HandedOut, MeshInv, [Next]_vars, [KeepsOrder]_vars
               PROVE  MeshInv'
    OBVIOUS
  <2>1. CASE UNCHANGED vars
    BY <2>1 DEF MeshInv, MeshIsWholesale, Settled, vars
  <2>2. ASSUME \/ \E i \in Slots, leaf \in Leaves \cup {Nothing} : Edit(i, leaf)
               \/ \E d \in Densities : SetDensity(d)
               \/ RejectDensity
        PROVE  MeshInv'
    <3>1. mesh' = mesh /\ output' = output /\ previous' = previous
      BY <2>2 DEF Edit, SetDensity, RejectDensity
    <3>2. ~Settled'
      <4>1. CASE dirty'
        BY <4>1 DEF Settled
      <4>2. CASE RejectDensity
        <5>1. Extent(density) > MaxChunkExtent /\ density' = density
          BY <4>2 DEF RejectDensity
        <5>2. Extent(density) \in Nat /\ MaxChunkExtent \in Nat
          BY DensitiesArePositive, ExtentIsPositive DEF RebuildInv
        <5> QED
          BY <5>1, <5>2 DEF Settled
      <4> QED
        BY <2>2, <4>1, <4>2 DEF Edit, SetDensity
    <3> QED
      BY <3>1, <3>2 DEF MeshInv, MeshIsWholesale
  <2>3. ASSUME Rebuild, ~UNCHANGED vars PROVE MeshInv'
    BY <2>3, RebuildKeepsMesh
  <2> QED
    BY <2>1, <2>2, <2>3 DEF Next
<1>3. MeshInv => MeshIsWholesale
  BY DEF MeshInv
<1>4. Spec => []HandedOut
  BY HandedOutIsInductive DEF Spec
<1> QED
  BY <1>1, <1>2, <1>3, <1>4, RebuildInvIsInductive, PTL DEF Spec

(* With one edit for each build at one density the reassembly and the mesh *)
(* are exact without a condition on the order.                             *)
THEOREM OneEditIsEnough ==
  ASSUME \A leaf \in Leaves : leaf.kind = "tool",
         MaxPendingEdits <= 1, NEW only, Densities = {only}
  PROVE  Spec => [](ReassemblyIsWholesale /\ MeshIsWholesale)
<1>1. Spec => [][KeepsOrder]_vars
  BY OneEditKeepsOrder
<1>2. Spec /\ [][KeepsOrder]_vars => []ReassemblyIsWholesale
  BY EvictionIsEnough
<1>3. Spec /\ [][KeepsOrder]_vars => []MeshIsWholesale
  BY MeshPatchIsEnough
<1> QED
  BY <1>1, <1>2, <1>3, PTL

=============================================================================
