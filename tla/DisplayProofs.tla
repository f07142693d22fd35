---------------------------- MODULE DisplayProofs ----------------------------
(***************************************************************************)
(* Proofs about the display machine, for every set of chunks, threshold,   *)
(* number of edits and of panics.  The invariant is what the interlock     *)
(* flags and the generations mean; that each step keeps it, and that no    *)
(* step mixes two scenes, comes down to one fact about a rebuild           *)
(* (RebuildFromFlags) and one about a result that is accepted.             *)
(***************************************************************************)
EXTENDS DisplayOrchestrator, TLAPS

(***************************************************************************)
(* The routing policy.                                                     *)
(***************************************************************************)

(* Only what is current, with nothing in flight, is ever patched           *)
(* (route_derived_artifact).                                               *)
LEMMA OnlyCurrentIsPatched ==
  ASSUME NEW state, NEW edit, NEW threshold,
         RouteDerivedArtifact(state, edit, threshold) = "InlineIncremental"
  PROVE  edit.kind = "Incremental" /\ ~state.outstanding /\ state.current /\ state.patchable
  BY DEF RouteDerivedArtifact

(* The policy knows three routes.                                          *)
LEMMA ThreeRoutes ==
  ASSUME NEW state, NEW edit, NEW threshold
  PROVE  RouteDerivedArtifact(state, edit, threshold) \in InlineRoutes \cup {"WholesaleAsync"}
  BY DEF RouteDerivedArtifact, InlineRoutes

(* A mesh is patched when it is not stale, no build of it is out, and the  *)
(* edit is incremental.                                                    *)
LEMMA MeshPatched ==
  ASSUME NEW engaged \in BOOLEAN, NEW stale \in BOOLEAN, NEW outstanding \in BOOLEAN,
         NEW incremental \in BOOLEAN, NEW count, NEW threshold,
         RouteMeshBuild(engaged, stale, outstanding,
                        IF incremental THEN Incremental ELSE Wholesale(count), threshold)
           = "InlineIncremental"
  PROVE  incremental /\ ~stale /\ ~outstanding
  BY OnlyCurrentIsPatched DEF RouteMeshBuild, ArtifactState, Incremental, Wholesale

(* A mirror is patched when it is there, no brick build is out, and the    *)
(* edit is incremental.                                                    *)
LEMMA MirrorPatched ==
  ASSUME NEW outstanding \in BOOLEAN, NEW incremental \in BOOLEAN, NEW resident \in BOOLEAN,
         NEW count, NEW threshold,
         RouteBrickRebuild(outstanding, incremental, resident, count, threshold)
           = "InlineIncremental"
  PROVE  incremental /\ resident /\ ~outstanding
  BY OnlyCurrentIsPatched DEF RouteBrickRebuild, ArtifactState, Incremental, Wholesale

(***************************************************************************)
(* Pictures.                                                               *)
(***************************************************************************)

(* The edit from the scene to s touched only the dirty chunks: patching    *)
(* the scene's picture gives s.                                            *)
Local(s, dirty) == Patch(scene, s, dirty) = s

(***************************************************************************)
(* A rebuild.                                                              *)
(***************************************************************************)

(* What a rebuild does to the mesh and the live field once it knows the    *)
(* field to keep: the mesh stays or becomes the picture of s, its flags    *)
(* then tell the truth of s, and the field is put away only for a mesh     *)
(* that is there.                                                          *)
LEMMA RebuildMeshFromFlags ==
  ASSUME TypeOK, FlagsTellStaleness,
         NEW s, NEW incremental \in BOOLEAN, NEW dirty, NEW installed \in BOOLEAN, NEW field,
         incremental => Local(s, dirty),
         RebuildMesh(s, incremental, dirty, installed, field)
  PROVE  /\ geometry_generation' = geometry_generation + 1
         /\ mesh_stale' \in BOOLEAN /\ geometry_async_outstanding' \in BOOLEAN
         /\ cuboid_mesh' \in {cuboid_mesh, s}
         /\ ~mesh_stale' /\ ~geometry_async_outstanding' => cuboid_mesh' = s
         /\ \/ geometry_worker' = geometry_worker
            \/ geometry_worker' = DispatchTo(geometry_worker, Job(geometry_generation', s))
         /\ brick_display_pending_clear' \in BOOLEAN
         /\ brick_field' \in {field, NoField}
         /\ brick_display_pending_clear' =>
              /\ ~installed /\ geometry_async_outstanding'
              /\ brick_field' = field /\ field # NoField
         /\ ~installed /\ ~brick_display_pending_clear' => brick_field' = NoField
         /\ brick_field' = NoField =>
              field = NoField \/ debug_face_orientation \/ cuboid_mesh' = s
<1> DEFINE engaged == BrickDisplayEngaged(installed, debug_face_orientation)
           route == RouteMeshBuild(engaged, mesh_stale, geometry_async_outstanding,
                      IF incremental THEN Incremental
                      ELSE Wholesale(Cardinality(Covering(s))),
                      ASYNC_REBUILD_CHUNK_THRESHOLD)
<1>1. /\ engaged \in BOOLEAN /\ mesh_stale \in BOOLEAN
      /\ geometry_async_outstanding \in BOOLEAN /\ debug_face_orientation \in BOOLEAN
  BY DEF BrickDisplayEngaged, TypeOK
<1>2. route = "InlineIncremental" => incremental /\ ~mesh_stale /\ ~geometry_async_outstanding
  BY <1>1, MeshPatched
<1>3. route = "Skip" => installed
  <2>1. ~engaged => route \in InlineRoutes \cup {"WholesaleAsync"}
    BY ThreeRoutes DEF RouteMeshBuild
  <2>2. engaged => installed
    BY DEF BrickDisplayEngaged
  <2> QED
    BY <2>1, <2>2 DEF InlineRoutes
<1>4. \/ /\ route = "Skip" /\ SkipMesh
         /\ ApplyBrickDisplayHandover(installed, FALSE, field)
      \/ /\ route = "WholesaleAsync" /\ DispatchWholesaleMeshRebuild(s)
         /\ UNCHANGED <<cuboid_mesh, mesh_stale>>
         /\ ApplyBrickDisplayHandover(installed, FALSE, field)
      \/ /\ route \in InlineRoutes
         /\ cuboid_mesh' = IF route = "InlineIncremental"
                           THEN Patch(cuboid_mesh, s, dirty) ELSE s
         /\ FinishMeshInstall /\ UNCHANGED geometry_worker
         /\ ApplyBrickDisplayHandover(installed, TRUE, FieldAfterMeshInstall(field))
  BY DEF RebuildMesh
<1> HIDE DEF engaged, route
<1>5. CASE route = "Skip" /\ SkipMesh /\ ApplyBrickDisplayHandover(installed, FALSE, field)
  <2>1. /\ brick_display_pending_clear' \in BOOLEAN
        /\ brick_field' \in {field, NoField}
        /\ brick_display_pending_clear' =>
             ~installed /\ brick_field' = field /\ field # NoField
        /\ ~installed /\ ~brick_display_pending_clear' => brick_field' = NoField
        /\ brick_field' = NoField => field = NoField \/ debug_face_orientation
    BY <1>1, <1>5 DEF ApplyBrickDisplayHandover, Handover
  <2> QED
    BY <1>1, <1>3, <1>5, <2>1 DEF SkipMesh
<1>6. CASE /\ route = "WholesaleAsync" /\ DispatchWholesaleMeshRebuild(s)
           /\ UNCHANGED <<cuboid_mesh, mesh_stale>>
           /\ ApplyBrickDisplayHandover(installed, FALSE, field)
  <2>1. /\ brick_display_pending_clear' \in BOOLEAN
        /\ brick_field' \in {field, NoField}
        /\ brick_display_pending_clear' =>
             ~installed /\ brick_field' = field /\ field # NoField
        /\ ~installed /\ ~brick_display_pending_clear' => brick_field' = NoField
        /\ brick_field' = NoField => field = NoField \/ debug_face_orientation
    BY <1>1, <1>6 DEF ApplyBrickDisplayHandover, Handover
  <2> QED
    BY <1>1, <1>6, <2>1 DEF DispatchWholesaleMeshRebuild
<1>7. CASE /\ route \in InlineRoutes
           /\ cuboid_mesh' = IF route = "InlineIncremental"
                             THEN Patch(cuboid_mesh, s, dirty) ELSE s
           /\ FinishMeshInstall /\ UNCHANGED geometry_worker
           /\ ApplyBrickDisplayHandover(installed, TRUE, FieldAfterMeshInstall(field))
  <2>1. cuboid_mesh' = s
    BY <1>2, <1>7 DEF FlagsTellStaleness, Local
  <2>2. FieldAfterMeshInstall(field) \in {field, NoField}
    BY DEF FieldAfterMeshInstall
  <2>3. /\ ~brick_display_pending_clear' /\ brick_display_pending_clear' \in BOOLEAN
        /\ brick_field' \in {FieldAfterMeshInstall(field), NoField}
        /\ ~installed => brick_field' = NoField
    BY <1>1, <1>7 DEF ApplyBrickDisplayHandover, Handover
  <2> QED
    BY <1>7, <2>1, <2>2, <2>3 DEF FinishMeshInstall
<1> QED
  BY <1>4, <1>5, <1>6, <1>7

(* What an inline rebuild of the brick side makes of the mirror and of the *)
(* field: the picture of s, or nothing new.                                *)
LEMMA InlineBricks ==
  ASSUME TypeOK, FlagsTellStaleness,
         NEW s, NEW incremental \in BOOLEAN, NEW dirty, NEW route,
         incremental => Local(s, dirty),
         route = "InlineIncremental" =>
           incremental /\ incremental_brick_field # NoField /\ ~brick_async_outstanding
  PROVE  /\ MirrorAfter(s, route, dirty) \in {NoField, s}
         /\ FieldAfter(s, route, dirty) \in {brick_field, s}
         /\ MirrorAfter(s, route, dirty) = NoField => FieldAfter(s, route, dirty) = brick_field
         /\ MirrorAfter(s, route, dirty) # NoField => FieldAfter(s, route, dirty) = s
<1>1. route = "InlineIncremental" => Patch(incremental_brick_field, s, dirty) = s
  BY DEF FlagsTellStaleness, Local
<1>2. MirrorAfter(s, route, dirty) \in {NoField, s}
  BY <1>1 DEF MirrorAfter
<1>3. route = "InlineIncremental" /\ Live /\ ~brick_display_pending_clear =>
        Patch(brick_field, s, dirty) = s
  BY DEF FlagsTellStaleness, Local
<1> QED
  BY <1>2, <1>3 DEF FieldAfter, PatchInPlace

(* The fact every edit comes down to.  A rebuild leaves each picture as it *)
(* is, clears it, or makes it the scene s; it mints on both sides; and the *)
(* flags it leaves tell the truth of s.                                    *)
LEMMA RebuildFromFlags ==
  ASSUME TypeOK, FlagsTellStaleness,
         NEW s, NEW incremental \in BOOLEAN, NEW dirty, s # NoField,
         incremental => Local(s, dirty),
         Rebuild(s, incremental, dirty)
  PROVE  /\ geometry_generation' = geometry_generation + 1
         /\ brick_generation' = brick_generation + 1
         /\ {mesh_stale', geometry_async_outstanding', brick_async_outstanding',
             brick_display_pending_clear'} \subseteq BOOLEAN
         /\ cuboid_mesh' \in {cuboid_mesh, s}
         /\ incremental_brick_field' \in {incremental_brick_field, NoField, s}
         /\ brick_field' \in {brick_field, NoField, s}
         /\ \/ geometry_worker' = geometry_worker
            \/ geometry_worker' = DispatchTo(geometry_worker, Job(geometry_generation', s))
         /\ \/ brick_worker' = brick_worker
            \/ brick_worker' = DispatchTo(brick_worker, Job(brick_generation', s))
         /\ ~mesh_stale' /\ ~geometry_async_outstanding' => cuboid_mesh' = s
         /\ ~brick_async_outstanding' =>
              /\ incremental_brick_field' \in {NoField, s}
              /\ brick_field' # NoField /\ ~brick_display_pending_clear' =>
                   brick_field' = incremental_brick_field'
         /\ brick_display_pending_clear' =>
              /\ geometry_async_outstanding' /\ brick_field' # NoField
              /\ ~brick_async_outstanding' /\ incremental_brick_field' = NoField
         /\ brick_field' = NoField =>
              brick_field = NoField \/ debug_face_orientation \/ cuboid_mesh' = s
<1> DEFINE route == RouteBrickRebuild(brick_async_outstanding, incremental,
                      incremental_brick_field # NoField,
                      Cardinality(Covering(s)), ASYNC_REBUILD_CHUNK_THRESHOLD)
<1>1. route = "InlineIncremental" =>
        incremental /\ incremental_brick_field # NoField /\ ~brick_async_outstanding
  <2>1. brick_async_outstanding \in BOOLEAN
    BY DEF TypeOK
  <2> QED
    BY <2>1, MirrorPatched
<1>2. \/ /\ DispatchWholesaleBrickRebuild(s) /\ UNCHANGED incremental_brick_field
         /\ RebuildMesh(s, incremental, dirty, TRUE, brick_field)
      \/ /\ incremental_brick_field' = MirrorAfter(s, route, dirty)
         /\ FinishBrickInstall /\ UNCHANGED brick_worker
         /\ RebuildMesh(s, incremental, dirty, incremental_brick_field' # NoField,
                        FieldAfter(s, route, dirty))
      \/ /\ incremental_brick_field' = NoField
         /\ FinishBrickInstall /\ UNCHANGED brick_worker
         /\ RebuildMesh(s, incremental, dirty, FALSE, brick_field)
  BY DEF Rebuild
<1> HIDE DEF route
<1>3. CASE /\ DispatchWholesaleBrickRebuild(s) /\ UNCHANGED incremental_brick_field
           /\ RebuildMesh(s, incremental, dirty, TRUE, brick_field)
  BY <1>3, RebuildMeshFromFlags DEF DispatchWholesaleBrickRebuild
<1>4. CASE /\ incremental_brick_field' = MirrorAfter(s, route, dirty)
           /\ FinishBrickInstall /\ UNCHANGED brick_worker
           /\ RebuildMesh(s, incremental, dirty, incremental_brick_field' # NoField,
                          FieldAfter(s, route, dirty))
  <2>1. /\ incremental_brick_field' \in {NoField, s}
        /\ FieldAfter(s, route, dirty) \in {brick_field, s}
        /\ incremental_brick_field' = NoField => FieldAfter(s, route, dirty) = brick_field
        /\ incremental_brick_field' # NoField => FieldAfter(s, route, dirty) = s
    BY <1>1, <1>4, InlineBricks
  <2> QED
    BY <1>4, <2>1, RebuildMeshFromFlags DEF FinishBrickInstall
<1>5. CASE /\ incremental_brick_field' = NoField
           /\ FinishBrickInstall /\ UNCHANGED brick_worker
           /\ RebuildMesh(s, incremental, dirty, FALSE, brick_field)
  BY <1>5, RebuildMeshFromFlags DEF FinishBrickInstall
<1> QED
  BY <1>2, <1>3, <1>4, <1>5

(***************************************************************************)
(* The workers.                                                            *)
(***************************************************************************)

(* The slots of a worker after a request, a take, an answer and a poll.    *)
LEMMA Dispatched ==
  ASSUME NEW w \in WorkerStates, NEW j \in Jobs
  PROVE  /\ DispatchTo(w, j) \in WorkerStates
         /\ DispatchTo(w, j).queued = j
         /\ DispatchTo(w, j).building = w.building
         /\ DispatchTo(w, j).done = w.done
  BY DEF DispatchTo, WorkerStates

(* A worker takes what is queued.                                          *)
LEMMA Taken ==
  ASSUME NEW w \in WorkerStates
  PROVE  /\ WorkerTake(w) \in WorkerStates
         /\ WorkerTake(w).queued = NoJob
         /\ WorkerTake(w).building = w.queued
         /\ WorkerTake(w).done = w.done
  BY DEF WorkerTake, WorkerStates, Jobs

(* It puts the answer where the frame looks, or nothing after a panic.     *)
LEMMA Finished ==
  ASSUME NEW w \in WorkerStates, NEW ok \in BOOLEAN, w.building # NoJob
  PROVE  /\ WorkerFinish(w, ok) \in WorkerStates
         /\ WorkerFinish(w, ok).queued = w.queued
         /\ WorkerFinish(w, ok).building = NoJob
         /\ WorkerFinish(w, ok).done.generation = w.building.generation
         /\ WorkerFinish(w, ok).done.picture \in {w.building.picture, NoField}
<1> DEFINE answer == IF ok THEN w.building ELSE [w.building EXCEPT !.picture = NoField]
<1>1. w.building \in JobRecords
  BY DEF WorkerStates, Jobs
<1>2. /\ answer \in JobRecords /\ answer.generation = w.building.generation
      /\ answer.picture \in {w.building.picture, NoField}
  BY <1>1 DEF JobRecords
<1>3. WorkerFinish(w, ok) = [w EXCEPT !.building = NoJob, !.done = answer]
  BY DEF WorkerFinish
<1> HIDE DEF answer
<1> QED
  BY <1>2, <1>3 DEF WorkerStates, Jobs

(* Reading the answer leaves the rest of the worker alone.                 *)
LEMMA Polled ==
  ASSUME NEW w \in WorkerStates
  PROVE  /\ [w EXCEPT !.done = NoJob] \in WorkerStates
         /\ [w EXCEPT !.done = NoJob].queued = w.queued
         /\ [w EXCEPT !.done = NoJob].building = w.building
         /\ [w EXCEPT !.done = NoJob].done = NoJob
  BY DEF WorkerStates, Jobs

(* A job of a minted generation and a picture is a job.                    *)
LEMMA JobTyped ==
  ASSUME NEW g \in Nat \ {0}, NEW p \in Pictures
  PROVE  /\ Job(g, p) \in Jobs /\ Job(g, p) # NoJob
         /\ Job(g, p).generation = g /\ Job(g, p).picture = p
  BY SentinelsAreNoValues DEF Job, Jobs, JobRecords

(* Every slot holds a job or nothing, and a job has a generation.          *)
LEMMA SlotsTyped ==
  ASSUME NEW w \in WorkerStates
  PROVE  /\ w.queued \in Jobs /\ w.building \in Jobs /\ w.done \in Jobs
         /\ \A j \in Jobs : j # NoJob => j.generation \in Nat /\ j.picture \in Pictures \cup {NoField}
  BY DEF WorkerStates, Jobs, JobRecords

(* After a mint a job of the newest generation can only be the one just    *)
(* sent, whatever becomes of the scene.                                    *)
LEMMA MintFreshens ==
  ASSUME NEW w \in WorkerStates, NEW g \in Nat, NEW w1, NEW g1,
         WorkerIsFresh(w, g), scene' \in Pictures, g1 = g + 1,
         w1 = w \/ w1 = DispatchTo(w, Job(g1, scene'))
  PROVE  /\ w1 \in WorkerStates
         /\ \A j \in {w1.queued, w1.building, w1.done} :
              j # NoJob => /\ j.generation <= g1
                           /\ j.generation = g1 => j.picture \in {scene', NoField}
         /\ Underway(w1.queued) /\ Underway(w1.building)
<1>1. /\ Job(g1, scene') \in Jobs /\ Job(g1, scene') # NoJob
      /\ Job(g1, scene').generation = g1 /\ Job(g1, scene').picture = scene'
  BY JobTyped
<1>2. scene' # NoField
  BY SentinelsAreNoValues
<1>3. \A j \in {w.queued, w.building, w.done} :
        j # NoJob => j.generation \in Nat /\ j.generation <= g
  BY SlotsTyped DEF WorkerIsFresh, Fresh
<1>4. Underway(w.queued) /\ Underway(w.building)
  BY DEF WorkerIsFresh
<1>5. CASE w1 = w
  BY <1>3, <1>4, <1>5
<1>6. CASE w1 = DispatchTo(w, Job(g1, scene'))
  <2>1. /\ w1 \in WorkerStates /\ w1.queued = Job(g1, scene')
        /\ w1.building = w.building /\ w1.done = w.done
    BY <1>1, <1>6, Dispatched
  <2> QED
    BY <1>1, <1>2, <1>3, <1>4, <2>1 DEF Underway
<1> QED
  BY <1>5, <1>6

(***************************************************************************)
(* The steps.                                                              *)
(***************************************************************************)

(* An edit is a rebuild for the new scene, and an incremental one changed  *)
(* nothing outside the dirty chunks it hands over.                         *)
LEMMA EditRebuilds ==
  ASSUME TypeOK, WholesaleEdit \/ IncrementalEdit
  PROVE  /\ scene' \in Pictures
         /\ phase' = "ensure"
         /\ UNCHANGED <<debug_face_orientation, panicked>>
         /\ \E incremental \in BOOLEAN, dirty \in SUBSET Chunks :
              /\ incremental => Local(scene', dirty)
              /\ Rebuild(scene', incremental, dirty)
<1>1. /\ scene.edit \in Versions
      /\ Covering(scene) \subseteq Chunks
      /\ \A c \in Covering(scene) : scene.chunks[c] \in Versions
  BY DEF TypeOK, Pictures, Covering
<1>2. scene.edit < MaxEdits => scene.edit + 1 \in Versions /\ 0 \in Versions
  BY <1>1, ConstantAssumption DEF Versions
<1>3. CASE WholesaleEdit
  <2> PICK C \in SUBSET Chunks : \E solid \in SUBSET C :
         scene' = [edit |-> scene.edit + 1,
                   chunks |-> [c \in C |-> IF c \in solid THEN scene.edit + 1 ELSE 0]]
    BY <1>3 DEF WholesaleEdit
  <2> PICK solid \in SUBSET C :
         scene' = [edit |-> scene.edit + 1,
                   chunks |-> [c \in C |-> IF c \in solid THEN scene.edit + 1 ELSE 0]]
    OBVIOUS
  <2> DEFINE chunks == [c \in C |-> IF c \in solid THEN scene.edit + 1 ELSE 0]
  <2>1. chunks \in [C -> Versions]
    BY <1>2, <1>3 DEF WholesaleEdit
  <2>2. scene' \in Pictures
    <3> HIDE DEF chunks
    <3> QED
      BY <1>2, <1>3, <2>1 DEF Pictures, WholesaleEdit
  <2>3. Rebuild(scene', FALSE, {}) /\ phase' = "ensure"
        /\ UNCHANGED <<debug_face_orientation, panicked>>
    BY <1>3 DEF WholesaleEdit
  <2> QED
    BY <2>2, <2>3
<1>4. CASE IncrementalEdit
  <2> DEFINE Edited(dirty, gone, solid) ==
               /\ scene' = [edit |-> scene.edit + 1,
                            chunks |-> [c \in Covering(scene) \ gone |->
                                          IF c \in solid THEN scene.edit + 1
                                          ELSE IF c \in dirty THEN 0 ELSE scene.chunks[c]]]
               /\ Rebuild(scene', TRUE, dirty)
  <2> PICK dirty \in SUBSET Covering(scene) :
         \E gone \in SUBSET dirty : \E solid \in SUBSET (dirty \ gone) :
            Edited(dirty, gone, solid)
    BY <1>4 DEF IncrementalEdit
  <2> PICK gone \in SUBSET dirty : \E solid \in SUBSET (dirty \ gone) :
            Edited(dirty, gone, solid)
    OBVIOUS
  <2> PICK solid \in SUBSET (dirty \ gone) : Edited(dirty, gone, solid)
    OBVIOUS
  <2> DEFINE left == Covering(scene) \ gone
             chunks == [c \in left |->
                          IF c \in solid THEN scene.edit + 1
                          ELSE IF c \in dirty THEN 0 ELSE scene.chunks[c]]
             patched == [c \in left |->
                           IF c \in Covering(scene) \ dirty THEN scene.chunks[c]
                           ELSE chunks[c]]
  <2>1. chunks \in [left -> Versions] /\ left \in SUBSET Chunks
    BY <1>1, <1>2, <1>4 DEF IncrementalEdit
  <2>2. patched = chunks
    OBVIOUS
  <2>3. scene' = [edit |-> scene.edit + 1, chunks |-> chunks]
    OBVIOUS
  <2> HIDE DEF chunks, left
  <2>4. DOMAIN chunks = left
    BY <2>1
  <2>5. scene' \in Pictures
    BY <1>2, <1>4, <2>1, <2>3 DEF Pictures, IncrementalEdit
  <2>6. Patch(scene, scene', dirty) = [edit |-> scene.edit + 1, chunks |-> patched]
    BY <2>3, <2>4 DEF Patch, Covering
  <2>7. Local(scene', dirty)
    BY <2>2, <2>3, <2>6 DEF Local
  <2>8. phase' = "ensure" /\ UNCHANGED <<debug_face_orientation, panicked>>
    BY <1>4 DEF IncrementalEdit
  <2>9. dirty \in SUBSET Chunks
    BY <1>1
  <2> QED
    BY <2>5, <2>7, <2>8, <2>9
<1> QED
  BY <1>3, <1>4

(* The inductive invariant: the flags tell the truth because only a job of *)
(* the newest generation is installed, and that one is of the scene.       *)
Inv == TypeOK /\ NewestIsOfTheScene /\ FlagsTellStaleness /\ DeferredHandoverEnds

(* What no step does: install or patch a picture that is not the scene's.  *)
Whole ==
  /\ cuboid_mesh' \in {cuboid_mesh, scene'}
  /\ incremental_brick_field' \in {incremental_brick_field, NoField, scene'}
  /\ brick_field' \in {brick_field, NoField, scene'}

(* What the frame shows stays as it is or becomes the scene.               *)
Smooth ==
  /\ debug_face_orientation' = debug_face_orientation
  /\ phase = "poll_brick" => HasRecords(scene)
  => Drawn' \in {Drawn, scene'}

(* A whole step keeps pictures pictures.                                   *)
LEMMA WholeKeepsPictures ==
  ASSUME TypeOK, Whole, scene' \in Pictures
  PROVE  /\ cuboid_mesh' \in Pictures
         /\ brick_field' \in Pictures \cup {NoField}
         /\ incremental_brick_field' \in Pictures \cup {NoField}
  BY DEF TypeOK, Whole

(* rebuild_display, on either path.                                        *)
LEMMA EditKeeps ==
  ASSUME Inv, WholesaleEdit \/ IncrementalEdit
  PROVE  Inv' /\ Whole /\ Smooth
<1>0. TypeOK /\ NewestIsOfTheScene /\ FlagsTellStaleness /\ DeferredHandoverEnds
  BY DEF Inv
<1>1. /\ scene' \in Pictures /\ phase' = "ensure" /\ scene' # NoField
      /\ debug_face_orientation' = debug_face_orientation /\ panicked' = panicked
  BY <1>0, EditRebuilds, SentinelsAreNoValues
<1>2. PICK incremental \in BOOLEAN, dirty \in SUBSET Chunks :
        /\ incremental => Local(scene', dirty)
        /\ Rebuild(scene', incremental, dirty)
  BY <1>0, EditRebuilds
<1>3. /\ geometry_generation' = geometry_generation + 1
      /\ brick_generation' = brick_generation + 1
      /\ {mesh_stale', geometry_async_outstanding', brick_async_outstanding',
          brick_display_pending_clear'} \subseteq BOOLEAN
      /\ cuboid_mesh' \in {cuboid_mesh, scene'}
      /\ incremental_brick_field' \in {incremental_brick_field, NoField, scene'}
      /\ brick_field' \in {brick_field, NoField, scene'}
      /\ \/ geometry_worker' = geometry_worker
         \/ geometry_worker' = DispatchTo(geometry_worker, Job(geometry_generation', scene'))
      /\ \/ brick_worker' = brick_worker
         \/ brick_worker' = DispatchTo(brick_worker, Job(brick_generation', scene'))
      /\ ~mesh_stale' /\ ~geometry_async_outstanding' => cuboid_mesh' = scene'
      /\ ~brick_async_outstanding' =>
           /\ incremental_brick_field' \in {NoField, scene'}
           /\ brick_field' # NoField /\ ~brick_display_pending_clear' =>
                brick_field' = incremental_brick_field'
      /\ brick_display_pending_clear' =>
           /\ geometry_async_outstanding' /\ brick_field' # NoField
           /\ ~brick_async_outstanding' /\ incremental_brick_field' = NoField
      /\ brick_field' = NoField =>
           brick_field = NoField \/ debug_face_orientation \/ cuboid_mesh' = scene'
  BY <1>0, <1>1, <1>2, RebuildFromFlags
<1>4. /\ WorkerIsFresh(geometry_worker, geometry_generation)'
      /\ WorkerIsFresh(brick_worker, brick_generation)'
      /\ geometry_worker' \in WorkerStates /\ brick_worker' \in WorkerStates
  <2>1. /\ geometry_worker \in WorkerStates /\ brick_worker \in WorkerStates
        /\ geometry_generation \in Nat /\ brick_generation \in Nat
        /\ WorkerIsFresh(geometry_worker, geometry_generation)
        /\ WorkerIsFresh(brick_worker, brick_generation)
    BY <1>0 DEF TypeOK, NewestIsOfTheScene
  <2>2. /\ geometry_worker' \in WorkerStates
        /\ WorkerIsFresh(geometry_worker, geometry_generation)'
    BY <1>1, <1>3, <2>1, MintFreshens DEF WorkerIsFresh, Fresh, Underway
  <2>3. brick_worker' \in WorkerStates /\ WorkerIsFresh(brick_worker, brick_generation)'
    BY <1>1, <1>3, <2>1, MintFreshens DEF WorkerIsFresh, Fresh, Underway
  <2> QED
    BY <2>2, <2>3
<1>5. Whole
  BY <1>3 DEF Whole
<1>6. TypeOK'
  BY <1>0, <1>1, <1>3, <1>4, <1>5, WholeKeepsPictures DEF TypeOK
<1>7. FlagsTellStaleness' /\ DeferredHandoverEnds'
  BY <1>3 DEF FlagsTellStaleness, DeferredHandoverEnds, Live
<1>8. Smooth
  BY <1>1, <1>3 DEF Smooth, Drawn, BrickDisplayEngaged, Live
<1> QED
  BY <1>4, <1>5, <1>6, <1>7, <1>8 DEF Inv, NewestIsOfTheScene

(* A result of the newest generation with a picture is of the scene.       *)
LEMMA AcceptedIsTheScene ==
  ASSUME NEW w, NEW g, WorkerIsFresh(w, g),
         w.done # NoJob, w.done.generation = g, w.done.picture # NoField
  PROVE  w.done.picture = scene
  BY DEF WorkerIsFresh, Fresh

(* Taking the result out of its slot, with the counter kept or minted on,  *)
(* leaves only jobs that are fresh.                                        *)
LEMMA PolledIsFresh ==
  ASSUME NEW w \in WorkerStates, NEW g \in Nat, NEW w1, NEW g1,
         WorkerIsFresh(w, g), g1 \in {g, g + 1}, scene' = scene,
         w1 \in {w, [w EXCEPT !.done = NoJob]}
  PROVE  /\ w1 \in WorkerStates
         /\ \A j \in {w1.queued, w1.building, w1.done} :
              j # NoJob => /\ j.generation <= g1
                           /\ j.generation = g1 => j.picture \in {scene, NoField}
         /\ Underway(w1.queued) /\ Underway(w1.building)
<1>1. \A j \in {w.queued, w.building, w.done} :
        j # NoJob => /\ j.generation \in Nat /\ j.generation <= g
                     /\ j.generation = g => j.picture \in {scene, NoField}
  BY SlotsTyped DEF WorkerIsFresh, Fresh
<1>2. /\ w1 \in WorkerStates /\ w1.queued = w.queued /\ w1.building = w.building
      /\ w1.done \in {w.done, NoJob}
  BY Polled
<1> QED
  BY <1>1, <1>2 DEF WorkerIsFresh, Underway

(* The poll of the geometry worker, with the handover it may complete.     *)
LEMMA GeometryPollKeeps ==
  ASSUME Inv, PollGeometryWorker
  PROVE  Inv' /\ Whole /\ Smooth
<1>0. TypeOK /\ NewestIsOfTheScene /\ FlagsTellStaleness /\ DeferredHandoverEnds
  BY DEF Inv
<1>1. /\ scene' = scene /\ debug_face_orientation' = debug_face_orientation
      /\ panicked' = panicked /\ phase' = "poll_brick"
      /\ incremental_brick_field' = incremental_brick_field
      /\ brick_generation' = brick_generation /\ brick_worker' = brick_worker
      /\ brick_async_outstanding' = brick_async_outstanding
      /\ geometry_worker' = [geometry_worker EXCEPT !.done = NoJob]
  BY DEF PollGeometryWorker
<1>2. \/ /\ cuboid_mesh' = scene /\ FinishMeshInstall
         /\ brick_field' = FieldAfterMeshInstall(brick_field)
         /\ brick_display_pending_clear' = FALSE
      \/ UNCHANGED <<cuboid_mesh, geometry_generation, geometry_async_outstanding,
                     mesh_stale, brick_field, brick_display_pending_clear>>
  BY <1>0, AcceptedIsTheScene DEF PollGeometryWorker, NewestIsOfTheScene
<1>3. /\ geometry_generation \in Nat /\ geometry_worker \in WorkerStates
      /\ WorkerIsFresh(geometry_worker, geometry_generation)
      /\ geometry_generation' \in {geometry_generation, geometry_generation + 1}
  BY <1>0, <1>2 DEF TypeOK, NewestIsOfTheScene, FinishMeshInstall
<1>4. /\ geometry_worker' \in WorkerStates
      /\ WorkerIsFresh(geometry_worker, geometry_generation)'
  BY <1>1, <1>3, PolledIsFresh DEF WorkerIsFresh, Fresh, Underway
<1>5. WorkerIsFresh(brick_worker, brick_generation)'
  BY <1>0, <1>1 DEF NewestIsOfTheScene, WorkerIsFresh, Fresh, Underway
<1>6. Whole
  BY <1>1, <1>2 DEF Whole, FieldAfterMeshInstall
<1>7. TypeOK'
  <2>1. scene' \in Pictures
    BY <1>0, <1>1 DEF TypeOK
  <2>2. /\ mesh_stale' \in {mesh_stale, FALSE}
        /\ geometry_async_outstanding' \in {geometry_async_outstanding, FALSE}
        /\ brick_display_pending_clear' \in {brick_display_pending_clear, FALSE}
    BY <1>2, Zenon DEF FinishMeshInstall
  <2>3. {mesh_stale', geometry_async_outstanding', brick_display_pending_clear'} \subseteq BOOLEAN
    BY <1>0, <2>2, Zenon DEF TypeOK
  <2>4. geometry_generation' \in Nat
    BY <1>3
  <2>5. /\ cuboid_mesh' \in Pictures
        /\ brick_field' \in Pictures \cup {NoField}
        /\ incremental_brick_field' \in Pictures \cup {NoField}
    BY <1>0, <1>6, <2>1, WholeKeepsPictures
  <2> QED
    BY <1>0, <1>1, <1>4, <2>1, <2>3, <2>4, <2>5 DEF TypeOK
<1>8. FlagsTellStaleness' /\ DeferredHandoverEnds'
  BY <1>0, <1>1, <1>2 DEF FlagsTellStaleness, DeferredHandoverEnds, Live,
     FinishMeshInstall, FieldAfterMeshInstall
<1>9. Smooth
  BY <1>1, <1>2 DEF Smooth, Drawn, BrickDisplayEngaged, Live, FieldAfterMeshInstall
<1> QED
  BY <1>4, <1>5, <1>6, <1>7, <1>8, <1>9 DEF Inv, NewestIsOfTheScene

(* The poll of the brick worker, accepted, refused or deferred.            *)
LEMMA BrickPollKeeps ==
  ASSUME Inv, PollBrickWorker
  PROVE  Inv' /\ Whole /\ Smooth
<1>0. TypeOK /\ NewestIsOfTheScene /\ FlagsTellStaleness /\ DeferredHandoverEnds
  BY DEF Inv
<1>1. /\ scene' = scene /\ debug_face_orientation' = debug_face_orientation
      /\ panicked' = panicked /\ phase = "poll_brick" /\ phase' = "panel"
      /\ UNCHANGED mesh_vars
      /\ brick_worker' = [brick_worker EXCEPT !.done = NoJob]
  BY DEF PollBrickWorker
<1>2. \/ /\ FinishBrickInstall
         /\ incremental_brick_field' = IF HasRecords(scene) THEN scene ELSE NoField
         /\ brick_field' = IF HasRecords(scene) THEN scene ELSE NoField
         /\ brick_display_pending_clear' = FALSE
      \/ UNCHANGED <<brick_field, incremental_brick_field, brick_generation,
                     brick_async_outstanding, brick_display_pending_clear>>
  BY <1>0, AcceptedIsTheScene DEF PollBrickWorker, NewestIsOfTheScene
<1>3. /\ brick_generation \in Nat /\ brick_worker \in WorkerStates
      /\ WorkerIsFresh(brick_worker, brick_generation)
      /\ brick_generation' \in {brick_generation, brick_generation + 1}
  BY <1>0, <1>2 DEF TypeOK, NewestIsOfTheScene, FinishBrickInstall
<1>4. brick_worker' \in WorkerStates /\ WorkerIsFresh(brick_worker, brick_generation)'
  BY <1>1, <1>3, PolledIsFresh DEF WorkerIsFresh, Fresh, Underway
<1>5. WorkerIsFresh(geometry_worker, geometry_generation)'
  BY <1>0, <1>1 DEF NewestIsOfTheScene, WorkerIsFresh, Fresh, Underway, mesh_vars
<1>6. Whole
  BY <1>1, <1>2 DEF Whole, mesh_vars
<1>7. TypeOK'
  <2>1. scene' \in Pictures
    BY <1>0, <1>1 DEF TypeOK
  <2>2. /\ brick_async_outstanding' \in {brick_async_outstanding, FALSE}
        /\ brick_display_pending_clear' \in {brick_display_pending_clear, FALSE}
    BY <1>2, Zenon DEF FinishBrickInstall
  <2>3. {brick_async_outstanding', brick_display_pending_clear'} \subseteq BOOLEAN
    BY <1>0, <2>2, Zenon DEF TypeOK
  <2>4. brick_generation' \in Nat
    BY <1>3
  <2>5. /\ cuboid_mesh' \in Pictures
        /\ brick_field' \in Pictures \cup {NoField}
        /\ incremental_brick_field' \in Pictures \cup {NoField}
    BY <1>0, <1>6, <2>1, WholeKeepsPictures
  <2> QED
    BY <1>0, <1>1, <1>4, <2>1, <2>3, <2>4, <2>5 DEF TypeOK, mesh_vars
<1>8. FlagsTellStaleness' /\ DeferredHandoverEnds'
  BY <1>0, <1>1, <1>2 DEF FlagsTellStaleness, DeferredHandoverEnds, Live,
     FinishBrickInstall, mesh_vars
<1>9. Smooth
  <2>1. scene # NoField
    BY <1>0, SentinelsAreNoValues DEF TypeOK
  <2> QED
    BY <1>1, <1>2, <2>1 DEF Smooth, Drawn, BrickDisplayEngaged, Live, mesh_vars
<1> QED
  BY <1>4, <1>5, <1>6, <1>7, <1>8, <1>9 DEF Inv, NewestIsOfTheScene

(* Bringing the mesh up to date before it is drawn.                        *)
LEMMA EnsureKeeps ==
  ASSUME Inv, EnsureDisplayMeshCurrent
  PROVE  Inv' /\ Whole /\ Smooth
<1>0. TypeOK /\ NewestIsOfTheScene /\ FlagsTellStaleness /\ DeferredHandoverEnds
  BY DEF Inv
<1>1. /\ scene' = scene /\ debug_face_orientation' = debug_face_orientation
      /\ panicked' = panicked /\ phase = "ensure" /\ phase' = "draw"
      /\ incremental_brick_field' = incremental_brick_field
      /\ brick_generation' = brick_generation /\ brick_worker' = brick_worker
      /\ brick_async_outstanding' = brick_async_outstanding
  BY DEF EnsureDisplayMeshCurrent
<1>2. WorkerIsFresh(brick_worker, brick_generation)'
  BY <1>0, <1>1 DEF NewestIsOfTheScene, WorkerIsFresh, Fresh, Underway
<1>3. /\ geometry_generation \in Nat /\ geometry_worker \in WorkerStates
      /\ WorkerIsFresh(geometry_worker, geometry_generation) /\ scene' \in Pictures
  BY <1>0, <1>1 DEF TypeOK, NewestIsOfTheScene
<1>4. CASE UNCHANGED <<mesh_vars, brick_field, brick_display_pending_clear>>
  BY <1>0, <1>1, <1>2, <1>4 DEF mesh_vars, Inv, TypeOK, NewestIsOfTheScene,
     WorkerIsFresh, Fresh, Underway, FlagsTellStaleness, DeferredHandoverEnds,
     Whole, Smooth, Drawn, Live
<1>5. CASE /\ DispatchWholesaleMeshRebuild(scene)
           /\ UNCHANGED <<cuboid_mesh, mesh_stale, brick_field, brick_display_pending_clear>>
  <2>1. /\ geometry_worker' \in WorkerStates
        /\ WorkerIsFresh(geometry_worker, geometry_generation)'
    BY <1>1, <1>3, <1>5, MintFreshens
       DEF DispatchWholesaleMeshRebuild, WorkerIsFresh, Fresh, Underway
  <2>2. geometry_generation' \in Nat /\ geometry_async_outstanding' = TRUE
    BY <1>3, <1>5 DEF DispatchWholesaleMeshRebuild
  <2>3. TypeOK'
    BY <1>0, <1>1, <1>5, <2>1, <2>2 DEF TypeOK
  <2>4. FlagsTellStaleness' /\ DeferredHandoverEnds'
    BY <1>0, <1>1, <1>5, <2>2 DEF FlagsTellStaleness, DeferredHandoverEnds, Live
  <2>5. Whole /\ Smooth
    BY <1>1, <1>5 DEF Whole, Smooth, Drawn, BrickDisplayEngaged, Live
  <2> QED
    BY <1>2, <2>1, <2>3, <2>4, <2>5 DEF Inv, NewestIsOfTheScene
<1>6. CASE /\ cuboid_mesh' = scene /\ FinishMeshInstall
           /\ brick_field' = FieldAfterMeshInstall(brick_field)
           /\ brick_display_pending_clear' = FALSE
           /\ UNCHANGED geometry_worker
  <2>1. /\ geometry_worker' \in WorkerStates
        /\ WorkerIsFresh(geometry_worker, geometry_generation)'
    BY <1>1, <1>3, <1>6, PolledIsFresh
       DEF FinishMeshInstall, WorkerIsFresh, Fresh, Underway
  <2>2. /\ geometry_generation' \in Nat /\ geometry_async_outstanding' = FALSE
        /\ mesh_stale' = FALSE
    BY <1>3, <1>6 DEF FinishMeshInstall
  <2>3. Whole
    BY <1>1, <1>6 DEF Whole, FieldAfterMeshInstall
  <2>4. /\ cuboid_mesh' \in Pictures
        /\ brick_field' \in Pictures \cup {NoField}
        /\ incremental_brick_field' \in Pictures \cup {NoField}
    BY <1>0, <1>3, <2>3, WholeKeepsPictures
  <2>5. TypeOK'
    BY <1>0, <1>1, <1>3, <1>6, <2>1, <2>2, <2>4 DEF TypeOK
  <2>6. FlagsTellStaleness' /\ DeferredHandoverEnds'
    BY <1>0, <1>1, <1>6, <2>2 DEF FlagsTellStaleness, DeferredHandoverEnds, Live,
       FieldAfterMeshInstall
  <2>7. Smooth
    BY <1>1, <1>6 DEF Smooth, Drawn, BrickDisplayEngaged, Live, FieldAfterMeshInstall
  <2> QED
    BY <1>2, <2>1, <2>3, <2>5, <2>6, <2>7 DEF Inv, NewestIsOfTheScene
<1> QED
  BY <1>4, <1>5, <1>6 DEF EnsureDisplayMeshCurrent

(* A step of the panel, an idle frame, the drawing: no picture moves.      *)
LEMMA IdleKeeps ==
  ASSUME Inv, RunPanel \/ NoEdit \/ Draw
  PROVE  Inv' /\ Whole /\ Smooth
<1>1. /\ scene' = scene /\ panicked' = panicked
      /\ brick_display_pending_clear' = brick_display_pending_clear
      /\ UNCHANGED mesh_vars /\ UNCHANGED brick_vars
      /\ phase' \in {"edit", "ensure", "poll_geometry"}
      /\ debug_face_orientation' \in {debug_face_orientation} \cup Toggles
  BY DEF RunPanel, NoEdit, Draw
<1>2. debug_face_orientation' \in BOOLEAN
  BY <1>1, ConstantAssumption, Zenon DEF Inv, TypeOK
<1>3. TypeOK'
  BY <1>1, <1>2 DEF Inv, TypeOK, mesh_vars, brick_vars
<1>4. NewestIsOfTheScene' /\ FlagsTellStaleness' /\ DeferredHandoverEnds'
  BY <1>1 DEF Inv, NewestIsOfTheScene, WorkerIsFresh, Fresh, Underway,
     FlagsTellStaleness, DeferredHandoverEnds, Live, mesh_vars, brick_vars
<1>5. Whole /\ Smooth
  BY <1>1 DEF Whole, Smooth, Drawn, Live, mesh_vars, brick_vars
<1> QED
  BY <1>3, <1>4, <1>5 DEF Inv

(* A worker that takes a request or answers one, with or without a         *)
(* picture, holds only jobs it held before.                                *)
LEMMA WorkerStaysFresh ==
  ASSUME NEW w \in WorkerStates, NEW g, NEW ok \in BOOLEAN, NEW w1,
         WorkerIsFresh(w, g),
         \/ w1 = WorkerTake(w)
         \/ w.building # NoJob /\ w1 = WorkerFinish(w, ok)
  PROVE  /\ w1 \in WorkerStates
         /\ \A j \in {w1.queued, w1.building, w1.done} :
              j # NoJob => /\ j.generation <= g
                           /\ j.generation = g => j.picture \in {scene, NoField}
         /\ Underway(w1.queued) /\ Underway(w1.building)
<1>1. /\ \A j \in {w.queued, w.building, w.done} :
           j # NoJob => /\ j.generation <= g
                        /\ j.generation = g => j.picture \in {scene, NoField}
      /\ Underway(w.queued) /\ Underway(w.building)
  BY DEF WorkerIsFresh, Fresh
<1>2. CASE w1 = WorkerTake(w)
  <2>1. /\ w1 \in WorkerStates /\ w1.queued = NoJob
        /\ w1.building = w.queued /\ w1.done = w.done
    BY <1>2, Taken
  <2> QED
    BY <1>1, <2>1 DEF Underway
<1>3. CASE w.building # NoJob /\ w1 = WorkerFinish(w, ok)
  <2>1. /\ w1 \in WorkerStates /\ w1.queued = w.queued /\ w1.building = NoJob
        /\ w1.done.generation = w.building.generation
        /\ w1.done.picture \in {w.building.picture, NoField}
    BY <1>3, Finished
  <2> QED
    BY <1>1, <1>3, <2>1 DEF Underway
<1> QED
  BY <1>2, <1>3

(* What a worker builds is of an edit.                                     *)
LEMMA BuildsAnEdit ==
  ASSUME NEW w \in WorkerStates, Underway(w.building), w.building # NoJob
  PROVE  w.building.picture.edit \in Versions
<1>1. w.building.picture \in Pictures
  BY SlotsTyped DEF Underway
<1>2. \A p \in Pictures : p.edit \in Versions
  BY DEF Pictures
<1> QED
  BY <1>1, <1>2

(* The steps of the geometry thread.                                       *)
LEMMA GeometryWorkerKeeps ==
  ASSUME Inv, NEW ok \in BOOLEAN, GeometryTake \/ GeometryFinish(ok)
  PROVE  Inv' /\ Whole /\ Smooth
<1>1. /\ UNCHANGED <<scene, debug_face_orientation, phase, brick_display_pending_clear,
                     brick_vars, cuboid_mesh, mesh_stale, geometry_generation,
                     geometry_async_outstanding>>
      /\ \/ geometry_worker' = WorkerTake(geometry_worker) /\ panicked' = panicked
         \/ /\ geometry_worker.building # NoJob
            /\ geometry_worker' = WorkerFinish(geometry_worker, ok)
            /\ panicked' \in {panicked, panicked \cup {geometry_worker.building.picture.edit}}
  BY DEF GeometryTake, GeometryFinish
<1>2. geometry_worker \in WorkerStates /\ WorkerIsFresh(geometry_worker, geometry_generation)
  BY DEF Inv, TypeOK, NewestIsOfTheScene
<1>3. /\ geometry_worker' \in WorkerStates
      /\ WorkerIsFresh(geometry_worker, geometry_generation)'
  BY <1>1, <1>2, WorkerStaysFresh DEF WorkerIsFresh, Fresh, Underway
<1>4. panicked' \subseteq Versions
  BY <1>1, <1>2, BuildsAnEdit DEF Inv, TypeOK, WorkerIsFresh
<1>5. TypeOK'
  BY <1>1, <1>3, <1>4 DEF Inv, TypeOK, brick_vars
<1>6. WorkerIsFresh(brick_worker, brick_generation)'
  BY <1>1 DEF Inv, NewestIsOfTheScene, WorkerIsFresh, Fresh, Underway, brick_vars
<1>7. FlagsTellStaleness' /\ DeferredHandoverEnds'
  BY <1>1 DEF Inv, FlagsTellStaleness, DeferredHandoverEnds, Live, brick_vars
<1>8. Whole /\ Smooth
  BY <1>1 DEF Whole, Smooth, Drawn, Live, brick_vars
<1> QED
  BY <1>3, <1>5, <1>6, <1>7, <1>8 DEF Inv, NewestIsOfTheScene

(* The steps of the brick thread.                                          *)
LEMMA BrickWorkerKeeps ==
  ASSUME Inv, NEW ok \in BOOLEAN, BrickTake \/ BrickFinish(ok)
  PROVE  Inv' /\ Whole /\ Smooth
<1>1. /\ UNCHANGED <<scene, debug_face_orientation, phase, brick_display_pending_clear,
                     mesh_vars, brick_field, incremental_brick_field, brick_generation,
                     brick_async_outstanding>>
      /\ \/ brick_worker' = WorkerTake(brick_worker) /\ panicked' = panicked
         \/ /\ brick_worker.building # NoJob
            /\ brick_worker' = WorkerFinish(brick_worker, ok)
            /\ panicked' \in {panicked, panicked \cup {brick_worker.building.picture.edit}}
  BY DEF BrickTake, BrickFinish
<1>2. brick_worker \in WorkerStates /\ WorkerIsFresh(brick_worker, brick_generation)
  BY DEF Inv, TypeOK, NewestIsOfTheScene
<1>3. brick_worker' \in WorkerStates /\ WorkerIsFresh(brick_worker, brick_generation)'
  BY <1>1, <1>2, WorkerStaysFresh DEF WorkerIsFresh, Fresh, Underway
<1>4. panicked' \subseteq Versions
  BY <1>1, <1>2, BuildsAnEdit DEF Inv, TypeOK, WorkerIsFresh
<1>5. TypeOK'
  BY <1>1, <1>3, <1>4 DEF Inv, TypeOK, mesh_vars
<1>6. WorkerIsFresh(geometry_worker, geometry_generation)'
  BY <1>1 DEF Inv, NewestIsOfTheScene, WorkerIsFresh, Fresh, Underway, mesh_vars
<1>7. FlagsTellStaleness' /\ DeferredHandoverEnds'
  BY <1>1 DEF Inv, FlagsTellStaleness, DeferredHandoverEnds, Live, mesh_vars
<1>8. Whole /\ Smooth
  BY <1>1 DEF Whole, Smooth, Drawn, Live, mesh_vars
<1> QED
  BY <1>3, <1>5, <1>6, <1>7, <1>8 DEF Inv, NewestIsOfTheScene

(***************************************************************************)
(* The theorems.                                                           *)
(***************************************************************************)

(* At startup only a small scene's brick field is there, and only a large  *)
(* one's is on its way.                                                    *)
LEMMA StartsRight == Init => Inv
<1> SUFFICES ASSUME Init PROVE Inv
  OBVIOUS
<1>1. /\ IdleWorker \in WorkerStates /\ IdleWorker.queued = NoJob
      /\ IdleWorker.building = NoJob /\ IdleWorker.done = NoJob
  BY DEF IdleWorker, WorkerStates, Jobs
<1>2. 0 \in Versions /\ 1 \in Versions
  BY ConstantAssumption DEF Versions
<1>3. scene \in Pictures
  <2>1. PICK C \in SUBSET Chunks : scene \in [edit : {1}, chunks : [C -> {0, 1}]]
    BY DEF Init
  <2>2. [C -> {0, 1}] \subseteq [C -> Versions]
    BY <1>2
  <2> QED
    BY <1>2, <2>1, <2>2 DEF Pictures
<1>4. BlankMesh \in Pictures
  <2>1. [c \in {} |-> 0] \in [{} -> Versions]
    OBVIOUS
  <2> QED
    BY <1>2, <2>1 DEF BlankMesh, Pictures
<1>5. {brick_async_outstanding, mesh_stale, debug_face_orientation} \subseteq BOOLEAN
  BY ConstantAssumption DEF Init, BrickDisplayEngaged
<1>6. /\ brick_field \in Pictures \cup {NoField} /\ incremental_brick_field = brick_field
      /\ brick_field \in {NoField, scene}
      /\ cuboid_mesh \in Pictures /\ (~mesh_stale => cuboid_mesh = scene)
  BY <1>3, <1>4 DEF Init
<1>7. /\ brick_worker \in WorkerStates /\ brick_generation \in Nat
      /\ WorkerIsFresh(brick_worker, brick_generation)
  <2>1. CASE brick_async_outstanding
    <3>1. brick_worker = DispatchTo(IdleWorker, Job(1, scene)) /\ brick_generation = 1
      BY <2>1 DEF Init
    <3>2. /\ Job(1, scene) \in Jobs /\ Job(1, scene).generation = 1
          /\ Job(1, scene).picture = scene
      BY <1>3, JobTyped
    <3>3. scene # NoField
      BY <1>3, SentinelsAreNoValues
    <3>4. /\ brick_worker \in WorkerStates /\ brick_worker.queued = Job(1, scene)
          /\ brick_worker.building = NoJob /\ brick_worker.done = NoJob
      BY <1>1, <3>1, <3>2, Dispatched
    <3> QED
      BY <3>1, <3>2, <3>3, <3>4 DEF WorkerIsFresh, Fresh, Underway
  <2>2. CASE ~brick_async_outstanding
    BY <1>1, <2>2 DEF Init, WorkerIsFresh, Fresh, Underway
  <2> QED
    BY <2>1, <2>2
<1>8. /\ geometry_worker \in WorkerStates
      /\ WorkerIsFresh(geometry_worker, geometry_generation)
  BY <1>1 DEF Init, WorkerIsFresh, Fresh, Underway
<1>9. TypeOK
  <2>1. /\ phase = "poll_geometry" /\ panicked = {} /\ geometry_generation = 0
        /\ brick_display_pending_clear = FALSE /\ geometry_async_outstanding = FALSE
    BY DEF Init
  <2>2. {debug_face_orientation, mesh_stale, brick_display_pending_clear,
         geometry_async_outstanding, brick_async_outstanding} \subseteq BOOLEAN
    BY <1>5, <2>1
  <2> QED
    BY <1>3, <1>6, <1>7, <1>8, <2>1, <2>2 DEF TypeOK
<1>10. FlagsTellStaleness /\ DeferredHandoverEnds
  BY <1>6 DEF Init, FlagsTellStaleness, DeferredHandoverEnds, Live
<1> QED
  BY <1>7, <1>8, <1>9, <1>10 DEF Inv, NewestIsOfTheScene

(* Every step of the machine keeps the invariant and mixes nothing.        *)
LEMMA StepsKeep == Inv /\ [Next]_vars => Inv' /\ (Whole /\ Smooth)
<1> SUFFICES ASSUME Inv, [Next]_vars
             PROVE  Inv' /\ Whole /\ Smooth
  OBVIOUS
<1>1. CASE Frame
  BY <1>1, GeometryPollKeeps, BrickPollKeeps, IdleKeeps, EditKeeps, EnsureKeeps DEF Frame
<1>2. CASE Workers \/ Panic
  BY <1>2, GeometryWorkerKeeps, BrickWorkerKeeps DEF Workers, Panic
<1>3. CASE UNCHANGED vars
  BY <1>3 DEF Inv, TypeOK, NewestIsOfTheScene, WorkerIsFresh, Fresh, Underway,
     FlagsTellStaleness, DeferredHandoverEnds, Whole, Smooth, Drawn, Live,
     vars, mesh_vars, brick_vars
<1> QED
  BY <1>1, <1>2, <1>3 DEF Next

(* The invariant holds of every reachable frame.                           *)
LEMMA Invariance == Spec => []Inv
  BY StartsRight, StepsKeep, PTL DEF Spec

(* Every variable keeps its type, for any chunks, edits and panics.        *)
THEOREM DisplayTypeCorrect == Spec => []TypeOK
<1>1. Inv => TypeOK
  BY DEF Inv
<1> QED
  BY <1>1, Invariance, PTL

(* A request or a result of the newest generation is of the scene of now   *)
(* (NewestIsOfTheScene): the inline installs mint as they must.            *)
THEOREM NewestGenerationIsTheScene == Spec => []NewestIsOfTheScene
<1>1. Inv => NewestIsOfTheScene
  BY DEF Inv
<1> QED
  BY <1>1, Invariance, PTL

(* The interlock flags the routing reads tell the truth of the mesh, of    *)
(* the mirror and of the live field (FlagsTellStaleness).                  *)
THEOREM FlagsAreTrue == Spec => []FlagsTellStaleness
<1>1. Inv => FlagsTellStaleness
  BY DEF Inv
<1> QED
  BY <1>1, Invariance, PTL

(* A deferred handover waits for a mesh that is on its way                 *)
(* (DeferredHandoverEnds).                                                 *)
THEOREM DeferralHasItsMesh == Spec => []DeferredHandoverEnds
<1>1. Inv => DeferredHandoverEnds
  BY DEF Inv
<1> QED
  BY <1>1, Invariance, PTL

(* No step of frame or worker patches or installs a picture that mixes two *)
(* scenes (NeverMixesTwoScenes).                                           *)
THEOREM NothingMixes == Spec => NeverMixesTwoScenes
<1>1. Inv /\ [Next]_vars =>
        [/\ cuboid_mesh' \in {cuboid_mesh, scene'}
         /\ incremental_brick_field' \in {incremental_brick_field, NoField, scene'}
         /\ brick_field' \in {brick_field, NoField, scene'}]_vars
  BY StepsKeep DEF Whole
<1> QED
  BY <1>1, Invariance, PTL DEF Spec, NeverMixesTwoScenes

(* With the switch left alone, what is drawn stays or becomes the scene,   *)
(* but for the arrival of a build that found no brick                      *)
(* (DrawnStaysOrBecomesCurrent).                                           *)
THEOREM DrawnNeverGoesBack == Spec => DrawnStaysOrBecomesCurrent
<1>1. Inv /\ [Next]_vars =>
        [/\ debug_face_orientation' = debug_face_orientation
         /\ phase = "poll_brick" => HasRecords(scene)
         => Drawn' \in {Drawn, scene'}]_vars
  BY StepsKeep DEF Smooth
<1> QED
  BY <1>1, Invariance, PTL DEF Spec, DrawnStaysOrBecomesCurrent
=============================================================================
