-------------------------- MODULE DisplayOrchestrator --------------------------
(***************************************************************************)
(* The display state machine: two derived pictures of one scene (a cuboid  *)
(* mesh and a brick field), each rebuilt inline, patched in place or       *)
(* rebuilt by a background worker, and one of them drawn each frame.       *)
(*                                                                         *)
(* A picture is what it was derived from: the number of the edit it shows  *)
(* and, for each covering chunk, the edit that last wrote it (0 for air).  *)
(* A picture put together from two scenes is one whose chunks are not      *)
(* those of any scene.  The two workers keep to the supersede protocol     *)
(* (module Supersede); here each is its newest queued request, the build   *)
(* in progress and its newest finished result, which is all the draining   *)
(* of both channels lets anyone observe.                                   *)
(***************************************************************************)
EXTENDS Routing, FiniteSets

CONSTANTS
  Chunks,                         \* chunk coordinates
  ASYNC_REBUILD_CHUNK_THRESHOLD,  \* covering sets above it go to a worker
  MaxEdits,                       \* bound on scene edits, the startup scene included
  MaxPanics,                      \* bound on edits of which a build panics
  Toggles,                        \* values the debug-face switch may take
  NoField,                        \* no mirror / no live brick field
  NoJob                           \* an empty slot of a worker

ASSUME ConstantAssumption ==
  /\ ASYNC_REBUILD_CHUNK_THRESHOLD \in Nat
  /\ MaxEdits \in Nat \ {0}
  /\ MaxPanics \in Nat
  /\ Toggles \subseteq BOOLEAN /\ Toggles # {}
  /\ IsFiniteSet(Chunks)

VARIABLES
  scene,                        \* what the last resolve produced
  debug_face_orientation,       \* the mesh-only display mode
  phase,                        \* where the frame is
  cuboid_mesh,                  \* the installed mesh
  mesh_stale,                   \* its build was skipped
  brick_display_pending_clear,  \* a deferred handover waits for the mesh
  brick_field,                  \* the renderer's live field, or NoField
  incremental_brick_field,      \* the CPU mirror, or NoField
  geometry_generation,          \* newest generation minted for the mesh
  geometry_async_outstanding,
  geometry_worker,
  brick_generation,             \* the same for the brick pipeline
  brick_async_outstanding,
  brick_worker,
  panicked                      \* edits of which a build panicked

mesh_vars == <<cuboid_mesh, mesh_stale, geometry_generation,
               geometry_async_outstanding, geometry_worker>>
brick_vars == <<brick_field, incremental_brick_field, brick_generation,
                brick_async_outstanding, brick_worker>>
vars == <<scene, debug_face_orientation, phase, brick_display_pending_clear,
          panicked, mesh_vars, brick_vars>>

-----------------------------------------------------------------------------
(* Pictures.                                                               *)

Versions == 0..MaxEdits

Pictures == [edit : Versions, chunks : UNION {[C -> Versions] : C \in SUBSET Chunks}]

Covering(p) == DOMAIN p.chunks
Chunkable(p) == Covering(p) # {}

(* A build of the brick field keeps a record for every chunk that is not   *)
(* air; a field without records is no field.                               *)
HasRecords(p) == \E c \in Covering(p) : p.chunks[c] # 0

BlankMesh == [edit |-> 0, chunks |-> [c \in {} |-> 0]]

(* Only the dirty chunks of old are taken from new.                        *)
Patch(old, new, dirty) ==
  [edit |-> new.edit,
   chunks |-> [c \in Covering(new) |->
                 IF c \in Covering(old) \ dirty THEN old.chunks[c] ELSE new.chunks[c]]]

Live == brick_field # NoField

(* The shared engagement predicate: does the brick field stand in for the  *)
(* mesh?                                                                   *)
BrickDisplayEngaged(live, debug) == live /\ ~debug

Drawn == IF BrickDisplayEngaged(Live, debug_face_orientation)
         THEN brick_field ELSE cuboid_mesh

-----------------------------------------------------------------------------
(* A worker, reduced to what draining to the latest lets anyone see.       *)

IdleWorker == [queued |-> NoJob, building |-> NoJob, done |-> NoJob]

Job(generation, picture) == [generation |-> generation, picture |-> picture]

JobRecords == [generation : Nat \ {0}, picture : Pictures \cup {NoField}]
Jobs == JobRecords \cup {NoJob}
WorkerStates == [queued : Jobs, building : Jobs, done : Jobs]

ASSUME SentinelsAreNoValues == NoField \notin Pictures /\ NoJob \notin JobRecords

DispatchTo(worker, job) == [worker EXCEPT !.queued = job]

WorkerTake(worker) == [worker EXCEPT !.queued = NoJob, !.building = worker.queued]

(* The result of a build that panicked carries no picture.                 *)
WorkerFinish(worker, ok) ==
  [worker EXCEPT !.building = NoJob,
                 !.done = IF ok THEN worker.building
                          ELSE [worker.building EXCEPT !.picture = NoField]]

-----------------------------------------------------------------------------
(* The startup build.  A small scene is built and installed inline without *)
(* consuming a generation; a large one goes to the brick worker, and the   *)
(* mesh is skipped when the brick display is, or is expected to be, there. *)

Init ==
  /\ scene \in [edit : {1}, chunks : UNION {[C -> {0, 1}] : C \in SUBSET Chunks}]
  /\ debug_face_orientation \in Toggles
  /\ phase = "poll_geometry"
  /\ panicked = {}
  /\ brick_display_pending_clear = FALSE
  /\ brick_async_outstanding = (Cardinality(Covering(scene)) > ASYNC_REBUILD_CHUNK_THRESHOLD)
  /\ brick_generation = IF brick_async_outstanding THEN 1 ELSE 0
  /\ brick_worker = IF brick_async_outstanding
                    THEN DispatchTo(IdleWorker, Job(1, scene)) ELSE IdleWorker
  /\ brick_field = IF ~brick_async_outstanding /\ HasRecords(scene) THEN scene ELSE NoField
  /\ incremental_brick_field = brick_field
  /\ mesh_stale = BrickDisplayEngaged(Live \/ brick_async_outstanding, debug_face_orientation)
  /\ cuboid_mesh = IF mesh_stale THEN BlankMesh ELSE scene
  /\ geometry_generation = 0
  /\ geometry_async_outstanding = FALSE
  /\ geometry_worker = IdleWorker

-----------------------------------------------------------------------------
(* The two install seams, which every path that makes an artifact current  *)
(* goes through.  The mesh's completes a deferred handover: the placeholder *)
(* field is cleared (FieldAfterMeshInstall).                               *)

FinishMeshInstall ==
  /\ geometry_generation' = geometry_generation + 1
  /\ geometry_async_outstanding' = FALSE
  /\ mesh_stale' = FALSE

FieldAfterMeshInstall(field) == IF brick_display_pending_clear THEN NoField ELSE field

(* A slip for the mutation run: the seam forgets to mint, and the result   *)
(* of a superseded build passes for the newest.                            *)
FinishBrickInstallNoMint ==
  /\ brick_async_outstanding' = FALSE
  /\ UNCHANGED brick_generation

FinishBrickInstall ==
  /\ brick_generation' = brick_generation + 1
  /\ brick_async_outstanding' = FALSE

(* A dispatch: mint a generation, mark the build outstanding, send.        *)
DispatchWholesaleMeshRebuild(s) ==
  /\ geometry_generation' = geometry_generation + 1
  /\ geometry_async_outstanding' = TRUE
  /\ geometry_worker' = DispatchTo(geometry_worker, Job(geometry_generation', s))

(* A slip: the request is stamped before the generation is minted.         *)
DispatchBrickUnminted(s) ==
  /\ brick_worker' = DispatchTo(brick_worker, Job(brick_generation, s))
  /\ brick_async_outstanding' = TRUE
  /\ brick_generation' = brick_generation + 1

DispatchWholesaleBrickRebuild(s) ==
  /\ brick_generation' = brick_generation + 1
  /\ brick_async_outstanding' = TRUE
  /\ brick_worker' = DispatchTo(brick_worker, Job(brick_generation', s))

(* The last step of a rebuild: what becomes of the live field.             *)
ApplyBrickDisplayHandover(installed, mesh_current, field) ==
  LET decision == Handover(installed, mesh_current, ~debug_face_orientation,
                           field # NoField)
  IN  /\ brick_field' = IF decision = "ClearNow" THEN NoField ELSE field
      /\ brick_display_pending_clear' = (decision = "DeferUntilInstall")

-----------------------------------------------------------------------------
(* One rebuild, for an edit that gave scene s; dirty is what the edit      *)
(* evicted when incremental.                                               *)

SkipMesh ==
  /\ geometry_generation' = geometry_generation + 1
  /\ geometry_async_outstanding' = FALSE
  /\ mesh_stale' = TRUE
  /\ UNCHANGED <<cuboid_mesh, geometry_worker>>

RebuildMesh(s, incremental, dirty, installed, field) ==
  LET route == RouteMeshBuild(
                 BrickDisplayEngaged(installed, debug_face_orientation),
                 mesh_stale, geometry_async_outstanding,
                 IF incremental THEN Incremental ELSE Wholesale(Cardinality(Covering(s))),
                 ASYNC_REBUILD_CHUNK_THRESHOLD)
  IN  \/ /\ route = "Skip"
         /\ SkipMesh
         /\ ApplyBrickDisplayHandover(installed, FALSE, field)
      \/ /\ route = "WholesaleAsync"
         /\ DispatchWholesaleMeshRebuild(s)
         /\ UNCHANGED <<cuboid_mesh, mesh_stale>>
         /\ ApplyBrickDisplayHandover(installed, FALSE, field)
      \/ /\ route \in InlineRoutes
         /\ cuboid_mesh' = IF route = "InlineIncremental"
                           THEN Patch(cuboid_mesh, s, dirty) ELSE s
         /\ FinishMeshInstall
         /\ UNCHANGED geometry_worker
         /\ ApplyBrickDisplayHandover(installed, TRUE, FieldAfterMeshInstall(field))

(* The mirror after an inline rebuild: patched, or reset from a wholesale; *)
(* a mirror without records is dropped.                                    *)
MirrorAfter(s, route, dirty) ==
  LET built == IF route = "InlineIncremental"
               THEN Patch(incremental_brick_field, s, dirty) ELSE s
  IN  IF HasRecords(built) THEN built ELSE NoField

(* The renderer's field after an inline rebuild that kept a mirror.        *)
FieldAfter(s, route, dirty) ==
  IF MirrorAfter(s, route, dirty) = NoField THEN brick_field
  ELSE IF PatchInPlace(route = "InlineIncremental", Live, brick_display_pending_clear)
       THEN Patch(brick_field, s, dirty)
       ELSE MirrorAfter(s, route, dirty)

Rebuild(s, incremental, dirty) ==
  LET route == RouteBrickRebuild(brick_async_outstanding, incremental,
                                 incremental_brick_field # NoField,
                                 Cardinality(Covering(s)), ASYNC_REBUILD_CHUNK_THRESHOLD)
  IN  \/ /\ Chunkable(s) /\ route = "WholesaleAsync"
         /\ DispatchWholesaleBrickRebuild(s)
         /\ UNCHANGED incremental_brick_field
         (* the field to land is taken for the display *)
         /\ RebuildMesh(s, incremental, dirty, TRUE, brick_field)
      \/ /\ Chunkable(s) /\ route \in InlineRoutes
         /\ incremental_brick_field' = MirrorAfter(s, route, dirty)
         /\ FinishBrickInstall
         /\ UNCHANGED brick_worker
         /\ RebuildMesh(s, incremental, dirty,
                        incremental_brick_field' # NoField, FieldAfter(s, route, dirty))
      \/ /\ ~Chunkable(s)
         /\ incremental_brick_field' = NoField
         /\ FinishBrickInstall
         /\ UNCHANGED brick_worker
         /\ RebuildMesh(s, incremental, dirty, FALSE, brick_field)

-----------------------------------------------------------------------------
(* A frame of the shell: poll the mesh worker, poll the brick worker, run  *)
(* the panel (which may flip the debug-face switch), apply edits, bring    *)
(* the mesh up to date if it is about to be drawn, draw.                   *)

(* A result is looked at once; only the newest generation's is accepted,   *)
(* and a build that panicked leaves the outstanding flag set.              *)
PollGeometryWorker ==
  /\ phase = "poll_geometry"
  /\ phase' = "poll_brick"
  /\ LET result == geometry_worker.done
         swap == /\ result # NoJob
                 /\ result.generation = geometry_generation
                 /\ result.picture # NoField
     IN  /\ geometry_worker' = [geometry_worker EXCEPT !.done = NoJob]
         /\ \/ /\ swap
               /\ cuboid_mesh' = result.picture
               /\ FinishMeshInstall
               /\ brick_field' = FieldAfterMeshInstall(brick_field)
               /\ brick_display_pending_clear' = FALSE
            \/ /\ ~swap
               /\ UNCHANGED <<cuboid_mesh, geometry_generation, geometry_async_outstanding,
                              mesh_stale, brick_field, brick_display_pending_clear>>
  /\ UNCHANGED <<scene, debug_face_orientation, panicked, incremental_brick_field,
                 brick_generation, brick_async_outstanding, brick_worker>>

PollBrickWorker ==
  /\ phase = "poll_brick"
  /\ phase' = "panel"
  /\ LET result == brick_worker.done
         accept == /\ result # NoJob
                   /\ result.generation = brick_generation
                   /\ result.picture # NoField
         field == IF HasRecords(result.picture) THEN result.picture ELSE NoField
     IN  /\ brick_worker' = [brick_worker EXCEPT !.done = NoJob]
         /\ \/ /\ accept
               /\ FinishBrickInstall
               /\ incremental_brick_field' = field
               /\ brick_field' = field
               /\ brick_display_pending_clear' = FALSE
            \/ /\ ~accept
               /\ UNCHANGED <<brick_field, incremental_brick_field, brick_generation,
                              brick_async_outstanding, brick_display_pending_clear>>
  /\ UNCHANGED <<scene, debug_face_orientation, panicked, mesh_vars>>

(* The panel's switch is a plain display flag: flipping it rebuilds nothing. *)
RunPanel ==
  /\ phase = "panel"
  /\ phase' = "edit"
  /\ debug_face_orientation' \in Toggles
  /\ UNCHANGED <<scene, panicked, brick_display_pending_clear, mesh_vars, brick_vars>>

NoEdit ==
  /\ phase = "edit"
  /\ phase' = "ensure"
  /\ UNCHANGED <<scene, debug_face_orientation, panicked, brick_display_pending_clear,
                 mesh_vars, brick_vars>>

(* An edit with no dirty set: any covering set, any of it air.             *)
WholesaleEdit ==
  /\ phase = "edit" /\ scene.edit < MaxEdits
  /\ phase' = "ensure"
  /\ \E C \in SUBSET Chunks : \E solid \in SUBSET C :
       scene' = [edit |-> scene.edit + 1,
                 chunks |-> [c \in C |-> IF c \in solid THEN scene.edit + 1 ELSE 0]]
  /\ Rebuild(scene', FALSE, {})
  /\ UNCHANGED <<debug_face_orientation, panicked>>

(* An edit that changed nothing outside the dirty chunks, some of which    *)
(* may have left the covering set.                                         *)
IncrementalEdit ==
  /\ phase = "edit" /\ scene.edit < MaxEdits
  /\ phase' = "ensure"
  /\ \E dirty \in SUBSET Covering(scene) :
     \E gone \in SUBSET dirty : \E solid \in SUBSET (dirty \ gone) :
       /\ scene' = [edit |-> scene.edit + 1,
                    chunks |-> [c \in Covering(scene) \ gone |->
                                  IF c \in solid THEN scene.edit + 1
                                  ELSE IF c \in dirty THEN 0 ELSE scene.chunks[c]]]
       /\ Rebuild(scene', TRUE, dirty)
  /\ UNCHANGED <<debug_face_orientation, panicked>>

(* The stale mesh is rebuilt the frame it is about to be drawn, unless a   *)
(* build of it is in flight, or a brick build is and will be drawn.        *)
EnsureDisplayMeshCurrent ==
  /\ phase = "ensure"
  /\ phase' = "draw"
  /\ LET needed == /\ mesh_stale
                   /\ ~BrickDisplayEngaged(Live, debug_face_orientation)
                   /\ brick_async_outstanding => debug_face_orientation
                   /\ ~geometry_async_outstanding
         large == Cardinality(Covering(scene)) > ASYNC_REBUILD_CHUNK_THRESHOLD
     IN  \/ /\ ~needed
            /\ UNCHANGED <<mesh_vars, brick_field, brick_display_pending_clear>>
         \/ /\ needed /\ large
            /\ DispatchWholesaleMeshRebuild(scene)
            /\ UNCHANGED <<cuboid_mesh, mesh_stale, brick_field, brick_display_pending_clear>>
         \/ /\ needed /\ ~large
            /\ cuboid_mesh' = scene
            /\ FinishMeshInstall
            /\ brick_field' = FieldAfterMeshInstall(brick_field)
            /\ brick_display_pending_clear' = FALSE
            /\ UNCHANGED geometry_worker
  /\ UNCHANGED <<scene, debug_face_orientation, panicked, incremental_brick_field,
                 brick_generation, brick_async_outstanding, brick_worker>>

Draw ==
  /\ phase = "draw"
  /\ phase' = "poll_geometry"
  /\ UNCHANGED <<scene, debug_face_orientation, panicked, brick_display_pending_clear,
                 mesh_vars, brick_vars>>

-----------------------------------------------------------------------------
(* The two worker threads: take the newest request up when idle, finish    *)
(* it, or panic and live.                                                  *)

GeometryTake ==
  /\ geometry_worker.queued # NoJob /\ geometry_worker.building = NoJob
  /\ geometry_worker' = WorkerTake(geometry_worker)
  /\ UNCHANGED <<scene, debug_face_orientation, phase, panicked, brick_display_pending_clear,
                 brick_vars, cuboid_mesh, mesh_stale, geometry_generation,
                 geometry_async_outstanding>>

GeometryFinish(ok) ==
  /\ geometry_worker.building # NoJob
  /\ geometry_worker' = WorkerFinish(geometry_worker, ok)
  /\ panicked' = IF ok THEN panicked ELSE panicked \cup {geometry_worker.building.picture.edit}
  /\ UNCHANGED <<scene, debug_face_orientation, phase, brick_display_pending_clear,
                 brick_vars, cuboid_mesh, mesh_stale, geometry_generation,
                 geometry_async_outstanding>>

BrickTake ==
  /\ brick_worker.queued # NoJob /\ brick_worker.building = NoJob
  /\ brick_worker' = WorkerTake(brick_worker)
  /\ UNCHANGED <<scene, debug_face_orientation, phase, panicked, brick_display_pending_clear,
                 mesh_vars, brick_field, incremental_brick_field, brick_generation,
                 brick_async_outstanding>>

BrickFinish(ok) ==
  /\ brick_worker.building # NoJob
  /\ brick_worker' = WorkerFinish(brick_worker, ok)
  /\ panicked' = IF ok THEN panicked ELSE panicked \cup {brick_worker.building.picture.edit}
  /\ UNCHANGED <<scene, debug_face_orientation, phase, brick_display_pending_clear,
                 mesh_vars, brick_field, incremental_brick_field, brick_generation,
                 brick_async_outstanding>>

Frame == \/ PollGeometryWorker \/ PollBrickWorker \/ RunPanel
         \/ NoEdit \/ WholesaleEdit \/ IncrementalEdit
         \/ EnsureDisplayMeshCurrent \/ Draw

Workers == \/ GeometryTake \/ GeometryFinish(TRUE)
           \/ BrickTake \/ BrickFinish(TRUE)

Panic == Cardinality(panicked) < MaxPanics /\ (GeometryFinish(FALSE) \/ BrickFinish(FALSE))

Next == Frame \/ Workers \/ Panic

(* The shell redraws for ever (about_to_wait asks for the next frame), and *)
(* a worker thread runs.                                                   *)
Fairness ==
  /\ WF_vars(Frame)
  /\ WF_vars(GeometryTake) /\ WF_vars(GeometryFinish(TRUE))
  /\ WF_vars(BrickTake) /\ WF_vars(BrickFinish(TRUE))

Spec == Init /\ [][Next]_vars
FairSpec == Spec /\ Fairness

-----------------------------------------------------------------------------
(* Properties.                                                             *)

(* Every variable stays in its range.                                      *)
TypeOK ==
  /\ scene \in Pictures /\ cuboid_mesh \in Pictures
  /\ brick_field \in Pictures \cup {NoField}
  /\ incremental_brick_field \in Pictures \cup {NoField}
  /\ {debug_face_orientation, mesh_stale, brick_display_pending_clear,
      geometry_async_outstanding, brick_async_outstanding} \subseteq BOOLEAN
  /\ phase \in {"poll_geometry", "poll_brick", "panel", "edit", "ensure", "draw"}
  /\ {geometry_generation, brick_generation} \subseteq Nat
  /\ panicked \subseteq Versions
  /\ geometry_worker \in WorkerStates /\ brick_worker \in WorkerStates

(* The law of the whole machine: the mesh, the mirror and the live field   *)
(* each only ever become the scene of now, all of it (or are cleared).  No *)
(* sequence of edits, toggles and late results patches or installs a       *)
(* picture that mixes two scenes.                                          *)
NeverMixesTwoScenes ==
  [][/\ cuboid_mesh' \in {cuboid_mesh, scene'}
     /\ incremental_brick_field' \in {incremental_brick_field, NoField, scene'}
     /\ brick_field' \in {brick_field, NoField, scene'}]_vars

(* What equality of generations rests on: a request or a result of the     *)
(* newest generation is of the scene of now, on its way through any slot,  *)
(* and no generation is ahead of the counter.  Every path that makes an    *)
(* artifact current must mint for that, the inline ones too.               *)
Fresh(job, generation) ==
  job # NoJob =>
    /\ job.generation <= generation
    /\ job.generation = generation => job.picture \in {scene, NoField}
Underway(job) == job # NoJob => job.picture # NoField
WorkerIsFresh(worker, generation) ==
  /\ Fresh(worker.queued, generation) /\ Underway(worker.queued)
  /\ Fresh(worker.building, generation) /\ Underway(worker.building)
  /\ Fresh(worker.done, generation)
NewestIsOfTheScene ==
  /\ WorkerIsFresh(geometry_worker, geometry_generation)
  /\ WorkerIsFresh(brick_worker, brick_generation)

(* The two interlock flags mean what the routing takes them to mean: a     *)
(* mesh that is neither stale nor being rebuilt is the scene's, and so is  *)
(* a mirror with no brick build in flight; and the field to be patched is  *)
(* then the mirror's picture.                                              *)
FlagsTellStaleness ==
  /\ ~mesh_stale /\ ~geometry_async_outstanding => cuboid_mesh = scene
  /\ ~brick_async_outstanding /\ incremental_brick_field # NoField =>
       incremental_brick_field = scene
  /\ ~brick_async_outstanding /\ Live /\ ~brick_display_pending_clear =>
       brick_field = incremental_brick_field

(* A handover is deferred only for a mesh that is on its way, while a      *)
(* live field stands in for it and no brick build will replace it.         *)
DeferredHandoverEnds ==
  brick_display_pending_clear =>
    /\ geometry_async_outstanding /\ Live
    /\ ~brick_async_outstanding /\ incremental_brick_field = NoField

(* Stale while rebuilding: as long as the switch is left alone, each step  *)
(* leaves the drawn picture as it is or makes it the scene of now; nothing *)
(* blanks the model or brings an older picture back.  The one exception is *)
(* the arrival of a build that found no brick: the mesh it hands over to   *)
(* may itself be of an older scene, until its own rebuild arrives.         *)
DrawnStaysOrBecomesCurrent ==
  [][/\ debug_face_orientation' = debug_face_orientation
     /\ phase = "poll_brick" => HasRecords(scene)
     => Drawn' \in {Drawn, scene'}]_vars

(* Once edits stop the frame shows the scene, whatever came before, unless *)
(* a build of that very scene panicked (the next edit then asks again): a  *)
(* panic loses the build it hit and no other.                              *)
EventuallyCurrent == <>[](Drawn = scene \/ scene.edit \in panicked)
=============================================================================
