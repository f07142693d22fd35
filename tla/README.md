# VoxelWorker in TLA+

VoxelWorker is a constructive solid modeller that shows its result in voxels. The author edits a
tree of tools, sketches, groups and instances; the program evaluates the tree chunk by chunk,
derives two pictures of it (a cuboid mesh and a brick field for ray marching), and draws one of
them. Edits never wait: small scenes are rebuilt at once, large ones by worker threads while the
old picture stays up.

What is hard here is seldom the geometry and mostly the *keeping up*: results that arrive late,
patches to buffers that may be out of date, caches invalidated by a diff that must see everything,
a spill store whose files may be torn, an undo history that stores inverse commands and never a
document, a mouse gesture that writes the document before anything records it, cascades of
deletions that feed each other. And where it is geometry, it is a shortcut that must agree with the
long way: an interval that decides a block unseen. These are what the modules below model, what
TLC checks on small instances, and much of it what TLAPS proves for all instances: the worker
protocol and the display machine that leans on it, the incremental rebuild, the chunk store over its
failing disk, the export and its close, the cascades of a sketch, the intervals of the two-layer evaluation,
and the undo history with every inverse in it.

Contents: [the system](#the-system) · [hazards](#hazards) · [plan](#plan) ·
[modules](#modules) · [runs](#runs) · [divergences](#where-the-code-and-its-words-disagree) ·
[proofs](#proofs) · [limits](#what-is-not-modelled)

## The system

A Rust workspace: the shell (`src/`, winit event loop, about 37k lines) and the crates `document`
(54k), `ui` (29k), `display` (20k), `substrate` (19k), `parametric` (16k), `evaluation` (12k),
`camera` (4k), `shot` (4k), `work` (3k), `raycast` (3k), `assets`, `interchange` and `voxel_core`
(1–2k each).

| Component | State it keeps | Operations | Correct when |
| --- | --- | --- | --- |
| **Supersede protocol** `crates/substrate/src/supersede.rs` | two channels, a generation counter, one thread | mint and send, drain to the latest on both sides, build, catch a panic, poll, drop | only the newest request's value ever replaces the one in use; the newest is never lost; a panic does not end the thread |
| **Display orchestration** `crates/work/src/engagement/` | installed mesh, live brick field, CPU mirror, a stale flag, two outstanding flags, a pending clear, two generation counters | `rebuild_display`, both polls, `ensure_display_mesh_current` | no picture ever mixes two scenes; the flags mean what routing takes them to mean; the frame gets to the scene |
| **Incremental evaluation** `src/app_core/rebuild.rs`, `crates/voxel_core/src/spatial_index.rs`, `crates/evaluation/` | resident chunks, the last leaf index, the last density and recenter | leaf diff, eviction, resolve of what is missing, the dirty hint | what is kept equals what a build from nothing would give |
| **Display derivation** `crates/display/src/` | per-chunk buffers with their sources; the brick mirror | incremental plan, `apply_dirty_update`, wholesale builds | a patch equals a wholesale build |
| **Document** `crates/document/src/scene/`, `crates/document/src/command.rs` | node arena, spines, definitions, points, one id counter, density | placing, grouping, detaching, reinserting, definitions, points, offsets, density | a tree with no orphan, no id used twice, no instance of a definition that is gone |
| **Undo history** `src/app_core/intent.rs`, `command_stack.rs` | undo and redo transactions of commands (intent, inverse, counter before); the open sketch group's own stacks; the selection | apply, undo, redo, begin, finish and cancel a sketch group, prune | undo and redo land on the very document the author saw there |
| **Sketch session** `src/windowed/render.rs`, `events.rs`, `src/settings/` | the open sketch, the hand on a vertex with its snapshot, commits queued for the next frame; what the last exit saved | press, drag, release, profile edit, Enter, Finish, Cancel, Escape, shortcuts, close and launch | every change to the document is one a command describes |
| **Other workers** `crates/work/src/workers/`, `src/windowed/{export,workers,palette}.rs`, `crates/interchange/src/vox_export` | export (single flight, with the close it holds up), diameter (latest wins), scan (a stream) | dispatch, poll, replace, write a file, defer a close | no chosen file is lost; the readout and the palette come to show what is on show |
| **Out-of-core store** `crates/evaluation/src/store/cache.rs`, `disk_chunk_store.rs` | resident chunks by recency; a spill store with its own residents, its set of keys on disk and its files | read, visit and gather a region, spill, reload, evict, invalidate, rebind | what is handed out is what the scene resolves to now |
| **Two-layer evaluation** `crates/evaluation/src/two_layer_store/`, `crates/document/src/scene/producers/`, `crates/substrate/src/interval/field_interval.rs` | the leaf list with its scopes; per cell a stack of accumulators | walk, filter, fold intervals and voxels, close scopes, classify, build | a chunk decided by intervals is the chunk its voxels give |
| **Sketch entities** `crates/document/src/sketch/` | points, curves, constraints, patterns, one id counter | draw, delete, assert, repeat, break, trim, fillet, chamfer, offset, repair | nothing names what is gone; an edit takes what it was aimed at |
| **Sketch solver, measurements, camera, panels, rendering, files, capture** | — | — | listed under [limits](#what-is-not-modelled) |

How they interact. One event-loop thread owns everything but the builders. In a frame it polls
the workers, runs the panel, turns what the panel and the mouse ask for into *intents*, applies
them through the one door (`apply_intent` / `apply_transaction`), and if the document changed calls
`AppCore::rebuild`, whose chunk set and hint go to the orchestrator. The orchestrator routes each
derived artifact: patch it in place, rebuild it here, or send a request to its worker. Workers and
the event loop share nothing but channels, so **concurrency is confined to the worker protocols
and to the time a result spends on its way**; the file system is the one other thing shared, between
this process and the one before or after it. The other two sources of order trouble are inside
one thread: events that act between frames (a press, a release) against the frame that handles
them later, and state kept across frames (a cache, an index, a flag) against the document it was
derived from. `docs/architecture/04-work.md` states the laws this is built on: drain to the
latest, generations, containment of panics, *never patch a stale artifact*, and the promise that no
sequence of rapid edits, cancellations and mode toggles can produce a display that mixes two states.

```
   events (press, release)          shell frame                      worker threads
        │                               │                                  │
        ▼                               ▼                                  │
   SketchSession ── queued ──▶ CommandStack ── intents ──▶ SceneEdits      │
   (drag, queue)   commits     (undo, redo, group)         (document)      │
        │ edits                         │ the document changed             │
        ▼                               ▼                                  │
   SketchEntities              ChunkedRebuild (diff, evict, resolve, hint) │
   (SketchStore)                        │ resolves a chunk by TwoLayer, or │
                                        │ reads it from ChunkStore         │
                                        │ chunks + hint                    │
                                        ▼                                  │
                               DisplayOrchestrator ──── Routing            │
                               (mesh, field, mirror, flags) ◀── Supersede ─┤
                                                                           │
                               ShellJobs (export and close, readout, scan)─┘
```

## Hazards

`PROJECT.json` lists forty, each at the line where it bites and each with the properties that would
catch it going wrong; a note says what a property leaves out because the code does not keep it. In
groups:

* **Late answers** (`supersede.rs`, `orchestrator.rs`): a result finishes after a newer request or
  after an inline build; a build panics between request and answer; a worker that does not contain
  the panic dies; a handle is dropped over a running build.
* **Patching what is stale** (`routing.rs`, `orchestrator.rs`): an incremental edit while a
  wholesale build is out, a mesh whose build was skipped, a brick field that must outlive itself
  until the mesh is ready, a display that must converge all the same.
* **Diffs that must see everything** (`spatial_index.rs`, `walk.rs`, `rebuild.rs`, `builder.rs`,
  `incremental.rs`): leaves that act beyond their box, a covering set that grows, a composed scope
  known only by its members' ids, a recenter or a density that changes under kept buffers, faces
  hidden by a neighbouring chunk.
* **Two tiers over a disk that fails** (`cache.rs`, `disk_chunk_store.rs`): a region larger than the
  cap, a write, an eviction or a reload that stops half way, the files of an earlier process, an
  eviction that must reach both tiers, a chunk kept across a change of frame.
* **Jobs beside the display** (`export.rs`, `events.rs`, `vox_export`, `palette.rs`): exports that must
  not supersede each other, a close that waits for one, a process that ends between two file
  operations, a readout asked for by band alone, a folder replaced while it is scanned.
* **Shortcuts that must equal the long way** (`field_interval.rs`, `classify.rs`, `builder.rs`,
  `walk.rs`): a surface exactly through voxel centers, leaves dropped per cell, scopes told apart by
  two consecutive leaves, one interval for a whole chunk.
* **Cascades** (`sketch/mod.rs`): a delete frees points, then patterns, then constraints, and each keeps
  the others alive; a spline that must forget a point, every other curve that must go.
* **History made of inverses** (`intent.rs`, `command.rs`, `command_stack.rs`): structural inverses
  in any order with redo and sketch groups, ids handed back to the counter, an inverse that captures
  less than its intent writes.
* **A frame that handles what events left** (`render.rs`, `events.rs`): a preview no command
  describes, a commit queued for the next frame and what may come before that frame.
* **An end in the middle of a sketch** (`settings/mod.rs`, `windowed/mod.rs`): the document and the open mode
  are saved, the history, the undo group and the waiting commits are not.

Some questions have their answer outside the list. The generation counter
saturates (`supersede.rs:200`): the `supersede` run reaches its ceiling, and the theorems state the
assumption that it is not reached, which at 2^64 it never is. A refused density (`rebuild.rs:42`) and
a leaf's missing orientation (`model.rs:294`) are spoken of [below](#where-the-code-and-its-words-disagree).

## Plan

In the order of importance to the system. Written:

1. `Supersede`, `SupersedeProofs` — proved.
2. `Routing`, `DisplayOrchestrator`, `DisplayProofs` — safety proved, liveness model-checked.
3. `ChunkedRebuild`, `ChunkedRebuildProofs` — proved; for plain tools where the code itself needs them.
4. `SceneEdits`, `LinearHistory`, `CommandStack`, `HistoryInvariant`, `CommandStackProofs` — proved, the refinement on structures
   for all constants and on whole documents where placements can come back.
5. `SketchSession` — model-checked, with the end of the process and the next launch.
6. `DiskChunkStore`, `Resolver`, `ChunkStore`, `ChunkStoreProofs` — proved with a failing disk, refinement
   included.
7. `ShellJobs`, `ShellJobsProofs` — safety proved, liveness model-checked.
8. `SketchStore`, `SketchEntities`, `SketchProofs` — proved.
9. `FieldIntervals`, `TwoLayer`, `TwoLayerProofs` — proved, for a document that places a fixture at most once.

Next, in this order:

* **Proofs.** `SketchSession`, on top of `CommandStackProofs`: that the document is the history's but for the
  preview under the hand.
* **Models.** The expression table of `crates/parametric` (names, dependency order, cycles); the load
  and repair of a document; the names of nodes and definitions.

Compositions: `DisplayOrchestrator` reduces each worker to what `Supersede` lets a frame observe, and
`ShellJobs` does the same with the diameter worker. `ChunkedRebuild` is where the premise
`DisplayOrchestrator` takes (that a hint names every change) is checked, and where it fails: for a
chunk new to the cover, for composed scopes and for clouds. `ChunkStore` extends `DiskChunkStore`,
`TwoLayer` extends `FieldIntervals`, `SketchEntities` extends `SketchStore`, `CommandStack` extends
`SceneEdits`, and `SketchSession` extends `CommandStack`. Abstract specifications:
`LinearHistory` for undo, `Resolver` for the chunk store.

## Modules

**`Supersede`** (`supersede.rs`, `workers/*.rs`). Two threads that meet in two channels, so a step is
one channel operation of one of them, and each drain is a loop of such steps with the other thread
free to act in between. Caller: `Dispatch` (mint and send), `SettleInline` (answer oneself and burn a
generation), `PollTake`/`PollDecide` (drain the results, accept or discard), `DropHandle`. Worker:
`Recv`, `DrainNewer`, `DrainDone`, `Build`, `BuildPanicCaught` (`catch_unwind_or_log`) or
`BuildPanicKills` (no containment), `WorkerExit`; a variable that never changes says which kind of worker
this one is. A request carries its `u64` generation, which saturates at `U64Max`, and a *serial*, the
unbounded count the program does not have and the properties are stated over. `lost` is a history
variable: serials whose build panicked.

**`Routing`** is `routing.rs` as pure operators: `RouteDerivedArtifact` with its interlock,
`RouteMeshBuild`, `RouteBrickRebuild`, `Handover`, `PatchInPlace`.

**`DisplayOrchestrator`** (`orchestrator.rs`, the poll part of `windowed/render.rs`). A *picture* is
what it was derived from: the number of its edit and, per covering chunk, the edit that last wrote
it, so that a picture put together from two scenes is visibly none of the scenes. `phase` walks a
frame in the code's order: `PollGeometryWorker`, `PollBrickWorker`, `RunPanel`, an edit or none,
`EnsureDisplayMeshCurrent`, `Draw`. `WholesaleEdit` and `IncrementalEdit` are `rebuild_display` with
everything it calls: brick routing, mesh routing, skip, dispatch, the two install seams
(`FinishMeshInstall`, `FinishBrickInstall`) and the handover. A worker is its queued request, its
build in progress and its finished result, which is all that draining to the latest lets a frame see.
`Panic` finishes a build with no picture. Premise: the dirty set of an incremental edit is complete.

**`ChunkedRebuild`** (`rebuild.rs`, `spatial_index.rs`, `scene/spatial.rs`, `walk.rs`,
`two_layer` resident cache, `builder.rs`, `incremental.rs`). Space is one axis of voxels. A leaf is a
box with an operation and a content, one of three kinds: a tool, an outset scope composed into one
body (whose key holds ids only), a cloud (region-sized). `Edit` and `SetDensity` change the document;
`Rebuild` is the whole of `AppCore::rebuild`: leaf index, recenter, multiset diff (`DirtyRange`),
`Evicted`, resolve of the missing covering chunks, `Hint`, then `PatchMesh`/`PatchMirror` or their
wholesale forms; `RejectDensity` is the early return. What it is compared with is a build from
nothing: `ResolveAll`, `WholesaleMesh`, `WholesaleMirror`.

**`FieldIntervals`** (`field_interval.rs`, the `cell_field_interval` of the producers,
`scoped_cell_classification.rs`) and **`TwoLayer`** (`walk.rs`, `model.rs`, `scope_fold.rs`,
`classify.rs`, `builder.rs`, `chunk.rs`, `resolve_chunk.rs`): how one chunk is evaluated, which
`ChunkedRebuild` takes for granted. The walk lists leaves with the frames of their scopes (`Visit`,
`PlaceFixture`, `EndWalk`); every block, and the chunk as one cell, keeps the leaves that can matter to it
(`Keeps`), closes the scopes the next of them is not in (`CloseScope`) and composes it (`Compose`). Each
level of a cell's fold has an interval and a body, side by side, so that the interval can be held
against the voxels at every moment. `BuildChunk` is `classify_whole_chunk` with its fall-back to the
sweep. `sealed` is a history variable: the same leaves folded over their true expansions, none dropped.
Space is one axis, a field is sampled in eighths of a voxel, and one eighth stands for the rounding
(`next_down`/`next_up`). What a field must be for the bounds to hold is an `ASSUME` that TLC evaluates on
the instance: positive outside its box and, of boxes, tori, cylinders, tubes and sketches, no faster than the distance
(`sdf_shape.rs:467-481`). An *ellipsoid* is faster: the code widens its interval by the largest over the smallest
semi-axis and says itself that this under-estimates the gradient (`482-488`); one with an axis of length zero has no
interval. `Widened` and `HasInterval` are that, and `SphereAssumption` is what `signed_distance_ellipsoid`
(`voxel.rs`) computes: the field is its *gauge*, the smallest semi-axis times `distance_to_unit - 1`, which
is no faster than the distance, times a factor between one and largest over smallest, which may leap
(`distance_to_unit` over `gradient` and the smallest semi-axis; one at the very middle). And of the proof that a cell lies inside a
sketch, that it holds of a block when it holds of the chunk (`ProofAssumption`: `solid.rs:2465-2550` asks it of a rectangle
over the cell, and `rectangle_inside_region`, `geom2d.rs:1460`, that no curve meets the rectangle and that the innermost
loop around it is filled, which is so of every rectangle inside one of which it is so).

**`DiskChunkStore`** (`disk_chunk_store.rs`) is a library of *outcomes*: an operation of the spill store
yields the set of results it can have, one where every file operation works and one for each that
fails, with the file left missing, whole or garbled. **`ChunkStore`** (`cache.rs`, `chunk_cache.rs`) is the
two-tier cache over it: `ReadChunk`, the region read in its three steps (`BindRegion`, `VisitChunk`,
`GatherRegion`, between which only the end of the process can come, since the store is borrowed),
`EditRegion`, `EditChunk`, `EditAll` and `Crash`, which leaves the files and is what every `expect` on
the spill store leads to. `asked`, a history variable, records each read from its caller's
arguments and never from what the cache is bound to. **`Resolver`** is the promise: there is no store, a reader asks for
one chunk (absolute frame) or for all the scene covers (the scene's recentered frame), and what it is given is what the scene
resolves to now *in that frame*, and all of it if it fits. A store that failed to rebind would keep only
sound chunks (`NoStaleChunk` is about the bound frame) and still break it.

**`ShellJobs`** (`windowed/export.rs`, `events.rs`, `workers.rs`, `palette.rs`, `geometry.rs`, the write
of `vox_export`, `workers/{export,diameter,scan}.rs`). A redraw is one step of the event-loop
thread: poll the export (and leave, if a close waited for it), poll the readout, drain the scan into the
palette, then what the user does: an edit, a scrub of the band, an export, another folder. The export
thread works one file operation at a time (temporary sibling, rename, or the fallback copy and the removal
of the temporary), each of which may fail. `CloseRequested` is deferred once and insists the second time.

**`SketchStore`** (`sketch/mod.rs`, `constraint.rs`, `pattern.rs`) holds who names whom: points with
their role, curves with the points they stand on (a fit-point spline with its levers), claims, patterns, the
one id counter, and every cascade of a deletion in the code's order. **`SketchEntities`** (`solid.rs`,
`modify.rs`) makes every door of `SketchSolid` a step over it: draw, delete, assert, restate, repeat,
split, break, trim, fillet, chamfer, offset, construction and repair. A door edits a copy and keeps it
only if every part was accepted, so a refusal is no step. Where a cut falls and whether the solver
accepts are choices. A *session* is what an author may do in one behaviour.

**`SceneEdits`** (`scene/graph`, `command.rs`, the dispatch of `intent.rs`): pure operators from a
scene to a scene. The arena, the spines, the one id counter shared by nodes and points, the captured
inverse of every structural intent, the retained measurement of a placement, the coordinate wall.
One axis; a field write that stores and restores a value is represented by `SetMaterial`, which a
kind mismatch refuses, and by `SetSketch`.

**`LinearHistory`** is what an author is promised: one line of documents with a cursor, and while a
sketch is open a line of its own that Finish folds in as one step and Cancel throws away.

**`CommandStack`** (`command_stack.rs`, the history half of `intent.rs`): `ApplyIntent`, `ApplyBatch`,
`Undo`, `Redo`, `BeginSketchGroup`, `FinishSketchGroup`, `CancelSketchGroup`, `Pick`, each with its
selection prune and counter rule. The stacks hold commands only. `Promise` maps them onto
`LinearHistory` by *reversing and replaying them*: the documents behind the cursor are what undo would
produce. `ImplementsLinearHistory` therefore says that every undo and redo, from every reachable
state, lands on the document the author saw. `PromiseOfStructure` maps them the same way but looks at each
document without its placements (`Structure`): that is the part of the promise that holds in general, since an
offset edit drops a rotation and a density rounds an offset. Both are proved: the second for
all constants (`HistoryIsLinear`), the first wherever no palette offers what loses a placement (`HistoryIsExact`);
`tlc -config MCHistory_structure.cfg MCCommandStack` shows the second on a tilted tool at two densities, where the first fails. A *palette* is the verbs of one behaviour.

**`SketchSession`** (`windowed/render.rs`, `windowed/events.rs`) puts the shell's frame over
`CommandStack`. Between frames `Press` takes hold of a vertex (snapshotting the profile and the
offset), `Release` puts the node back and queues its commit. `ProfileEdit` is `commit_sketch_profile_edit`, the
one door of clicks, of Delete and X, of menu rows and of a restated dimension: it queues a commit computed
from the node as it stands. Nothing in it asks whether a vertex is held, and with one held the node is the
preview no command describes; only the switch `held` lets that happen (see [below](#where-the-code-and-its-words-disagree)).
`Frame` is one frame in the code's order: the panel's click (Enter, Finish, Cancel, an edit), the shortcut
(Undo, Redo, Escape), the hand's preview, the queued commits. A producer is a mark, for all that its
profile holds, and the bounding-box minimum the resolve pins to the node's origin. `Relaunch` is a close
and the next launch, at any moment: `Captured` is what `AppConfig::capture` saves (the document with any
preview in it, the selection, the open sketch; no history, no waiting commit), `Start` what `to_panel_state`
makes of it. `RelaunchUnsaved` is a kill or a refused save, `RelaunchTorn` a save stopped half way, which
the next launch ignores for the seed document. `entered` is a history variable.

`MC*` modules hold the values of constants. Operators whose comment calls them a *slip* are plausible
bugs used by the mutation runs; no specification refers to them.

## Runs

Every property of a passing run is shown to bite by a mutant of the code (`PROJECT.json`,
"mutants"): with the mutation, TLC refutes it under the same configuration.

| Run | States | Instance | Shows |
| --- | --- | --- | --- |
| `supersede` | 2,571 | 4 generations, ceiling 4, panics, contained or not | nothing superseded is installed, the newest is never dropped, results come in dispatch order, the value becomes fresh, a dropped worker ends |
| `display_safety` | 3,371,460 | 2 chunks, threshold 1, 3 edits, switch free | no mixing, true flags, deferred handovers end, what is drawn stays or becomes current |
| `display_liveness` | 280,518 | the same with 2 edits and a panicking build | the frame comes to show the scene |
| `rebuild_edits` | 336,293 | 2 slots, 4 tools, densities 1 and 2, and 4 refused | incremental cache and mesh equal a wholesale build; a patched mirror stays exact while the cover is the same; the hint names every change |
| `chunk_store` | 120,448 | 3 chunks, cap 2, failing disk, 1 end of the process, 2 frames of one density | a reader is given the scene of now in the frame it asked for, neither tier outgrows its cap, a region that fits is whole |
| `two_layer` | 1,171,168 | every scene of 4 nodes over 6 bodies (2 stretched ellipsoids) and 3 operations, 1 placement of a fixture; a chunk of 2 blocks of 2 voxels | intervals claim what the voxels bear out; the built chunk is the resolved one; the whole-chunk verdict is the sweep's, or differs in form where a stretched ellipsoid reaches |
| `fixture_scopes` | violation | 2 placements of a fixture that holds a group | the two expansions are *not* told apart |
| `shell_jobs` | 363,184 | 2 exports, 1 edit or scrub, 2 folders of 2 blocks, closes and minimizing at any time | no export is dropped, a clean exit loses none, a torn file has a whole copy beside it; a waiting close ends; readout and palette settle |
| `sketch_entities` | 158,841 | 7 sessions, 6 to 10 ids | curves keep their points, an edit takes no more than its own, claims and patterns settle |
| `history_edits` | 89,275 | two palettes: 6 structural verbs; fields, offsets, densities, points in batches of 2 and a clickable row; 3 commands, a sketch group | undo, redo and groups land on the very documents; the tree stays a tree; a pick never comes to mean another thing |
| `history_tilt` | violation | a placement with a rotation | undo of an offset does *not* restore the rotation |
| `sketch_session` | 41,527 | 3 profiles, 4 commands over any number of launches, 2 queued | no unrecorded change survives; vertices stay put; Finish and Cancel are one step and none |

Bounds, and why they suffice. *Generations:* three make a superseded, a superseding and an in-flight
request; four let the ceiling be met. The module compares generations only with `=` and `<=`, so
more of them add length and no new case. *Display chunks:* with a threshold of one, two chunks give an
empty, a small and a large covering set, hence every route; three edits give the mirror, the field
and a build in flight an edit each to be of. *Space of a rebuild:* chunks of four voxels and boxes that
fill one, straddle two, end inside a block, and grow on one side or both; two slots are the least at
which order, overlap and subtraction matter, and a rescale makes further, rounded boxes of the four.
*Store:* a cap of two under three keys is the least at which a region does not fit, a reload must spill
and the spill store must evict; one density leaves the branch of an eviction that keeps the keys of another density to the
proof, which has any number of them; one end of the process leaves files of every kind to the next.
*Two layers:* two blocks are the least a chunk verdict can get wrong; the six bodies fill the chunk from
beyond, meet a block partly and have their surface through a voxel center, miss the chunk, have no field, and, of the two
ellipsoids, leap deep below zero between two voxel centers they do not cover (so that an interval of unwidened radius
calls the block solid) and lie lengthwise, with the middle of a block at the very middle, where the field is smallest;
four nodes give two nested groups with a leaf in each, or three leaves around one. *Jobs:* two exports
make one wait for or replace another; one edit against one scrub is every way the band and the scene can
disagree; a second folder is what replaces a first. *Sketch:* at most two cuts fall on a curve, so a trim leaves any of none, one or two pieces,
and never three; each session's drawing is one that takes a cascade of three kinds, with ids left for two or three edits more. *History:* three commands allow
edit–edit–undo–edit, a group with something before and something inside it, and every pair of
structural inverses; counts are of commands in the stacks, so undo and redo may go on for ever.
*Session:* four commands, shared by all launches, fit two edits that each move the anchor, or a session
with an edit before, inside and after it, on either side of a launch; launches that spend none are free.
Deadlock is checked in the
display and store runs; elsewhere the program may stop: at a bound, with a dropped handle, with
the process ended or the walk done.

Fairness. `Supersede`: weak fairness of the worker thread (it blocks only in `recv`) and of the
caller's poll. `DisplayOrchestrator`: weak fairness of the frame, because `about_to_wait`
(`src/windowed/events.rs:852`) asks for the next redraw in every turn of the loop and no step of a
frame waits for anything, and of each worker's take and of its *successful* finish; panics are not
fair and are bounded by `MaxPanics`. `EventuallyCurrent` excepts the scene one of whose builds panicked:
the code keeps the stale picture with the outstanding flag set until the next edit asks again
(`orchestrator.rs`, `poll_brick_worker`), and that next edit is what the run shows to heal it.
`ShellJobs`: the same redraw, and each of the three threads; the user is under no obligation. A deferred
close must end with the window minimized as well, where a redraw polls the export and returns;
readout and palette must settle only if the window stays presentable from some time on.

Named switches keep known refutations out of a passing run: `Leaves` (which kinds of leaf an edit may
put down), `Races` (`press`, `edit`, `undo`, `rewind`, `held`), `MaxPlacements`, and, among the sketch
properties, `Unsettled` (the three deletes that do not sweep).

Nothing checked depends on three guards of `classify.rs`: with `FoldIsScopeTransparent`, `AnyMask`
or `SubtractiveLeavesContainChunk` dropped, the instances of `two_layer` give the same chunks. They
look like belts beside braces; the models keep them.

## Where the code and its words disagree

Two are runs, listed under "findings":

* `history_tilt`: the inverse of `SetOffset` restores only the offset of a transform it replaced
  whole (`intent.rs:419`, `891`; `extent.rs:289`), against `command.rs:32-33`.
* `fixture_scopes`: an instance pushes no frame of its own (`walk.rs:518`), so two placements in a row of
  a definition that holds a group are one scope to the fold, against `model.rs:107-108` and `119-120`.

Ten more have a configuration beside the runs; the command refutes the property it names:

| Command | Property | The words | The code |
| --- | --- | --- | --- |
| `tlc -config MCRebuild_growth.cfg MCChunkedRebuild` | `MirrorIsWholesale` | `incremental.rs:334-337`: byte-equality with a build from scratch | the hint is withheld only when density or recenter change (`rebuild.rs:84-86`, `101`), and names evicted residents; a chunk new to the cover is not among them |
| `tlc -config MCRebuild_scope.cfg MCChunkedRebuild` | `ReassemblyIsWholesale` | `model.rs:337-340`: any edit inside the scope changes its key | the key holds the members' ids (`walk.rs:269`); moving or editing a member dirties nothing |
| `tlc -config MCRebuild_swap.cfg MCChunkedRebuild` | `ReassemblyIsWholesale` | `rebuild.rs`, `resident_cache.rs`: keeping what the diff left alone is byte-identical to a build from nothing | the diff counts a multiset (`spatial_index.rs:202-225`): two overlapping leaves that changed places since the last build dirty nothing, and the voxels they share keep the old one on top |
| `tlc -config MCSketch_press.cfg MCSketchSession` | `HistoryExplainsTheDocument` | `events.rs:534-536`, `render.rs:1061-1062`: the window between release and commit is closed | release queues; a press before the next frame snapshots the profile that was put back (`render.rs:1425`) |
| `tlc -config MCSketch_held.cfg MCSketchSession` | `HistoryExplainsTheDocument` | `render.rs:1357-1360`: both doors out of a drag restore first, so that the drawing holds no change without a command; `5088-5093`: an add/delete edit is one entry of the group | `commit_sketch_profile_edit` (`render.rs:5095`) reads the node with the preview on it, and its callers run with the button down: Delete and X (`3657`, `3994`, `4089`), the menu rows (`437-452`). The command's inverse is captured on the preview, and the hand's own `original` is older than the edit: moving on or releasing puts the deleted point back |
| `tlc -config MCSketch_relaunch.cfg MCSketchSession` | `CancelRollsBack` | `render.rs:398-400`: entering opens the undo group, and Cancel rolls back to the enter-state | exit saves the open mode (`settings/mod.rs:648`), a launch restores it (`749`), and only the Enter click opens a group (`render.rs:411`): the edits that follow go to the main stack one by one, and Cancel keeps them all (`intent.rs:696`) |
| `tlc -config MCShellJobs_torn.cfg MCShellJobs` | `FinalPathIsComplete` | `vox_export/mod.rs:256-261`: the final path only ever holds a complete export | the fallback copies over it (`mod.rs:301`) and may stop half way |
| `tlc -config MCSketchEntities_levers.cfg MCSketchEntities` | `EveryFitPointHasItsLever` | `sketch/mod.rs`, `mint_tangent_handles`: handles on all points, always, never removed | a segment that ends on an arm takes the arm with it when it goes (`point_is_still_drawn`) |
| `tlc -config MCSketchEntities_claims.cfg MCSketchEntities` | `NoClaimOutlivesItsSubject` | `sketch/mod.rs`, `drop_dangling_constraints`: a constraint never outlives what it constrains | `delete_ellipse`, `delete_conic` and `delete_spline` do not sweep, and the sweep does not ask about the curve of a radius, a gap or an arc-ended angle |
| `tlc -config MCTwoLayer_ellipsoid.cfg MCTwoLayer` | `FastPathIsIdentical` | `builder.rs:298-299`, `classify.rs:466-478`: a chunk is decided at once only where every block would be decided the same, since the bound of a block nests in the chunk's | the nesting is of centers and circumradii and forgets the factor of `sdf_shape.rs:493`: at its very middle the field of an ellipsoid is minus its *smallest* semi-axis, beside it nearly minus its largest, so a block centered there gets an interval that reaches above zero where the chunk's does not. It is stored as voxels by the one path and coarse by the other; what is drawn is the same, and this is all that may differ (`FastPathIsTheSweep`) |

And `tlc -config MCChunkStore_region.cfg MCChunkStore` refutes `RegionIsWhole`: a region larger than the
cap is handed out with holes (`cache.rs:288`). Every live caller leaves the cap unbounded, so this is a
limit of the store and no fault of the program.

Others met while modelling can be reproduced by changing one constant of a passing run, or by the
statement given, and are kept here and at their hazard:

* *A stale mesh is drawn.* `render.rs:613-617` says it never is; with the debug-face switch on, a
  large or an edited scene is meshed on the worker (`orchestrator.rs:1091`) and the old mesh drawn meanwhile.
* *An older model comes back.* When a brick build finds only air the field is cleared at once
  (`orchestrator.rs:976`) though the mesh taking over may be of an older scene. `DrawnStaysOrBecomesCurrent`
  leaves out that one step.
* *Clouds* (`Leaves <- Clouds`): a cloud is sized to the composite region, which its index entry
  does not hold; an edit elsewhere leaves its chunks as they were.
* *Lossy density*: undo of a density change rescales back; an offset of 5 without a retained
  measurement, taken between densities 1 and 2, does not return.
* *Leaves change places* (`MCRebuild_swap.cfg`, above). No single intent reorders two leaves, but two builds may have
  several intents between them: Cancel undoes a whole sketch group at once, so a group that deleted a tool and placed its
  equal again moved it to the end of the document and Cancel moves it back, in one build that sees no change. The
  proofs therefore carry the condition `KeepsOrder`.
* *Why an ellipsoid's bound is sound.* `sdf_shape.rs:485-487` and `cell_interval_parity_tests.rs:268-279` say that it is
  by magnitude: the range of the field is bounded by the minor semi-axis, so that wherever the gradient is under-estimated the verdict is a
  boundary. Along the major axis the field falls nearly to minus the *largest* semi-axis, and a cell over the middle can be
  called solid. What holds is `SphereAssumption`: the field is nowhere more than largest over smallest times a gauge that
  is steady, and of the gauge's sign. A center as far from zero as the widened radius has a gauge as far from zero as the
  radius, and the gauge, and with it the field, keeps its sign all over the cell. The verdicts are right, and these words are not why.
* *Races*: with `undo` a vertex drag released after an undo puts the undone profile back; with `edit`
  two profile edits of one frame overwrite each other; with `rewind` a commit queued before Cancel
  is recorded after it, on the outer stack, with the wrong offset; with `held` `ProfileStaysPut` and `ClosingIsOneStep`
  are refuted too: the profile shifts once the edit is undone, and Cancel stops at the preview.
* *A close keeps and loses what nobody asked for* (`Captured`): the saved document has the preview of a hand
  still down in it (`shutdown` does not call `cancel_the_vertex_drag`), and a commit queued since the last
  frame is not saved. A save writes `config.json` in place (`settings/mod.rs:923`); stopped half way, it costs
  the document, since the next launch ignores what does not parse (`RelaunchTorn`). A document emptied by
  its author comes back as the seed (`Restorable`).

The refusal of a density (`rebuild.rs:42`) is modelled but needs 46 or more voxels to a block, which
the widget (2 to 32) does not offer. A leaf's key holds its box and not its orientation
(`model.rs:294`); on one axis there is none, so a turn that keeps the box is not modelled.

## Proofs

**`SupersedeProofs`**: for every `MaxMints`, `U64Max` and either kind of worker.
`TypeCorrect` needs no more. The rest assume `BelowCeiling` (no more generations than the counter
holds, which is 2^64), without which a superseded result with the last number would be accepted.
`GenerationsAreSerials`: a generation is its serial throughout the pipeline. From it `NewestOnly`
(equality with the counter is equality with the newest serial). `NewestKept` is not inductive as it stands, because a request
might sit in the middle of a queue, to be drained over; the strengthening `NewestAtTheTail` says that it
is always the *last* of its channel, with all stages before it empty. `PipelineOrdered` is `InDispatchOrder`:
the serials along requests, build and results only grow. `ContainedWorkerSurvives`: a worker whose
build is contained lives while its handle does; it has no run of its own, the `supersede` run having both kinds.

**`DisplayProofs`**: for every set of chunks, every threshold, number of edits and
of panics, and either starting switch. Assumed: the constants' types, and that `NoField` and `NoJob`
are no picture and no job. The invariant is

```
Inv == TypeOK /\ NewestIsOfTheScene /\ FlagsTellStaleness /\ DeferredHandoverEnds
```

`FlagsTellStaleness` is what makes patching right, and it is not inductive alone: a late result
would break it. `NewestIsOfTheScene` says that a job of the newest generation, in whichever slot, is of the
present scene; it holds because *every* path through a rebuild mints on both sides, the inline and the
skipping ones included, and it makes an accepted result the scene. The argument then has two facts:
`RebuildFromFlags` (a rebuild leaves each picture alone, clears it, or makes it the scene, and leaves
true flags; patched is only what the flags call current, and `Local` makes that patch the scene) and
`AcceptedIsTheScene`. Each action is one lemma over these. `DisplayTypeCorrect` is the type part of `Inv`;
`NothingMixes` and `DrawnNeverGoesBack` follow step by step from the whole of it.

**`ChunkedRebuildProofs`**: for every set of slots, leaves, densities and chunk size.
`HintIsExact` and `MirrorPatchIsExact` hold whatever the leaves are, composed scopes and clouds included. The first needs
only that what was handed out is what is resident (`HandedOut`). The second is an argument on faces: a
patch re-emits the changed chunks and the coarse records of the ring around them, a block's two faces lie in its own chunk
or the next one (`FacesLieNextDoor`), and a sculpted record is shown whatever lies beside it.

`EvictionIsEnough` and `MeshPatchIsEnough` compare with a build from nothing, and there the code needs two things,
which are hypotheses: every leaf is a tool (a composed scope's key and a cloud's box leave things out), and
`KeepsOrder`, that no build is shown the leaves it takes as unchanged in another order. TLC refutes the invariant
without either ([above](#where-the-code-and-its-words-disagree)). `KeepsOrder` is sufficient and not necessary: leaves that do not
overlap may change places, and the run's rescaling does that harmlessly. `OneEditIsEnough`
discharges it: with one edit for each build at one density, steady leaves stand where they stood. That is how a
running program edits, but for several intents in one frame and for Cancel. The inductive invariant is `RebuildInv`:
the resident chunks are those of *some* scene with the index of the last build. From it, `ChunkIsLocal`: a voxel no
changed leaf acts on keeps its last stamping leaf (`LastCarriesOver`, through the pairing of steady leaves),
and a chunk outside the dirty range has no such voxel (`DirtyRangeCoversChanges`). The mesh adds that no solid
voxel lies outside the covering chunks (`SolidIsCovered`), so that a chunk's sides are known from its neighbours.

**`ChunkStoreProofs`**: for every cap, finite set of keys, scene and frame, with the disk failing at every file operation and
the process ending between any two steps. Assumed: that the cap is at least 1, that a region is a set of keys, and
that the values for "none" are no chunks. The invariant `StoreInv` has three parts: each tier is a map with a strict order of
use over exactly its keys; each chunk in memory and each *listed* file holds what the scene resolves to; while a region is read,
what was visited is resident and newest (`WalkIsNewest`). Files that are not listed may hold anything, which is what lets an earlier process
leave its own behind. Each operation of the spill store is a set of outcomes, and one lemma for each says what every
outcome leaves (`EvictIsSound`, `ReloadIsSound`, `PutIsSound`). `SmallRegionsAreWhole` is the third part: with fewer newer chunks than the
cap, the least recent is none of them. `StoreServesTheScene` is the refinement of `Resolver`; it rests on
`WalkIsAsked` (between the visits the cache is bound to the frame the reader asked for). An order of use is
a relation and not a queue because removal from the middle of a sequence is a recursion the provers
cannot unfold; the two have the same states.

**`ShellJobsProofs`**: for every number of exports, edits and folders, with panics and a failing disk.
`ShellInv`: every export but the newest is settled, and that one is settled or in exactly one of three places (asked, being
written, answered); a good answer is true of the file until it is read; from the write of the temporary sibling to its
move it is there whole; only a close with an export to wait for waits. `ExportsAreKept`, `CleanExitIsSafe` and
`TornFileIsRecoverable` are its consequences. Assumed besides types: `None` is no serial and no answer.

**`TwoLayerProofs`**: for every scene of any number of nodes, any producers, cells and depth of scopes. The
assumptions are those of `FieldIntervals` on a field, which TLC evaluates on the instance; in real numbers, so that what
`f32` rounds beyond the one `next_down`/`next_up` is outside them. Three invariants, each
inductive on top of the one before:

* `FoldInv`: at every level of every fold the interval is true of the body beside it. It is inductive through
  `IntoIsSound` (one operand folded into a level, for each operation and mask), `ClosedIsSound` (a scope folded into
  the one around it) and, where leaves come in, `SolidsAreSound` and the sketch
  clearance. Of a solid that is no faster than the distance that is the Lipschitz bound with its rounding (`SteadySolidsAreBounded`). Of an
  ellipsoid it cannot be, for the widened radius does not bound how much the field changes: `SpheresAreBounded` goes by
  the gauge, which the widened radius keeps from zero (`WideningReaches`, over `Division`), and which is steady. `IntervalsAreSound` is its consequence.
* `SealInv`: every fold agrees with the sealed stack at every voxel of its cell. That they hold the same is not inductive,
  because a fold drops leaves and so has other scopes open. What is: they hold the same at every level whose scopes both have
  open, what each has open beyond comes to the same when it closes, and beyond a scope the walk is not yet out of there is
  nothing pending in the sealed stack that the fold lacks (`Agree`). It needs of the walk that the leaves of a scope stand together
  in the list and that a node tells its scope (`WalkInv`); the second is false with two placements of a fixture, which is the
  finding `fixture_scopes`, so the theorems that rest on it assume `MaxPlacements <= 1`. One lemma on lanes (a stack
  seen at one voxel) for each way a stack moves: `FirstCloses`, `SecondCloses`, and what composing and dropping a leaf do.
* `StampInv`: what a voxel of the sealed stack holds is the stamp of a leaf that covers it, by unions all the way out. So
  where a verdict names one additive producer, that is whose stamp every voxel has (`FinishedCellsAgree`, `VerdictsAreTrue`).
  With the soundness of the interval it gives `BuiltChunksAreDense`: elided blocks and whole-chunk verdicts expand to
  what is resolved, and that is the sealed fold's.

`WholeChunksAreTheSweep` needs the other direction, that the chunk's interval claims nothing a block's does not:
`NestInv`. It is not true of any two folds, because a block keeps fewer leaves and a smaller cell has another center. It is
true where the verdict looks, with one additive leaf, enclosing, and subtractions outside of any scope (`OneEncloses`): there a
block's bound on each operand is inside the chunk's (`IntervalsNest`, again the Lipschitz bound), and `ProofAssumption` carries a
sketch's proof over. The intervals of a stretched ellipsoid do *not* nest (a divergence [above](#where-the-code-and-its-words-disagree)); where one
reaches the chunk, soundness says that every voxel has the coarse stamp, and `CoarseIsSpelledOut` that the sweep stores
those very voxels. A sphere of equal axes is steady (`RoundIsSteady`) and nests.

**`SketchProofs`**: for every list of sessions, whatever each starts from, draws, claims and may modify, and
however many ids it spends. Assumed: that each starts from a store (`SessionsAreSessions`, which TLC evaluates). The
inductive invariant is `IsStore`. That curves stand on points is not enough: a fresh id must be fresh, so every id is
behind the counter; and a control spline that loses its end makes the new end the author's, which must be no arm
of a fit point, so arms are anchored and no control spline is drawn on one (`ArmsAreTheirOwn`). An edit is not
one step of this argument: an arc is drawn on a center that is minted after it, so the lemmas speak of a store that has
promised points (`IsStoreBut`), and each door keeps its promises before it ends. Beside the invariant every door is shown either
to take nothing (`Grows`), or to take what it was aimed at (`Keeps`) and to settle (`Settles`): `EveryDoor`, from which
`EditsTakeOnlyTheirAim` and `EditsLeaveNothingDangling` follow in a few lines each. What is left of a spline's points
(`Without`, a recursive function) is computed by induction over its places, in the form that follows.

**`CommandStackProofs`**: for every palette, batch size and number of commands, any materials, producers, measures and
positive densities, and any starting documents. Assumed: that these are documents (`InitialScenesAreDocuments`: of the right
types and well formed), that a batch has a finite size (`BatchesAreBounded`) and that densities are positive
(`DensitiesArePositive`). The terms of these proofs and the invariant are defined in a module of their own,
`HistoryInvariant`. The inductive invariant is

```
HistoryInv == palette \in Palettes /\ Told(Structurally, Here)
```

where `Told` says that there are a document, a line behind it, a line ahead of it and perhaps an open sketch's own line that the
core tells (`Tells`): the scene is a document, the selection is live, and the stacks lead, transaction by transaction, from each structure of
the line the author saw to the next; an open sketch group's stacks lead from the structure it was entered with.
Well-formedness is not inductive alone: an undo keeps it only because the inverse on top of the stack was captured on the very
structure it returns to. The argument climbs in four steps. *An edit*: on a document every intent does to the
structure what `Edited` says, and leaves a document (`IntentLands`). Here well-formedness is a statement on *slots*: each node
of the arena is named by one slot of one row (the roots, a group, a definition), and each edit is shown to gain a slot, lose one with all
that hangs from it, wrap one, or move a row. *An inverse*: what was captured before an intent, applied to *any* document with the
structure the intent made, followed by the counter rule, gives the structure before (`CommandReturns`; one lemma per
inverse: an added node is alone below itself, a reinserted subtree takes its slot back, a dissolved definition returns its row).
That it holds of any such document is what lets the placements differ. *A stack*: a transaction spans two structures (`Spans`), a stack files a
line of them (`Filed`), and undoing or redoing all of it visits exactly those (`UnwoundIs`, `RewoundIs`), which is what the
refinement mapping computes. *An action*: each operation of the door moves the line as `LinearHistory` does
(`EditAdvances`, `UndoAdvances`, `RedoAdvances`, `BeginAdvances`, `FinishAdvances`, `CancelAdvances`). `DocumentsStayWellFormed`,
`SelectionStaysLive` and the refinement `HistoryIsLinear` follow from the invariant.

The last two steps speak of documents *as seen*: by their structure (`Structurally`), or exactly (`Exactly`), in which case each
placement must be one that the palette's verbs can take back (`Sure`: written again from its own measurement it is the same).
For the second the second step is sharper: reversing a command on the very document it made gives the very document it was
recorded on (`CommandBack`): the structure comes back as before, and each inverse is followed through the placements
(`Stays`, `Leaves`, `Brings`, `Puts`, `Rescales`; a kept measurement of whole blocks survives a change of density and its
reversal). So `HistoryIsExact`, the refinement on whole documents, has the one hypothesis `PlacementsComeBack`: placements and measures
are integers, and no palette offers an offset write together with placing rotated nodes, a density change together with placing
nodes off the origin, or a density change together with an offset of voxels that keeps no whole blocks; and no initial document holds such a placement.
It keeps away from the two places where the code itself can lose a placement, a rotation dropped (the finding `history_tilt`, whose
constants violate the hypothesis) and an offset rounded; the constants of `history_edits` satisfy it.

An induction over data goes in the form the provers can do: not with a library induction theorem, whose operator
parameter they cannot instantiate, but by a least counterexample among the subsets of a finite set
(`FS_StrictSubsetOrderingWellFounded` with `WFMin`), as in `LargestExists` and `FirstExists`. The replays of a stack are computed as *walks* (`Walk`, a recursive function), whose
steps that induction reaches one by one (`WalkExists`, `WalkSteps` in `CommandStackProofs`).

**Only model-checked:**

* Liveness (`EventuallyFresh`, `DropEndsWorker`, `EventuallyCurrent`, `DeferredCloseEnds`, `ReadoutSettles`,
  `ScanSettles`), which is out of the prover's reach.
* `TwoLayer` with a fixture placed twice: `ScopesStaySealed`, and `BuiltIsDense` with it, are then false (`fixture_scopes`).
* `CommandStack`: `ImplementsLinearHistory` where a palette breaks `PlacementsComeBack`. It is then false (`history_tilt`).
* `SketchSession`: `SessionTypeOK`, `HistoryExplainsTheDocument`, `ProfileStaysPut` and its action properties. They compare the
  document with what the history makes of it, placements and producers included, under a hand that writes both.

## What is not modelled

* Geometry: sketch curves and their intersections, the solver, solids, per-voxel occupancy, measurement of
  boxes (floating point or per-voxel arithmetic; the repository proves some of it in `verification/`).
  Where a model needs their verdict it is a choice (`SketchEntities`) or an assumption on a constant (`FieldIntervals`).
* A panic of the diameter build, which nothing contains, or of the scan: `ShellJobs` has neither, so
  `ReadoutSettles` and `ScanSettles` are of threads that live. `Supersede` has the uncontained panic.
* Panics in `display_safety`: `display_liveness` has one, and the proofs of `DisplayProofs` any number.
* A trim of a curve with three crossings or more.
* Of the two-layer evaluation: rotated leaves, outsets and the Emboss scopes composed beforehand, the
  cuboids a block is stored as and its seam flags, the streamed widest run.
* Greedy merging, atlases, GPU buffers, ray marching, shaders, camera motion and its rebasing.
* The expression evaluator: planned. The repair of a loaded document (an edited one
  needs none, which is what `EditsSettle` says of its sketches), names, grids, fixtures.
* Extend, the shape tools built from the modelled steps (rectangle, polygon, slot) and the text import of a
  sketch. The tools of a sketch session up to the edit they queue: snapping, chains, pickers.
* The contents of an exported file and of a thumbnail; panels and gizmos, which enter as the intents,
  clicks and switches they ask for.
* Two axes of three; rotation but for whether a placement has one.

Each is a component of `PROJECT.json` with its reason.

## Running

`tlc -config MCDisplay_safety.cfg MCDisplayOrchestrator`, and likewise for the other runs: a
configuration is named after its run and its module is given in `PROJECT.json`. `tlapm DisplayProofs.tla`
and likewise for the other `*Proofs` modules checks the proofs. The longest run takes about three minutes on two cores, the proofs of `CommandStackProofs` about fifteen.
