----------------------------- MODULE ChunkStore -----------------------------
(***************************************************************************)
(* The capped Store of crates/evaluation/src/store/cache.rs over its spill *)
(* store: resolved chunks kept in memory, spilled when there are too many, *)
(* read back or resolved again on demand, and thrown away when an edit or  *)
(* another frame makes them wrong.                                         *)
(*                                                                         *)
(* A chunk is what the scene holds there together with the frame it was    *)
(* resolved in, its density and floating origin.  Reading a region visits  *)
(* its chunks one by one and only then gathers them; the store is borrowed *)
(* meanwhile, so between the visits nothing can happen but the end of the  *)
(* process.  Every expect on the spill store is such an end: the next      *)
(* process opens a fresh store over the files that are left.               *)
(***************************************************************************)
EXTENDS DiskChunkStore

CONSTANTS
  Contents,   \* what a scene may hold in one chunk
  Densities,  \* voxels_per_block
  Origins,    \* recenter offsets; 0 is the absolute frame
  Regions,    \* covering chunk ranges a scene may have
  MaxEnds,    \* bound: how often the process ends
  NoFrame, NoWalk, NoAsk, NoReply

Frames == [density : Densities, origin : Origins]

ASSUME KeysAreOrdered == Keys \subseteq Int
ASSUME OriginAssumption == 0 \in Origins
ASSUME RegionsAssumption == Regions \subseteq SUBSET Keys
ASSUME EndsAssumption == MaxEnds \in Nat
ASSUME SentinelsAreNoValues ==
  /\ NoFrame \notin Frames
  /\ \A keys \in SUBSET Keys : keys # NoWalk
  /\ \A keys \in SUBSET Keys, frame \in Frames : [keys |-> keys, frame |-> frame] # NoAsk

Scenes == [contents : [Keys -> Contents], covering : Regions, recenter : Origins]
Resolved(sc, key, frame) == [content |-> sc.contents[key], frame |-> frame]
Chunk == [content : Contents, frame : Frames]
Fits(keys) == Cardinality(keys) <= Capacity

VARIABLES
  scene,   \* the document the callers resolve
  chunks,  \* the resident map
  recent,  \* which of its keys was used before which (last_used_tick)
  disk,    \* the spill store
  bound,   \* bound_density and bound_floating_origin
  walk,    \* the region read in progress: its frame and the chunks to visit
  asked,   \* not in the code: what the last read was called for, from the
           \* caller's arguments, until the store is used again
  reply,   \* what it handed out
  ends     \* how often the process has ended

vars == <<scene, chunks, recent, disk, bound, walk, asked, reply, ends>>

Cache ==
  [chunks |-> chunks, recent |-> recent, disk |-> disk, bound |-> bound, alive |-> TRUE]
Fresh(files) ==
  [chunks |-> << >>, recent |-> {}, disk |-> OpenedOver(files),
   bound |-> NoFrame, alive |-> FALSE]

Becomes(cache) ==
  /\ chunks' = cache.chunks
  /\ recent' = cache.recent
  /\ disk' = cache.disk
  /\ bound' = cache.bound
  /\ ends' = IF cache.alive THEN ends ELSE ends + 1
  /\ ends' <= MaxEnds

(* After a call of the spill store: the cache, or a new process.           *)
Survives(o, cache) == IF o.ok THEN [cache EXCEPT !.disk = o.disk] ELSE Fresh(o.disk.files)

Init ==
  /\ scene \in Scenes
  /\ chunks = << >>
  /\ recent = {}
  /\ disk = OpenedOver([k \in Keys |-> Nothing])
  /\ bound = NoFrame
  /\ walk = NoWalk
  /\ asked = NoAsk
  /\ reply = NoReply
  /\ ends = 0

(* The resident map, the ticks and the spill store emptied together.       *)
Emptied(cache) ==
  { Survives(o, [cache EXCEPT !.chunks = << >>, !.recent = {}]) : o \in Clear(cache.disk) }

Cleared(cache) == {[c EXCEPT !.bound = NoFrame] : c \in Emptied(cache)}

BoundTo(cache, frame) == IF cache.alive THEN [cache EXCEPT !.bound = frame] ELSE cache

ReboundOnce(cache, frame) ==
  {IF cache.bound = NoFrame THEN BoundTo(cache, frame) ELSE cache}
Rebound(cache, frame) ==
  IF cache.bound \in {frame, NoFrame} THEN {BoundTo(cache, frame)}
  ELSE { BoundTo(c, frame) : c \in Emptied(cache) }

(* Out of memory, out of the ticks, and out of the spill store whether     *)
(* resident there or in a file.                                            *)
Evicted(cache, gone) ==
  { Survives(o, [cache EXCEPT !.chunks = Without(@, gone), !.recent = Dropped(@, gone)]) :
      o \in RemoveAll(cache.disk, gone) }

InvalidatedAabb(cache, gone, density) ==
  IF cache.bound # NoFrame /\ cache.bound.density # density
  THEN Cleared(cache) ELSE Evicted(cache, gone)

(* spill_until_room_for_one: its loop runs once at most, as the resident   *)
(* map never exceeds the cap (TiersStayBounded).                           *)
Spilled(cache) ==
  IF Cardinality(DOMAIN cache.chunks) < Capacity THEN {cache}
  ELSE UNION {
         LET spilled == [cache EXCEPT !.chunks = Without(@, {victim}),
                                      !.recent = Dropped(@, {victim})]
         IN  { Survives(o, spilled) : o \in Put(cache.disk, victim, cache.chunks[victim]) } :
         victim \in LeastRecent(cache.recent, cache.chunks) }

TouchNewOnly(cache, key) ==
  IF \E used \in cache.recent : key \in {used[1], used[2]} THEN cache
  ELSE [cache EXCEPT !.recent = Touched(@, cache.chunks, key)]
TouchResident(cache, key) == [cache EXCEPT !.recent = Touched(@, cache.chunks, key)]

InsertResident(cache, key, chunk) ==
  { IF c.alive THEN TouchResident([c EXCEPT !.chunks = With(@, key, chunk)], key) ELSE c :
      c \in Spilled(cache) }

EnsureResident(cache, key) ==
  IF key \in DOMAIN cache.chunks THEN {TouchResident(cache, key)}
  ELSE UNION {
         CASE ~o.ok -> {Fresh(o.disk.files)}
           [] o.ok /\ o.chunk # Nothing ->
                InsertResident([cache EXCEPT !.disk = o.disk], key, o.chunk)
           [] OTHER ->
                InsertResident([cache EXCEPT !.disk = o.disk], key,
                               Resolved(scene, key, cache.bound)) :
         o \in Get(cache.disk, key) }

Idle == walk = NoWalk

(* Store::chunk, in the absolute frame.                                    *)
ReadChunk(key, density) ==
  /\ Idle
  /\ \E c \in Rebound(Cache, [density |-> density, origin |-> 0]) :
       \E e \in IF c.alive THEN EnsureResident(c, key) ELSE {c} :
         /\ Becomes(e)
         /\ asked' = IF e.alive THEN [keys |-> {key}, frame |-> [density |-> density, origin |-> 0]]
                     ELSE NoAsk
         /\ reply' = IF e.alive THEN [k \in {key} |-> e.chunks[k]] ELSE NoReply
  /\ UNCHANGED <<scene, walk>>

(* bind_region: the frame first, then every covering chunk in order.       *)
BindRegion(density) ==
  /\ Idle
  /\ \E c \in Rebound(Cache, [density |-> density, origin |-> scene.recenter]) :
       /\ Becomes(c)
       /\ walk' = IF c.alive THEN scene.covering ELSE NoWalk
       /\ asked' = IF c.alive
                   THEN [keys |-> scene.covering,
                         frame |-> [density |-> density, origin |-> scene.recenter]]
                   ELSE NoAsk
  /\ reply' = NoReply
  /\ UNCHANGED scene

VisitChunk ==
  /\ ~Idle
  /\ \E key \in walk :
       /\ \A other \in walk : key <= other
       /\ \E e \in EnsureResident(Cache, key) :
            /\ Becomes(e)
            /\ walk' = IF e.alive THEN walk \ {key} ELSE NoWalk
            /\ asked' = IF e.alive THEN asked ELSE NoAsk
  /\ UNCHANGED <<scene, reply>>

(* covering_chunk_grids and the four readers over it: what is not resident *)
(* any more is filtered out.                                               *)
GatherRegion ==
  /\ walk = {}
  /\ reply' = [k \in scene.covering \cap DOMAIN chunks |-> chunks[k]]
  /\ walk' = NoWalk
  /\ UNCHANGED <<scene, chunks, recent, disk, bound, asked, ends>>

(* An edit and the invalidation its caller makes of the chunks it touched, *)
(* at the density the caller works in.                                     *)
EditRegion(touched, density) ==
  /\ Idle
  /\ \E sc \in Scenes :
       /\ \A k \in Keys \ touched : sc.contents[k] = scene.contents[k]
       /\ scene' = sc
  /\ \E c \in InvalidatedAabb(Cache, touched, density) : Becomes(c)
  /\ asked' = NoAsk
  /\ reply' = NoReply
  /\ UNCHANGED walk

EditChunk(key) ==
  /\ Idle
  /\ \E content \in Contents : scene' = [scene EXCEPT !.contents[key] = content]
  /\ \E c \in Evicted(Cache, {key}) : Becomes(c)
  /\ asked' = NoAsk
  /\ reply' = NoReply
  /\ UNCHANGED walk

EditAll ==
  /\ Idle
  /\ scene' \in Scenes
  /\ \E c \in Cleared(Cache) : Becomes(c)
  /\ asked' = NoAsk
  /\ reply' = NoReply
  /\ UNCHANGED walk

(* The process ends anywhere, a region half read included.                 *)
Crash ==
  /\ Becomes(Fresh(disk.files))
  /\ walk' = NoWalk
  /\ asked' = NoAsk
  /\ reply' = NoReply
  /\ UNCHANGED scene

Next ==
  \/ \E key \in Keys, density \in Densities : ReadChunk(key, density)
  \/ \E density \in Densities : BindRegion(density)
  \/ VisitChunk
  \/ GatherRegion
  \/ \E touched \in Regions, density \in Densities : EditRegion(touched, density)
  \/ \E key \in Keys : EditChunk(key)
  \/ EditAll
  \/ Crash

Spec == Init /\ [][Next]_vars

(* Types, and the two orders of use are strict orders of all the resident keys. *)
Orders(order, keys) ==
  /\ order \subseteq keys \X keys
  /\ \A a, b \in keys : <<a, b>> \in order <=> a # b /\ <<b, a>> \notin order
  /\ \A a, b, c \in keys : <<a, b>> \in order /\ <<b, c>> \in order => <<a, c>> \in order
Tier == UNION {[keys -> Chunk] : keys \in SUBSET Keys}

TypeOK ==
  /\ scene \in Scenes
  /\ chunks \in Tier /\ Orders(recent, DOMAIN chunks)
  /\ disk.resident \in Tier /\ Orders(disk.recent, DOMAIN disk.resident)
  /\ disk.on_disk \subseteq Keys
  /\ disk.files \in [Keys -> Chunk \cup {Nothing, Garbled}]
  /\ bound \in Frames \cup {NoFrame}
  /\ walk \in (SUBSET Keys) \cup {NoWalk}
  /\ asked \in [keys : SUBSET Keys, frame : Frames] \cup {NoAsk}

(* No tier ever holds a chunk of an earlier scene or of another frame, the *)
(* files it lists included, whatever was edited, rebound, spilled, half    *)
(* written or left behind by a process that ended.                         *)
NoStaleChunk ==
  /\ \A k \in DOMAIN chunks : chunks[k] = Resolved(scene, k, bound)
  /\ \A k \in Held(disk) : ChunkOf(disk, k) = Resolved(scene, k, bound)

(* "A key is in exactly one of the two (or neither)", and neither resident *)
(* set ever exceeds its cap, the step inside a reload included.            *)
TiersStayBounded ==
  /\ disk.on_disk \cap DOMAIN disk.resident = {}
  /\ Cardinality(DOMAIN chunks) <= Capacity
  /\ Cardinality(DOMAIN disk.resident) <= Capacity

(* A region that fits under the cap is handed out whole: the chunks the    *)
(* read has already visited are the most recently used ones, so none of    *)
(* them is spilled to make room for a later one.                           *)
SmallRegionIsWhole ==
  walk = {} /\ Fits(scene.covering) => scene.covering \subseteq DOMAIN chunks

(* "Every covering chunk is resident" when the region is gathered.         *)
RegionIsWhole == walk = {} => scene.covering \subseteq DOMAIN chunks

-----------------------------------------------------------------------------
Promise == INSTANCE Resolver

(* A reader is handed what the scene resolves to now, in the frame it      *)
(* asked for and whole where it fits under the cap, as if nothing were     *)
(* kept, rebound, spilled or read back (Store::chunk, bind_region).        *)
ServesTheScene == Promise!Spec
=============================================================================
