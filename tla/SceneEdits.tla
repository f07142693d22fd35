------------------------------ MODULE SceneEdits ------------------------------
(***************************************************************************)
(* The document and its edits: crates/document (scene/graph, command.rs)   *)
(* and the dispatch of src/app_core/intent.rs.  No state: pure operators   *)
(* from a scene to a scene, which CommandStack threads through its history.*)
(*                                                                         *)
(* Kept: the arena and its spines, the one id counter nodes and points     *)
(* share, the captured inverse of every intent that moves structure, and   *)
(* what a placement retains of its authored measurement.  A field write    *)
(* that stores a value and restores it (name, enabled, grids, shape ...)   *)
(* is represented by SetMaterial, one that a kind mismatch refuses, and    *)
(* SetSketch.  One axis stands for three; offsets are not negative, so the *)
(* truncating division of the code is \div.                                *)
(***************************************************************************)
EXTENDS Integers, FiniteSets, SequencesExt

CONSTANTS
    Materials,        \* materials a tool can carry
    Producers,        \* sketch bodies
    Placements,       \* voxel offsets a drop can pick
    Tilts,            \* whether a drop may carry a rotation: a set of Booleans
    Measures,         \* authored measurements: records of blocks and voxels
    Densities,        \* voxels per block a run can switch to
    CoordinateLimit   \* in blocks; beyond it an edit is refused

ASSUME DensitiesArePositive == Densities \subseteq Nat \ {0}

RootNode == 1                     \* reserved; it is in no spine and no arena
FirstId == 2

Tool(material) == [kind |-> "tool", material |-> material]
Sketch(producer, material) ==
    [kind |-> "sketch", producer |-> producer, material |-> material]
Group(children) == [kind |-> "group", children |-> children]
Placed(def) == [kind |-> "instance", def |-> def]

\* The values a start takes under n steps.  Each step binds the last value in
\* a singleton, so that TLC computes it once and not at every mention.
Walk(start, n, Step(_, _)) ==
    LET at[k \in 0..n] ==
            IF k = 0 THEN start
            ELSE CHOOSE after \in {Step(before, k) : before \in {at[k - 1]}} : TRUE
    IN  at

----------------------------------------------------------------------------
(* Placement.  "kept" is the measurement the author typed, if the voxel    *)
(* count alone does not say as much.                                       *)

FromVoxels(voxels, tilted) == [voxels |-> voxels, kept |-> {}, tilted |-> tilted]

FromMeasure(m, density) ==
    [voxels |-> m.blocks * density + m.voxels,
     kept |-> IF m.blocks = 0 THEN {} ELSE {m},
     tilted |-> FALSE]

MeasureOf(at) == IF at.kept = {} THEN [blocks |-> 0, voxels |-> at.voxels]
                 ELSE CHOOSE m \in at.kept : TRUE

Retargeted(at, old, new) ==
    IF at.kept # {} THEN FromMeasure(MeasureOf(at), new)
    ELSE [at EXCEPT !.voxels = (@ * new) \div old]

----------------------------------------------------------------------------
(* The tree: ids in spines, nodes in the arena.                            *)

IsGroup(scene, id) == id \in DOMAIN scene.arena /\ scene.arena[id].content.kind = "group"

Children(arena, id) ==
    IF id \in DOMAIN arena /\ arena[id].content.kind = "group"
    THEN Range(arena[id].content.children) ELSE {}

\* Every id at or below a set of ids.
Under(arena, tops) ==
    LET depth == Cardinality(DOMAIN arena)
        down(ids, k) == ids \cup UNION {Children(arena, id) : id \in ids}
    IN  Walk(tops, depth, down)[depth]

\* The ids path_of resolves: a definition's body is not among them.
Tree(scene) == Under(scene.arena, Range(scene.roots))

ParentOf(scene, id) == {g \in Tree(scene) : id \in Children(scene.arena, g)}

Siblings(scene, parent) ==
    IF parent = {} THEN scene.roots
    ELSE scene.arena[CHOOSE g \in parent : TRUE].content.children

Position(spine, id) == CHOOSE i \in 1..Len(spine) : spine[i] = id

\* The scene with one spine, of a group or the top level, rewritten.
Respun(scene, parent, spine) ==
    IF parent = {} THEN [scene EXCEPT !.roots = spine]
    ELSE LET g == CHOOSE g \in parent : TRUE
         IN  IF IsGroup(scene, g)
             THEN [scene EXCEPT !.arena[g].content = Group(spine)] ELSE scene

\* The nodes of one arena put over those of another.
Over(nodes, arena) ==
    [id \in DOMAIN nodes \cup DOMAIN arena |->
        IF id \in DOMAIN nodes THEN nodes[id] ELSE arena[id]]
Store(scene, id, node) == [scene EXCEPT !.arena = Over([x \in {id} |-> node], @)]
Drop(scene, ids) ==
    [scene EXCEPT !.arena = [id \in DOMAIN @ \ ids |-> @[id]]]

Node(content, at) == [content |-> content, at |-> at]
Upright == FromVoxels(0, FALSE)

----------------------------------------------------------------------------
(* The edit operations of scene/graph/edits.rs and construct.rs.           *)

AddNode(scene, node) ==
    LET id == scene.next
    IN  [Store(scene, id, node) EXCEPT !.roots = Append(@, id), !.next = id + 1]

AddChildToGroup(scene, group, node) ==
    LET id == scene.next
        stored == [Store(scene, id, node) EXCEPT !.next = id + 1]
    IN  [stored EXCEPT !.arena[group].content.children = Append(@, id)]

\* Slip: the descendants stay behind in the arena.
DetachLeavesSubtree(scene, id) ==
    LET parent == ParentOf(scene, id)
        spine == Siblings(scene, parent)
    IN  IF id \notin Tree(scene) THEN scene
        ELSE Drop(Respun(scene, parent, RemoveAt(spine, Position(spine, id))), {id})

DetachAndPurge(scene, id) ==
    LET parent == ParentOf(scene, id)
        spine == Siblings(scene, parent)
    IN  IF id \notin Tree(scene) THEN scene
        ELSE Drop(Respun(scene, parent, RemoveAt(spine, Position(spine, id))),
                  Under(scene.arena, {id}))

WrapInGroup(scene, target) ==
    LET parent == ParentOf(scene, target)
        spine == Siblings(scene, parent)
        id == scene.next
    IN  IF target \notin Tree(scene) THEN scene
        ELSE Store([Respun(scene, parent, ReplaceAll(spine, target, id)) EXCEPT !.next = id + 1],
                   id, Node(Group(<<target>>), Upright))

Ungroup(scene, group, target) ==
    LET parent == ParentOf(scene, group)
        spine == Siblings(scene, parent)
    IN  IF group \notin Tree(scene) THEN scene
        ELSE Drop(Respun(scene, parent, ReplaceAll(spine, group, target)), {group})

Reinsert(scene, parent, index, id, nodes) ==
    LET stored == [scene EXCEPT !.arena = Over(nodes, @)]
        spine == Siblings(stored, parent)
    IN  Respun(stored, parent, InsertAt(spine, index, id))

NextDefId(scene) ==
    1 + Max({0} \cup {scene.definitions[i].id : i \in DOMAIN scene.definitions})

MakeDefinitionFrom(scene, target) ==
    LET def == NextDefId(scene)
        content == scene.arena[target].content
        donates == content.kind = "group"
        instance == [scene EXCEPT !.arena[target].content = Placed(def)]
        bodied == IF donates THEN instance
                  ELSE [Store(instance, scene.next, Node(content, Upright))
                            EXCEPT !.next = scene.next + 1]
        body == IF donates THEN content.children ELSE <<scene.next>>
    IN  IF target \notin DOMAIN scene.arena THEN scene
        ELSE [bodied EXCEPT !.definitions = Append(@, [id |-> def, children |-> body])]

HasDef(scene, def) == \E i \in DOMAIN scene.definitions : scene.definitions[i].id = def

AddInstance(scene, def) ==
    LET placedAlready ==
            {i \in DOMAIN scene.roots :
                scene.arena[scene.roots[i]].content = Placed(def)}
        spaced == [blocks |-> Cardinality(placedAlready) + 1, voxels |-> 0]
    IN  AddNode(scene, Node(Placed(def), FromMeasure(spaced, scene.density)))

AddPoint(scene) ==
    [scene EXCEPT !.points = Append(@, [id |-> scene.next, origin |-> FALSE]),
                  !.next = @ + 1]

Deletable(scene, index) ==
    index \in DOMAIN scene.points /\ ~scene.points[index].origin

RemovePoint(scene, index) ==
    IF Deletable(scene, index) THEN [scene EXCEPT !.points = RemoveAt(@, index)] ELSE scene

SetDensity(scene, density) ==
    [scene EXCEPT !.density = density,
                  !.arena = [id \in DOMAIN @ |->
                      Node(@[id].content, Retargeted(@[id].at, scene.density, density))]]

----------------------------------------------------------------------------
(* Intents, and the one door that lands them.                              *)

Specs == {Tool(m) : m \in Materials} \cup {Group(<<>>)} \cup {Sketch(p, m) : p \in Producers, m \in Materials}

MintedIds(scene) == FirstId..(scene.next - 1)

\* What the panel and the viewport can ask of a scene, of some kinds.  A target is any node
\* id minted so far: an intent of the same frame may already have removed it.
Intents(scene, verbs) ==
    LET ids == MintedIds(scene) \ {scene.points[i].id : i \in DOMAIN scene.points}
        all ==
            [kind : {"PlaceNode"}, content : Specs, voxels : Placements, tilted : Tilts]
            \cup [kind : {"AddChild"}, group : ids, content : Specs]
            \cup [kind : {"GroupNode", "MakeDefinition", "RemoveNode"}, target : ids]
            \cup [kind : {"AddInstance"}, def : 1..Len(scene.definitions)]
            \cup [kind : {"SetMaterial"}, target : ids, material : Materials]
            \cup [kind : {"SetSketch"}, target : ids, producer : Producers]
            \cup [kind : {"SetOffset"}, target : ids, measure : Measures]
            \cup [kind : {"SetDensity"}, density : Densities \ {scene.density}]
            \cup [kind : {"AddPoint"}]
            \cup [kind : {"RemovePoint"}, index : 1..Len(scene.points)]
    IN  {intent \in all : intent.kind \in verbs}

\* Whether the add family finds the place it adds to.
Mints(scene, intent) ==
    CASE intent.kind = "PlaceNode" -> TRUE
      [] intent.kind = "AddChild" -> intent.group \in Tree(scene) /\ IsGroup(scene, intent.group)
      [] intent.kind = "AddInstance" -> HasDef(scene, intent.def)
      [] OTHER -> FALSE

\* A field write lands on a node of the right kind, and is a no-op otherwise.
Writable(scene, intent) ==
    /\ intent.target \in DOMAIN scene.arena
    /\ LET kind == scene.arena[intent.target].content.kind
       IN  CASE intent.kind = "SetMaterial" -> kind \in {"tool", "sketch"}
             [] intent.kind = "SetSketch" -> kind = "sketch"
             [] OTHER -> TRUE

Written(scene, intent) ==
    CASE intent.kind = "SetMaterial" ->
            [scene EXCEPT !.arena[intent.target].content.material = intent.material]
      [] intent.kind = "SetSketch" ->
            [scene EXCEPT !.arena[intent.target].content.producer = intent.producer]
      [] intent.kind = "SetOffset" ->
            [scene EXCEPT !.arena[intent.target].at = FromMeasure(intent.measure, scene.density)]

FieldWrites == {"SetMaterial", "SetSketch", "SetOffset"}

Dispatch(scene, intent) ==
    CASE intent.kind = "PlaceNode" ->
            AddNode(scene, Node(intent.content, FromVoxels(intent.voxels, intent.tilted)))
      [] intent.kind = "AddChild" ->
            IF Mints(scene, intent)
            THEN AddChildToGroup(scene, intent.group, Node(intent.content, Upright)) ELSE scene
      [] intent.kind = "AddInstance" ->
            IF Mints(scene, intent) THEN AddInstance(scene, intent.def) ELSE scene
      [] intent.kind = "GroupNode" -> WrapInGroup(scene, intent.target)
      [] intent.kind = "MakeDefinition" -> MakeDefinitionFrom(scene, intent.target)
      [] intent.kind = "RemoveNode" -> DetachAndPurge(scene, intent.target)
      [] intent.kind \in FieldWrites ->
            IF Writable(scene, intent) THEN Written(scene, intent) ELSE scene
      [] intent.kind = "SetDensity" -> SetDensity(scene, intent.density)
      [] intent.kind = "AddPoint" -> AddPoint(scene)
      [] intent.kind = "RemovePoint" -> RemovePoint(scene, intent.index)

\* The authoring-time wall, on a node's own placement.
ExceedsCoordinateLimit(scene, intent) ==
    CASE intent.kind = "PlaceNode" -> intent.voxels \div scene.density > CoordinateLimit
      [] intent.kind = "SetOffset" ->
            /\ intent.target \in Tree(scene)
            /\ FromMeasure(intent.measure, scene.density).voxels \div scene.density
                   > CoordinateLimit
      [] OTHER -> FALSE

----------------------------------------------------------------------------
(* Inverses, captured from the scene before the edit lands.                *)

NoOp == [kind |-> "NoOp"]
Field(intent) == [kind |-> "Field", intent |-> intent]

PriorField(scene, intent) ==
    LET node == scene.arena[intent.target]
    IN  CASE intent.kind = "SetMaterial" -> [intent EXCEPT !.material = node.content.material]
          [] intent.kind = "SetSketch" -> [intent EXCEPT !.producer = node.content.producer]
          [] intent.kind = "SetOffset" -> [intent EXCEPT !.measure = MeasureOf(node.at)]

\* Already patched with the id the add will mint; 0 when it mints none.
RemoveAdded(scene, intent) ==
    [kind |-> "RemoveAdded", id |-> IF Mints(scene, intent) THEN scene.next ELSE 0]

CaptureRemove(scene, target) ==
    IF target \notin Tree(scene) THEN NoOp
    ELSE LET parent == ParentOf(scene, target)
         IN  [kind |-> "InsertSubtree", parent |-> parent,
              index |-> Position(Siblings(scene, parent), target), root |-> target,
              nodes |-> [id \in Under(scene.arena, {target}) |-> scene.arena[id]]]

CaptureMakeDefinition(scene, target) ==
    IF target \notin DOMAIN scene.arena THEN NoOp
    ELSE LET content == scene.arena[target].content
         IN  [kind |-> "UndoMakeDefinition", node |-> target, prior |-> content,
              def |-> NextDefId(scene),
              body |-> IF content.kind = "group" THEN {} ELSE {scene.next}]

CaptureInverse(scene, intent) ==
    CASE intent.kind = "PlaceNode" -> RemoveAdded(scene, intent)
      [] intent.kind = "AddChild" ->
            IF IsGroup(scene, intent.group) THEN RemoveAdded(scene, intent) ELSE NoOp
      [] intent.kind = "AddInstance" ->
            IF HasDef(scene, intent.def) THEN RemoveAdded(scene, intent) ELSE NoOp
      [] intent.kind = "GroupNode" ->
            IF intent.target \in DOMAIN scene.arena
            THEN [kind |-> "UngroupNode", target |-> intent.target, group |-> scene.next]
            ELSE NoOp
      [] intent.kind = "MakeDefinition" -> CaptureMakeDefinition(scene, intent.target)
      [] intent.kind = "RemoveNode" -> CaptureRemove(scene, intent.target)
      [] intent.kind \in FieldWrites ->
            IF Writable(scene, intent) THEN Field(PriorField(scene, intent)) ELSE NoOp
      [] intent.kind = "SetDensity" -> Field([intent EXCEPT !.density = scene.density])
      [] intent.kind = "AddPoint" ->
            [kind |-> "RemoveAddedPoint", index |-> Len(scene.points) + 1]
      [] intent.kind = "RemovePoint" ->
            IF Deletable(scene, intent.index)
            THEN [kind |-> "InsertPoint", index |-> intent.index,
                  point |-> scene.points[intent.index]]
            ELSE NoOp

WithoutDef(definitions, def) ==
    LET n == Len(definitions)
        keep(kept, k) ==
            IF definitions[k].id = def THEN kept ELSE Append(kept, definitions[k])
    IN  Walk(<<>>, n, keep)[n]

UndoMakeDefinition(scene, inverse) ==
    LET restored == IF inverse.node \in DOMAIN scene.arena
                    THEN [scene EXCEPT !.arena[inverse.node].content = inverse.prior] ELSE scene
    IN  Drop([restored EXCEPT !.definitions = WithoutDef(@, inverse.def)], inverse.body)

ApplyInverse(scene, inverse) ==
    CASE inverse.kind = "NoOp" -> scene
      [] inverse.kind = "Field" -> Dispatch(scene, inverse.intent)
      [] inverse.kind = "RemoveAdded" -> DetachAndPurge(scene, inverse.id)
      [] inverse.kind = "UngroupNode" -> Ungroup(scene, inverse.group, inverse.target)
      [] inverse.kind = "UndoMakeDefinition" -> UndoMakeDefinition(scene, inverse)
      [] inverse.kind = "InsertSubtree" ->
            Reinsert(scene, inverse.parent, inverse.index, inverse.root, inverse.nodes)
      [] inverse.kind = "RemoveAddedPoint" ->
            [scene EXCEPT !.points = RemoveAt(@, inverse.index)]
      [] inverse.kind = "InsertPoint" ->
            [scene EXCEPT !.points = InsertAt(@, inverse.index, inverse.point)]

----------------------------------------------------------------------------
(* Commands: record, reverse, replay.                                      *)

Command(scene, intent) ==
    [intent |-> intent, inverse |-> CaptureInverse(scene, intent),
     counter_before |-> scene.next]

\* Slip: the inverse alone, without the counter.
ReverseKeepsCounter(scene, command) == ApplyInverse(scene, command.inverse)

\* The counter rule: the reversal also hands the minted ids back.
ReverseCommand(scene, command) ==
    [ApplyInverse(scene, command.inverse) EXCEPT !.next = command.counter_before]

ReplayCommand(scene, command) == Dispatch(scene, command.intent)

\* A transaction reverses last command first and replays first command first.
Reversed(scene, transaction) ==
    LET n == Len(transaction)
        back(s, k) == ReverseCommand(s, transaction[n + 1 - k])
    IN  Walk(scene, n, back)[n]

Replayed(scene, transaction) ==
    LET n == Len(transaction)
        forth(s, k) == ReplayCommand(s, transaction[k])
    IN  Walk(scene, n, forth)[n]

----------------------------------------------------------------------------
(* What every document satisfies, whatever edits and reversals made it.    *)

\* Whose spine it is: the reserved root id for the top level, a group's id, and
\* -i for the i-th definition.
Owners(scene) ==
    {RootNode} \cup {g \in DOMAIN scene.arena : IsGroup(scene, g)}
    \cup {-i : i \in DOMAIN scene.definitions}
Spine(scene, owner) ==
    CASE owner = RootNode -> scene.roots
      [] owner > RootNode -> scene.arena[owner].content.children
      [] owner < 0 -> scene.definitions[-owner].children

PointIds(scene) == {scene.points[i].id : i \in DOMAIN scene.points}

\* The arena holds exactly the nodes the spines name, each in one slot; an
\* instance names a definition that exists; an id is a node or a point, never
\* both; and the counter is past every id in use.
WellFormed(scene) ==
    /\ UNION {Range(Spine(scene, o)) : o \in Owners(scene)} = DOMAIN scene.arena
    /\ \A o, p \in Owners(scene) :
           \A i \in DOMAIN Spine(scene, o), j \in DOMAIN Spine(scene, p) :
               Spine(scene, o)[i] = Spine(scene, p)[j] => o = p /\ i = j
    /\ \A id \in DOMAIN scene.arena :
           LET content == scene.arena[id].content
           IN  content.kind = "instance" => HasDef(scene, content.def)
    /\ \A i, j \in DOMAIN scene.points :
           scene.points[i].id = scene.points[j].id => i = j
    /\ DOMAIN scene.arena \cap PointIds(scene) = {}
    /\ DOMAIN scene.arena \cup PointIds(scene) \subseteq MintedIds(scene)

\* What a scene is made of.
IsContent(content) ==
    \/ content.kind = "tool" /\ content = Tool(content.material)
    \/ content.kind = "sketch" /\ content = Sketch(content.producer, content.material)
    \/ /\ content.kind = "group" /\ content = Group(content.children)
       /\ content.children \in Seq(Nat)
    \/ content.kind = "instance" /\ content = Placed(content.def)
IsScene(scene) ==
    /\ scene = [arena |-> scene.arena, roots |-> scene.roots,
                definitions |-> scene.definitions, points |-> scene.points,
                next |-> scene.next, density |-> scene.density]
    /\ scene.arena = [id \in DOMAIN scene.arena |->
                          Node(scene.arena[id].content, scene.arena[id].at)]
    /\ \A id \in DOMAIN scene.arena : IsContent(scene.arena[id].content)
    /\ scene.roots \in Seq(Nat)
    /\ scene.definitions \in Seq([id : Nat, children : Seq(Nat)])
    /\ scene.points \in Seq([id : Nat, origin : BOOLEAN])
    /\ scene.next \in Nat /\ scene.next >= FirstId

\* The scene but for where its nodes stand.
Structure(scene) ==
    [scene EXCEPT !.arena = [id \in DOMAIN @ |-> @[id].content]]

=============================================================================
