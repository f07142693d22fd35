-------------------------- MODULE HistoryInvariant --------------------------
(***************************************************************************)
(* The terms of the proofs about undo, and the inductive invariant they    *)
(* end in: the outline of a document and its slots, what an intent makes   *)
(* of it (Edited), where the nodes stand, what a command and a transaction *)
(* lead between (Leads, Spans), the line a stack files (Filed), what the   *)
(* core tells (Tells, Told) and what an author is shown of it (Shown,      *)
(* Advances), seen by structure or exactly (See).                          *)
(***************************************************************************)
EXTENDS CommandStack

(* The steps of the walks of SceneEdits and CommandStack, one by name.     *)
Take(how, given, before, k) ==
  CASE how = "down" -> before \cup UNION {Children(given, id) : id \in before}
    [] how = "keep" ->
         IF given.list[k].id = given.def THEN before ELSE Append(before, given.list[k])
    [] how = "record" ->
         IF ExceedsCoordinateLimit(before.core.scene, given[k]) THEN before
         ELSE [core |-> Recorded(before.core, given[k]),
               commands |-> Append(before.commands, Command(before.core.scene, given[k]))]
    [] how = "back" -> ReverseOne(before, given[Len(given) + 1 - k])
    [] how = "forth" -> ReplayOne(before, given[k])
    [] how = "reverse" -> ReverseCommand(before, given[Len(given) + 1 - k])
    [] how = "replay" -> ReplayCommand(before, given[k])
    [] how = "unwind" -> Reversed(before, given[Len(given) + 1 - k])
    [] how = "rewind" -> Replayed(before, given[Len(given) + 1 - k])
    [] OTHER -> before \o given[k]

IsWalk(how, given, start, n, f) ==
  f = [k \in 0 .. n |-> IF k = 0 THEN start ELSE Take(how, given, f[k - 1], k)]
CanWalk(how, given, start, n) == \E f : IsWalk(how, given, start, n, f)

(***************************************************************************)
(* A document without its placements.                                      *)
(***************************************************************************)

Make(arena, roots, definitions, points, next, density) ==
  [arena |-> arena, roots |-> roots, definitions |-> definitions, points |-> points,
   next |-> next, density |-> density]

IsMade(z) == z = Make(z.arena, z.roots, z.definitions, z.points, z.next, z.density)

(* A scene whose nodes are nodes, whatever they hold.                      *)
IsFrame(s) ==
  /\ IsMade(s)
  /\ s.arena = [id \in DOMAIN s.arena |-> Node(s.arena[id].content, s.arena[id].at)]

Contents(arena) == [id \in DOMAIN arena |-> arena[id].content]

(* The rows of a structure z, by their owners; o has id in its slot i.     *)
Rows(z) ==
  {1} \cup {g \in DOMAIN z.arena : z.arena[g].kind = "group"}
  \cup {-i : i \in DOMAIN z.definitions}
Row(z, o) ==
  IF o = 1 THEN z.roots ELSE IF o > 1 THEN z.arena[o].children ELSE z.definitions[-o].children
Named(z, o, i, id) == o \in Rows(z) /\ i \in DOMAIN Row(z, o) /\ Row(z, o)[i] = id

IsBuilt(z) ==
  /\ IsMade(z)
  /\ z.arena = [id \in DOMAIN z.arena |-> z.arena[id]]
  /\ \A id \in DOMAIN z.arena : IsContent(z.arena[id])
  /\ DOMAIN z.arena \subseteq 2 .. z.next - 1
  /\ z.roots \in Seq(Nat)
  /\ z.definitions \in Seq([id : Nat, children : Seq(Nat)])
  /\ z.points \in Seq([id : Nat, origin : BOOLEAN])
  /\ z.next \in Nat /\ z.next > 1

(* The slots name the nodes, each node in one of them.                     *)
IsSpun(z) ==
  /\ \A o, i, id : Named(z, o, i, id) => id \in DOMAIN z.arena
  /\ \A id \in DOMAIN z.arena : \E o, i : Named(z, o, i, id)
  /\ \A o, p, i, j, id : Named(z, o, i, id) /\ Named(z, p, j, id) => o = p /\ i = j

HasDefinition(z, def) == \E i \in DOMAIN z.definitions : z.definitions[i].id = def
IsStocked(z) ==
  \A id \in DOMAIN z.arena : z.arena[id].kind = "instance" => HasDefinition(z, z.arena[id].def)

IsPointed(z) ==
  /\ \A i, j \in DOMAIN z.points : z.points[i].id = z.points[j].id => i = j
  /\ \A i \in DOMAIN z.points :
       z.points[i].id \notin DOMAIN z.arena /\ z.points[i].id \in 2 .. z.next - 1

IsOutline(z) == IsBuilt(z) /\ IsSpun(z) /\ IsStocked(z) /\ IsPointed(z)
IsDocument(s) == IsFrame(s) /\ IsOutline(Structure(s))

(***************************************************************************)
(* What lies below.                                                        *)
(***************************************************************************)

Kids(c, id) ==
  IF id \in DOMAIN c /\ c[id].kind = "group" THEN Range(c[id].children) ELSE {}
Bare(c) == [id \in DOMAIN c |-> Node(c[id], Upright)]
Below(c, tops) == Under(Bare(c), tops)

(* Every kid is a node.                                                    *)
Closed(c) == \A id : Kids(c, id) \subseteq DOMAIN c
KeepsKids(c, C) == \A id \in C : Kids(c, id) \subseteq C

(* One step down.                                                          *)
Deeper(c, ids) == ids \cup UNION {Kids(c, id) : id \in ids}

(***************************************************************************)
(* The rows of an outline.                                                 *)
(***************************************************************************)

TreeOf(z) == Below(z.arena, Range(z.roots))

(* A slot of the tree: of the top level, or of a group in the tree.        *)
Sits(z, o, k, id) == Named(z, o, k, id) /\ (o = 1 \/ o \in TreeOf(z))

(***************************************************************************)
(* The edits of the scene, seen on its structure.                          *)
(***************************************************************************)

With(c, id, x) == [y \in DOMAIN c \cup {id} |-> IF y = id THEN x ELSE c[y]]
Without(c, ids) == [y \in DOMAIN c \ ids |-> c[y]]

(* A structure with one of its fields, or one node, another.               *)
Filled(z, c) == Make(c, z.roots, z.definitions, z.points, z.next, z.density)
PutIn(z, id, x) == Filled(z, With(z.arena, id, x))
TakenOut(z, ids) == Filled(z, Without(z.arena, ids))
Rooted(z, row) == Make(z.arena, row, z.definitions, z.points, z.next, z.density)
Defining(z, d) == Make(z.arena, z.roots, d, z.points, z.next, z.density)
Pointing(z, p) == Make(z.arena, z.roots, z.definitions, p, z.next, z.density)
Numbered(z, n) == Make(z.arena, z.roots, z.definitions, z.points, n, z.density)
Dense(z, v) == Make(z.arena, z.roots, z.definitions, z.points, z.next, v)
Respin(z, o, row) == IF o = 1 THEN Rooted(z, row) ELSE PutIn(z, o, Group(row))

AreNodes(A) == A = [id \in DOMAIN A |-> Node(A[id].content, A[id].at)]

(* A node put into the arena, one left out, one with another content.      *)
NodeOver(A, id, c, at) == Over([x \in {id} |-> Node(c, at)], A)

(* The writes of the scene, one field each.                                *)
Mirrors(s, z) == IsFrame(s) /\ Structure(s) = z

(* A spine rewritten: o is the group, or 1 for the top level.              *)
ParentSet(o) == IF o = 1 THEN {} ELSE {o}

(***************************************************************************)
(* Each edit, mirrored.                                                    *)
(***************************************************************************)

Added(z, c) ==
  Numbered(Rooted(PutIn(z, z.next, c), Append(z.roots, z.next)), z.next + 1)
Adopted(z, g, c) ==
  PutIn(Numbered(PutIn(z, z.next, c), z.next + 1), g, Group(Append(z.arena[g].children, z.next)))
Wrapped(z, o, t) ==
  PutIn(Numbered(Respin(z, o, ReplaceAll(Row(z, o), t, z.next)), z.next + 1), z.next, Group(<<t>>))
Unwrapped(z, o, g, t) == TakenOut(Respin(z, o, ReplaceAll(Row(z, o), g, t)), {g})
Purged(z, o, k, t) == TakenOut(Respin(z, o, RemoveAt(Row(z, o), k)), Below(z.arena, {t}))
Donated(z, t) ==
  Defining(PutIn(z, t, Placed(NextDefId(z))),
           Append(z.definitions, [id |-> NextDefId(z), children |-> z.arena[t].children]))
Bodied(z, t) ==
  Defining(Numbered(PutIn(PutIn(z, t, Placed(NextDefId(z))), z.next, z.arena[t]), z.next + 1),
           Append(z.definitions, [id |-> NextDefId(z), children |-> <<z.next>>]))

(***************************************************************************)
(* The slots of a structure, by the field that holds them.                 *)
(***************************************************************************)

Slot(row, i, x) == i \in DOMAIN row /\ row[i] = x
GroupSlot(c, o, i, x) == o \in DOMAIN c /\ c[o].kind = "group" /\ Slot(c[o].children, i, x)
DefSlot(d, o, i, x) == \E e \in DOMAIN d : o = -e /\ Slot(d[e].children, i, x)

(* What keeps a structure built.                                           *)
IsArena(A, n) ==
  /\ A = [id \in DOMAIN A |-> A[id]]
  /\ \A id \in DOMAIN A : IsContent(A[id])
  /\ n \in Nat /\ n > 1 /\ DOMAIN A \subseteq 2 .. n - 1
IsTyped(r, d, p) ==
  /\ r \in Seq(Nat)
  /\ d \in Seq([id : Nat, children : Seq(Nat)])
  /\ p \in Seq([id : Nat, origin : BOOLEAN])

(* A node more, in no slot; its kids are in its own.                       *)
Grown(z, c) == Numbered(PutIn(z, z.next, c), z.next + 1)

(* A definition more.                                                      *)
Entry(def, row) == [id |-> def, children |-> row]
Enlisted(z, def, row) == Defining(z, Append(z.definitions, Entry(def, row)))

(***************************************************************************)
(* The edits keep an outline an outline.                                   *)
(***************************************************************************)

IsOwner(z, o) == o = 1 \/ (o \in DOMAIN z.arena /\ z.arena[o].kind = "group")
IsBlank(c) == IsContent(c) /\ (c.kind = "group" => c.children = <<>>)
Stocks(z, c) == c.kind = "instance" => HasDefinition(z, c.def)

(* A new node in a new slot.                                               *)
Gains(z, y, p, m, n) ==
  /\ DOMAIN y.arena = DOMAIN z.arena \cup {n} /\ n \notin DOMAIN z.arena
  /\ \A x : ~Named(z, p, m, x)
  /\ \A o, i, x : Named(y, o, i, x) <=> Named(z, o, i, x) \/ (o = p /\ i = m /\ x = n)

Joined(z, o, c) == Respin(Grown(z, c), o, Append(Row(z, o), z.next))

Wraps(z, y, o, k, t, n) ==
  /\ DOMAIN y.arena = DOMAIN z.arena \cup {n} /\ n \notin DOMAIN z.arena
  /\ Named(z, o, k, t)
  /\ \A p, i, x : Named(y, p, i, x) <=>
       \/ Named(z, p, i, x) /\ x # t
       \/ p = o /\ i = k /\ x = n
       \/ p = n /\ i = 1 /\ x = t

Around(t) == Group(<<t>>)

(* A group gives its kids to a definition.                                 *)
Moves(z, y, t, e) ==
  /\ DOMAIN y.arena = DOMAIN z.arena
  /\ \A i, x : ~Named(z, e, i, x)
  /\ \A p, i, x : Named(y, p, i, x) <=> (p # t /\ Named(z, p, i, x)) \/ (p = e /\ Named(z, t, i, x))

Sole(n) == <<n>>

(***************************************************************************)
(* What a removal takes.                                                   *)
(***************************************************************************)

Gone(z, t) == Below(z.arena, {t})

(* Where the slots of a row came from once one is closed up.               *)
Old(p, o, k, i) == IF p = o /\ i >= k THEN i + 1 ELSE i

Loses(z, y, o, k, t, G) ==
  /\ DOMAIN y.arena = DOMAIN z.arena \ G
  /\ Named(z, o, k, t) /\ k \in Nat
  /\ \A p, i, x : Named(y, p, i, x) <=>
       p \notin G /\ i \in Nat /\ i >= 1 /\ Named(z, p, Old(p, o, k, i), x)

(* Neither do the points and the density.                                  *)
Pins(z, p, n) ==
  /\ p \in Seq([id : Nat, origin : BOOLEAN]) /\ n \in Nat /\ n >= z.next
  /\ \A i, j \in DOMAIN p : p[i].id = p[j].id => i = j
  /\ \A i \in DOMAIN p : p[i].id \notin DOMAIN z.arena /\ p[i].id \in 2 .. n - 1

Point(id) == [id |-> id, origin |-> FALSE]
Pinned(z) == Numbered(Pointing(z, Append(z.points, Point(z.next))), z.next + 1)
Unpinned(z, i) == Pointing(z, RemoveAt(z.points, i))

(***************************************************************************)
(* What an intent makes of a structure.                                    *)
(***************************************************************************)

(* The row and the slot a node of the tree stands in.                      *)
OwnerOf(z, t) == CHOOSE o : \E k : Sits(z, o, k, t)
SlotOf(z, t) == CHOOSE k : Sits(z, OwnerOf(z, t), k, t)

IsKind(z, t, kinds) == t \in DOMAIN z.arena /\ z.arena[t].kind \in kinds
Repainted(z, t, m) == PutIn(z, t, [z.arena[t] EXCEPT !.material = m])
Resketched(z, t, p) == PutIn(z, t, [z.arena[t] EXCEPT !.producer = p])

Edited(z, i) ==
  CASE i.kind = "PlaceNode" -> Joined(z, 1, i.content)
    [] i.kind = "AddChild" ->
         IF i.group \in TreeOf(z) /\ IsKind(z, i.group, {"group"}) THEN Joined(z, i.group, i.content) ELSE z
    [] i.kind = "AddInstance" -> IF HasDefinition(z, i.def) THEN Joined(z, 1, Placed(i.def)) ELSE z
    [] i.kind = "GroupNode" ->
         IF i.target \in TreeOf(z) THEN Wrapped(z, OwnerOf(z, i.target), i.target) ELSE z
    [] i.kind = "MakeDefinition" ->
         IF i.target \notin DOMAIN z.arena THEN z
         ELSE IF z.arena[i.target].kind = "group" THEN Donated(z, i.target) ELSE Bodied(z, i.target)
    [] i.kind = "RemoveNode" ->
         IF i.target \in TreeOf(z)
         THEN Purged(z, OwnerOf(z, i.target), SlotOf(z, i.target), i.target) ELSE z
    [] i.kind = "SetMaterial" ->
         IF IsKind(z, i.target, {"tool", "sketch"}) THEN Repainted(z, i.target, i.material) ELSE z
    [] i.kind = "SetSketch" ->
         IF IsKind(z, i.target, {"sketch"}) THEN Resketched(z, i.target, i.producer) ELSE z
    [] i.kind = "SetDensity" -> Dense(z, i.density)
    [] i.kind = "AddPoint" -> Pinned(z)
    [] i.kind = "RemovePoint" ->
         IF i.index \in DOMAIN z.points /\ ~z.points[i.index].origin THEN Unpinned(z, i.index) ELSE z
    [] OTHER -> z

IsSpec(c) == IsBlank(c) /\ c.kind # "instance"
IsIntent(i) ==
  \/ i.kind \in {"PlaceNode", "AddChild"} /\ IsSpec(i.content)
  \/ i.kind \in {"AddInstance", "GroupNode", "MakeDefinition", "RemoveNode", "AddPoint", "RemovePoint"}
  \/ i.kind = "SetMaterial" /\ i = [kind |-> i.kind, target |-> i.target, material |-> i.material]
  \/ i.kind = "SetSketch" /\ i = [kind |-> i.kind, target |-> i.target, producer |-> i.producer]
  \/ i.kind = "SetOffset" /\ i = [kind |-> i.kind, target |-> i.target, measure |-> i.measure]
  \/ i.kind = "SetDensity" /\ i = [kind |-> i.kind, density |-> i.density]

Lands(s, i) ==
  Mirrors(Dispatch(s, i), Edited(Structure(s), i)) /\ IsOutline(Edited(Structure(s), i))

(* The inverse as it was captured, over the document edited.               *)
Matches(w, z) ==
  /\ IsMade(w) /\ w.arena = z.arena /\ w.roots = z.roots /\ w.definitions = z.definitions
  /\ w.points = z.points /\ w.density = z.density
Returns(u, i) ==
  \A t : IsDocument(t) /\ Structure(t) = Edited(Structure(u), i)
           => Mirrors(ReverseCommand(t, Command(u, i)), Structure(u))

(***************************************************************************)
(* Taking back what removed, defined, wrote or pointed.                    *)
(***************************************************************************)

(* The nodes captured from one arena, put back over another.               *)
Captured(A, ids) == [id \in ids |-> A[id]]
Restocked(B, A, ids) == Over(Captured(A, ids), B)

Restocks(R, B, A, ids) ==
  /\ AreNodes(R) /\ DOMAIN R = DOMAIN B \cup ids
  /\ \A id \in DOMAIN R : R[id] = IF id \in ids THEN A[id] ELSE B[id]

(* The definition made last is the one taken away.                         *)
Unused(d, def) == \A e \in DOMAIN d : d[e].id < def

(* What a definition took is given back, and the entry taken out.          *)
Undefined(y, t, c, def, ids) ==
  TakenOut(Defining(PutIn(y, t, c), WithoutDef(y.definitions, def)), ids)

(***************************************************************************)
(* Where the nodes stand: what the edits and their inverses do to the      *)
(* placements, which the structure leaves out.                             *)
(***************************************************************************)

(* The nodes of t are those of s, or some of them, or those and others at   *)
(* one placement; none of them has moved.                                   *)
Stays(s, t) ==
  /\ IsFrame(t) /\ t.density = s.density /\ DOMAIN t.arena = DOMAIN s.arena
  /\ \A id \in DOMAIN s.arena : t.arena[id].at = s.arena[id].at
Leaves(s, t) ==
  /\ IsFrame(t) /\ t.density = s.density
  /\ \A id \in DOMAIN t.arena : id \in DOMAIN s.arena /\ t.arena[id].at = s.arena[id].at
Brings(s, t, at) ==
  /\ IsFrame(t) /\ t.density = s.density
  /\ \A id \in DOMAIN t.arena :
       t.arena[id].at = IF id \in DOMAIN s.arena THEN s.arena[id].at ELSE at

(* Reading the measurement of a placement and writing it again gives the    *)
(* placement back.                                                          *)
Retells(at, v) == at = FromMeasure(MeasureOf(at), v)

(* A placement that the field writes among the verbs can take back.         *)
Sure(verbs, at, v) ==
  /\ "SetOffset" \in verbs => Retells(at, v)
  /\ "SetDensity" \in verbs => at = FromVoxels(0, at.tilted) \/ (at.kept # {} /\ Retells(at, v))
AllSure(verbs, s) ==
  s.density \in Nat \ {0} /\ \A id \in DOMAIN s.arena : Sure(verbs, s.arena[id].at, s.density)

(* An intent whose placement can be taken back.                             *)
Fits(verbs, i) ==
  /\ i.kind \in verbs
  /\ i.kind = "PlaceNode" =>
       /\ i.voxels \in Int
       /\ "SetOffset" \in verbs => i.tilted = FALSE
       /\ "SetDensity" \in verbs => i.voxels = 0
  /\ i.kind = "SetOffset" =>
       /\ i.measure.voxels \in Int
       /\ "SetDensity" \in verbs => i.measure.blocks # 0 \/ i.measure.voxels = 0
  /\ i.kind = "SetDensity" => i.density \in Nat \ {0}

(* One node moved, and all of them rescaled.                                *)
Puts(s, t, g, x) ==
  /\ IsFrame(t) /\ t.density = s.density /\ DOMAIN t.arena = DOMAIN s.arena
  /\ \A id \in DOMAIN s.arena : t.arena[id].at = IF id = g THEN x ELSE s.arena[id].at
Rescales(s, t, v) ==
  /\ IsFrame(t) /\ t.density = v /\ DOMAIN t.arena = DOMAIN s.arena
  /\ \A id \in DOMAIN s.arena : t.arena[id].at = Retargeted(s.arena[id].at, s.density, v)

(* The kinds that may bring a node in, and the inverses captured for them.  *)
Growing == {"PlaceNode", "AddChild", "AddInstance", "GroupNode", "MakeDefinition", "AddPoint", "RemovePoint"}
Shrinking == {"NoOp", "RemoveAdded", "UngroupNode", "UndoMakeDefinition", "RemoveAddedPoint", "InsertPoint"}

(* Nodes that are in both scenes stand in the same places.                  *)
SamePlaces(s, t) ==
  /\ IsFrame(t)
  /\ \A id \in DOMAIN t.arena : id \in DOMAIN s.arena => t.arena[id].at = s.arena[id].at

(* The inverse of an intent puts every node it found back in its place.     *)
PutsBack(u, i) == SamePlaces(u, ApplyInverse(Dispatch(u, i), CaptureInverse(u, i)))

(* A walk told from its end, without its start. *)
Turned(f, n) == [k \in 1 .. n |-> f[n + 1 - k]]

(***************************************************************************)
(* Lists: sequences of anything.                                           *)
(***************************************************************************)
IsList(s) == \E T : s \in Seq(T)

(***************************************************************************)
(* Two ways to see a document: by its structure alone, or exactly as it is *)
(* where every placement the verbs offer can be taken back.                *)
(***************************************************************************)
Structurally == [exact |-> FALSE, verbs |-> {}]
Exactly(verbs) == [exact |-> TRUE, verbs |-> verbs]

See(how, s) == IF how.exact THEN s ELSE Structure(s)
Views(how, documents) == [k \in DOMAIN documents |-> See(how, documents[k])]
IsSure(how, s) == how.exact => AllSure(how.verbs, s)
IsTold(how, i) == IsIntent(i) /\ (how.exact => Fits(how.verbs, i))

(* The document s is seen as z.                                             *)
Is(how, s, z) == IsDocument(s) /\ IsSure(how, s) /\ See(how, s) = z

(***************************************************************************)
(* Commands and transactions, by what they lead between.                   *)
(***************************************************************************)

(* The command leads from a to b.                                           *)
Leads(how, a, c, b) ==
  /\ IsTold(how, c.intent)
  /\ \E u : Is(how, u, a) /\ c = Command(u, c.intent) /\ b = See(how, Dispatch(u, c.intent))

(* The commands lead there in turn, by the m.                               *)
Marks(how, m, a, commands, b) ==
  /\ m[0] = a /\ m[Len(commands)] = b
  /\ \A k \in 1 .. Len(commands) : Leads(how, m[k - 1], commands[k], m[k])
Spans(how, a, commands, b) == IsList(commands) /\ \E m : Marks(how, m, a, commands, b)

(* The core, its document of the structure z and its selection live, over  *)
(* the stacks st.                                                          *)
IsCore(how, core, z, st) ==
  /\ core = Core(core.scene, core.selection, st)
  /\ Is(how, core.scene, z)
  /\ core.selection = Live(core.scene, core.selection)

Renewed(core, s, sel) == [core EXCEPT !.scene = s, !.selection = sel]

(* What a batch has recorded so far, from the structure a.                 *)
IsRun(how, run, a, st) ==
  /\ run = [core |-> run.core, commands |-> run.commands]
  /\ \E z : IsCore(how, run.core, z, st) /\ Spans(how, a, run.commands, z)

(***************************************************************************)
(* The lines of structures that the stacks stand for.                      *)
(***************************************************************************)

(* Undo stacks lead from each structure on, redo stacks back to it.        *)
Joins(how, way, a, t, b) == IF way = "undo" THEN Spans(how, a, t, b) ELSE Spans(how, b, t, a)
Taken(way, s, t) == IF way = "undo" THEN Reversed(s, t) ELSE Replayed(s, t)
Onward(line, z, k) == IF k < Len(line) THEN line[k + 1] ELSE z

Filed(how, way, line, filed, z) ==
  /\ IsList(line) /\ IsList(filed) /\ Len(line) = Len(filed)
  /\ \A k \in 1 .. Len(filed) : Joins(how, way, line[k], filed[k], Onward(line, z, k))

(* The first structure behind, or the one shown.                           *)
EntryOf(past, z) == IF past = <<>> THEN z ELSE past[1]

(***************************************************************************)
(* What the stacks tell: the structure shown, those behind and ahead of    *)
(* it, and the line of an open sketch.                                     *)
(***************************************************************************)
Stack(undo, redo, group) == [undo |-> undo, redo |-> redo, open_group |-> group]
Lines(undo, redo) == [undo |-> undo, redo |-> redo]
LineAt(past, future) == [past |-> past, future |-> future]
Alone(x) == {x}

Both(how, past, future, undo, redo, z) == Filed(how, "undo", past, undo, z) /\ Filed(how, "redo", future, redo, z)

Shut(how, st, z, past, future) ==
  /\ st = Stack(st.undo, st.redo, {})
  /\ Both(how, past, future, st.undo, st.redo, z)
Ajar(how, st, z, past, future, lines, line) ==
  /\ st = Stack(st.undo, st.redo, Alone(lines))
  /\ line = LineAt(line.past, line.future)
  /\ Both(how, line.past, line.future, lines.undo, lines.redo, z)
  /\ Both(how, past, future, st.undo, st.redo, EntryOf(line.past, z))

Tells(how, core, z, past, future, own) ==
  /\ IsCore(how, core, z, core.stack)
  /\ \/ own = {} /\ Shut(how, core.stack, z, past, future)
     \/ \E lines, line : own = Alone(line) /\ Ajar(how, core.stack, z, past, future, lines, line)

Restacked(core, st) == [core EXCEPT !.stack = st]

(***************************************************************************)
(* The stacks as the refinement sees them.                                 *)
(***************************************************************************)
EnteredOf(s, st) ==
  IF Open(st) /\ Session(st).undo # <<>> THEN Unwound(s, Session(st).undo)[1] ELSE s
PastOf(how, s, st) == Views(how, Unwound(EnteredOf(s, st), st.undo))
FutureOf(how, s, st) == Views(how, Rewound(EnteredOf(s, st), st.redo))
LineSeen(how, s, lines) ==
  LineAt(Views(how, Unwound(s, lines.undo)), Views(how, Rewound(s, lines.redo)))
OwnOf(how, s, st) == {LineSeen(how, s, lines) : lines \in st.open_group}

(***************************************************************************)
(* What an author is shown, and how it moves.                              *)
(***************************************************************************)
Moment(z, past, future, own) == [doc |-> z, past |-> past, future |-> future, session |-> own]

(* What is shown of a core: its document, the lines behind and ahead of it, *)
(* and the line of an open sketch.                                          *)
Shown(how, core) ==
  Moment(See(how, core.scene), PastOf(how, core.scene, core.stack),
         FutureOf(how, core.scene, core.stack), OwnOf(how, core.scene, core.stack))

(* The core's stacks tell a history.                                        *)
Told(how, core) == \E z, past, future, own : Tells(how, core, z, past, future, own)

(* One step along a line: an edit, an undo or a redo.                       *)
Steps(z, past, future, y, p, f) ==
  \/ p = Append(past, z) /\ f = <<>>
  \/ past # <<>> /\ y = Last(past) /\ p = Front(past) /\ f = Append(future, z)
  \/ future # <<>> /\ y = Last(future) /\ p = Append(past, z) /\ f = Front(future)

(* One step of a history: a move on the outer line, one on the line of an   *)
(* open sketch, or a sketch opened, finished or cancelled.                  *)
MovesOuter(a, b) == \E z, past, future, y, p, f :
  /\ a = Moment(z, past, future, {}) /\ b = Moment(y, p, f, {})
  /\ Steps(z, past, future, y, p, f)
MovesInner(a, b) == \E z, past, future, line, y, p, f :
  /\ a = Moment(z, past, future, Alone(line)) /\ b = Moment(y, past, future, Alone(LineAt(p, f)))
  /\ Steps(z, line.past, line.future, y, p, f)
Opens(a, b) == \E z, past, future :
  /\ a = Moment(z, past, future, {})
  /\ b = Moment(z, past, future, Alone(LineAt(<<>>, <<>>)))
Finishes(a, b) == \E z, past, future, line :
  /\ a = Moment(z, past, future, Alone(line)) /\ IsList(line.past)
  /\ b = IF line.past = <<>> THEN Moment(z, past, future, {})
         ELSE Moment(z, Append(past, EntryOf(line.past, z)), <<>>, {})
Cancels(a, b) == \E z, past, future, line :
  /\ a = Moment(z, past, future, Alone(line)) /\ IsList(line.past)
  /\ b = Moment(EntryOf(line.past, z), past, future, {})
Advances(a, b) ==
  a = b \/ MovesOuter(a, b) \/ MovesInner(a, b) \/ Opens(a, b) \/ Finishes(a, b) \/ Cancels(a, b)

SessionOf(s, st) == {Line(s, lines) : lines \in st.open_group}

Seeing == <<Structure(scene), OuterSeen.past, OuterSeen.future, SessionSeen>>
Showing == <<scene, Outer.past, Outer.future, SessionOf(scene, stack)>>

(***************************************************************************)
(* When documents come back exactly.                                       *)
(***************************************************************************)

(* A document does not come back exactly where an offset write drops a      *)
(* rotation, or a density rounds an offset that keeps no measurement of     *)
(* whole blocks.  No palette offers the one or the other together with what *)
(* it loses.                                                                *)
PlacementsComeBack ==
  /\ Placements \subseteq Int /\ \A m \in Measures : m.voxels \in Int
  /\ \A p \in Palettes :
       /\ {"SetOffset", "PlaceNode"} \subseteq p.verbs => Tilts \subseteq {FALSE}
       /\ {"SetDensity", "PlaceNode"} \subseteq p.verbs => Placements \subseteq {0}
       /\ {"SetDensity", "SetOffset"} \subseteq p.verbs =>
            \A m \in Measures : m.blocks # 0 \/ m.voxels = 0
       /\ \A s \in InitialScenes : AllSure(p.verbs, s)

(***************************************************************************)
(* The inductive invariant, and the theorems.                              *)
(***************************************************************************)

(* The document, the selection and the stacks tell a line of documents,     *)
(* seen this way.                                                           *)
Kept(how) ==
  /\ palette \in Palettes
  /\ how.exact => PlacementsComeBack /\ how.verbs = palette.verbs
  /\ Told(how, Here)

HistoryInv == Kept(Structurally)
ExactHistoryInv == Kept(Exactly(palette.verbs))
=============================================================================
