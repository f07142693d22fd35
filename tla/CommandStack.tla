---------------------------- MODULE CommandStack ----------------------------
(***************************************************************************)
(* The undo history: src/app_core/command_stack.rs and the history half of *)
(* src/app_core/intent.rs, over the document of SceneEdits.                *)
(*                                                                         *)
(* The stacks never hold a document.  They hold commands, each an intent   *)
(* and the inverse captured before it landed, and the documents of the     *)
(* past and of the future exist only as what reversing and replaying       *)
(* would make.  ImplementsLinearHistory maps them onto LinearHistory that  *)
(* way: behind the cursor by unwinding the undo stack from the scene,      *)
(* ahead of it by replaying the redo stack.                                *)
(***************************************************************************)
EXTENDS SceneEdits

CONSTANTS
    InitialScenes,   \* the documents a session can start from
    MaxCommands,     \* bound: commands the stacks hold, transactions flattened
    Palettes         \* what a session offers: records of verbs, the kinds of
                     \* intent; batch, a bound on the intents in one
                     \* transaction; rows, the ids of the rows it clicks on

\* A session starts from the seed document or from one an earlier session saved.
ASSUME InitialScenesAreDocuments ==
    \A s \in InitialScenes : IsScene(s) /\ WellFormed(s)
ASSUME BatchesAreBounded == \A p \in Palettes : p.batch \in Nat

VARIABLES
    scene,       \* the document
    selection,   \* picked nodes and points, at most one of each kind here
    stack,       \* [undo, redo : transactions; open_group : at most one
                 \*  [undo, redo], the sketch session's own stacks]
    palette      \* the one of Palettes this session has; never changes

vars == <<scene, selection, stack, palette>>

NoGroup == {}
EmptyGroup == [undo |-> <<>>, redo |-> <<>>]
Open(s) == s.open_group # NoGroup
Session(s) == CHOOSE group \in s.open_group : TRUE

\* The stacks an edit, an undo or a redo works on: the session's while a
\* sketch is open, the main ones otherwise.
Working(s) == IF Open(s) THEN Session(s) ELSE [undo |-> s.undo, redo |-> s.redo]

Reworked(s, lines) ==
    IF Open(s) THEN [s EXCEPT !.open_group = {lines}]
    ELSE [s EXCEPT !.undo = lines.undo, !.redo = lines.redo]

\* A fresh edit is pushed whole, and drops what could have been redone.
Pushed(s, transaction) ==
    Reworked(s, [undo |-> Append(Working(s).undo, transaction), redo |-> <<>>])

----------------------------------------------------------------------------
(* Selection: steered by a forward edit, pruned by every mutation.         *)

Live(s, sel) ==
    [nodes |-> sel.nodes \cap DOMAIN s.arena, points |-> sel.points \cap PointIds(s)]

\* The sibling in the removed slot, else the group, else nothing.
Survivor(s, target) ==
    LET parent == ParentOf(s, target)
        spine == Siblings(s, parent)
        left == RemoveAt(spine, Position(spine, target))
        slot == Position(spine, target)
    IN  IF target \notin Tree(s) THEN {}
        ELSE IF left # <<>> THEN {left[IF slot <= Len(left) THEN slot ELSE Len(left)]}
        ELSE parent

Steered(s, t, intent, sel) ==
    CASE intent.kind \in {"PlaceNode", "AddChild", "AddInstance"} ->
            IF Mints(s, intent) THEN [sel EXCEPT !.nodes = {s.next}] ELSE sel
      [] intent.kind \in {"GroupNode", "MakeDefinition"} ->
            [sel EXCEPT !.nodes = {intent.target}]
      [] intent.kind = "RemoveNode" -> [sel EXCEPT !.nodes = Survivor(s, intent.target)]
      [] intent.kind = "AddPoint" -> [sel EXCEPT !.points = {Last(t.points).id}]
      [] intent.kind = "RemovePoint" ->
            [sel EXCEPT !.points =
                IF t.points = <<>> THEN {}
                ELSE {t.points[IF intent.index <= Len(t.points)
                               THEN intent.index ELSE Len(t.points)].id}]
      [] OTHER -> sel

----------------------------------------------------------------------------
(* The core as one value, so that a frame can thread several calls.        *)

Core(s, sel, st) == [scene |-> s, selection |-> sel, stack |-> st]

\* record: capture, dispatch, steer, prune; the command is returned beside.
Recorded(core, intent) ==
    LET after == Dispatch(core.scene, intent)
    IN  [core EXCEPT
            !.scene = after,
            !.selection = Live(after, Steered(core.scene, after, intent, @))]

\* The transaction of the intents that were not refused, and where it leads.
RecordAll(core, intents) ==
    LET n == Len(intents)
        record(run, k) ==
            IF ExceedsCoordinateLimit(run.core.scene, intents[k]) THEN run
            ELSE [core |-> Recorded(run.core, intents[k]),
                  commands |-> Append(run.commands, Command(run.core.scene, intents[k]))]
    IN  Walk([core |-> core, commands |-> <<>>], n, record)[n]

ApplyTransaction(core, intents) ==
    LET run == RecordAll(core, intents)
    IN  IF run.commands = <<>> THEN core
        ELSE [run.core EXCEPT !.stack = Pushed(@, run.commands)]

\* Slip: the selection is left as it stood.
ReverseOneUnpruned(core, command) ==
    [core EXCEPT !.scene = ReverseCommand(core.scene, command)]

ReverseOne(core, command) ==
    LET before == ReverseCommand(core.scene, command)
    IN  [core EXCEPT !.scene = before, !.selection = Live(before, @)]

ReplayOne(core, command) ==
    LET after == ReplayCommand(core.scene, command)
    IN  [core EXCEPT
            !.scene = after,
            !.selection = Live(after, Steered(core.scene, after, command.intent, @))]

ReverseAll(core, commands) ==
    LET n == Len(commands)
        back(c, k) == ReverseOne(c, commands[n + 1 - k])
    IN  Walk(core, n, back)[n]

ReplayAll(core, commands) ==
    LET n == Len(commands)
        forth(c, k) == ReplayOne(c, commands[k])
    IN  Walk(core, n, forth)[n]

UndoOn(core) ==
    LET lines == Working(core.stack)
        top == Last(lines.undo)
    IN  IF lines.undo = <<>> THEN core
        ELSE [ReverseAll(core, top) EXCEPT
                 !.stack = Reworked(@, [undo |-> Front(lines.undo),
                                        redo |-> Append(lines.redo, top)])]

RedoOn(core) ==
    LET lines == Working(core.stack)
        top == Last(lines.redo)
    IN  IF lines.redo = <<>> THEN core
        ELSE [ReplayAll(core, top) EXCEPT
                 !.stack = Reworked(@, [undo |-> Append(lines.undo, top),
                                        redo |-> Front(lines.redo)])]

BeginOn(core) ==
    IF Open(core.stack) THEN core
    ELSE [core EXCEPT !.stack.open_group = {EmptyGroup}]

FinishOn(core) ==
    LET commands == FlattenSeq(Session(core.stack).undo)
        closed == [core EXCEPT !.stack.open_group = NoGroup]
    IN  IF ~Open(core.stack) THEN core
        ELSE IF Session(core.stack).undo = <<>> THEN closed
        ELSE [closed EXCEPT !.stack = Pushed(@, commands)]

CancelOn(core) ==
    IF ~Open(core.stack) THEN core
    ELSE [ReverseAll(core, FlattenSeq(Session(core.stack).undo))
              EXCEPT !.stack.open_group = NoGroup]

----------------------------------------------------------------------------
Here == Core(scene, selection, stack)

Become(core) ==
    \E after \in {core} :
        /\ scene' = after.scene
        /\ selection' = after.selection
        /\ stack' = after.stack
        /\ UNCHANGED palette

CommandsIn(transactions) ==
    FoldLeft(LAMBDA n, transaction : n + Len(transaction), 0, transactions)
CommandsHeld(s) ==
    CommandsIn(s.undo) + CommandsIn(s.redo)
    + (IF Open(s) THEN CommandsIn(Session(s).undo) + CommandsIn(Session(s).redo) ELSE 0)

Nothing == [nodes |-> {}, points |-> {}]

Init ==
    /\ scene \in InitialScenes
    /\ selection = Nothing
    /\ stack = [undo |-> <<>>, redo |-> <<>>, open_group |-> NoGroup]
    /\ palette \in Palettes

\* apply_intent is the batch of one.
ApplyIntent(intent) ==
    /\ CommandsHeld(stack) < MaxCommands
    /\ Become(ApplyTransaction(Here, <<intent>>))

\* A multi-target verb or a sketch commit: several intents, one step.
ApplyBatch(intents) ==
    /\ CommandsHeld(stack) + Len(intents) <= MaxCommands
    /\ Become(ApplyTransaction(Here, intents))

Undo == Working(stack).undo # <<>> /\ Become(UndoOn(Here))
Redo == Working(stack).redo # <<>> /\ Become(RedoOn(Here))
BeginSketchGroup == ~Open(stack) /\ Become(BeginOn(Here))
FinishSketchGroup == Open(stack) /\ Become(FinishOn(Here))
CancelSketchGroup == Open(stack) /\ Become(CancelOn(Here))

\* A click on a row: the one writer of the selection that is not an edit.
Pick(id) ==
    /\ selection' = [nodes |-> {id}, points |-> {}]
    /\ UNCHANGED <<scene, stack, palette>>

Offered == Intents(scene, palette.verbs)
Batches == UNION {[1..n -> Offered] : n \in 2..palette.batch}

Next ==
    \/ \E intent \in Offered : ApplyIntent(intent)
    \/ \E intents \in Batches : ApplyBatch(intents)
    \/ Undo
    \/ Redo
    \/ BeginSketchGroup
    \/ FinishSketchGroup
    \/ CancelSketchGroup
    \/ \E id \in palette.rows \cap Tree(scene) : Pick(id)

Spec == Init /\ [][Next]_vars

----------------------------------------------------------------------------
(* The documents the stacks stand for.                                     *)

\* The scene before each transaction of an undo stack, oldest first, found
\* by reversing from the scene at its top.
Unwound(top, transactions) ==
    LET n == Len(transactions)
        back(s, k) == Reversed(s, transactions[n + 1 - k])
        at == Walk(top, n, back)
    IN  [k \in 1..n |-> at[n + 1 - k]]

\* The scene after each transaction of a redo stack, found by replaying.
Rewound(top, transactions) ==
    LET n == Len(transactions)
        forth(s, k) == Replayed(s, transactions[n + 1 - k])
        at == Walk(top, n, forth)
    IN  [k \in 1..n |-> at[n + 1 - k]]

Line(top, lines) ==
    [past |-> Unwound(top, lines.undo), future |-> Rewound(top, lines.redo)]

\* The scene an open sketch was entered with.
EnteredWith ==
    IF Open(stack) /\ Session(stack).undo # <<>>
    THEN Unwound(scene, Session(stack).undo)[1] ELSE scene

Outer == Line(EnteredWith, [undo |-> stack.undo, redo |-> stack.redo])

Promise == INSTANCE LinearHistory WITH
    doc <- scene, past <- Outer.past, future <- Outer.future,
    session <- {Line(scene, lines) : lines \in stack.open_group}

\* The same line seen without the placements.
Outline(documents) == [k \in DOMAIN documents |-> Structure(documents[k])]
OutlineOf(line) == [past |-> Outline(line.past), future |-> Outline(line.future)]
OuterSeen == OutlineOf(Outer)
SessionSeen == {OutlineOf(Line(scene, lines)) : lines \in stack.open_group}
PromiseOfStructure == INSTANCE LinearHistory WITH
    doc <- Structure(scene), past <- OuterSeen.past, future <- OuterSeen.future,
    session <- SessionSeen

----------------------------------------------------------------------------
Transactions(s) == Range(s.undo) \cup Range(s.redo)
    \cup (IF Open(s) THEN Range(Session(s).undo) \cup Range(Session(s).redo) ELSE {})

\* Every transaction filed holds at least one command, every command keeps a
\* counter the document has already reached or can be rewound to, and a
\* selection names at most one node and one point.
TypeOK ==
    /\ DOMAIN scene = {"arena", "roots", "definitions", "points", "next", "density"}
    /\ \A transaction \in Transactions(stack) :
           /\ transaction # <<>>
           /\ \A k \in DOMAIN transaction : transaction[k].counter_before >= FirstId
    /\ Cardinality(selection.nodes) <= 1 /\ Cardinality(selection.points) <= 1
    /\ Cardinality(stack.open_group) <= 1

\* No sequence of edits, undos, redos and sketch sessions leaves an orphan in
\* the arena, a spine naming a node twice, an instance of a definition that is
\* gone, or a counter behind an id in use (command.rs, the counter rule).
SceneIsWellFormed == WellFormed(scene)

\* Undo carries no selection: the prune after every mutation is what keeps a
\* pick from naming a node or point that is gone - and, the counter having
\* been rewound, from coming to name a different one minted later.
SelectionIsLive == selection = Live(scene, selection)

\* The stacks of inverse commands are the line of documents an author sees:
\* undo restores the scene exactly, redo re-mints the very same ids, a fresh
\* edit drops the redo line, Finish is one step and Cancel is none
\* (command.rs, the byte-equal invariant; intent.rs, undo to
\* cancel_sketch_group).
ImplementsLinearHistory == Promise!Spec

\* What is left of that promise where a placement cannot be taken back exactly,
\* a rotation that an offset dropped or an offset that a density rounded: every
\* undo, redo, Finish and Cancel still lands on the tree, the definitions, the
\* points and the counter the author saw, with the node ids they had.
ImplementsHistoryOfStructure == PromiseOfStructure!Spec

=============================================================================
