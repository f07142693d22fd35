---------------------------- MODULE SketchSession ----------------------------
(***************************************************************************)
(* The shell's frame over the undo history while a sketch is edited:       *)
(* src/windowed/render.rs (the frame, the vertex drag, the profile edits)  *)
(* and src/windowed/events.rs (press and release).                         *)
(*                                                                         *)
(* A vertex drag writes the node it holds without recording anything, and  *)
(* a commit is queued by one event for the next frame to record.  So the   *)
(* document is, between frames, ahead of the history in two ways, and the  *)
(* frame is where an exit from the sketch, an undo, the hand and the       *)
(* queued commit meet, in the one order the code gives them.               *)
(*                                                                         *)
(* The program saves on the way out what it starts from the next time: the *)
(* document as it stands and the open sketch, not the history.             *)
(*                                                                         *)
(* A producer is a record: mark stands for everything its profile holds,   *)
(* min for the bounding-box minimum that the resolve pins to the node's    *)
(* origin.                                                                 *)
(***************************************************************************)
EXTENDS CommandStack

CONSTANTS
    Races,      \* which of these a run lets happen: a press ("press") or a
                \* second profile edit ("edit") before the frame that records
                \* a waiting commit; undo or redo while a vertex is held
                \* ("undo"); undo, redo or Cancel in the frame that records a
                \* waiting commit ("rewind"); a profile edit while a vertex is
                \* held ("held")
    MaxQueued,  \* bound: commits waiting for a frame
    SeedScene   \* the document of a launch that finds nothing to restore

ASSUME ProducersHaveAnAnchor ==
    \A p \in Producers : DOMAIN p = {"mark", "min"} /\ p.min \in Nat
ASSUME RacesAreRaces ==
    Races \subseteq {"press", "edit", "undo", "rewind", "held"} /\ MaxQueued \in Nat

VARIABLES
    sketch_mode,             \* the node whose sketch is open: at most one
    sketch_drag,             \* the hand on a vertex: at most one
                             \* [target, original, original_offset]
    viewport_transactions,   \* commits queued for the next frame
    config,                  \* what config.json holds, and this process
                             \* started from: [scene, selection, mode], and
                             \* spent, the commands earlier processes took of
                             \* the bound
    entered                  \* not in the code: the document the open sketch
                             \* was entered with or came back with, at most one

sketchVars == <<scene, selection, stack, palette, sketch_mode, sketch_drag,
                viewport_transactions, config, entered>>

IsSketch(s, id) == id \in DOMAIN s.arena /\ s.arena[id].content.kind = "sketch"
Sketches(s) == {id \in DOMAIN s.arena : IsSketch(s, id)}
ProducerOf(s, id) == s.arena[id].content.producer
OffsetOf(s, id) == s.arena[id].at.voxels

\* The node's own fields, written with no command: the preview and its undoing.
SetSketchNode(s, id, producer, offset) ==
    LET moved == [s EXCEPT !.arena[id].at.voxels = offset]
    IN  IF id \notin DOMAIN s.arena THEN s
        ELSE IF IsSketch(s, id) THEN [moved EXCEPT !.arena[id].content.producer = producer]
        ELSE moved

\* The offset at which every vertex the edit left alone stays where it was.
AnchorPreserving(producer, previous, offset) == offset + producer.min - previous.min

\* Slip: the profile goes back and the offset that followed it does not.
PutBackProfileOnly(s, drag) ==
    IF drag = {} THEN s
    ELSE LET hand == CHOOSE hand \in drag : TRUE
         IN  SetSketchNode(s, hand.target, hand.original, OffsetOf(s, hand.target))

\* The document with the hand's preview taken out of it.
PutBack(s, drag) ==
    IF drag = {} THEN s
    ELSE LET hand == CHOOSE hand \in drag : TRUE
         IN  SetSketchNode(s, hand.target, hand.original, hand.original_offset)

\* One authoring act: the profile, and the offset when its anchor moved.
EditTransaction(target, producer, oldOffset, newOffset) ==
    <<[kind |-> "SetSketch", target |-> target, producer |-> producer]>>
    \o (IF newOffset = oldOffset THEN <<>>
        ELSE <<[kind |-> "SetOffset", target |-> target,
                measure |-> [blocks |-> 0, voxels |-> newOffset]]>>)

----------------------------------------------------------------------------
(* Events between frames.                                                  *)

SketchInit ==
    /\ Init
    /\ sketch_mode = {} /\ sketch_drag = {} /\ viewport_transactions = <<>>
    /\ config = [scene |-> scene, selection |-> selection, mode |-> {}, spent |-> 0]
    /\ entered = {}

Waiting == viewport_transactions # <<>>

RoomToQueue ==
    /\ Len(viewport_transactions) < MaxQueued
    /\ config.spent + CommandsHeld(stack) + 2 * (Len(viewport_transactions) + 1)
           <= MaxCommands

\* A press under Select.  A hand still down is one whose release was lost: it
\* is put back before the new one takes hold, of a vertex or of nothing.
Press(holds) ==
    /\ sketch_mode # {}
    /\ Waiting => "press" \in Races
    /\ scene' = PutBack(scene, sketch_drag)
    /\ sketch_drag' =
           {[target |-> id, original |-> ProducerOf(scene', id),
             original_offset |-> OffsetOf(scene', id)] :
                id \in IF holds THEN sketch_mode \cap Sketches(scene') ELSE {}}
    /\ UNCHANGED <<selection, stack, palette, sketch_mode, viewport_transactions,
                   config, entered>>

\* Slip: the preview stays on the node when its commit is queued.
ReleaseLeavesPreview ==
    /\ RoomToQueue
    /\ \E hand \in sketch_drag :
           LET final == ProducerOf(scene, hand.target)
               offset == OffsetOf(scene, hand.target)
           IN  viewport_transactions' = Append(viewport_transactions,
                    EditTransaction(hand.target, final, hand.original_offset, offset))
    /\ sketch_drag' = {}
    /\ UNCHANGED <<scene, selection, stack, palette, sketch_mode, config, entered>>

\* commit_sketch_vertex_drag: read what the preview shows, put the node back,
\* and queue what was read - nothing, if the gesture ended where it began.
Release ==
    /\ RoomToQueue
    /\ \E hand \in sketch_drag :
           LET final == ProducerOf(scene, hand.target)
               offset == OffsetOf(scene, hand.target)
           IN  viewport_transactions' =
                   IF final = hand.original /\ offset = hand.original_offset
                   THEN viewport_transactions
                   ELSE Append(viewport_transactions,
                            EditTransaction(hand.target, final, hand.original_offset, offset))
    /\ scene' = PutBack(scene, sketch_drag)
    /\ sketch_drag' = {}
    /\ UNCHANGED <<selection, stack, palette, sketch_mode, config, entered>>

\* A click that adds to, deletes from or constrains the open profile, Delete or
\* the construction key, a row of the menu, a dimension restated: computed from
\* the document as it now is, the preview of a held vertex included, and queued
\* for the frame that follows or is under way.
ProfileEdit(producer) ==
    /\ RoomToQueue
    /\ sketch_drag # {} => "held" \in Races
    /\ Waiting => "edit" \in Races
    /\ \E id \in sketch_mode \cap Sketches(scene) :
           LET previous == ProducerOf(scene, id)
               offset == OffsetOf(scene, id)
           IN  /\ producer # previous
               /\ viewport_transactions' = Append(viewport_transactions,
                      EditTransaction(id, producer, offset,
                          AnchorPreserving(producer, previous, offset)))
    /\ UNCHANGED <<scene, selection, stack, palette, sketch_mode, sketch_drag,
                   config, entered>>

----------------------------------------------------------------------------
(* The program ends and is started again.                                  *)

\* AppConfig::capture: the document as it stands, a hand's preview included.
\* Neither the history nor the commits still waiting are in it.
Captured ==
    [scene |-> scene, selection |-> selection, mode |-> sketch_mode,
     spent |-> config.spent + CommandsHeld(stack)]

\* A config that is missing or does not parse: the seed document, its node picked.
Defaults ==
    [scene |-> SeedScene, selection |-> [Nothing EXCEPT !.nodes = Range(SeedScene.roots)],
     mode |-> {}, spent |-> 0]

\* An empty document is not restored: the seed takes its place.
Restorable(found) == IF found.roots = <<>> THEN SeedScene ELSE found

\* to_panel_state: a mode that names no live sketch is dropped, and one that
\* does comes back without the undo group that was open around it.
Start(found) ==
    /\ scene' = Restorable(found.scene)
    /\ selection' = found.selection
    /\ stack' = [undo |-> <<>>, redo |-> <<>>, open_group |-> NoGroup]
    /\ sketch_mode' = found.mode \cap Sketches(scene')
    /\ sketch_drag' = {}
    /\ viewport_transactions' = <<>>
    /\ config' = [found EXCEPT !.scene = scene']
    /\ entered' = {scene' : id \in sketch_mode'}
    /\ UNCHANGED palette

\* The window is closed and the next launch finds what was saved.
Relaunch == Start(Captured)

\* The process is killed, or its save is refused: the file is as it was.
RelaunchUnsaved == Start(config)

\* The save, which writes the file in place, stops half way.
RelaunchTorn == Start(Defaults)

----------------------------------------------------------------------------
(* The frame, as steps on one value.                                       *)

Shell ==
    [core |-> Here, mode |-> sketch_mode, drag |-> sketch_drag,
     queue |-> viewport_transactions, entered |-> entered]

NoClick == [kind |-> "none"]
Enter(id) == [kind |-> "Enter", target |-> id]
Exit(how) == [kind |-> how]
Panel(intent) == [kind |-> "Intent", intent |-> intent]

Clicks ==
    {NoClick}
    \cup {Enter(id) : id \in Sketches(scene)}
    \cup (IF sketch_mode = {} THEN {} ELSE {Exit("Finish"), Exit("Cancel")})
    \cup (IF config.spent + CommandsHeld(stack) + 2 * Len(viewport_transactions)
                 < MaxCommands
          THEN {Panel(intent) : intent \in Offered} ELSE {})

Shortcuts == {"none", "Undo", "Redo", "Escape"}

EnterOn(shell, id) ==
    [shell EXCEPT !.mode = {id}, !.core = BeginOn(@),
                  !.entered = IF Open(shell.core.stack) THEN @
                              ELSE {PutBack(shell.core.scene, shell.drag)}]

HandsOff(shell) ==
    [shell EXCEPT !.core.scene = PutBack(@, shell.drag), !.drag = {}]

Close(shell, how) ==
    [shell EXCEPT !.mode = {}, !.entered = {},
                  !.core = IF how = "Finish" THEN FinishOn(@) ELSE CancelOn(@)]

\* Slip: the mode goes and the hand does not.
ExitKeepsHand(shell, how) == Close(shell, how)

\* Slip: the hand lets go of a preview that stays.
ExitSealsPreview(shell, how) == Close([shell EXCEPT !.drag = {}], how)

\* The hand lets go before the group closes: a preview has no command.
ExitOn(shell, how) == Close(HandsOff(shell), how)

Clicked(shell, click) ==
    CASE click.kind = "Enter" -> EnterOn(shell, click.target)
      [] click.kind \in {"Finish", "Cancel"} -> ExitOn(shell, click.kind)
      [] OTHER -> shell

\* The keyboard, read after the panel.  Undo and redo drop half-drawn strokes,
\* which are not the document, and leave a held vertex held.
Commanded(shell, shortcut) ==
    CASE shortcut = "Undo" -> [shell EXCEPT !.core = UndoOn(@)]
      [] shortcut = "Redo" -> [shell EXCEPT !.core = RedoOn(@)]
      [] shortcut = "Escape" -> IF shell.mode = {} THEN shell ELSE HandsOff(shell)
      [] OTHER -> shell

\* preview_sketch_vertex_drag: always from the profile the hand took hold of.
Previewed(shell, moved) ==
    IF \E hand \in shell.drag : shell.mode = {hand.target}
    THEN LET hand == CHOOSE hand \in shell.drag : TRUE
             offset == AnchorPreserving(moved, hand.original, hand.original_offset)
         IN  [shell EXCEPT !.core.scene = SetSketchNode(@, hand.target, moved, offset)]
    ELSE shell

\* The panel's intent, then the commits that were waiting, oldest first.
Drained(shell, click) ==
    LET batches == (IF click.kind = "Intent" THEN <<<<click.intent>>>> ELSE <<>>) \o shell.queue
        n == Len(batches)
        land(core, k) == ApplyTransaction(core, batches[k])
    IN  [shell EXCEPT !.core = Walk(@, n, land)[n], !.queue = <<>>]

Assign(shell) ==
    /\ Become(shell.core)
    /\ sketch_mode' = shell.mode
    /\ sketch_drag' = shell.drag
    /\ viewport_transactions' = shell.queue
    /\ entered' = shell.entered
    /\ UNCHANGED config

\* Where this frame's hand is drawn: a vertex still held may have moved.
Moves == IF sketch_drag = {} THEN {{}} ELSE {{}} \cup {{p} : p \in Producers}

Frame(click, shortcut, moves) ==
    \E clicked \in {Clicked(Shell, click)} :
        \E commanded \in {Commanded(clicked, shortcut)} :
            \E drawn \in {IF moves = {} THEN commanded
                          ELSE Previewed(commanded, CHOOSE p \in moves : TRUE)} :
                \E landed \in {Drained(drawn, click)} : Assign(landed)

\* History moving under a gesture computed from the document before it moved.
Admitted(click, shortcut) ==
    /\ shortcut \in {"Undo", "Redo"} /\ sketch_drag # {} => "undo" \in Races
    /\ (shortcut \in {"Undo", "Redo"} \/ click.kind = "Cancel") /\ Waiting
           => "rewind" \in Races

SketchNext ==
    \/ \E holds \in BOOLEAN : Press(holds)
    \/ Release
    \/ \E producer \in Producers : ProfileEdit(producer)
    \/ \E click \in Clicks, shortcut \in Shortcuts, moves \in Moves :
           /\ Admitted(click, shortcut)
           /\ Frame(click, shortcut, moves)
    \/ Relaunch
    \/ RelaunchUnsaved
    \/ RelaunchTorn

SketchSpec == SketchInit /\ [][SketchNext]_sketchVars

----------------------------------------------------------------------------
\* An undo group is open only while the mode is on, a mode without one is the
\* mode this process was started with, and a hand holds a vertex of the sketch
\* whose mode it is: the shell's fields, the history's and the saved ones are
\* set in different places and must agree.
SessionTypeOK ==
    /\ Open(stack) => sketch_mode # {}
    /\ ~Open(stack) => sketch_mode \in {{}, config.mode}
    /\ Cardinality(sketch_mode) <= 1 /\ Cardinality(sketch_drag) <= 1
    /\ \A hand \in sketch_drag : sketch_mode = {hand.target}
    /\ sketch_mode \subseteq Sketches(scene)
    /\ Cardinality(entered) = Cardinality(sketch_mode)
    /\ Len(viewport_transactions) <= MaxQueued

SessionUndo == IF Open(stack) THEN Session(stack).undo ELSE <<>>
Undoable == FlattenSeq(stack.undo \o SessionUndo)

\* The document never holds a change no command describes (cancel_the_vertex_drag):
\* take the hand's preview out, and the commands on the undo stacks replay from
\* the document the process started with to what is left, and reverse what is
\* left to that start.
HistoryExplainsTheDocument ==
    \E recorded \in {PutBack(scene, sketch_drag)} :
        /\ Replayed(config.scene, Undoable) = recorded
        /\ Reversed(recorded, Undoable) = config.scene

\* Whatever an edit, a drag, its preview, an undo, a cancel or a relaunch in the
\* middle of any of them does to the profile's bounding box, the node's offset
\* makes up for it, so the vertices nobody touched stay where they are in the
\* world (anchor_preserving_offset).
ProfileStaysPut ==
    \E start \in InitialScenes : \A id \in Sketches(scene) :
        OffsetOf(scene, id) - ProducerOf(scene, id).min
            = OffsetOf(start, id) - ProducerOf(start, id).min

\* A frame whose only business is the click, with no commit waiting.
Alone(click) == ~Waiting /\ sketch_mode # {} /\ Frame(click, "none", {})

\* Cancel of a sketch entered in this process puts the document back to the one
\* it was entered with, whatever happened since, and files nothing; Finish
\* changes nothing an author can see and files at most one step.  A commit still
\* waiting is recorded after the group has closed, so the frame is asked about
\* only when none is.
ClosingIsOneStep ==
    [][/\ Alone(Exit("Cancel")) /\ Open(stack) =>
              /\ stack'.undo = stack.undo /\ stack'.redo = stack.redo
              /\ scene' \in entered
       /\ Alone(Exit("Finish")) =>
              /\ scene' = PutBack(scene, sketch_drag)
              /\ stack'.undo \in {stack.undo, Append(stack.undo, FlattenSeq(SessionUndo))}
      ]_sketchVars

\* "Cancel rolls it back to the enter-state" (render.rs, the exit from a sketch):
\* of a sketch that a launch brought back open, to the document it came back with.
CancelRollsBack == [][Alone(Exit("Cancel")) => scene' \in entered]_sketchVars

=============================================================================
