--------------------------- MODULE MCCommandStack ---------------------------
(* Small instances of CommandStack for TLC. *)
EXTENDS CommandStack

CONSTANTS Stone, Wood, Square

Origin == [id |-> 2, origin |-> TRUE]

\* A loaded document: its Origin, and one tool at the top level.
OneTool ==
    [arena |-> 3 :> Node(Tool(Stone), Upright), roots |-> <<3>>,
     definitions |-> <<>>, points |-> <<Origin>>, next |-> 4, density |-> 1]

\* The same with a group of one.
OneGroup ==
    [arena |-> (3 :> Node(Tool(Stone), Upright)) @@ (4 :> Node(Group(<<3>>), Upright)),
     roots |-> <<4>>, definitions |-> <<>>, points |-> <<Origin>>, next |-> 5,
     density |-> 1]

\* The same at an offset that no other density can express, and rotated.
TiltedTool ==
    [OneTool EXCEPT !.arena = 3 :> Node(Tool(Stone), FromVoxels(3, TRUE)), !.density = 2]

FromTool == {OneTool}
FromTilted == {TiltedTool}
FromEither == {OneTool, OneGroup}

Palette(verbs, batch, rows) == [verbs |-> verbs, batch |-> batch, rows |-> rows]
Trees == Palette({"PlaceNode", "AddChild", "GroupNode", "MakeDefinition", "RemoveNode",
                  "AddInstance"}, 1, {})
Fields == Palette({"SetMaterial", "SetOffset", "SetDensity", "AddPoint", "RemovePoint"}, 2, {3})
EditPalettes == {Trees, Fields}
TiltPalettes == {Palette({"PlaceNode", "SetOffset"}, 1, {})}
\* Edits whose placements undo may not bring back, among edits of the tree.
MixedPalettes ==
    {Palette({"SetOffset", "SetDensity", "GroupNode", "RemoveNode"}, 1, {})}

Block(b) == [blocks |-> b, voxels |-> 0]
Voxel(v) == [blocks |-> 0, voxels |-> v]
WholeBlocks == {Block(1), Block(3)}
NoMeasures == {}
Flat == {FALSE}
MayTilt == {TRUE}
NoDrops == {0}
BlockDrops == {2}
OneDensity == {1}
TwoDensities == {1, 2}

=============================================================================
