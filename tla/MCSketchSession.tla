--------------------------- MODULE MCSketchSession ---------------------------
(* A small instance of SketchSession for TLC. *)
EXTENDS SketchSession

CONSTANTS Stone, Wood

Profile(mark, min) == [mark |-> mark, min |-> min]
Profiles == {Profile(1, 0), Profile(2, 0), Profile(1, 1)}

\* A loaded document: its Origin and one sketch at the top level.
OneSketch ==
    [arena |-> 3 :> Node(Sketch(Profile(1, 0), Stone), Upright), roots |-> <<3>>,
     definitions |-> <<>>, points |-> <<[id |-> 2, origin |-> TRUE]>>, next |-> 4,
     density |-> 1]
FromSketch == {OneSketch}

\* The document of a first launch: one node, and no sketch to enter.
OneTool ==
    [OneSketch EXCEPT !.arena = 3 :> Node(Tool(Stone), Upright)]

Unused == {}
Flat == {FALSE}
OneDensity == {1}
PaintOnly == {[verbs |-> {"SetMaterial"}, batch |-> 1, rows |-> {}]}

=============================================================================
