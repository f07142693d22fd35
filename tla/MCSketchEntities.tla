-------------------------- MODULE MCSketchEntities --------------------------
(* Small sessions of SketchEntities for TLC. *)
EXTENDS SketchEntities

\* Drawings an author may come back to: a corner of two lines, a dimensioned
\* circle, a fit-point spline with its levers, a control-point spline.
Corner ==
    LET three == AddFreePoint(AddFreePoint(AddFreePoint(Empty)))
    IN  Connected(Connected(three, 1, 2), 2, 3)
Disc == AddClaim(CircleAdded(Empty, "real"), [kind |-> "radius", points |-> {}, curves |-> {2}])
Curve == FitSplineAdded(Empty, 2)
Frame == ControlSplineAdded(Empty, 3)

Session(drawing, drawn, claimed, patterned, modified, last) ==
    [drawing |-> drawing, drawn |-> drawn, claimed |-> claimed, patterned |-> patterned,
     modified |-> modified, last |-> last]

Outline == Session(Empty, {"point", "segment", "arc"}, {"fix", "midpoint", "onCurve"}, {},
                   {"split", "trim"}, 6)
Higher  == Session(Empty, {"bezier", "ellipse", "conic", "fitSpline"}, {"fix"}, {"circular"},
                   {"break", "trim"}, 7)
Corners == Session(Corner, {}, {}, {"rectangular"}, {"fillet", "chamfer", "toggle"}, 10)
Pieces  == Session(Corner, {}, {"gap"}, {}, {"break", "trim"}, 8)
Round   == Session(Disc, {"circle"}, {"tangent", "radius"}, {}, {"break", "trim", "offset", "repair"}, 8)
Levers  == Session(Curve, {"segment"}, {"fix", "onCurve"}, {}, {"repair"}, 9)
Frames  == Session(Frame, {"controlSpline", "segment"}, {"horizontal", "midpoint", "span"}, {"mirror"}, {"fillet"}, 8)

AllSessions == <<Outline, Higher, Corners, Pieces, Round, Levers, Frames>>
LeverSession == <<Levers>>
RoundSession == <<Round>>

=============================================================================
