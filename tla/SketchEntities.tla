--------------------------- MODULE SketchEntities ---------------------------
(***************************************************************************)
(* A sketch under its author's hand: every door of SketchSolid that changes *)
(* what the store names (crates/document/src/sketch/solid.rs, modify.rs,   *)
(* pattern.rs), as steps over one store.  Each door edits a copy and keeps *)
(* it only when every part of the edit was accepted, so a refusal is no    *)
(* step at all.  Whether two curves cross, where a cut falls and whether   *)
(* the solver accepts a claim are choices.                                 *)
(***************************************************************************)
EXTENDS SketchStore

CONSTANT Sessions   \* what a run lets an author do, a sequence of records:
    \* drawing     the store it starts from
    \* drawn       what it draws
    \* claimed     the kinds of claim it asserts
    \* patterned   the kinds of pattern it makes
    \* modified    the modify tools it uses
    \* last        bound: the last id the store hands out

DrawnKinds == {"point", "segment", "arc", "circle", "bezier", "ellipse", "conic",
               "fitSpline", "controlSpline"}
ClaimKinds == {"fix", "span", "gap", "radius", "horizontal", "midpoint", "onCurve", "tangent"}
PatternKinds == {"mirror", "circular", "rectangular"}
ModifyTools == {"split", "break", "trim", "fillet", "chamfer", "offset", "toggle", "repair"}

ASSUME SessionsAreSessions == \A i \in 1 .. Len(Sessions) : LET s == Sessions[i] IN
    /\ s.drawn \subseteq DrawnKinds /\ s.claimed \subseteq ClaimKinds
    /\ s.patterned \subseteq PatternKinds /\ s.modified \subseteq ModifyTools
    /\ s.last \in Nat /\ IsStore(s.drawing)

VARIABLES
    sketch,
    session     \* which of Sessions this is; never changes

vars == <<sketch, session>>

Allowed == Sessions[session]

Curves == DOMAIN sketch.curves
Points == DOMAIN sketch.points
Kind(c) == sketch.curves[c].kind
Ends(c) == LET drawn == sketch.curves[c].points
           IN  CASE Kind(c) \in {"segment", "arc", "conic"} -> {drawn[1], drawn[2]}
                 [] Kind(c) = "bezier" -> {drawn[1], drawn[4]}
                 [] Kind(c) \in {"fitSpline", "controlSpline"} -> {drawn[1], drawn[Len(drawn)]}
                 [] OTHER -> {}

Becomes(t) == t.next <= Allowed.last + 1 /\ sketch' = t /\ UNCHANGED session

Init == session \in 1 .. Len(Sessions) /\ sketch = Allowed.drawing

---------------------------------------------------------------------------
(* Drawing                                                                 *)

PlacePoint == "point" \in Allowed.drawn /\ Becomes(AddFreePoint(sketch))

\* plant_target: a point planted on a curve is held to it, when the solver
\* models a place along that curve and accepts.
PlantPoint == \E c \in OfKind(sketch, {"segment", "arc", "circle"}) :
    /\ "onCurve" \in Allowed.claimed
    /\ Becomes(AddClaim(AddFreePoint(sketch),
                        [kind |-> "onCurve", points |-> {sketch.next}, curves |-> {c}]))

Connect == \E from, to \in Points :
    /\ "segment" \in Allowed.drawn
    /\ from # to /\ ~SegmentJoins(sketch, from, to)
    /\ Becomes(Connected(sketch, from, to))

ConnectArc == \E from, to \in Points :
    /\ "arc" \in Allowed.drawn
    /\ from # to
    /\ Becomes(ArcConnected(sketch, from, to, "real"))

DrawCircle ==
    /\ "circle" \in Allowed.drawn
    /\ \/ Becomes(CircleAdded(sketch, "real"))
       \/ \E center \in Points : Becomes(CircleAbout(sketch, center, "real"))

DrawHigherCurve ==
    \/ "bezier" \in Allowed.drawn /\ Becomes(CubicBezierAdded(sketch))
    \/ "ellipse" \in Allowed.drawn /\ Becomes(EllipseAdded(sketch))
    \/ "conic" \in Allowed.drawn /\ Becomes(ConicAdded(sketch))
    \/ "fitSpline" \in Allowed.drawn /\ Becomes(FitSplineAdded(sketch, 2))
    \/ "controlSpline" \in Allowed.drawn /\ Becomes(ControlSplineAdded(sketch, 3))

---------------------------------------------------------------------------
(* Deleting                                                                *)

DeletePoint == \E p \in Points : Becomes(DeletePointCascade(sketch, p))
DeleteACurve == \E c \in Curves : Becomes(DeleteCurve(sketch, c))
DeleteConstraint == \E k \in DOMAIN sketch.claims :
    Becomes([sketch EXCEPT !.claims = Only(@, DOMAIN @ \ {k})])
DeletePattern == \E k \in DOMAIN sketch.patterns :
    Becomes([sketch EXCEPT !.patterns = Only(@, DOMAIN @ \ {k})])

---------------------------------------------------------------------------
(* Asserting                                                               *)

Claim(kind, points, curves) == [kind |-> kind, points |-> points, curves |-> curves]

\* check_names_live_geometry: what each kind of claim may be about.
Turning == OfKind(sketch, {"arc", "circle"})
Supports == OfKind(sketch, {"segment", "arc", "circle"})

Fixings == {Claim("fix", {p}, {}) : p \in Points}
Orientations == {Claim("horizontal", {}, {c}) : c \in Segments(sketch)}
Dimensions ==
    {Claim("span", pair, {}) : pair \in {q \in SUBSET Points : Cardinality(q) = 2}}
    \cup {Claim("radius", {}, {c}) : c \in Turning}
    \cup {Claim("gap", {p}, {c}) : p \in Points, c \in Segments(sketch)}

\* A point is held to a curve only when the curve is not drawn from it.
Shapes(p, c) ==
    \/ c \in Segments(sketch) /\ p \in Ends(c)
    \/ /\ c \in Splines(sketch)
       /\ p \in Elements(sketch.curves[c].points) \cup Arms(sketch.curves[c])
Incidences ==
    {claim \in {Claim(kind, {p}, {c}) : kind \in AnchoringKinds,
               p \in Points, c \in Supports \cup Splines(sketch)} :
       /\ ~\E p \in claim.points, c \in claim.curves : Shapes(p, c)
       /\ claim.kind = "midpoint" => claim.curves \subseteq Segments(sketch)}

Tangencies == {Claim("tangent", {}, pair) :
    pair \in {q \in SUBSET Supports : Cardinality(q) = 2 /\ ~(q \subseteq Segments(sketch))}}

Claims == Fixings \cup Orientations \cup Dimensions \cup Incidences \cup Tangencies

Assertable(claim) ==
    /\ claim.kind \in Allowed.claimed
    /\ \A p \in claim.points : ~IsMirroredArm(sketch, p)
    /\ \A k \in DOMAIN sketch.claims : ~IsAboutTheSameAs(sketch.claims[k], claim)

AddConstraint == \E claim \in Claims :
    Assertable(claim) /\ Becomes(AddClaim(sketch, claim))

\* with_dimension_restated: a release and a fresh assertion, under a new id.
RestateDimension == \E k \in DOMAIN sketch.claims :
    LET claim == sketch.claims[k]
    IN  /\ claim.kind \in {"span", "gap", "radius"} /\ claim \in Claims
        /\ Becomes(AddClaim([sketch EXCEPT !.claims = Only(@, DOMAIN @ \ {k})], claim))

AddPattern == \E sources \in (SUBSET Curves) \ {{}} :
    \/ \E axis \in Segments(sketch) \ sources :
         /\ "mirror" \in Allowed.patterned
         /\ Becomes(PushPattern(sketch, [kind |-> "mirror", sources |-> sources, about |-> axis]))
    \/ \E center \in Points :
         /\ "circular" \in Allowed.patterned
         /\ Becomes(PushPattern(sketch,
              [kind |-> "circular", sources |-> sources, about |-> center]))
    \/ /\ "rectangular" \in Allowed.patterned
       /\ Becomes(PushPattern(sketch, [kind |-> "rectangular", sources |-> sources, about |-> 0]))

---------------------------------------------------------------------------
(* Modifying                                                               *)

\* Where a curve is cut: a point of its own, or one that stands there.
Cuts(c) == (Points \ Elements(sketch.curves[c].points)) \cup {sketch.next}
\* The second cut: a point minted after the first was.
Others(c, at) ==
  IF at = sketch.next THEN (Cuts(c) \ {at}) \cup {at + 1} ELSE Cuts(c) \ {at}

Split == \E c \in Segments(sketch) :
    "split" \in Allowed.modified /\ Becomes(SplitSegment(sketch, c))

Break == \E c \in OfKind(sketch, Cuttable) : \E at \in Cuts(c) :
    /\ "break" \in Allowed.modified
    /\ \/ Kind(c) \in {"segment", "arc"} /\ Becomes(Settled(BreakStroke(sketch, c, at)))
       \/ Kind(c) = "bezier" /\ Becomes(Settled(BreakBezier(sketch, c, at)))
       \/ /\ Kind(c) = "circle"
          /\ \E other \in Others(c, at) :
               Becomes(Settled(BreakCircle(sketch, c, at, other)))

Trim == \E c \in OfKind(sketch, Cuttable) :
    /\ "trim" \in Allowed.modified
    /\ \/ Becomes(TrimAway(sketch, c))
       \/ \E end \in Ends(c), at \in Cuts(c) : Becomes(TrimTo(sketch, c, end, at))
       \/ \E at \in Cuts(c) : \E other \in Others(c, at) :
            IF Kind(c) = "circle" THEN Becomes(TrimCircle(sketch, c, at, other))
            ELSE \E gone \in 1 .. 3 : Becomes(TrimBetween(sketch, c, at, other, gone))

RoundACorner == \E p \in Points : \E one, two \in Segments(sketch) :
    /\ IsCorner(sketch, p, one, two)
    /\ \/ "fillet" \in Allowed.modified /\ Becomes(Filleted(sketch, p, one, two))
       \/ "chamfer" \in Allowed.modified /\ Becomes(Chamfered(sketch, p, one, two))

Offset == \E c \in OfKind(sketch, {"segment", "arc", "circle"}) :
    "offset" \in Allowed.modified /\ Becomes(OffsetOf(sketch, c))

ToggleConstruction == \E c \in Curves :
    "toggle" \in Allowed.modified /\ Becomes(Toggled(sketch, c))

\* A curve whose points stand and that still draws nothing is invalid.
Repair == \E invalid \in SUBSET OfKind(sketch, {"arc", "fitSpline", "controlSpline"}) :
    "repair" \in Allowed.modified /\ Becomes(Repaired(sketch, invalid))

Next ==
    \/ PlacePoint \/ PlantPoint \/ Connect \/ ConnectArc \/ DrawCircle \/ DrawHigherCurve
    \/ DeletePoint \/ DeleteACurve \/ DeleteConstraint \/ DeletePattern
    \/ AddConstraint \/ RestateDimension \/ AddPattern
    \/ Split \/ Break \/ Trim \/ RoundACorner \/ Offset \/ ToggleConstruction \/ Repair

Spec == Init /\ [][Next]_vars

---------------------------------------------------------------------------
(* What must hold of a store                                               *)

\* No curve names a point the store no longer holds: a spline that loses one
\* of its points forgets it, and every other curve goes with the point.
CurvesStandOnPoints ==
    \A c \in Curves : Elements(sketch.curves[c].points) \subseteq Points

LostCurves == DOMAIN sketch.curves \ DOMAIN sketch'.curves
LostPoints == DOMAIN sketch.points \ DOMAIN sketch'.points
LostFree == {p \in LostPoints : sketch.points[p] = "free"}

\* One edit takes what it was aimed at and what stood on it, no more: aimed at
\* a point, it takes the curves drawn on that point and no other point of the
\* author's; aimed at a curve, it takes no other curve and only points of its.
TakesOnly(aim) ==
    /\ \A c \in LostCurves \ {aim} : aim \in Elements(sketch.curves[c].points)
    /\ \A p \in LostFree \ {aim} : aim \in Curves /\ p \in Elements(sketch.curves[aim].points)
NothingElseVanishes ==
    [][ IF Repair THEN LostFree = {} ELSE \E aim \in Points \cup Curves \cup {0} : TakesOnly(aim)
      ]_vars

\* An edit that takes a curve, other than one of the kinds whose own delete
\* does not settle, leaves no claim and no pattern about what is gone.
EditsSettle ==
    [][ LostCurves # {} /\ LostCurves \cap OfKind(sketch, Unsettled) = {} /\ ~Repair =>
          /\ \A k \in DOMAIN sketch'.claims : ClaimStands(sketch', sketch'.claims[k])
          /\ \A k \in DOMAIN sketch'.patterns : PatternStands(sketch', sketch'.patterns[k])
      ]_vars

\* drop_dangling_constraints: "a constraint never outlives what it constrains".
NoClaimOutlivesItsSubject ==
    \A k \in DOMAIN sketch.claims : NamedEntities(sketch.claims[k]) \subseteq Points \cup Curves

\* mint_tangent_handles: "A fit-point spline has handles on all of its points,
\* always: they are not added and not removed."
EveryFitPointHasItsLever ==
    \A c \in OfKind(sketch, {"fitSpline"}) :
      /\ DOMAIN sketch.curves[c].levers = Elements(sketch.curves[c].points)
      /\ Arms(sketch.curves[c]) \subseteq Points

=============================================================================
