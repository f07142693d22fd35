---------------------------- MODULE SketchStore ----------------------------
(***************************************************************************)
(* The entity store of a sketch (crates/document/src/sketch): points,      *)
(* curves, constraints and patterns, all named from one counter.           *)
(*                                                                         *)
(* The seven curve vectors are one function from ids to records: the ends  *)
(* a curve is drawn between stand first in its points, the ones it only    *)
(* needs (a center, a handle, an inner control) after them, except for a   *)
(* spline and a Bezier, whose order is the drawn one.  levers holds the    *)
(* tangent handle of each fit point.  Positions, radii and weights are     *)
(* left out: where an operation asks where something stands, the answer is *)
(* a choice.  A constraint is a claim: the entities it names, by the role  *)
(* they play in the cascades.                                              *)
(***************************************************************************)
EXTENDS Naturals, Sequences, FiniteSets

Elements(tuple) == {tuple[i] : i \in 1 .. Len(tuple)}
With(map, id, value) ==
  [x \in DOMAIN map \cup {id} |-> IF x = id THEN value ELSE map[x]]
Only(map, kept) == [x \in DOMAIN map \cap kept |-> map[x]]

Empty == [points |-> << >>, curves |-> << >>, claims |-> << >>,
          patterns |-> << >>, next |-> 1]

---------------------------------------------------------------------------
(* Reading the store                                                       *)

OfKind(s, kinds) == {c \in DOMAIN s.curves : s.curves[c].kind \in kinds}
Segments(s) == OfKind(s, {"segment"})
Splines(s) == OfKind(s, {"fitSpline", "controlSpline"})

(* Dimension's Radius, RimGap, Gap and the arc end of an Angle name curves *)
(* that ConstraintKind's segments and curves do not answer.                *)
Untracked == {"radius", "gap"}
AnchoringKinds == {"midpoint", "onCurve"}

PointsOf(claim) == claim.points
CurvesOf(claim) == IF claim.kind \in Untracked THEN {} ELSE claim.curves
AnchoredPoints(claim) == IF claim.kind \in AnchoringKinds THEN claim.points ELSE {}
NamedEntities(claim) == claim.points \cup claim.curves
IsAboutTheSameAs(one, other) == one = other

Arms(curve) == UNION {Elements(curve.levers[fit]) : fit \in DOMAIN curve.levers}
IsTangentHandle(s, p) == \E c \in DOMAIN s.curves : p \in Arms(s.curves[c])
IsMirroredArm(s, p) ==
  \E c \in DOMAIN s.curves : \E fit \in DOMAIN s.curves[c].levers :
    p = s.curves[c].levers[fit][2]

DrawnPoints(s) == UNION {Elements(s.curves[c].points) : c \in DOMAIN s.curves}
ReferencedPoints(s) ==
  DrawnPoints(s) \cup UNION {Arms(s.curves[c]) : c \in DOMAIN s.curves}
    \cup UNION {AnchoredPoints(s.claims[k]) : k \in DOMAIN s.claims}
OrphansOfAnyone(s) == DOMAIN s.points \ ReferencedPoints(s)
Orphans(s) ==
  {p \in DOMAIN s.points : s.points[p] = "anchored"} \ ReferencedPoints(s)

SegmentJoins(s, a, b) ==
  \E c \in Segments(s) : Elements(s.curves[c].points) = {a, b}

---------------------------------------------------------------------------
(* What a store is.  promised are the ids of points an edit names before it *)
(* mints them; a store at rest promises none.                              *)

DrawnFrom == [segment |-> 2, arc |-> 3, circle |-> 1, bezier |-> 4, ellipse |-> 3,
              conic |-> 3, fitSpline |-> 2, controlSpline |-> 2]
IsCurve(curve) ==
  /\ curve = [kind |-> curve.kind, points |-> curve.points,
              levers |-> curve.levers, role |-> curve.role]
  /\ curve.kind \in DOMAIN DrawnFrom
  /\ curve.points \in Seq(Nat) /\ Len(curve.points) >= DrawnFrom[curve.kind]

(* A fit point's arms are its own: no control spline is drawn on one.      *)
ArmsAreTheirOwn(s) ==
  \A c \in DOMAIN s.curves : \A arm \in Arms(s.curves[c]) :
    /\ arm \in Nat /\ arm < s.next
    /\ arm \in DOMAIN s.points => s.points[arm] = "anchored"
    /\ \A d \in OfKind(s, {"controlSpline"}) : arm \notin Elements(s.curves[d].points)

IsStoreBut(s, promised) ==
  /\ s = [points |-> s.points, curves |-> s.curves, claims |-> s.claims,
          patterns |-> s.patterns, next |-> s.next]
  /\ s.next \in Nat
  /\ \A p \in DOMAIN s.points : p \in Nat /\ p < s.next
  /\ \A c \in DOMAIN s.curves :
        /\ c \in Nat /\ c < s.next
        /\ IsCurve(s.curves[c])
        /\ Elements(s.curves[c].points) \subseteq DOMAIN s.points \cup promised
  /\ ArmsAreTheirOwn(s)
IsStore(s) == IsStoreBut(s, {})

---------------------------------------------------------------------------
(* Creating                                                                *)

AddPoint(s, lifetime) ==
  [s EXCEPT !.points = With(@, s.next, lifetime), !.next = @ + 1]
AddFreePoint(s) == AddPoint(s, "free")
AddConstructionPoint(s) == AddPoint(s, "anchored")

AddCurve(s, kind, points, role) ==
  [s EXCEPT !.curves = With(@, s.next, [kind |-> kind, points |-> points,
                                        levers |-> << >>, role |-> role]),
            !.next = @ + 1]
AddClaim(s, claim) ==
  [s EXCEPT !.claims = With(@, s.next, claim), !.next = @ + 1]
PushPattern(s, pattern) ==
  [s EXCEPT !.patterns = With(@, s.next, pattern), !.next = @ + 1]

Connected(s, from, to) == AddCurve(s, "segment", <<from, to>>, "real")

(* connect_arc: the arc's id comes before its center's.                    *)
ArcConnected(s, from, to, role) ==
  AddConstructionPoint(AddCurve(s, "arc", <<from, to, s.next + 1>>, role))

CircleAbout(s, center, role) == AddCurve(s, "circle", <<center>>, role)
CircleAdded(s, role) == CircleAbout(AddConstructionPoint(s), s.next, role)

Serving(role) == IF role = "real" THEN "free" ELSE "anchored"

(* n points in a row, the ones in inner owned by the curve.                *)
Planted(s, n, inner) ==
  [s EXCEPT !.points = [p \in DOMAIN @ \cup s.next .. s.next + n - 1 |->
                          IF p < s.next THEN @[p]
                          ELSE IF p - s.next + 1 \in inner THEN "anchored" ELSE "free"],
            !.next = @ + n]
Row(s, n) == [i \in 1 .. n |-> s.next + i - 1]

CubicBezierAdded(s) == AddCurve(Planted(s, 4, {2, 3}), "bezier", Row(s, 4), "real")
EllipseAdded(s) == AddCurve(Planted(s, 3, 1 .. 3), "ellipse", Row(s, 3), "real")
ConicAdded(s) == AddCurve(Planted(s, 3, {3}), "conic", Row(s, 3), "real")
ControlSplineAdded(s, n) ==
  AddCurve(Planted(s, n, 2 .. n - 1), "controlSpline", Row(s, n), "real")

(* mint_tangent_handles: two arms for each fit point, after the curve.     *)
FitSplineAdded(s, n) ==
  LET drawn == AddCurve(Planted(s, n, {}), "fitSpline", Row(s, n), "real")
  IN  [Planted(drawn, 2 * n, 1 .. 2 * n)
         EXCEPT !.curves[drawn.next - 1].levers =
           [fit \in s.next .. s.next + n - 1 |->
              LET forward == drawn.next + 2 * (fit - s.next) IN <<forward, forward + 1>>]]

---------------------------------------------------------------------------
(* The cascades                                                            *)

PruneOrphanCenters(s) == [s EXCEPT !.points = Only(@, DOMAIN @ \ Orphans(s))]

DropUndrawnPoints(s, candidates) ==
  [s EXCEPT !.points = Only(@, DOMAIN @ \ (candidates \ DrawnPoints(s)))]

PatternStands(s, pattern) ==
  /\ pattern.sources \subseteq DOMAIN s.curves
  /\ CASE pattern.kind = "mirror"   -> pattern.about \in Segments(s)
       [] pattern.kind = "circular" -> pattern.about \in DOMAIN s.points
       [] OTHER                     -> TRUE
DropDanglingPatterns(s) ==
  [s EXCEPT !.patterns = Only(@, {k \in DOMAIN @ : PatternStands(s, @[k])})]

ClaimStands(s, claim) ==
  PointsOf(claim) \subseteq DOMAIN s.points /\ CurvesOf(claim) \subseteq DOMAIN s.curves
DropDanglingConstraints(s) ==
  [s EXCEPT !.claims = Only(@, {k \in DOMAIN @ : ClaimStands(s, @[k])})]

SettledTooSoon(s) == PruneOrphanCenters(DropDanglingPatterns(DropDanglingConstraints(s)))
Settled(s) == DropDanglingConstraints(DropDanglingPatterns(PruneOrphanCenters(s)))

---------------------------------------------------------------------------
(* Deleting                                                                *)

WithoutCurve(s, c) == [s EXCEPT !.curves = Only(@, DOMAIN @ \ {c})]

(* delete_segment, delete_arc, delete_bezier: the points a curve was drawn *)
(* between go unless another curve draws them; an arc's center is left to  *)
(* the sweep.                                                              *)
DeleteStroke(s, c) ==
  LET drawn == s.curves[c].points
      ends == IF s.curves[c].kind = "arc" THEN {drawn[1], drawn[2]} ELSE Elements(drawn)
  IN  Settled(DropUndrawnPoints(WithoutCurve(s, c), ends))

DeleteCircle(s, c) == Settled(WithoutCurve(s, c))

DeleteEllipse(s, c) == PruneOrphanCenters(WithoutCurve(s, c))
DeleteConic(s, c) ==
  DropUndrawnPoints(WithoutCurve(s, c), Elements(s.curves[c].points))
DeleteSpline(s, c) ==
  PruneOrphanCenters(
    DropUndrawnPoints(WithoutCurve(s, c), Elements(s.curves[c].points) \cup Arms(s.curves[c])))

(* The doors that end without dropping patterns and constraints.           *)
Unsettled == {"ellipse", "conic", "fitSpline", "controlSpline"}
DeleteCurve(s, c) ==
  CASE s.curves[c].kind \in {"segment", "arc", "bezier"} -> DeleteStroke(s, c)
    [] s.curves[c].kind = "circle"  -> DeleteCircle(s, c)
    [] s.curves[c].kind = "ellipse" -> DeleteEllipse(s, c)
    [] s.curves[c].kind = "conic"   -> DeleteConic(s, c)
    [] OTHER                        -> DeleteSpline(s, c)

(* heal_splines_without: a spline outlives a point it loses while enough   *)
(* are left; the new end of a control spline becomes the author's.         *)
FewestPoints == 2
Without(tuple, p) ==
  LET upTo[i \in 0 .. Len(tuple)] ==
        IF i = 0 THEN << >>
        ELSE IF tuple[i] = p THEN upTo[i - 1] ELSE Append(upTo[i - 1], tuple[i])
  IN  upTo[Len(tuple)]
Remaining(curve, p) == Without(curve.points, p)
Healed(curve, p) ==
  [curve EXCEPT !.points = Remaining(curve, p),
                !.levers = Only(@, DOMAIN @ \ {p})]
Survives(s, c, p) ==
  \/ p \notin Elements(s.curves[c].points)
  \/ c \in Splines(s) /\ Len(Remaining(s.curves[c], p)) >= FewestPoints
PromotedBy(curve, p) ==
  IF curve.kind = "controlSpline" /\ p \in Elements(curve.points)
  THEN LET left == Remaining(curve, p) IN {left[1], left[Len(left)]}
  ELSE {}

DeletePointUnhealed(s, p) ==
  IF IsTangentHandle(s, p) THEN s
  ELSE Settled([s EXCEPT
         !.points = Only(@, DOMAIN @ \ {p}),
         !.curves = Only(@, {c \in DOMAIN @ : p \notin Elements(@[c].points) \/ c \in Splines(s)})])
DeletePointCascade(s, p) ==
  IF IsTangentHandle(s, p) THEN s
  ELSE LET kept == {c \in DOMAIN s.curves : Survives(s, c, p)}
           promoted == UNION {PromotedBy(s.curves[c], p) : c \in kept}
       IN  Settled([s EXCEPT
             !.curves = [c \in kept |-> IF p \in Elements(@[c].points)
                                        THEN Healed(@[c], p) ELSE @[c]],
             !.points = [q \in DOMAIN @ \ {p} |-> IF q \in promoted THEN "free" ELSE @[q]]])

---------------------------------------------------------------------------
(* Modifying.  point_for_break takes a standing point at the place it cuts *)
(* or mints one: at is that point, or the id the next one gets.            *)

CutAt(s, at, role) == IF at = s.next THEN AddPoint(s, Serving(role)) ELSE s
Cuttable == {"segment", "arc", "circle", "bezier"}

SplitSegment(s, c) ==
  LET t == AddFreePoint(s)
  IN  AddCurve([t EXCEPT !.curves[c].points[2] = s.next],
               "segment", <<s.next, s.curves[c].points[2]>>, "real")

(* break_segment and break_arc: the first piece keeps the id, the pieces   *)
(* of an arc its center.                                                   *)
BreakStroke(s, c, at) ==
  LET curve == s.curves[c]
      t == CutAt(s, at, curve.role)
  IN  AddCurve([t EXCEPT !.curves[c].points[2] = at], curve.kind,
               [curve.points EXCEPT ![1] = at], curve.role)

(* break_circle: the arcs turn about the circle's own center.              *)
BreakCircle(s, c, at, other) ==
  LET curve == s.curves[c]
      center == curve.points[1]
      t == CutAt(CutAt(WithoutCurve(s, c), at, curve.role), other, curve.role)
      half == AddCurve(t, "arc", <<at, other, center>>, curve.role)
  IN  AddCurve(half, "arc", <<other, at, center>>, curve.role)

(* One piece of replace_curve_with_pieces: its id is taken before its own  *)
(* center or handles are minted.                                           *)
PieceOf(s, kind, from, to, role) ==
  CASE kind = "segment" -> AddCurve(s, kind, <<from, to>>, role)
    [] kind = "arc"     -> ArcConnected(s, from, to, role)
    [] kind = "bezier"  ->
         Planted(AddCurve(s, kind, <<from, s.next + 1, s.next + 2, to>>, role), 2, {1, 2})

BreakBezier(s, c, at) ==
  LET curve == s.curves[c]
      t == WithoutCurve(s, c)
      u == CutAt(t, at, curve.role)
  IN  PieceOf(PieceOf(u, "bezier", curve.points[1], at, curve.role),
              "bezier", at, curve.points[4], curve.role)

(* with_curve_trimmed: the piece under the pointer goes and the others     *)
(* stay, at most two cuts to a curve: of an open one, the piece from an    *)
(* end to the one cut, or two of the three pieces between its ends and two *)
(* cuts; nothing of a curve no other crosses.  The order in which one edit *)
(* mints its ids is left out.                                              *)
TrimAway(s, c) == Settled(WithoutCurve(s, c))
TrimTo(s, c, end, at) ==
  LET curve == s.curves[c]
      t == CutAt(WithoutCurve(s, c), at, curve.role)
  IN  Settled(PieceOf(t, curve.kind, end, at, curve.role))
TrimBetween(s, c, at, other, gone) ==
  LET curve == s.curves[c]
      ends == <<curve.points[1], at, other, curve.points[IF curve.kind = "bezier" THEN 4 ELSE 2]>>
      first == IF gone = 1 THEN 2 ELSE 1
      second == IF gone = 3 THEN 2 ELSE 3
      t == CutAt(CutAt(WithoutCurve(s, c), at, curve.role), other, curve.role)
      u == PieceOf(t, curve.kind, ends[first], ends[first + 1], curve.role)
  IN  Settled(PieceOf(u, curve.kind, ends[second], ends[second + 1], curve.role))
TrimCircle(s, c, at, other) ==
  LET role == s.curves[c].role
      t == CutAt(CutAt(WithoutCurve(s, c), at, role), other, role)
  IN  Settled(PieceOf(t, "arc", at, other, role))

(* fillet_placement refuses a corner that anything but two segments of one *)
(* role stands on.                                                         *)
IsCorner(s, p, one, two) ==
  /\ one # two /\ {one, two} \subseteq Segments(s)
  /\ s.curves[one].role = s.curves[two].role
  /\ {c \in DOMAIN s.curves : p \in Elements(s.curves[c].points)} = {one, two}

(* The corner point becomes the end of the first segment and a new one the *)
(* end of the second.                                                      *)
CornerOpened(s, p, one, two) ==
  LET curve == s.curves[two]
      end == IF curve.points[1] = p THEN 1 ELSE 2
  IN  [AddPoint(s, Serving(s.curves[one].role)) EXCEPT !.curves[two].points[end] = s.next]

TangentTo(one, other) == [kind |-> "tangent", points |-> {}, curves |-> {one, other}]
Filleted(s, p, one, two) ==
  LET opened == CornerOpened(s, p, one, two)
      arc == opened.next
      rounded == ArcConnected(opened, p, s.next, s.curves[one].role)
  IN  AddClaim(AddClaim(rounded, TangentTo(one, arc)), TangentTo(two, arc))
Chamfered(s, p, one, two) ==
  AddCurve(CornerOpened(s, p, one, two), "segment", <<p, s.next>>, s.curves[one].role)

(* apply_offset: a copy beside the source, with points of its own.         *)
OffsetOf(s, c) ==
  LET role == s.curves[c].role
      ends == IF Serving(role) = "free" THEN {} ELSE {1, 2}
  IN  CASE s.curves[c].kind = "segment" ->
             AddCurve(Planted(s, 2, ends), "segment", Row(s, 2), role)
        [] s.curves[c].kind = "arc" ->
             ArcConnected(Planted(s, 2, ends), s.next, s.next + 1, role)
        [] s.curves[c].kind = "circle" -> CircleAdded(s, role)

Toggled(s, c) ==
  [s EXCEPT !.curves[c].role = IF @ = "real" THEN "construction" ELSE "real"]

(* repair: the curves that are no longer curves go, then what named them,  *)
(* and the orphans last.                                                   *)
Repaired(s, invalid) ==
  PruneOrphanCenters(DropDanglingConstraints(DropDanglingPatterns(
    [s EXCEPT !.curves = Only(@, {c \in DOMAIN @ \ invalid :
                                    Elements(@[c].points) \subseteq DOMAIN s.points})])))
=============================================================================
