---------------------------- MODULE SketchProofs ----------------------------
(***************************************************************************)
(* Proofs about the entity store of a sketch, for every session whose      *)
(* drawing is a store.                                                     *)
(*                                                                         *)
(* The invariant is IsStore: every curve stands on points of the store,    *)
(* every id is one the counter has passed, so that a fresh one is fresh,   *)
(* and a fit point's arms are its own, so that no edit makes one the       *)
(* author's.  Each door keeps it; beside it each either keeps every curve  *)
(* and every point of the author's, or takes no more than it was aimed at  *)
(* and leaves nothing about what is gone.                                  *)
(***************************************************************************)
EXTENDS SketchEntities, SequenceTheorems, FiniteSetTheorems, WellFoundedInduction, TLAPS

(***************************************************************************)
(* Numbers and tuples.                                                     *)
(***************************************************************************)

(* A property that some number up to n lacks has a first that lacks it.    *)
LEMMA FirstExists ==
  ASSUME NEW n \in Nat, NEW S \in SUBSET (0 .. n), S # {}
  PROVE  \E m \in S : \A k \in S : m <= k
<1> DEFINE HasFirst(T) == \E m \in T : \A k \in T : m <= k
           Lacking == {T \in FiniteSubsetsOf(0 .. n) : T # {} /\ ~HasFirst(T)}
<1>1. IsFiniteSet(0 .. n)
  BY FS_Interval
<1>2. S \in FiniteSubsetsOf(0 .. n)
  BY <1>1, FS_Subset DEF FiniteSubsetsOf
<1>3. SUFFICES ASSUME Lacking # {} PROVE FALSE
  BY <1>2
<1>4. PICK T \in Lacking : \A U \in Lacking : <<U, T>> \notin StrictSubsetOrdering(0 .. n)
  BY <1>3, FS_StrictSubsetOrderingWellFounded, WFMin
<1>5. T \subseteq 0 .. n /\ IsFiniteSet(T) /\ T # {} /\ ~HasFirst(T)
  BY <1>4 DEF FiniteSubsetsOf
<1>6. PICK x \in T : TRUE
  BY <1>5
<1> DEFINE rest == T \ {x}
<1>7. IsFiniteSet(rest) /\ rest \subseteq 0 .. n
  BY <1>5, FS_RemoveElement
<1>8. rest \notin Lacking
  BY <1>4, <1>5, <1>6, <1>7 DEF StrictSubsetOrdering
<1>9. rest = {} \/ HasFirst(rest)
  BY <1>7, <1>8 DEF FiniteSubsetsOf
<1>10. CASE rest = {}
  <2>1. T = {x}
    BY <1>6, <1>10
  <2> QED
    BY <1>5, <1>6, <2>1
<1>11. CASE HasFirst(rest)
  <2>1. PICK m \in rest : \A k \in rest : m <= k
    BY <1>11
  <2>2. \A k \in T : k = x \/ m <= k
    BY <2>1
  <2>3. m \in Int /\ x \in Int /\ m \in T /\ T \subseteq Int
    BY <1>5, <1>6, <2>1
  <2>4. CASE m <= x
    BY <1>5, <2>2, <2>3, <2>4
  <2>5. CASE ~(m <= x)
    <3>1. \A k \in T : x <= k
      BY <2>2, <2>3, <2>5
    <3> QED
      BY <1>5, <1>6, <3>1
  <2> QED
    BY <2>4, <2>5
<1> QED
  BY <1>9, <1>10, <1>11

(* What Without computes on the way: what is left of the first i places,   *)
(* up to the m-th.                                                         *)
Place(tuple, p, f, i) ==
  IF i = 0 THEN << >>
  ELSE IF tuple[i] = p THEN f[i - 1] ELSE Append(f[i - 1], tuple[i])
StepsTo(tuple, p, f, m) == f = [i \in 0 .. m |-> Place(tuple, p, f, i)]
CanStepTo(tuple, p, m) == \E f : StepsTo(tuple, p, f, m)

(* What comes next is computed from what came before.                      *)
LEMMA OneMoreStep ==
  ASSUME NEW tuple \in Seq(Nat), NEW p, NEW m \in Nat \ {0}, CanStepTo(tuple, p, m - 1)
  PROVE  CanStepTo(tuple, p, m)
<1>1. PICK f : StepsTo(tuple, p, f, m - 1)
  BY DEF CanStepTo
<1>2. \A i \in 0 .. m - 1 : f[i] = Place(tuple, p, f, i)
  BY <1>1 DEF StepsTo
<1> DEFINE g == [i \in 0 .. m |-> IF i < m THEN f[i] ELSE Place(tuple, p, f, m)]
<1>3. DOMAIN g = 0 .. m
  OBVIOUS
<1>4. \A i \in 0 .. m : g[i] = IF i < m THEN f[i] ELSE Place(tuple, p, f, m)
  OBVIOUS
<1>5. g = [i \in 0 .. m |-> g[i]]
  OBVIOUS
<1> HIDE DEF g
<1>6. \A i \in 0 .. m : Place(tuple, p, g, i) = Place(tuple, p, f, i)
  <2> TAKE i \in 0 .. m
  <2>1. CASE i = 0
    BY <2>1 DEF Place
  <2>2. CASE i # 0
    <3>1. g[i - 1] = f[i - 1]
      BY <1>4, <2>2
    <3> QED
      BY <3>1 DEF Place
  <2> QED
    BY <2>1, <2>2
<1>7. \A i \in 0 .. m : g[i] = Place(tuple, p, f, i)
  <2> TAKE i \in 0 .. m
  <2>1. CASE i < m
    BY <1>2, <1>4, <2>1
  <2>2. CASE i = m
    BY <1>4, <2>2
  <2> QED
    BY <2>1, <2>2
<1>8. \A i \in 0 .. m : g[i] = Place(tuple, p, g, i)
  BY <1>6, <1>7
<1>9. StepsTo(tuple, p, g, m)
  BY <1>5, <1>8 DEF StepsTo
<1> QED
  BY <1>9 DEF CanStepTo

(* So the whole of it can: no place is the first it cannot be carried to.  *)
LEMMA StepsExist ==
  ASSUME NEW tuple \in Seq(Nat), NEW p
  PROVE  CanStepTo(tuple, p, Len(tuple))
<1> DEFINE n == Len(tuple)
           Bad == {m \in 0 .. n : ~CanStepTo(tuple, p, m)}
<1>1. n \in Nat /\ n \in 0 .. n
  OBVIOUS
<1>2. SUFFICES ASSUME Bad # {} PROVE FALSE
  BY <1>1
<1>3. \A m : m \in Bad <=> m \in 0 .. n /\ ~CanStepTo(tuple, p, m)
  OBVIOUS
<1> HIDE DEF n, Bad
<1>4. PICK m \in Bad : \A k \in Bad : m <= k
  <2>1. Bad \in SUBSET (0 .. n)
    BY <1>3
  <2> QED
    BY <1>1, <1>2, <2>1, FirstExists
<1>5. m \in 0 .. n /\ ~CanStepTo(tuple, p, m)
  BY <1>3, <1>4
<1>6. CASE m = 0
  <2> DEFINE f == [i \in 0 .. 0 |-> << >>]
  <2>1. f = [i \in 0 .. 0 |-> Place(tuple, p, f, i)]
    BY DEF Place
  <2>2. StepsTo(tuple, p, f, 0)
    BY <2>1 DEF StepsTo
  <2> QED
    BY <1>5, <1>6, <2>2 DEF CanStepTo
<1>7. CASE m # 0
  <2>1. m \in Nat \ {0} /\ m - 1 \in 0 .. n /\ ~(m <= m - 1)
    BY <1>1, <1>5, <1>7
  <2>2. CanStepTo(tuple, p, m - 1)
    BY <1>3, <1>4, <2>1
  <2> QED
    BY <1>5, <2>1, <2>2, OneMoreStep
<1> QED
  BY <1>6, <1>7

(* A tuple without a point: what is left are its other elements.           *)
LEMMA WithoutIs ==
  ASSUME NEW tuple \in Seq(Nat), NEW p
  PROVE  /\ Without(tuple, p) \in Seq(Nat)
         /\ Elements(Without(tuple, p)) = Elements(tuple) \ {p}
<1> DEFINE n == Len(tuple)
           f == CHOOSE h : StepsTo(tuple, p, h, n)
           Early(m) == {tuple[j] : j \in 1 .. m} \ {p}
           Good(i) == f[i] \in Seq(Nat) /\ Elements(f[i]) = Early(i)
           Bad == {i \in 0 .. n : ~Good(i)}
<1>1. n \in Nat /\ n \in 0 .. n /\ \A i \in 1 .. n : tuple[i] \in Nat
  OBVIOUS
<1>2. Without(tuple, p) = f[n]
  BY DEF Without, StepsTo, Place
<1>3. StepsTo(tuple, p, f, n)
  BY StepsExist DEF CanStepTo
<1>4. Early(0) = {} /\ Early(n) = Elements(tuple) \ {p}
  BY DEF Elements
<1>5. \A m \in 1 .. n : \A x :
        x \in Early(m) <=> x \in Early(m - 1) \/ (x = tuple[m] /\ x # p)
  <2> TAKE m \in 1 .. n
  <2>1. \A j : j \in 1 .. m <=> j \in 1 .. m - 1 \/ j = m
    BY <1>1
  <2> QED
    BY <2>1
<1>6. \A i : i \in Bad <=> i \in 0 .. n /\ ~Good(i)
  OBVIOUS
<1> HIDE DEF f, n, Early, Bad
<1>7. \A i \in 0 .. n : f[i] = Place(tuple, p, f, i)
  BY <1>3 DEF StepsTo
<1>8. SUFFICES ASSUME Bad # {} PROVE FALSE
  BY <1>1, <1>2, <1>4, <1>6
<1>9. PICK m \in Bad : \A k \in Bad : m <= k
  <2>1. Bad \in SUBSET (0 .. n)
    BY <1>6
  <2> QED
    BY <1>1, <1>8, <2>1, FirstExists
<1>10. m \in 0 .. n /\ m \in Nat /\ ~Good(m)
  BY <1>1, <1>6, <1>9
<1>11. CASE m = 0
  <2>1. f[0] = << >>
    BY <1>1, <1>7 DEF Place
  <2>2. Elements(<< >>) = {} /\ << >> \in Seq(Nat)
    BY DEF Elements
  <2>3. Elements(f[0]) = Early(0) /\ f[0] \in Seq(Nat)
    BY <1>4, <2>1, <2>2
  <2> QED
    BY <1>10, <1>11, <2>3
<1>12. CASE m # 0
  <2>1. m - 1 \in 0 .. n /\ ~(m <= m - 1) /\ m \in 1 .. n
    BY <1>1, <1>10, <1>12
  <2>2. Good(m - 1)
    BY <1>6, <1>9, <2>1
  <2>3. f[m] = IF tuple[m] = p THEN f[m - 1] ELSE Append(f[m - 1], tuple[m])
    BY <1>7, <1>10, <1>12 DEF Place
  <2> DEFINE before == f[m - 1]
             here == f[m]
  <2>4. before \in Seq(Nat) /\ Elements(before) = Early(m - 1) /\ tuple[m] \in Nat
    BY <1>1, <2>1, <2>2
  <2>5. here = IF tuple[m] = p THEN before ELSE Append(before, tuple[m])
    BY <2>3
  <2>6. ~(here \in Seq(Nat) /\ Elements(here) = Early(m))
    BY <1>10
  <2> HIDE DEF before, here
  <2>7. CASE tuple[m] = p
    <3>1. Early(m) = Early(m - 1)
      BY <1>5, <2>1, <2>7
    <3> QED
      BY <2>4, <2>5, <2>6, <2>7, <3>1
  <2>8. CASE tuple[m] # p
    <3>1. here = Append(before, tuple[m])
      BY <2>5, <2>8
    <3>2. /\ here \in Seq(Nat) /\ Len(here) = Len(before) + 1 /\ Len(before) \in Nat
          /\ \A j \in 1 .. Len(before) : here[j] = before[j]
          /\ here[Len(before) + 1] = tuple[m]
      BY <2>4, <3>1, AppendProperties
    <3>3. \A x : x \in Elements(here) <=> \E j \in 1 .. Len(before) + 1 : x = here[j]
      BY <3>2 DEF Elements
    <3>4. \A x : x \in Elements(before) <=> \E j \in 1 .. Len(before) : x = before[j]
      BY DEF Elements
    <3>5. \A x : x \in Elements(here) <=> x \in Elements(before) \/ x = tuple[m]
      <4>1. \A j : j \in 1 .. Len(before) + 1 <=> j \in 1 .. Len(before) \/ j = Len(before) + 1
        BY <3>2
      <4>2. \A x, j : j \in 1 .. Len(before) => (x = here[j] <=> x = before[j])
        BY <3>2
      <4>3. TAKE x
      <4>4. x \in Elements(here) <=>
              (\E j \in 1 .. Len(before) : x = here[j]) \/ x = here[Len(before) + 1]
        BY <3>3, <4>1
      <4>5. (\E j \in 1 .. Len(before) : x = here[j]) <=> x \in Elements(before)
        BY <3>4, <4>2
      <4> QED
        BY <3>2, <4>4, <4>5
    <3>6. \A x : x \in Elements(here) <=> x \in Early(m)
      BY <1>5, <2>1, <2>4, <2>8, <3>5
    <3>7. Elements(here) = Early(m)
      BY <3>6
    <3> QED
      BY <2>6, <3>2, <3>7
  <2> QED
    BY <2>7, <2>8
<1> QED
  BY <1>11, <1>12

(***************************************************************************)
(* What each edit writes.                                                  *)
(***************************************************************************)

Store(points, curves, claims, patterns, next) ==
  [points |-> points, curves |-> curves, claims |-> claims, patterns |-> patterns,
   next |-> next]
Shape(s) == s = Store(s.points, s.curves, s.claims, s.patterns, s.next)

(* A store is what its fields are.                                         *)
LEMMA StoreHas ==
  ASSUME NEW points, NEW curves, NEW claims, NEW patterns, NEW next, NEW t,
         t = Store(points, curves, claims, patterns, next)
  PROVE  /\ Shape(t) /\ t.points = points /\ t.curves = curves /\ t.claims = claims
         /\ t.patterns = patterns /\ t.next = next
BY DEF Shape, Store

(* Writing one field leaves the others.                                    *)
LEMMA WritePoints ==
  ASSUME NEW s, NEW a, NEW b, NEW c, NEW d, NEW e, s = Store(a, b, c, d, e), NEW v
  PROVE  [s EXCEPT !.points = v] = Store(v, b, c, d, e)
BY DEF Store

(* The same for its curves, ...                                            *)
LEMMA WriteCurves ==
  ASSUME NEW s, NEW a, NEW b, NEW c, NEW d, NEW e, s = Store(a, b, c, d, e), NEW v
  PROVE  [s EXCEPT !.curves = v] = Store(a, v, c, d, e)
BY DEF Store

(* ... its claims, ...                                                     *)
LEMMA WriteClaims ==
  ASSUME NEW s, NEW a, NEW b, NEW c, NEW d, NEW e, s = Store(a, b, c, d, e), NEW v
  PROVE  [s EXCEPT !.claims = v] = Store(a, b, v, d, e)
BY DEF Store

(* ... its patterns, ...                                                   *)
LEMMA WritePatterns ==
  ASSUME NEW s, NEW a, NEW b, NEW c, NEW d, NEW e, s = Store(a, b, c, d, e), NEW v
  PROVE  [s EXCEPT !.patterns = v] = Store(a, b, c, v, e)
BY DEF Store

(* ... and its counter.                                                    *)
LEMMA WriteNext ==
  ASSUME NEW s, NEW a, NEW b, NEW c, NEW d, NEW e, s = Store(a, b, c, d, e), NEW v
  PROVE  [s EXCEPT !.next = v] = Store(a, b, c, d, v)
BY DEF Store

(* What a store with some fields written is.                               *)
LEMMA NewPoints ==
  ASSUME NEW s, Shape(s), NEW v
  PROVE  [s EXCEPT !.points = v] = Store(v, s.curves, s.claims, s.patterns, s.next)
BY WritePoints DEF Shape

(* With other curves, ...                                                  *)
LEMMA NewCurves ==
  ASSUME NEW s, Shape(s), NEW v
  PROVE  [s EXCEPT !.curves = v] = Store(s.points, v, s.claims, s.patterns, s.next)
BY WriteCurves DEF Shape

(* ... claims, ...                                                         *)
LEMMA NewClaims ==
  ASSUME NEW s, Shape(s), NEW v
  PROVE  [s EXCEPT !.claims = v] = Store(s.points, s.curves, v, s.patterns, s.next)
BY WriteClaims DEF Shape

(* ... or patterns.                                                        *)
LEMMA NewPatterns ==
  ASSUME NEW s, Shape(s), NEW v
  PROVE  [s EXCEPT !.patterns = v] = Store(s.points, s.curves, s.claims, v, s.next)
BY WritePatterns DEF Shape

(* With points minted, ...                                                 *)
LEMMA NewPointsAndNext ==
  ASSUME NEW s, Shape(s), NEW v, NEW n
  PROVE  [s EXCEPT !.points = v, !.next = n] = Store(v, s.curves, s.claims, s.patterns, n)
<1> DEFINE t == [s EXCEPT !.points = v]
<1>1. [s EXCEPT !.points = v, !.next = n] = [t EXCEPT !.next = n]
  OBVIOUS
<1>2. t = Store(v, s.curves, s.claims, s.patterns, s.next)
  BY NewPoints
<1> HIDE DEF t
<1>3. [t EXCEPT !.next = n] = Store(v, s.curves, s.claims, s.patterns, n)
  BY <1>2, WriteNext
<1> QED
  BY <1>1, <1>3

(* ... curves, ...                                                         *)
LEMMA NewCurvesAndNext ==
  ASSUME NEW s, Shape(s), NEW v, NEW n
  PROVE  [s EXCEPT !.curves = v, !.next = n] = Store(s.points, v, s.claims, s.patterns, n)
<1> DEFINE t == [s EXCEPT !.curves = v]
<1>1. [s EXCEPT !.curves = v, !.next = n] = [t EXCEPT !.next = n]
  OBVIOUS
<1>2. t = Store(s.points, v, s.claims, s.patterns, s.next)
  BY NewCurves
<1> HIDE DEF t
<1>3. [t EXCEPT !.next = n] = Store(s.points, v, s.claims, s.patterns, n)
  BY <1>2, WriteNext
<1> QED
  BY <1>1, <1>3

(* ... claims, ...                                                         *)
LEMMA NewClaimsAndNext ==
  ASSUME NEW s, Shape(s), NEW v, NEW n
  PROVE  [s EXCEPT !.claims = v, !.next = n] = Store(s.points, s.curves, v, s.patterns, n)
<1> DEFINE t == [s EXCEPT !.claims = v]
<1>1. [s EXCEPT !.claims = v, !.next = n] = [t EXCEPT !.next = n]
  OBVIOUS
<1>2. t = Store(s.points, s.curves, v, s.patterns, s.next)
  BY NewClaims
<1> HIDE DEF t
<1>3. [t EXCEPT !.next = n] = Store(s.points, s.curves, v, s.patterns, n)
  BY <1>2, WriteNext
<1> QED
  BY <1>1, <1>3

(* ... patterns.                                                           *)
LEMMA NewPatternsAndNext ==
  ASSUME NEW s, Shape(s), NEW v, NEW n
  PROVE  [s EXCEPT !.patterns = v, !.next = n] = Store(s.points, s.curves, s.claims, v, n)
<1> DEFINE t == [s EXCEPT !.patterns = v]
<1>1. [s EXCEPT !.patterns = v, !.next = n] = [t EXCEPT !.next = n]
  OBVIOUS
<1>2. t = Store(s.points, s.curves, s.claims, v, s.next)
  BY NewPatterns
<1> HIDE DEF t
<1>3. [t EXCEPT !.next = n] = Store(s.points, s.curves, s.claims, v, n)
  BY <1>2, WriteNext
<1> QED
  BY <1>1, <1>3

(* With curves and points written at once.                                 *)
LEMMA NewCurvesAndPoints ==
  ASSUME NEW s, Shape(s), NEW v, NEW n
  PROVE  [s EXCEPT !.curves = v, !.points = n] = Store(n, v, s.claims, s.patterns, s.next)
<1> DEFINE t == [s EXCEPT !.curves = v]
<1>1. [s EXCEPT !.curves = v, !.points = n] = [t EXCEPT !.points = n]
  OBVIOUS
<1>2. t = Store(s.points, v, s.claims, s.patterns, s.next)
  BY NewCurves
<1> HIDE DEF t
<1>3. [t EXCEPT !.points = n] = Store(n, v, s.claims, s.patterns, s.next)
  BY <1>2, WritePoints
<1> QED
  BY <1>1, <1>3

(***************************************************************************)
(* What keeps a store a store.                                             *)
(***************************************************************************)

(* What is said of a store, field by field.                                *)
LEMMA StoreFacts ==
  ASSUME NEW s, NEW P, IsStoreBut(s, P)
  PROVE  /\ Shape(s) /\ s.next \in Nat
         /\ \A p \in DOMAIN s.points : p \in Nat /\ p < s.next
         /\ \A c \in DOMAIN s.curves :
              /\ c \in Nat /\ c < s.next /\ IsCurve(s.curves[c])
              /\ Elements(s.curves[c].points) \subseteq DOMAIN s.points \cup P
         /\ ArmsAreTheirOwn(s)
BY DEF IsStoreBut, Shape, Store

(* A store that promises nothing may promise more.                         *)
LEMMA PromisesMore ==
  ASSUME NEW s, NEW P, IsStore(s)
  PROVE  IsStoreBut(s, P)
BY DEF IsStore, IsStoreBut

(* And back.                                                               *)
LEMMA FactsStore ==
  ASSUME NEW s, NEW P, Shape(s), s.next \in Nat,
         \A p \in DOMAIN s.points : p \in Nat /\ p < s.next,
         \A c \in DOMAIN s.curves :
           /\ c \in Nat /\ c < s.next /\ IsCurve(s.curves[c])
           /\ Elements(s.curves[c].points) \subseteq DOMAIN s.points \cup P,
         ArmsAreTheirOwn(s)
  PROVE  IsStoreBut(s, P)
BY DEF IsStoreBut, Shape, Store

(* Curves may go, points no curve needs may go, fresh points may come, and *)
(* claims and patterns change at will.                                     *)
LEMMA StaysAStore ==
  ASSUME NEW s, NEW t, NEW P, NEW Q, IsStoreBut(s, P), Shape(t),
         t.next \in Nat, s.next <= t.next,
         \A p \in DOMAIN t.points :
           \/ p \in DOMAIN s.points /\ t.points[p] = s.points[p]
           \/ p \in Nat /\ s.next <= p /\ p < t.next,
         \A c \in DOMAIN t.curves :
           /\ c \in DOMAIN s.curves /\ t.curves[c] = s.curves[c]
           /\ Elements(t.curves[c].points) \subseteq DOMAIN t.points \cup Q
  PROVE  IsStoreBut(t, Q)
<1>1. /\ s.next \in Nat
      /\ \A p \in DOMAIN s.points : p \in Nat /\ p < s.next
      /\ \A c \in DOMAIN s.curves : c \in Nat /\ c < s.next /\ IsCurve(s.curves[c])
      /\ ArmsAreTheirOwn(s)
  BY StoreFacts
<1>2. \A p \in DOMAIN t.points : p \in Nat /\ p < t.next
  BY <1>1
<1>3. \A c \in DOMAIN t.curves :
        /\ c \in Nat /\ c < t.next /\ IsCurve(t.curves[c])
        /\ Elements(t.curves[c].points) \subseteq DOMAIN t.points \cup Q
  BY <1>1
<1>4. ArmsAreTheirOwn(t)
  <2> SUFFICES ASSUME NEW c \in DOMAIN t.curves, NEW arm \in Arms(t.curves[c])
               PROVE  /\ arm \in Nat /\ arm < t.next
                      /\ arm \in DOMAIN t.points => t.points[arm] = "anchored"
                      /\ \A d \in OfKind(t, {"controlSpline"}) :
                            arm \notin Elements(t.curves[d].points)
    BY DEF ArmsAreTheirOwn
  <2>1. c \in DOMAIN s.curves /\ arm \in Arms(s.curves[c])
    OBVIOUS
  <2>2. /\ arm \in Nat /\ arm < s.next
        /\ arm \in DOMAIN s.points => s.points[arm] = "anchored"
        /\ \A d \in OfKind(s, {"controlSpline"}) : arm \notin Elements(s.curves[d].points)
    BY <1>1, <2>1 DEF ArmsAreTheirOwn
  <2>3. arm < t.next
    BY <1>1, <2>2
  <2>4. arm \in DOMAIN t.points => t.points[arm] = "anchored"
    BY <1>1, <2>2
  <2>5. ASSUME NEW d \in OfKind(t, {"controlSpline"})
        PROVE  arm \notin Elements(t.curves[d].points)
    BY <2>2, <2>5 DEF OfKind
  <2> QED
    BY <2>2, <2>3, <2>4, <2>5
<1> QED
  BY <1>2, <1>3, <1>4, FactsStore

(* Every curve but these stays, and every point of the author's but these  *)
(* stays the author's.                                                     *)
Keeps(s, t, curves, points) ==
  /\ DOMAIN s.curves \ curves \subseteq DOMAIN t.curves
  /\ \A p \in DOMAIN s.points \ points :
       s.points[p] = "free" => p \in DOMAIN t.points /\ t.points[p] = "free"

(* What one edit keeps and the next one keeps is kept.                     *)
LEMMA KeepsOn ==
  ASSUME NEW s, NEW t, NEW u, NEW curves, NEW points, Keeps(s, t, curves, points), Keeps(t, u, {}, {})
  PROVE  Keeps(s, u, curves, points)
BY DEF Keeps

(* A minted point is fresh.                                                *)
IsMinted(s, t) ==
  /\ DOMAIN t.points = DOMAIN s.points \cup {s.next}
  /\ t.curves = s.curves /\ t.next = s.next + 1 /\ Keeps(s, t, {}, {})

LEMMA MintedPoint ==
  ASSUME NEW s, NEW P, IsStoreBut(s, P), NEW lifetime, NEW t, t = AddPoint(s, lifetime)
  PROVE  IsStoreBut(t, P \ {s.next}) /\ IsMinted(s, t)
<1>1. /\ Shape(s) /\ s.next \in Nat
      /\ \A p \in DOMAIN s.points : p \in Nat /\ p < s.next
      /\ \A c \in DOMAIN s.curves : Elements(s.curves[c].points) \subseteq DOMAIN s.points \cup P
  BY StoreFacts
<1>2. t = Store(With(s.points, s.next, lifetime), s.curves, s.claims, s.patterns, s.next + 1)
  BY <1>1, NewPointsAndNext DEF AddPoint
<1>3. /\ Shape(t) /\ t.points = With(s.points, s.next, lifetime) /\ t.curves = s.curves
      /\ t.next = s.next + 1
  BY <1>2, StoreHas
<1>4. s.next \notin DOMAIN s.points
  BY <1>1
<1>5. /\ DOMAIN t.points = DOMAIN s.points \cup {s.next} /\ t.points[s.next] = lifetime
      /\ \A p \in DOMAIN s.points : t.points[p] = s.points[p]
  BY <1>3, <1>4 DEF With
<1>6. t.next \in Nat /\ s.next <= t.next /\ s.next < t.next
  BY <1>1, <1>3
<1>7. \A p \in DOMAIN t.points :
        \/ p \in DOMAIN s.points /\ t.points[p] = s.points[p]
        \/ p \in Nat /\ s.next <= p /\ p < t.next
  BY <1>1, <1>5, <1>6
<1>8. \A c \in DOMAIN t.curves :
        /\ c \in DOMAIN s.curves /\ t.curves[c] = s.curves[c]
        /\ Elements(t.curves[c].points) \subseteq DOMAIN t.points \cup (P \ {s.next})
  BY <1>1, <1>3, <1>5
<1>9. IsStoreBut(t, P \ {s.next})
  BY <1>3, <1>6, <1>7, <1>8, StaysAStore
<1>10. Keeps(s, t, {}, {})
  BY <1>3, <1>5 DEF Keeps
<1> QED
  BY <1>3, <1>5, <1>9, <1>10 DEF IsMinted

(* So are the points of a row.                                             *)
IsPlanted(s, t, n, inner) ==
  /\ DOMAIN t.points = DOMAIN s.points \cup (s.next .. s.next + n - 1)
  /\ \A p \in s.next .. s.next + n - 1 :
       t.points[p] = IF p - s.next + 1 \in inner THEN "anchored" ELSE "free"
  /\ t.curves = s.curves /\ t.next = s.next + n /\ Keeps(s, t, {}, {})

LEMMA PlantedRow ==
  ASSUME NEW s, NEW P, IsStoreBut(s, P), NEW n \in Nat, NEW inner
  PROVE  /\ IsStoreBut(Planted(s, n, inner), P \ (s.next .. s.next + n - 1))
         /\ IsPlanted(s, Planted(s, n, inner), n, inner)
<1> DEFINE row == s.next .. s.next + n - 1
           points == [p \in DOMAIN s.points \cup row |->
                        IF p < s.next THEN s.points[p]
                        ELSE IF p - s.next + 1 \in inner THEN "anchored" ELSE "free"]
           t == Planted(s, n, inner)
<1>1. /\ Shape(s) /\ s.next \in Nat
      /\ \A p \in DOMAIN s.points : p \in Nat /\ p < s.next
      /\ \A c \in DOMAIN s.curves : Elements(s.curves[c].points) \subseteq DOMAIN s.points \cup P
  BY StoreFacts
<1>2. t = [s EXCEPT !.points = points, !.next = s.next + n]
  BY DEF Planted
<1>3. /\ DOMAIN points = DOMAIN s.points \cup row
      /\ \A p \in DOMAIN s.points : points[p] = s.points[p]
      /\ \A p \in row : points[p] = IF p - s.next + 1 \in inner THEN "anchored" ELSE "free"
  BY <1>1
<1>4. \A p \in row : p \in Nat /\ s.next <= p /\ p < s.next + n
  BY <1>1
<1> HIDE DEF points, row, t
<1>5. t = Store(points, s.curves, s.claims, s.patterns, s.next + n)
  BY <1>1, <1>2, NewPointsAndNext
<1>6. Shape(t) /\ t.points = points /\ t.curves = s.curves /\ t.next = s.next + n
  BY <1>5, StoreHas
<1>7. t.next \in Nat /\ s.next <= t.next
  BY <1>1, <1>6
<1>8. \A p \in DOMAIN t.points :
        \/ p \in DOMAIN s.points /\ t.points[p] = s.points[p]
        \/ p \in Nat /\ s.next <= p /\ p < t.next
  BY <1>3, <1>4, <1>6
<1>9. \A c \in DOMAIN t.curves :
        /\ c \in DOMAIN s.curves /\ t.curves[c] = s.curves[c]
        /\ Elements(t.curves[c].points) \subseteq DOMAIN t.points \cup (P \ row)
  BY <1>1, <1>3, <1>6
<1>10. IsStoreBut(t, P \ row)
  BY <1>6, <1>7, <1>8, <1>9, StaysAStore
<1>11. Keeps(s, t, {}, {})
  BY <1>3, <1>6 DEF Keeps
<1> QED
  BY <1>3, <1>6, <1>10, <1>11 DEF row, t, IsPlanted

(* A drawn curve is a fresh one without levers.  It may name points still  *)
(* to be minted; a control spline is drawn on no arm.                      *)
CanDraw(s, promised, kind, points) ==
  /\ kind \in DOMAIN DrawnFrom /\ points \in Seq(Nat) /\ Len(points) >= DrawnFrom[kind]
  /\ Elements(points) \subseteq DOMAIN s.points \cup promised
  /\ kind = "controlSpline" =>
       \A c \in DOMAIN s.curves : Arms(s.curves[c]) \cap Elements(points) = {}
IsDrawn(s, t) ==
  /\ t.points = s.points /\ t.next = s.next + 1
  /\ DOMAIN t.curves = DOMAIN s.curves \cup {s.next} /\ Keeps(s, t, {}, {})

LEMMA AddedCurve ==
  ASSUME NEW s, NEW Q, IsStoreBut(s, Q), NEW kind, NEW points, CanDraw(s, Q, kind, points), NEW role
  PROVE  /\ IsStoreBut(AddCurve(s, kind, points, role), Q)
         /\ IsDrawn(s, AddCurve(s, kind, points, role))
<1> DEFINE curve == [kind |-> kind, points |-> points, levers |-> << >>, role |-> role]
           t == AddCurve(s, kind, points, role)
<1>1. /\ Shape(s) /\ s.next \in Nat
      /\ \A p \in DOMAIN s.points : p \in Nat /\ p < s.next
      /\ \A c \in DOMAIN s.curves :
           /\ c \in Nat /\ c < s.next /\ IsCurve(s.curves[c])
           /\ Elements(s.curves[c].points) \subseteq DOMAIN s.points \cup Q
      /\ ArmsAreTheirOwn(s)
      /\ kind \in DOMAIN DrawnFrom /\ points \in Seq(Nat) /\ Len(points) >= DrawnFrom[kind]
      /\ Elements(points) \subseteq DOMAIN s.points \cup Q
      /\ kind = "controlSpline" =>
           \A c \in DOMAIN s.curves : Arms(s.curves[c]) \cap Elements(points) = {}
  BY StoreFacts DEF CanDraw
<1>2. t = [s EXCEPT !.curves = With(s.curves, s.next, curve), !.next = s.next + 1]
  BY DEF AddCurve
<1>3. curve.kind = kind /\ curve.points = points /\ Arms(curve) = {}
  BY DEF Arms
<1>4. IsCurve(curve)
  BY <1>1, <1>3 DEF IsCurve
<1> HIDE DEF curve, t
<1>5. t = Store(s.points, With(s.curves, s.next, curve), s.claims, s.patterns, s.next + 1)
  BY <1>1, <1>2, NewCurvesAndNext
<1>6. /\ Shape(t) /\ t.points = s.points /\ t.curves = With(s.curves, s.next, curve)
      /\ t.next = s.next + 1
  BY <1>5, StoreHas
<1>7. s.next \notin DOMAIN s.curves
  BY <1>1
<1>8. /\ DOMAIN t.curves = DOMAIN s.curves \cup {s.next} /\ t.curves[s.next] = curve
      /\ \A c \in DOMAIN s.curves : t.curves[c] = s.curves[c]
  BY <1>6, <1>7 DEF With
<1>9. t.next \in Nat /\ s.next < t.next
  BY <1>1, <1>6
<1>10. \A p \in DOMAIN t.points : p \in Nat /\ p < t.next
  BY <1>1, <1>6
<1>11. \A c \in DOMAIN t.curves :
         /\ c \in Nat /\ c < t.next /\ IsCurve(t.curves[c])
         /\ Elements(t.curves[c].points) \subseteq DOMAIN t.points \cup Q
  <2> TAKE c \in DOMAIN t.curves
  <2>1. CASE c = s.next
    BY <1>1, <1>3, <1>4, <1>6, <1>8, <1>9, <2>1
  <2>2. CASE c \in DOMAIN s.curves
    BY <1>1, <1>6, <1>8, <1>9, <2>2
  <2> QED
    BY <1>8, <2>1, <2>2
<1>12. ArmsAreTheirOwn(t)
  <2> SUFFICES ASSUME NEW c \in DOMAIN t.curves, NEW arm \in Arms(t.curves[c])
               PROVE  /\ arm \in Nat /\ arm < t.next
                      /\ arm \in DOMAIN t.points => t.points[arm] = "anchored"
                      /\ \A d \in OfKind(t, {"controlSpline"}) :
                            arm \notin Elements(t.curves[d].points)
    BY DEF ArmsAreTheirOwn
  <2>1. c \in DOMAIN s.curves /\ arm \in Arms(s.curves[c])
    BY <1>3, <1>8
  <2>2. /\ arm \in Nat /\ arm < s.next
        /\ arm \in DOMAIN s.points => s.points[arm] = "anchored"
        /\ \A d \in OfKind(s, {"controlSpline"}) : arm \notin Elements(s.curves[d].points)
    BY <1>1, <2>1 DEF ArmsAreTheirOwn
  <2>3. arm < t.next
    BY <1>1, <1>9, <2>2
  <2>4. ASSUME NEW d \in OfKind(t, {"controlSpline"})
        PROVE  arm \notin Elements(t.curves[d].points)
    <3>1. d \in DOMAIN t.curves /\ t.curves[d].kind = "controlSpline"
      BY DEF OfKind
    <3>2. CASE d = s.next
      BY <1>1, <1>3, <1>8, <2>1, <3>1, <3>2
    <3>3. CASE d \in DOMAIN s.curves
      BY <1>8, <2>2, <3>1, <3>3 DEF OfKind
    <3> QED
      BY <1>8, <3>1, <3>2, <3>3
  <2> QED
    BY <1>6, <2>2, <2>3, <2>4
<1>13. IsStoreBut(t, Q)
  BY <1>6, <1>9, <1>10, <1>11, <1>12, FactsStore
<1>14. Keeps(s, t, {}, {})
  BY <1>6, <1>8 DEF Keeps
<1> QED
  BY <1>6, <1>8, <1>13, <1>14 DEF t, IsDrawn

(* Claims and patterns change nothing a curve stands on.                   *)
LEMMA RestStays ==
  ASSUME NEW s, NEW P, IsStoreBut(s, P), NEW t, Shape(t), t.points = s.points, t.curves = s.curves,
         t.next \in {s.next, s.next + 1}
  PROVE  IsStoreBut(t, P) /\ Keeps(s, t, {}, {})
<1>1. /\ s.next \in Nat
      /\ \A c \in DOMAIN s.curves : Elements(s.curves[c].points) \subseteq DOMAIN s.points \cup P
  BY StoreFacts
<1>2. t.next \in Nat /\ s.next <= t.next
  BY <1>1
<1>3. IsStoreBut(t, P)
  BY <1>1, <1>2, StaysAStore
<1> QED
  BY <1>3 DEF Keeps

(* A curve less: what the others stand on is there.                        *)
LEMMA CurveGone ==
  ASSUME NEW s, IsStore(s), NEW c, NEW t, t = WithoutCurve(s, c)
  PROVE  /\ IsStore(t) /\ t.points = s.points /\ t.next = s.next
         /\ DOMAIN t.curves = DOMAIN s.curves \ {c}
         /\ \A d \in DOMAIN t.curves : t.curves[d] = s.curves[d]
         /\ Keeps(s, t, {c}, {})
<1>1. /\ Shape(s) /\ s.next \in Nat
      /\ \A d \in DOMAIN s.curves : Elements(s.curves[d].points) \subseteq DOMAIN s.points \cup {}
  BY StoreFacts DEF IsStore
<1> DEFINE left == Only(s.curves, DOMAIN s.curves \ {c})
<1>2. t = [s EXCEPT !.curves = left]
  BY DEF WithoutCurve
<1>3. DOMAIN left = DOMAIN s.curves \ {c} /\ \A d \in DOMAIN left : left[d] = s.curves[d]
  BY DEF Only
<1> HIDE DEF left
<1>4. t = Store(s.points, left, s.claims, s.patterns, s.next)
  BY <1>1, <1>2, NewCurves
<1>5. Shape(t) /\ t.points = s.points /\ t.curves = left /\ t.next = s.next
  BY <1>4, StoreHas
<1>6. IsStoreBut(t, {})
  BY <1>1, <1>3, <1>5, StaysAStore DEF IsStore
<1> QED
  BY <1>3, <1>5, <1>6 DEF IsStore, Keeps

(***************************************************************************)
(* The cascades.                                                           *)
(***************************************************************************)

(* Points no curve is drawn on may go.                                     *)
PointsLeft(s, gone) == [s EXCEPT !.points = Only(s.points, DOMAIN s.points \ gone)]

(* The curves do not notice.                                               *)
LEMMA PointsGone ==
  ASSUME NEW s, IsStore(s), NEW gone, gone \cap DrawnPoints(s) = {}, NEW t, t = PointsLeft(s, gone)
  PROVE  /\ IsStore(t) /\ t.curves = s.curves /\ t.claims = s.claims /\ t.patterns = s.patterns
         /\ DOMAIN t.points = DOMAIN s.points \ gone
         /\ \A p \in DOMAIN t.points : t.points[p] = s.points[p]
<1>1. /\ Shape(s) /\ s.next \in Nat
      /\ \A c \in DOMAIN s.curves : Elements(s.curves[c].points) \subseteq DOMAIN s.points \cup {}
  BY StoreFacts DEF IsStore
<1> DEFINE left == Only(s.points, DOMAIN s.points \ gone)
<1>2. DOMAIN left = DOMAIN s.points \ gone /\ \A p \in DOMAIN left : left[p] = s.points[p]
  BY DEF Only
<1>3. t = [s EXCEPT !.points = left]
  BY DEF PointsLeft
<1> HIDE DEF left
<1>4. t = Store(left, s.curves, s.claims, s.patterns, s.next)
  BY <1>1, <1>3, NewPoints
<1>5. /\ Shape(t) /\ t.points = left /\ t.curves = s.curves /\ t.claims = s.claims
      /\ t.patterns = s.patterns /\ t.next = s.next
  BY <1>4, StoreHas
<1>6. \A c \in DOMAIN s.curves : Elements(s.curves[c].points) \subseteq DOMAIN s.points \ gone
  BY <1>1 DEF DrawnPoints
<1>7. IsStoreBut(t, {})
  BY <1>1, <1>2, <1>5, <1>6, StaysAStore DEF IsStore
<1> QED
  BY <1>2, <1>5, <1>7 DEF IsStore

(* The sweep of centers takes no point of the author's.                    *)
LEMMA OrphansGone ==
  ASSUME NEW s, IsStore(s), NEW t, t = PruneOrphanCenters(s)
  PROVE  /\ IsStore(t) /\ t.curves = s.curves /\ t.claims = s.claims /\ t.patterns = s.patterns
         /\ Keeps(s, t, {}, {})
<1>1. Orphans(s) \cap DrawnPoints(s) = {}
  BY DEF Orphans, ReferencedPoints
<1>2. \A p \in Orphans(s) : s.points[p] # "free"
  BY DEF Orphans
<1>3. t = PointsLeft(s, Orphans(s))
  BY DEF PruneOrphanCenters, PointsLeft
<1>4. /\ IsStore(t) /\ t.curves = s.curves /\ t.claims = s.claims /\ t.patterns = s.patterns
      /\ DOMAIN t.points = DOMAIN s.points \ Orphans(s)
      /\ \A p \in DOMAIN t.points : t.points[p] = s.points[p]
  BY <1>1, <1>3, PointsGone
<1> QED
  BY <1>2, <1>4 DEF Keeps

(* The points a curve leaves behind go, unless another curve draws them.   *)
LEMMA UndrawnGone ==
  ASSUME NEW s, IsStore(s), NEW candidates, NEW t, t = DropUndrawnPoints(s, candidates)
  PROVE  IsStore(t) /\ t.curves = s.curves /\ Keeps(s, t, {}, candidates)
<1> DEFINE gone == candidates \ DrawnPoints(s)
<1>1. t = PointsLeft(s, gone)
  BY DEF DropUndrawnPoints, PointsLeft
<1>2. gone \cap DrawnPoints(s) = {} /\ gone \subseteq candidates
  OBVIOUS
<1> HIDE DEF gone
<1>3. /\ IsStore(t) /\ t.curves = s.curves
      /\ DOMAIN t.points = DOMAIN s.points \ gone
      /\ \A p \in DOMAIN t.points : t.points[p] = s.points[p]
  BY <1>1, <1>2, PointsGone
<1> QED
  BY <1>2, <1>3 DEF Keeps

(* Nothing is left about what is gone.                                     *)
Settles(s) ==
  /\ \A k \in DOMAIN s.claims : ClaimStands(s, s.claims[k])
  /\ \A k \in DOMAIN s.patterns : PatternStands(s, s.patterns[k])

(* Whether a claim or a pattern stands is a matter of points and curves.   *)
LEMMA StandingIsLocal ==
  ASSUME NEW s, NEW t, t.points = s.points, t.curves = s.curves
  PROVE  /\ \A claim : ClaimStands(t, claim) <=> ClaimStands(s, claim)
         /\ \A pattern : PatternStands(t, pattern) <=> PatternStands(s, pattern)
BY DEF ClaimStands, PatternStands, Segments, OfKind

(* Patterns that stand are left, ...                                       *)
LEMMA PatternsDropped ==
  ASSUME NEW s, IsStore(s), NEW t, t = DropDanglingPatterns(s)
  PROVE  /\ IsStore(t) /\ t.points = s.points /\ t.curves = s.curves
         /\ \A k \in DOMAIN t.patterns : PatternStands(t, t.patterns[k])
<1>1. Shape(s)
  BY StoreFacts DEF IsStore
<1> DEFINE left == Only(s.patterns, {k \in DOMAIN s.patterns : PatternStands(s, s.patterns[k])})
<1>2. \A k \in DOMAIN left : PatternStands(s, left[k])
  BY DEF Only
<1>3. t = [s EXCEPT !.patterns = left]
  BY DEF DropDanglingPatterns
<1> HIDE DEF left
<1>4. t = Store(s.points, s.curves, s.claims, left, s.next)
  BY <1>1, <1>3, NewPatterns
<1>5. Shape(t) /\ t.points = s.points /\ t.curves = s.curves /\ t.patterns = left /\ t.next = s.next
  BY <1>4, StoreHas
<1>6. IsStoreBut(t, {})
  BY <1>5, RestStays DEF IsStore
<1> QED
  BY <1>2, <1>5, <1>6, StandingIsLocal DEF IsStore

(* ... and claims.                                                         *)
LEMMA ClaimsDropped ==
  ASSUME NEW s, IsStore(s), NEW t, t = DropDanglingConstraints(s)
  PROVE  /\ IsStore(t) /\ t.points = s.points /\ t.curves = s.curves /\ t.patterns = s.patterns
         /\ \A k \in DOMAIN t.claims : ClaimStands(t, t.claims[k])
<1>1. Shape(s)
  BY StoreFacts DEF IsStore
<1> DEFINE left == Only(s.claims, {k \in DOMAIN s.claims : ClaimStands(s, s.claims[k])})
<1>2. \A k \in DOMAIN left : ClaimStands(s, left[k])
  BY DEF Only
<1>3. t = [s EXCEPT !.claims = left]
  BY DEF DropDanglingConstraints
<1> HIDE DEF left
<1>4. t = Store(s.points, s.curves, left, s.patterns, s.next)
  BY <1>1, <1>3, NewClaims
<1>5. /\ Shape(t) /\ t.points = s.points /\ t.curves = s.curves /\ t.claims = left
      /\ t.patterns = s.patterns /\ t.next = s.next
  BY <1>4, StoreHas
<1>6. IsStoreBut(t, {})
  BY <1>5, RestStays DEF IsStore
<1> QED
  BY <1>2, <1>5, <1>6, StandingIsLocal DEF IsStore

(* A settled store has nothing about what is gone, and every curve and     *)
(* every point of the author's it had.                                     *)
LEMMA SettledIs ==
  ASSUME NEW s, IsStore(s), NEW t, t = Settled(s)
  PROVE  IsStore(t) /\ t.curves = s.curves /\ Keeps(s, t, {}, {}) /\ Settles(t)
<1> DEFINE pruned == PruneOrphanCenters(s)
           patterned == DropDanglingPatterns(pruned)
<1>1. IsStore(pruned) /\ pruned.curves = s.curves /\ Keeps(s, pruned, {}, {})
  BY OrphansGone
<1>2. /\ IsStore(patterned) /\ patterned.points = pruned.points /\ patterned.curves = pruned.curves
      /\ \A k \in DOMAIN patterned.patterns : PatternStands(patterned, patterned.patterns[k])
  <2> HIDE DEF pruned
  <2> QED
    BY <1>1, PatternsDropped
<1>3. /\ IsStore(t) /\ t.points = patterned.points /\ t.curves = patterned.curves
      /\ t.patterns = patterned.patterns
      /\ \A k \in DOMAIN t.claims : ClaimStands(t, t.claims[k])
  <2>1. t = DropDanglingConstraints(patterned)
    BY DEF Settled
  <2> HIDE DEF patterned
  <2> QED
    BY <1>2, <2>1, ClaimsDropped
<1> HIDE DEF patterned, pruned
<1>4. \A k \in DOMAIN t.patterns : PatternStands(t, t.patterns[k])
  BY <1>2, <1>3, StandingIsLocal
<1>5. Keeps(s, t, {}, {})
  BY <1>1, <1>2, <1>3 DEF Keeps
<1> QED
  BY <1>1, <1>2, <1>3, <1>4, <1>5 DEF Settles

(***************************************************************************)
(* Deleting.                                                               *)
(***************************************************************************)

(* What a curve of a store is.                                             *)
LEMMA CurveFacts ==
  ASSUME NEW s, NEW P, IsStoreBut(s, P), NEW c \in DOMAIN s.curves
  PROVE  /\ s.curves[c].kind \in DOMAIN DrawnFrom
         /\ s.curves[c].points \in Seq(Nat) /\ Len(s.curves[c].points) \in Nat
         /\ Len(s.curves[c].points) >= DrawnFrom[s.curves[c].kind]
         /\ \A i \in 1 .. Len(s.curves[c].points) :
              /\ s.curves[c].points[i] \in Elements(s.curves[c].points)
              /\ s.curves[c].points[i] \in Nat
         /\ Elements(s.curves[c].points) \subseteq DOMAIN s.points \cup P
<1>1. IsCurve(s.curves[c]) /\ Elements(s.curves[c].points) \subseteq DOMAIN s.points \cup P
  BY StoreFacts
<1>2. s.curves[c].points \in Seq(Nat)
  BY <1>1 DEF IsCurve
<1> QED
  BY <1>1, <1>2 DEF IsCurve, Elements

(* A stroke takes its ends and leaves nothing about what is gone.          *)
LEMMA StrokeDeleted ==
  ASSUME NEW s, IsStore(s), NEW c \in DOMAIN s.curves, NEW t, t = DeleteStroke(s, c)
  PROVE  IsStore(t) /\ Keeps(s, t, {c}, Elements(s.curves[c].points)) /\ Settles(t)
<1> DEFINE ends == IF s.curves[c].kind = "arc" THEN {s.curves[c].points[1], s.curves[c].points[2]}
                   ELSE Elements(s.curves[c].points)
           u == WithoutCurve(s, c)
           v == DropUndrawnPoints(u, ends)
<1>1. ends \subseteq Elements(s.curves[c].points)
  <2> DEFINE n == Len(s.curves[c].points)
  <2>1. /\ n \in Nat /\ n >= DrawnFrom[s.curves[c].kind]
        /\ \A i \in 1 .. n : s.curves[c].points[i] \in Elements(s.curves[c].points)
    BY CurveFacts DEF IsStore
  <2>2. s.curves[c].kind = "arc" => n >= 3
    BY <2>1 DEF DrawnFrom
  <2> HIDE DEF n
  <2>3. s.curves[c].kind = "arc" => 1 \in 1 .. n /\ 2 \in 1 .. n
    BY <2>1, <2>2
  <2> QED
    BY <2>1, <2>3
<1>2. IsStore(u) /\ u.points = s.points /\ Keeps(s, u, {c}, {})
  BY CurveGone
<1>3. t = Settled(v)
  BY DEF DeleteStroke
<1> HIDE DEF ends, u
<1>4. IsStore(v) /\ Keeps(u, v, {}, ends)
  BY <1>2, UndrawnGone
<1> HIDE DEF v
<1>5. IsStore(t) /\ Keeps(v, t, {}, {}) /\ Settles(t)
  BY <1>3, <1>4, SettledIs
<1>6. Keeps(s, t, {c}, Elements(s.curves[c].points))
  BY <1>1, <1>2, <1>4, <1>5 DEF Keeps
<1> QED
  BY <1>5, <1>6

(* A deleted curve takes no other curve and no point of the author's but   *)
(* of its own; what is left is about nothing gone, where the delete        *)
(* sweeps (delete_segment to delete_spline).                               *)
LEMMA CurveDeleted ==
  ASSUME NEW s, IsStore(s), NEW c \in DOMAIN s.curves, NEW t, t = DeleteCurve(s, c)
  PROVE  /\ IsStore(t) /\ Keeps(s, t, {c}, Elements(s.curves[c].points))
         /\ s.curves[c].kind \notin Unsettled => Settles(t)
<1> DEFINE kind == s.curves[c].kind
           drawn == Elements(s.curves[c].points)
           arms == Arms(s.curves[c])
           u == WithoutCurve(s, c)
<1>1. IsStore(u) /\ u.points = s.points /\ Keeps(s, u, {c}, {})
  BY CurveGone
<1>2. kind \in DOMAIN DrawnFrom
  BY CurveFacts DEF IsStore
<1>3. \A p \in arms : p \in DOMAIN s.points => s.points[p] # "free"
  BY StoreFacts DEF ArmsAreTheirOwn, IsStore
<1> HIDE DEF u
<1>4. CASE kind \in {"segment", "arc", "bezier"}
  <2>1. t = DeleteStroke(s, c)
    BY <1>4 DEF DeleteCurve
  <2> QED
    BY <2>1, StrokeDeleted
<1>5. CASE kind = "circle"
  <2>1. t = Settled(u)
    BY <1>5 DEF DeleteCurve, DeleteCircle, u
  <2>2. IsStore(t) /\ Keeps(u, t, {}, {}) /\ Settles(t)
    BY <1>1, <2>1, SettledIs
  <2> QED
    BY <1>1, <2>2 DEF Keeps
<1>6. CASE kind = "ellipse"
  <2>1. t = PruneOrphanCenters(u)
    BY <1>6 DEF DeleteCurve, DeleteEllipse, u
  <2>2. IsStore(t) /\ Keeps(u, t, {}, {})
    BY <1>1, <2>1, OrphansGone
  <2> QED
    BY <1>1, <1>6, <2>2 DEF Keeps, Unsettled
<1>7. CASE kind = "conic"
  <2>1. t = DropUndrawnPoints(u, drawn)
    BY <1>7 DEF DeleteCurve, DeleteConic, u
  <2> HIDE DEF drawn
  <2>2. IsStore(t) /\ Keeps(u, t, {}, drawn)
    BY <1>1, <2>1, UndrawnGone
  <2> QED
    BY <1>1, <1>7, <2>2 DEF Keeps, Unsettled, drawn
<1>8. CASE kind \in {"fitSpline", "controlSpline"}
  <2> DEFINE v == DropUndrawnPoints(u, drawn \cup arms)
  <2>1. t = PruneOrphanCenters(v)
    BY <1>8 DEF DeleteCurve, DeleteSpline, u
  <2>2. IsStore(v) /\ Keeps(u, v, {}, drawn \cup arms)
    <3> HIDE DEF drawn, arms
    <3> QED
      BY <1>1, UndrawnGone
  <2> HIDE DEF v
  <2>3. IsStore(t) /\ Keeps(v, t, {}, {})
    BY <2>1, <2>2, OrphansGone
  <2> HIDE DEF drawn, arms
  <2>4. Keeps(s, t, {c}, drawn)
    BY <1>1, <1>3, <2>2, <2>3 DEF Keeps
  <2> QED
    BY <1>8, <2>3, <2>4 DEF Unsettled, drawn
<1> QED
  BY <1>2, <1>4, <1>5, <1>6, <1>7, <1>8 DEF DrawnFrom

(* A curve with some of its fields written.                                *)
Curve(kind, points, levers, role) ==
  [kind |-> kind, points |-> points, levers |-> levers, role |-> role]

(* What such a curve is.                                                   *)
LEMMA CurveHas ==
  ASSUME NEW kind, NEW points, NEW levers, NEW role, NEW r, r = Curve(kind, points, levers, role)
  PROVE  /\ r = Curve(r.kind, r.points, r.levers, r.role)
         /\ r.kind = kind /\ r.points = points /\ r.levers = levers /\ r.role = role
BY DEF Curve

(* Writing its points, ...                                                 *)
LEMMA WriteStroke ==
  ASSUME NEW r, NEW a, NEW b, NEW c, NEW d, r = Curve(a, b, c, d), NEW v
  PROVE  [r EXCEPT !.points = v] = Curve(a, v, c, d)
BY DEF Curve

(* ... its levers, ...                                                     *)
LEMMA WriteLevers ==
  ASSUME NEW r, NEW a, NEW b, NEW c, NEW d, r = Curve(a, b, c, d), NEW v
  PROVE  [r EXCEPT !.levers = v] = Curve(a, b, v, d)
BY DEF Curve

(* ... its role.                                                           *)
LEMMA WriteRole ==
  ASSUME NEW r, NEW a, NEW b, NEW c, NEW d, r = Curve(a, b, c, d), NEW v
  PROVE  [r EXCEPT !.role = v] = Curve(a, b, c, v)
BY DEF Curve

(* A spline that forgets a point is drawn on the rest, and keeps the other *)
(* levers.                                                                 *)
LEMMA HealedIs ==
  ASSUME NEW curve, IsCurve(curve), NEW p, NEW r, r = Healed(curve, p)
  PROVE  /\ r = Curve(r.kind, r.points, r.levers, r.role) /\ r.kind = curve.kind
         /\ r.points = Remaining(curve, p)
         /\ r.points \in Seq(Nat) /\ Elements(r.points) = Elements(curve.points) \ {p}
         /\ Arms(r) \subseteq Arms(curve)
<1> DEFINE levers == Only(curve.levers, DOMAIN curve.levers \ {p})
           half == [curve EXCEPT !.points = Remaining(curve, p)]
<1>1. curve = Curve(curve.kind, curve.points, curve.levers, curve.role) /\ curve.points \in Seq(Nat)
  BY DEF IsCurve, Curve
<1>2. half = Curve(curve.kind, Remaining(curve, p), curve.levers, curve.role)
  BY <1>1, WriteStroke
<1>3. r = [half EXCEPT !.levers = levers]
  BY DEF Healed
<1>4. DOMAIN levers \subseteq DOMAIN curve.levers /\ \A fit \in DOMAIN levers : levers[fit] = curve.levers[fit]
  BY DEF Only
<1> HIDE DEF levers, half
<1>5. r = Curve(curve.kind, Remaining(curve, p), levers, curve.role)
  BY <1>2, <1>3, WriteLevers
<1>6. /\ r = Curve(r.kind, r.points, r.levers, r.role) /\ r.kind = curve.kind
      /\ r.points = Remaining(curve, p) /\ r.levers = levers
  BY <1>5, CurveHas
<1>7. r.points \in Seq(Nat) /\ Elements(r.points) = Elements(curve.points) \ {p}
  BY <1>1, <1>6, WithoutIs DEF Remaining
<1>8. Arms(r) \subseteq Arms(curve)
  BY <1>4, <1>6 DEF Arms
<1> QED
  BY <1>6, <1>7, <1>8

(* A deleted point takes the curves that cannot do without it and no other *)
(* point of the author's; an arm stays (delete_point_cascade).             *)
LEMMA PointDeleted ==
  ASSUME NEW s, IsStore(s), NEW p \in DOMAIN s.points, NEW t, t = DeletePointCascade(s, p)
  PROVE  /\ IsStore(t) /\ Keeps(s, t, DOMAIN s.curves, {p})
         /\ \A c \in DOMAIN s.curves \ DOMAIN t.curves : p \in Elements(s.curves[c].points)
         /\ t = s \/ Settles(t)
<1>1. CASE IsTangentHandle(s, p)
  BY <1>1 DEF DeletePointCascade, Keeps
<1>2. CASE ~IsTangentHandle(s, p)
  <2> DEFINE kept == {c \in DOMAIN s.curves : Survives(s, c, p)}
             promoted == UNION {PromotedBy(s.curves[c], p) : c \in kept}
             curves == [c \in kept |-> IF p \in Elements(s.curves[c].points)
                                       THEN Healed(s.curves[c], p) ELSE s.curves[c]]
             points == [q \in DOMAIN s.points \ {p} |->
                          IF q \in promoted THEN "free" ELSE s.points[q]]
             u == [s EXCEPT !.curves = curves, !.points = points]
  <2>1. t = Settled(u)
    BY <1>2 DEF DeletePointCascade
  <2>2. /\ Shape(s) /\ s.next \in Nat
        /\ \A q \in DOMAIN s.points : q \in Nat /\ q < s.next
        /\ \A c \in DOMAIN s.curves :
             /\ c \in Nat /\ c < s.next /\ IsCurve(s.curves[c])
             /\ Elements(s.curves[c].points) \subseteq DOMAIN s.points \cup {}
        /\ ArmsAreTheirOwn(s)
    BY StoreFacts DEF IsStore
  <2>3. /\ DOMAIN curves = kept /\ kept \subseteq DOMAIN s.curves
        /\ \A c \in kept : curves[c] = IF p \in Elements(s.curves[c].points)
                                        THEN Healed(s.curves[c], p) ELSE s.curves[c]
    OBVIOUS
  <2>4. /\ DOMAIN points = DOMAIN s.points \ {p}
        /\ \A q \in DOMAIN points : points[q] = IF q \in promoted THEN "free" ELSE s.points[q]
    OBVIOUS
  <2>5. \A q \in promoted : \E c \in OfKind(s, {"controlSpline"}) : q \in Elements(s.curves[c].points)
    <3> SUFFICES ASSUME NEW c \in kept, NEW q \in PromotedBy(s.curves[c], p)
                 PROVE  /\ s.curves[c].kind = "controlSpline"
                        /\ q \in Elements(s.curves[c].points)
      BY DEF OfKind
    <3> DEFINE left == Remaining(s.curves[c], p)
    <3>1. /\ s.curves[c].kind = "controlSpline" /\ p \in Elements(s.curves[c].points)
          /\ q \in {left[1], left[Len(left)]}
      BY DEF PromotedBy
    <3>2. left \in Seq(Nat) /\ Elements(left) = Elements(s.curves[c].points) \ {p}
      BY <2>2, WithoutIs DEF Remaining, IsCurve
    <3>3. Len(left) >= 2
      BY <3>1 DEF Survives, FewestPoints
    <3> HIDE DEF left
    <3>4. 1 \in 1 .. Len(left) /\ Len(left) \in 1 .. Len(left)
      BY <3>2, <3>3
    <3>5. left[1] \in Elements(left) /\ left[Len(left)] \in Elements(left)
      BY <3>4 DEF Elements
    <3> QED
      BY <3>1, <3>2, <3>5
  <2>6. \A c \in kept : p \in Elements(s.curves[c].points) =>
          s.curves[c].kind \in {"fitSpline", "controlSpline"} /\ Len(Remaining(s.curves[c], p)) >= 2
    BY DEF Survives, Splines, OfKind, FewestPoints
  <2>7. \A c \in DOMAIN s.curves \ kept : p \in Elements(s.curves[c].points)
    BY DEF Survives
  <2> HIDE DEF kept, promoted
  <2> HIDE DEF curves, points
  <2>8. u = Store(points, curves, s.claims, s.patterns, s.next)
    BY <2>2, NewCurvesAndPoints
  <2> HIDE DEF u
  <2>9. Shape(u) /\ u.points = points /\ u.curves = curves /\ u.next = s.next
    BY <2>8, StoreHas
  <2>10. \A c \in kept :
           /\ IsCurve(curves[c]) /\ curves[c].kind = s.curves[c].kind
           /\ Elements(curves[c].points) = Elements(s.curves[c].points) \ {p}
           /\ Arms(curves[c]) \subseteq Arms(s.curves[c])
    <3> TAKE c \in kept
    <3>1. CASE p \in Elements(s.curves[c].points)
      <4> DEFINE r == curves[c]
                 curve == s.curves[c]
      <4>1. r = Healed(curve, p) /\ IsCurve(curve)
        BY <2>2, <2>3, <3>1
      <4>2. Len(Remaining(curve, p)) >= 2 /\ curve.kind \in {"fitSpline", "controlSpline"}
        BY <2>6, <3>1
      <4> HIDE DEF r, curve
      <4>3. /\ r = Curve(r.kind, r.points, r.levers, r.role) /\ r.kind = curve.kind
            /\ r.points = Remaining(curve, p)
            /\ r.points \in Seq(Nat) /\ Elements(r.points) = Elements(curve.points) \ {p}
            /\ Arms(r) \subseteq Arms(curve)
        BY <4>1, HealedIs
      <4>4. r.kind \in DOMAIN DrawnFrom /\ DrawnFrom[r.kind] = 2
        BY <4>2, <4>3 DEF DrawnFrom
      <4>5. IsCurve(r)
        BY <4>2, <4>3, <4>4 DEF IsCurve, Curve
      <4> QED
        BY <4>3, <4>5 DEF r, curve
    <3>2. CASE p \notin Elements(s.curves[c].points)
      BY <2>2, <2>3, <3>2
    <3> QED
      BY <3>1, <3>2
  <2>11. \A q \in DOMAIN u.points : q \in Nat /\ q < u.next
    BY <2>2, <2>4, <2>9
  <2>12. \A c \in DOMAIN u.curves :
           /\ c \in Nat /\ c < u.next /\ IsCurve(u.curves[c])
           /\ Elements(u.curves[c].points) \subseteq DOMAIN u.points \cup {}
    BY <2>2, <2>3, <2>4, <2>9, <2>10
  <2>13. ArmsAreTheirOwn(u)
    <3> SUFFICES ASSUME NEW c \in DOMAIN u.curves, NEW arm \in Arms(u.curves[c])
                 PROVE  /\ arm \in Nat /\ arm < u.next
                        /\ arm \in DOMAIN u.points => u.points[arm] = "anchored"
                        /\ \A d \in OfKind(u, {"controlSpline"}) :
                              arm \notin Elements(u.curves[d].points)
      BY DEF ArmsAreTheirOwn
    <3>1. c \in DOMAIN s.curves /\ arm \in Arms(s.curves[c])
      BY <2>3, <2>9, <2>10
    <3>2. /\ arm \in Nat /\ arm < s.next
          /\ arm \in DOMAIN s.points => s.points[arm] = "anchored"
          /\ \A d \in OfKind(s, {"controlSpline"}) : arm \notin Elements(s.curves[d].points)
      BY <2>2, <3>1 DEF ArmsAreTheirOwn
    <3>3. arm \in DOMAIN u.points => u.points[arm] = "anchored"
      BY <2>4, <2>5, <2>9, <3>2
    <3>4. ASSUME NEW d \in OfKind(u, {"controlSpline"})
          PROVE  arm \notin Elements(u.curves[d].points)
      <4>1. d \in kept /\ curves[d].kind = "controlSpline"
        BY <2>3, <2>9 DEF OfKind
      <4>2. d \in OfKind(s, {"controlSpline"})
        BY <2>3, <2>10, <4>1 DEF OfKind
      <4> QED
        BY <2>9, <2>10, <3>2, <4>1, <4>2
    <3> QED
      BY <2>9, <3>2, <3>3, <3>4
  <2>14. s.next \in Nat /\ IsStoreBut(u, {})
    BY <2>2, <2>9, <2>11, <2>12, <2>13, FactsStore
  <2>15. IsStore(t) /\ t.curves = u.curves /\ Keeps(u, t, {}, {}) /\ Settles(t)
    BY <2>1, <2>14, SettledIs DEF IsStore
  <2>16. Keeps(s, u, DOMAIN s.curves, {p})
    BY <2>4, <2>9 DEF Keeps
  <2>17. Keeps(s, t, DOMAIN s.curves, {p})
    BY <2>15, <2>16, KeepsOn
  <2> QED
    BY <2>3, <2>7, <2>9, <2>15, <2>17
<1> QED
  BY <1>1, <1>2

(***************************************************************************)
(* Drawing.                                                                *)
(***************************************************************************)

(* Short tuples, and rows of fresh ids.                                    *)
LEMMA OneOf ==
  ASSUME NEW a \in Nat
  PROVE  <<a>> \in Seq(Nat) /\ Len(<<a>>) = 1 /\ Elements(<<a>>) = {a}
BY DEF Elements

(* Of two, ...                                                             *)
LEMMA TwoOf ==
  ASSUME NEW a \in Nat, NEW b \in Nat
  PROVE  <<a, b>> \in Seq(Nat) /\ Len(<<a, b>>) = 2 /\ Elements(<<a, b>>) = {a, b}
BY DEF Elements

(* ... of three, ...                                                       *)
LEMMA ThreeOf ==
  ASSUME NEW a \in Nat, NEW b \in Nat, NEW c \in Nat
  PROVE  <<a, b, c>> \in Seq(Nat) /\ Len(<<a, b, c>>) = 3 /\ Elements(<<a, b, c>>) = {a, b, c}
BY DEF Elements

(* ... of four.                                                            *)
LEMMA FourOf ==
  ASSUME NEW a \in Nat, NEW b \in Nat, NEW c \in Nat, NEW d \in Nat
  PROVE  /\ <<a, b, c, d>> \in Seq(Nat) /\ Len(<<a, b, c, d>>) = 4
         /\ Elements(<<a, b, c, d>>) = {a, b, c, d}
BY DEF Elements

(* A row holds the next n ids.                                             *)
LEMMA RowOf ==
  ASSUME NEW s, s.next \in Nat, NEW n \in Nat
  PROVE  /\ Row(s, n) \in Seq(Nat) /\ Len(Row(s, n)) = n
         /\ Elements(Row(s, n)) = s.next .. s.next + n - 1
<1>1. \A i \in 1 .. n : s.next + i - 1 \in Nat
  OBVIOUS
<1>2. Row(s, n) \in Seq(Nat) /\ Len(Row(s, n)) = n /\ \A i \in 1 .. n : Row(s, n)[i] = s.next + i - 1
  BY <1>1 DEF Row
<1>3. \A x : x \in Elements(Row(s, n)) <=> \E i \in 1 .. n : x = s.next + i - 1
  BY <1>2 DEF Elements
<1>4. \A x : x \in s.next .. s.next + n - 1 <=> \E i \in 1 .. n : x = s.next + i - 1
  <2>1. \A x \in s.next .. s.next + n - 1 : x - s.next + 1 \in 1 .. n /\ x = s.next + (x - s.next + 1) - 1
    OBVIOUS
  <2>2. \A i \in 1 .. n : s.next + i - 1 \in s.next .. s.next + n - 1
    OBVIOUS
  <2> QED
    BY <2>1, <2>2
<1> QED
  BY <1>2, <1>3, <1>4

(* An edit that takes nothing.                                             *)
Grows(s, t) ==
  Keeps(s, t, {}, {}) /\ DOMAIN s.points \subseteq DOMAIN t.points /\ s.next <= t.next

(* Two such edits in a row are one.                                        *)
LEMMA GrowsOn ==
  ASSUME NEW s, NEW t, NEW u, Grows(s, t), Grows(t, u),
         s.next \in Nat, t.next \in Nat, u.next \in Nat
  PROVE  Grows(s, u)
<1>1. Keeps(s, u, {}, {})
  BY KeepsOn DEF Grows
<1> QED
  BY <1>1 DEF Grows

(* The counter has passed every point.                                     *)
LEMMA NextIsNat ==
  ASSUME NEW s, IsStore(s)
  PROVE  s.next \in Nat /\ \A p \in DOMAIN s.points : p \in Nat /\ p < s.next
BY StoreFacts DEF IsStore

(* add_free_point, add_construction_point.                                 *)
LEMMA PointAdded ==
  ASSUME NEW s, IsStore(s), NEW lifetime, NEW t, t = AddPoint(s, lifetime)
  PROVE  /\ IsStore(t) /\ Grows(s, t) /\ s.next \in DOMAIN t.points
         /\ t.curves = s.curves /\ t.next = s.next + 1
<1>1. IsStoreBut(t, {} \ {s.next}) /\ IsMinted(s, t)
  BY MintedPoint DEF IsStore
<1>2. {} \ {s.next} = {}
  OBVIOUS
<1> QED
  BY <1>1, <1>2, NextIsNat DEF IsStore, Grows, IsMinted

(* A curve drawn on points of the store.                                   *)
LEMMA CurveAdded ==
  ASSUME NEW s, IsStore(s), NEW kind \in DOMAIN DrawnFrom \ {"controlSpline"},
         NEW points \in Seq(Nat), Len(points) >= DrawnFrom[kind],
         Elements(points) \subseteq DOMAIN s.points, NEW role,
         NEW t, t = AddCurve(s, kind, points, role)
  PROVE  IsStore(t) /\ Grows(s, t)
<1> DEFINE none == {}
<1>1. IsStoreBut(s, none) /\ CanDraw(s, none, kind, points)
  BY DEF IsStore, CanDraw
<1> HIDE DEF none
<1>2. IsStoreBut(t, none) /\ IsDrawn(s, t)
  BY <1>1, AddedCurve
<1>3. IsStore(t)
  BY <1>2 DEF IsStore, none
<1> QED
  BY <1>2, <1>3, NextIsNat DEF Grows, IsDrawn

(* A claim asserted, ...                                                   *)
LEMMA ClaimAdded ==
  ASSUME NEW s, IsStore(s), NEW claim, NEW t, t = AddClaim(s, claim)
  PROVE  IsStore(t) /\ Grows(s, t)
<1>1. Shape(s)
  BY StoreFacts DEF IsStore
<1>2. t = Store(s.points, s.curves, With(s.claims, s.next, claim), s.patterns, s.next + 1)
  BY <1>1, NewClaimsAndNext DEF AddClaim
<1>3. Shape(t) /\ t.points = s.points /\ t.curves = s.curves /\ t.next = s.next + 1
  BY <1>2, StoreHas
<1>4. IsStoreBut(t, {}) /\ Keeps(s, t, {}, {})
  BY <1>3, RestStays DEF IsStore
<1> QED
  BY <1>3, <1>4, NextIsNat DEF IsStore, Grows

(* ... a pattern pushed, ...                                               *)
LEMMA PatternPushed ==
  ASSUME NEW s, IsStore(s), NEW pattern, NEW t, t = PushPattern(s, pattern)
  PROVE  IsStore(t) /\ Grows(s, t)
<1>1. Shape(s)
  BY StoreFacts DEF IsStore
<1>2. t = Store(s.points, s.curves, s.claims, With(s.patterns, s.next, pattern), s.next + 1)
  BY <1>1, NewPatternsAndNext DEF PushPattern
<1>3. Shape(t) /\ t.points = s.points /\ t.curves = s.curves /\ t.next = s.next + 1
  BY <1>2, StoreHas
<1>4. IsStoreBut(t, {}) /\ Keeps(s, t, {}, {})
  BY <1>3, RestStays DEF IsStore
<1> QED
  BY <1>3, <1>4, NextIsNat DEF IsStore, Grows

(* ... a segment drawn between two points that stand.                      *)
LEMMA SegmentConnected ==
  ASSUME NEW s, IsStore(s), NEW from \in DOMAIN s.points, NEW to \in DOMAIN s.points, NEW role,
         NEW t, t = AddCurve(s, "segment", <<from, to>>, role)
  PROVE  IsStore(t) /\ Grows(s, t)
<1>1. from \in Nat /\ to \in Nat
  BY NextIsNat
<1>2. "segment" \in DOMAIN DrawnFrom \ {"controlSpline"} /\ DrawnFrom["segment"] = 2
  BY DEF DrawnFrom
<1> DEFINE points == <<from, to>>
<1>3. points \in Seq(Nat) /\ Len(points) = 2 /\ Elements(points) = {from, to}
  BY <1>1, TwoOf
<1>4. t = AddCurve(s, "segment", points, role)
  OBVIOUS
<1>5. Len(points) >= DrawnFrom["segment"] /\ Elements(points) \subseteq DOMAIN s.points
  BY <1>2, <1>3
<1> HIDE DEF points
<1> QED
  BY <1>2, <1>3, <1>4, <1>5, CurveAdded

(* An arc's center is promised by its id and minted after it.              *)
LEMMA ArcIsConnected ==
  ASSUME NEW s, IsStore(s), NEW from \in DOMAIN s.points, NEW to \in DOMAIN s.points, NEW role,
         NEW t, t = ArcConnected(s, from, to, role)
  PROVE  IsStore(t) /\ Grows(s, t)
<1>1. from \in Nat /\ to \in Nat /\ s.next + 1 \in Nat /\ s.next \in Nat
  BY NextIsNat
<1>2. "arc" \in DOMAIN DrawnFrom /\ ~("arc" = "controlSpline") /\ DrawnFrom["arc"] = 3
  BY DEF DrawnFrom
<1> DEFINE points == <<from, to, s.next + 1>>
           promised == {s.next + 1}
           u == AddCurve(s, "arc", points, role)
<1>3. points \in Seq(Nat) /\ Len(points) = 3 /\ Elements(points) = {from, to, s.next + 1}
  BY <1>1, ThreeOf
<1>4. t = AddPoint(u, "anchored")
  BY DEF ArcConnected, AddConstructionPoint
<1>5. Elements(points) \subseteq DOMAIN s.points \cup promised /\ Len(points) >= DrawnFrom["arc"]
  BY <1>2, <1>3
<1> HIDE DEF points, promised
<1>6. IsStoreBut(s, promised) /\ CanDraw(s, promised, "arc", points)
  BY <1>2, <1>3, <1>5, PromisesMore DEF CanDraw
<1>7. IsStoreBut(u, promised) /\ IsDrawn(s, u)
  BY <1>6, AddedCurve
<1> HIDE DEF u
<1>8. IsStoreBut(t, promised \ {u.next}) /\ IsMinted(u, t)
  BY <1>4, <1>7, MintedPoint
<1>9. promised \ {u.next} = {}
  BY <1>7 DEF promised, IsDrawn
<1>10. IsStore(t)
  BY <1>8, <1>9 DEF IsStore
<1>11. Keeps(s, t, {}, {})
  BY <1>7, <1>8, KeepsOn DEF IsDrawn, IsMinted
<1> QED
  BY <1>1, <1>7, <1>8, <1>10, <1>11 DEF Grows, IsDrawn, IsMinted

(* A circle needs its center alone.                                        *)
LEMMA CircleDrawn ==
  ASSUME NEW s, IsStore(s), NEW center \in DOMAIN s.points, NEW role,
         NEW t, t = CircleAbout(s, center, role)
  PROVE  IsStore(t) /\ Grows(s, t)
<1> DEFINE points == <<center>>
<1>1. "circle" \in DOMAIN DrawnFrom \ {"controlSpline"} /\ DrawnFrom["circle"] = 1
  BY DEF DrawnFrom
<1>2. points \in Seq(Nat) /\ Len(points) = 1 /\ Elements(points) = {center}
  BY NextIsNat, OneOf
<1>3. t = AddCurve(s, "circle", points, role)
  BY DEF CircleAbout
<1>4. Len(points) >= DrawnFrom["circle"] /\ Elements(points) \subseteq DOMAIN s.points
  BY <1>1, <1>2
<1> HIDE DEF points
<1> QED
  BY <1>1, <1>2, <1>3, <1>4, CurveAdded

(* A circle whose center is planted with it.                               *)
LEMMA CircleWithCenter ==
  ASSUME NEW s, IsStore(s), NEW role, NEW t, t = CircleAdded(s, role)
  PROVE  IsStore(t) /\ Grows(s, t)
<1> DEFINE u == AddPoint(s, "anchored")
           center == s.next
<1>1. IsStore(u) /\ Grows(s, u) /\ center \in DOMAIN u.points
  BY PointAdded
<1>2. t = CircleAbout(u, center, role)
  BY DEF CircleAdded, AddConstructionPoint
<1> HIDE DEF u, center
<1>3. IsStore(t) /\ Grows(u, t)
  BY <1>1, <1>2, CircleDrawn
<1> QED
  BY <1>1, <1>3, GrowsOn, NextIsNat

(* A row planted in a store that promises nothing.                         *)
LEMMA RowPlanted ==
  ASSUME NEW s, IsStore(s), NEW n \in Nat, NEW inner
  PROVE  IsStore(Planted(s, n, inner)) /\ IsPlanted(s, Planted(s, n, inner), n, inner)
<1> DEFINE none == {}
           row == s.next .. s.next + n - 1
           t == Planted(s, n, inner)
<1>1. IsStoreBut(s, none) /\ none \ row = none
  BY DEF IsStore
<1> HIDE DEF none
<1>2. IsStoreBut(t, none \ row) /\ IsPlanted(s, t, n, inner)
  BY <1>1, PlantedRow
<1> HIDE DEF t, row
<1>3. IsStore(t)
  BY <1>1, <1>2 DEF IsStore, none
<1> QED
  BY <1>2, <1>3 DEF t

(* A curve drawn on a row of points planted for it.                        *)
Enough(kind, n) == kind \in DOMAIN DrawnFrom /\ n \in Nat /\ n >= DrawnFrom[kind]
IsRowCurve(s, t, n) == t.next = s.next + n + 1 /\ s.next + n \in DOMAIN t.curves

LEMMA RowDrawn ==
  ASSUME NEW s, IsStore(s), NEW kind, NEW n, Enough(kind, n), NEW inner, NEW role,
         NEW t, t = AddCurve(Planted(s, n, inner), kind, Row(s, n), role)
  PROVE  IsStore(t) /\ Grows(s, t) /\ IsRowCurve(s, t, n)
<1> DEFINE u == Planted(s, n, inner)
           none == {}
           row == s.next .. s.next + n - 1
           points == Row(s, n)
<1>1. s.next \in Nat /\ kind \in DOMAIN DrawnFrom /\ n \in Nat /\ n >= DrawnFrom[kind]
  BY NextIsNat DEF Enough
<1>2. points \in Seq(Nat) /\ Len(points) = n /\ Elements(points) = row
  BY <1>1, RowOf
<1>3. IsStore(u) /\ IsPlanted(s, u, n, inner)
  BY <1>1, RowPlanted
<1>4. \A p \in row : s.next <= p /\ p \in Nat
  BY <1>1
<1> HIDE DEF u
<1>5. /\ DOMAIN u.points = DOMAIN s.points \cup row
      /\ u.curves = s.curves /\ u.next = s.next + n /\ Keeps(s, u, {}, {})
  BY <1>3 DEF IsPlanted
<1>6. \A c \in DOMAIN u.curves : Arms(u.curves[c]) \cap row = {}
  <2>1. \A c \in DOMAIN s.curves : \A arm \in Arms(s.curves[c]) : arm \in Nat /\ arm < s.next
    BY StoreFacts DEF IsStore, ArmsAreTheirOwn
  <2>2. ASSUME NEW c \in DOMAIN u.curves, NEW arm \in Arms(u.curves[c]), arm \in row PROVE FALSE
    <3>1. arm \in Nat /\ arm < s.next
      BY <1>5, <2>1, <2>2
    <3>2. s.next <= arm
      BY <1>4, <2>2
    <3> QED
      BY <1>1, <3>1, <3>2
  <2> QED
    BY <2>2
<1> HIDE DEF row, points
<1>7. IsStoreBut(u, none) /\ CanDraw(u, none, kind, points)
  BY <1>1, <1>2, <1>3, <1>5, <1>6 DEF IsStore, CanDraw
<1> HIDE DEF none
<1>8. t = AddCurve(u, kind, points, role)
  BY DEF u, points
<1>9. IsStoreBut(t, none) /\ IsDrawn(u, t)
  BY <1>7, <1>8, AddedCurve
<1>10. IsStore(t)
  BY <1>9 DEF IsStore, none
<1>11. Keeps(s, t, {}, {})
  BY <1>5, <1>9, KeepsOn DEF IsDrawn
<1>12. t.next = s.next + n + 1 /\ s.next <= t.next
  BY <1>1, <1>5, <1>9 DEF IsDrawn
<1> QED
  BY <1>5, <1>9, <1>10, <1>11, <1>12 DEF Grows, IsDrawn, IsRowCurve

(* The curves that are drawn on such a row.                                *)
LEMMA RowCurveDrawn ==
  ASSUME NEW s, IsStore(s), NEW t,
         \/ t = CubicBezierAdded(s) \/ t = EllipseAdded(s) \/ t = ConicAdded(s)
         \/ t = ControlSplineAdded(s, 3)
  PROVE  IsStore(t) /\ Grows(s, t)
<1>1. /\ Enough("bezier", 4) /\ Enough("ellipse", 3) /\ Enough("conic", 3)
      /\ Enough("controlSpline", 3)
  BY DEF Enough, DrawnFrom
<1>2. CASE t = CubicBezierAdded(s)
  BY <1>1, <1>2, RowDrawn DEF CubicBezierAdded
<1>3. CASE t = EllipseAdded(s)
  BY <1>1, <1>3, RowDrawn DEF EllipseAdded
<1>4. CASE t = ConicAdded(s)
  BY <1>1, <1>4, RowDrawn DEF ConicAdded
<1>5. CASE t = ControlSplineAdded(s, 3)
  BY <1>1, <1>5, RowDrawn DEF ControlSplineAdded
<1> QED
  BY <1>2, <1>3, <1>4, <1>5

(***************************************************************************)
(* Modifying.                                                              *)
(***************************************************************************)

(* A tuple with one place written.                                         *)
LEMMA PlaceWritten ==
  ASSUME NEW tuple \in Seq(Nat), NEW i \in 1 .. Len(tuple), NEW p \in Nat,
         NEW u, u = [tuple EXCEPT ![i] = p]
  PROVE  u \in Seq(Nat) /\ Len(u) = Len(tuple) /\ Elements(u) \subseteq Elements(tuple) \cup {p}
<1>1. u \in Seq(Nat) /\ Len(u) = Len(tuple)
  OBVIOUS
<1>2. \A j \in 1 .. Len(tuple) : u[j] = p \/ u[j] = tuple[j]
  OBVIOUS
<1> QED
  BY <1>1, <1>2 DEF Elements

(* What ArmsAreTheirOwn says of one arm.                                   *)
IsArm(s, arm) ==
  /\ arm \in Nat /\ arm < s.next
  /\ arm \in DOMAIN s.points => s.points[arm] = "anchored"
  /\ \A d \in OfKind(s, {"controlSpline"}) : arm \notin Elements(s.curves[d].points)

(* A fit point's arms are its own.                                         *)
LEMMA ArmsAreArms ==
  ASSUME NEW s, IsStore(s), NEW c \in DOMAIN s.curves
  PROVE  \A arm \in Arms(s.curves[c]) : IsArm(s, arm)
BY StoreFacts DEF IsStore, ArmsAreTheirOwn, IsArm

(* A curve drawn anew on points of the store, unless it is a control       *)
(* spline, which keeps its points.                                         *)
Redrawn(s, c, r) == [s EXCEPT !.curves = [s.curves EXCEPT ![c] = r]]
CanRedraw(s, c, r) ==
  /\ IsCurve(r) /\ r.kind = s.curves[c].kind /\ \A arm \in Arms(r) : IsArm(s, arm)
  /\ Elements(r.points) \subseteq DOMAIN s.points
  /\ r.kind = "controlSpline" => r.points = s.curves[c].points

(* The store is one still, and keeps everything.                           *)
LEMMA CurveRedrawn ==
  ASSUME NEW s, IsStore(s), NEW c \in DOMAIN s.curves, NEW r, CanRedraw(s, c, r),
         NEW t, t = Redrawn(s, c, r)
  PROVE  /\ IsStore(t) /\ Grows(s, t)
         /\ t.points = s.points /\ t.next = s.next /\ DOMAIN t.curves = DOMAIN s.curves
<1> DEFINE curves == [s.curves EXCEPT ![c] = r]
<1>1. /\ Shape(s) /\ s.next \in Nat
      /\ \A p \in DOMAIN s.points : p \in Nat /\ p < s.next
      /\ \A d \in DOMAIN s.curves :
           /\ d \in Nat /\ d < s.next /\ IsCurve(s.curves[d])
           /\ Elements(s.curves[d].points) \subseteq DOMAIN s.points \cup {}
      /\ ArmsAreTheirOwn(s)
  BY StoreFacts DEF IsStore
<1>2. /\ DOMAIN curves = DOMAIN s.curves /\ curves[c] = r
      /\ \A d \in DOMAIN s.curves \ {c} : curves[d] = s.curves[d]
  OBVIOUS
<1>3. t = [s EXCEPT !.curves = curves]
  BY DEF Redrawn
<1> HIDE DEF curves
<1>4. t = Store(s.points, curves, s.claims, s.patterns, s.next)
  BY <1>1, <1>3, NewCurves
<1>5. Shape(t) /\ t.points = s.points /\ t.curves = curves /\ t.next = s.next
  BY <1>4, StoreHas
<1>6. \A d \in DOMAIN s.curves :
        /\ IsCurve(curves[d]) /\ curves[d].kind = s.curves[d].kind
        /\ \A arm \in Arms(curves[d]) : IsArm(s, arm)
        /\ Elements(curves[d].points) \subseteq DOMAIN s.points \cup {}
        /\ curves[d].kind = "controlSpline" => curves[d].points = s.curves[d].points
  <2> TAKE d \in DOMAIN s.curves
  <2>1. CASE d = c
    BY <1>2, <2>1 DEF CanRedraw
  <2>2. CASE d # c
    BY <1>1, <1>2, <2>2, ArmsAreArms
  <2> QED
    BY <2>1, <2>2
<1>7. ArmsAreTheirOwn(t)
  <2> SUFFICES ASSUME NEW d \in DOMAIN t.curves, NEW arm \in Arms(t.curves[d])
               PROVE  /\ arm \in Nat /\ arm < t.next
                      /\ arm \in DOMAIN t.points => t.points[arm] = "anchored"
                      /\ \A e \in OfKind(t, {"controlSpline"}) :
                            arm \notin Elements(t.curves[e].points)
    BY DEF ArmsAreTheirOwn
  <2>1. IsArm(s, arm)
    BY <1>2, <1>5, <1>6
  <2>2. /\ arm \in Nat /\ arm < s.next
        /\ arm \in DOMAIN s.points => s.points[arm] = "anchored"
        /\ \A e \in OfKind(s, {"controlSpline"}) : arm \notin Elements(s.curves[e].points)
    BY <2>1 DEF IsArm
  <2>3. ASSUME NEW e \in OfKind(t, {"controlSpline"})
        PROVE  arm \notin Elements(t.curves[e].points)
    <3>1. e \in DOMAIN s.curves /\ curves[e].kind = "controlSpline"
      BY <1>2, <1>5 DEF OfKind
    <3>2. e \in OfKind(s, {"controlSpline"}) /\ curves[e].points = s.curves[e].points
      BY <1>6, <3>1 DEF OfKind
    <3> QED
      BY <1>5, <2>2, <3>2
  <2> QED
    BY <1>5, <2>2, <2>3
<1>8. IsStoreBut(t, {})
  <2>1. \A p \in DOMAIN t.points : p \in Nat /\ p < t.next
    BY <1>1, <1>5
  <2>2. \A d \in DOMAIN t.curves :
          /\ d \in Nat /\ d < t.next /\ IsCurve(t.curves[d])
          /\ Elements(t.curves[d].points) \subseteq DOMAIN t.points \cup {}
    BY <1>1, <1>2, <1>5, <1>6
  <2>3. t.next \in Nat
    BY <1>1, <1>5
  <2> QED
    BY <1>5, <1>7, <2>1, <2>2, <2>3, FactsStore
<1>9. Keeps(s, t, {}, {})
  BY <1>2, <1>5 DEF Keeps
<1> QED
  BY <1>1, <1>2, <1>5, <1>8, <1>9 DEF IsStore, Grows

(* A curve with one of its points exchanged.                               *)
LEMMA PointExchanged ==
  ASSUME NEW s, IsStore(s), NEW c \in DOMAIN s.curves, s.curves[c].kind # "controlSpline",
         NEW i \in 1 .. Len(s.curves[c].points), NEW p \in DOMAIN s.points,
         NEW t, t = [s EXCEPT !.curves[c].points[i] = p]
  PROVE  /\ IsStore(t) /\ Grows(s, t)
         /\ t.points = s.points /\ t.next = s.next /\ DOMAIN t.curves = DOMAIN s.curves
<1> DEFINE curve == s.curves[c]
           drawn == [curve.points EXCEPT ![i] = p]
           r == [curve EXCEPT !.points = drawn]
<1>1. t = Redrawn(s, c, r)
  BY DEF Redrawn
<1>2. IsCurve(curve) /\ Elements(curve.points) \subseteq DOMAIN s.points /\ p \in Nat
  BY StoreFacts, NextIsNat DEF IsStore
<1>3. curve = Curve(curve.kind, curve.points, curve.levers, curve.role) /\ curve.points \in Seq(Nat)
  BY <1>2 DEF IsCurve, Curve
<1>4. curve.kind # "controlSpline" /\ i \in 1 .. Len(curve.points)
  OBVIOUS
<1> HIDE DEF curve
<1>5. /\ drawn \in Seq(Nat) /\ Len(drawn) = Len(curve.points)
      /\ Elements(drawn) \subseteq Elements(curve.points) \cup {p}
  BY <1>2, <1>3, <1>4, PlaceWritten
<1> HIDE DEF drawn
<1>6. r = Curve(curve.kind, drawn, curve.levers, curve.role)
  BY <1>3, WriteStroke
<1> HIDE DEF r
<1>7. /\ r = Curve(r.kind, r.points, r.levers, r.role) /\ r.kind = curve.kind
      /\ r.points = drawn /\ r.levers = curve.levers
  BY <1>6, CurveHas
<1>8. IsCurve(r)
  BY <1>2, <1>5, <1>7 DEF IsCurve, Curve
<1>9. Arms(r) \subseteq Arms(curve)
  BY <1>7 DEF Arms
<1>10. Elements(r.points) \subseteq DOMAIN s.points
  BY <1>2, <1>5, <1>7
<1>11. /\ r.kind = s.curves[c].kind /\ \A arm \in Arms(r) : IsArm(s, arm)
       /\ r.kind = "controlSpline" => r.points = s.curves[c].points
  BY <1>4, <1>7, <1>9, ArmsAreArms DEF curve
<1>12. CanRedraw(s, c, r)
  BY <1>8, <1>10, <1>11 DEF CanRedraw
<1> QED
  BY <1>1, <1>12, CurveRedrawn

(* toggle_construction.                                                    *)
LEMMA RoleToggled ==
  ASSUME NEW s, IsStore(s), NEW c \in DOMAIN s.curves, NEW t, t = Toggled(s, c)
  PROVE  IsStore(t) /\ Grows(s, t)
<1> DEFINE curve == s.curves[c]
           role == IF curve.role = "real" THEN "construction" ELSE "real"
           r == [curve EXCEPT !.role = role]
<1>1. t = Redrawn(s, c, r)
  BY DEF Redrawn, Toggled
<1>2. IsCurve(curve) /\ Elements(curve.points) \subseteq DOMAIN s.points
  BY StoreFacts DEF IsStore
<1>3. curve = Curve(curve.kind, curve.points, curve.levers, curve.role)
  BY <1>2 DEF IsCurve, Curve
<1> HIDE DEF role
<1>4. r = Curve(curve.kind, curve.points, curve.levers, role)
  <2> HIDE DEF curve
  <2> QED
    BY <1>3, WriteRole
<1> HIDE DEF r
<1>5. /\ r = Curve(r.kind, r.points, r.levers, r.role) /\ r.kind = curve.kind
      /\ r.points = curve.points /\ r.levers = curve.levers
  BY <1>4, CurveHas
<1>6. IsCurve(r)
  BY <1>2, <1>5 DEF IsCurve, Curve
<1>7. Arms(r) \subseteq Arms(s.curves[c])
  BY <1>5 DEF Arms
<1>8. \A arm \in Arms(r) : IsArm(s, arm)
  BY <1>7, ArmsAreArms
<1>9. CanRedraw(s, c, r)
  BY <1>2, <1>5, <1>6, <1>8 DEF CanRedraw
<1> QED
  BY <1>1, <1>9, CurveRedrawn

(* A curve given levers whose arms are fresh of it.                        *)
LEMMA LeversGiven ==
  ASSUME NEW s, IsStore(s), NEW c \in DOMAIN s.curves, NEW levers,
         \A fit \in DOMAIN levers : \A arm \in Elements(levers[fit]) : IsArm(s, arm),
         NEW t, t = [s EXCEPT !.curves[c].levers = levers]
  PROVE  IsStore(t) /\ Grows(s, t)
<1> DEFINE curve == s.curves[c]
           r == [curve EXCEPT !.levers = levers]
<1>1. t = Redrawn(s, c, r)
  BY DEF Redrawn
<1>2. IsCurve(curve) /\ Elements(curve.points) \subseteq DOMAIN s.points
  BY StoreFacts DEF IsStore
<1>3. curve = Curve(curve.kind, curve.points, curve.levers, curve.role)
  BY <1>2 DEF IsCurve, Curve
<1>4. r = Curve(curve.kind, curve.points, levers, curve.role)
  <2> HIDE DEF curve
  <2> QED
    BY <1>3, WriteLevers
<1> HIDE DEF r
<1>5. /\ r = Curve(r.kind, r.points, r.levers, r.role) /\ r.kind = curve.kind
      /\ r.points = curve.points /\ r.levers = levers
  BY <1>4, CurveHas
<1>6. IsCurve(r)
  BY <1>2, <1>5 DEF IsCurve, Curve
<1>7. \A arm \in Arms(r) : IsArm(s, arm)
  BY <1>5 DEF Arms
<1>8. CanRedraw(s, c, r)
  BY <1>2, <1>5, <1>6, <1>7 DEF CanRedraw
<1> QED
  BY <1>1, <1>8, CurveRedrawn

(* A fit spline's arms are minted after it, anchored, and no control       *)
(* spline is drawn on them.                                                *)
LEMMA FitSplineDrawn ==
  ASSUME NEW s, IsStore(s), NEW t, t = FitSplineAdded(s, 2)
  PROVE  IsStore(t) /\ Grows(s, t)
<1> DEFINE drawn == AddCurve(Planted(s, 2, {}), "fitSpline", Row(s, 2), "real")
           first == drawn.next
           w == Planted(drawn, 4, 1 .. 4)
           row == first .. first + 4 - 1
           c == drawn.next - 1
           levers == [fit \in s.next .. s.next + 2 - 1 |->
                        LET forward == first + 2 * (fit - s.next) IN <<forward, forward + 1>>]
<1>1. s.next \in Nat
  BY NextIsNat
<1>2. Enough("fitSpline", 2)
  BY DEF Enough, DrawnFrom
<1>3. IsStore(drawn) /\ Grows(s, drawn) /\ IsRowCurve(s, drawn, 2)
  BY <1>2, RowDrawn
<1>4. t = [w EXCEPT !.curves[c].levers = levers]
  BY DEF FitSplineAdded
<1> HIDE DEF drawn
<1>5. c \in DOMAIN drawn.curves /\ first \in Nat /\ first = s.next + 3
  BY <1>1, <1>3 DEF IsRowCurve
<1>6. IsStore(w) /\ IsPlanted(drawn, w, 4, 1 .. 4)
  BY <1>3, RowPlanted
<1>7. \A d \in DOMAIN drawn.curves : Elements(drawn.curves[d].points) \cap row = {}
  <2>1. \A p \in DOMAIN drawn.points : p \in Nat /\ p < first
    BY <1>3, NextIsNat
  <2>2. \A d \in DOMAIN drawn.curves : Elements(drawn.curves[d].points) \subseteq DOMAIN drawn.points
    BY <1>3, StoreFacts DEF IsStore
  <2>3. \A p \in row : first <= p /\ p \in Nat
    BY <1>5
  <2> QED
    BY <1>5, <2>1, <2>2, <2>3
<1> HIDE DEF w
<1>8. /\ \A p \in row : w.points[p] = IF p - first + 1 \in 1 .. 4 THEN "anchored" ELSE "free"
      /\ DOMAIN w.points = DOMAIN drawn.points \cup row
      /\ w.curves = drawn.curves /\ w.next = first + 4 /\ Keeps(drawn, w, {}, {})
  BY <1>6 DEF IsPlanted
<1>9. \A p \in row : p - first + 1 \in 1 .. 4 /\ p \in Nat /\ p < first + 4
  BY <1>5
<1>10. \A fit \in DOMAIN levers : \A arm \in Elements(levers[fit]) : arm \in row
  <2> SUFFICES ASSUME NEW fit \in s.next .. s.next + 2 - 1 PROVE Elements(levers[fit]) \subseteq row
    OBVIOUS
  <2> DEFINE forward == first + 2 * (fit - s.next)
  <2>1. forward \in row /\ forward + 1 \in row
    BY <1>1, <1>5
  <2>2. levers[fit] = <<forward, forward + 1>>
    OBVIOUS
  <2> HIDE DEF forward, levers, row
  <2> QED
    BY <2>1, <2>2 DEF Elements
<1> HIDE DEF levers, row, c, first
<1>11. \A arm \in row : IsArm(w, arm)
  <2> TAKE arm \in row
  <2>1. arm \in Nat /\ arm < w.next /\ w.points[arm] = "anchored"
    BY <1>8, <1>9
  <2>2. \A d \in OfKind(w, {"controlSpline"}) : arm \notin Elements(w.curves[d].points)
    BY <1>7, <1>8 DEF OfKind
  <2> QED
    BY <2>1, <2>2 DEF IsArm
<1>12. \A fit \in DOMAIN levers : \A arm \in Elements(levers[fit]) : IsArm(w, arm)
  BY <1>10, <1>11
<1>13. c \in DOMAIN w.curves
  BY <1>5, <1>8
<1>14. IsStore(t) /\ Grows(w, t)
  BY <1>4, <1>6, <1>12, <1>13, LeversGiven
<1>15. Grows(drawn, w)
  BY <1>5, <1>8 DEF Grows, first
<1>16. Grows(s, w)
  BY <1>3, <1>6, <1>15, GrowsOn, NextIsNat
<1> QED
  BY <1>6, <1>14, <1>16, GrowsOn, NextIsNat

(* A cut is a point that stands or a fresh one (point_for_break).          *)
IsCut(s, t, at) ==
  /\ Grows(s, t) /\ at \in DOMAIN t.points /\ t.curves = s.curves
  /\ t.next = IF at = s.next THEN s.next + 1 ELSE s.next

LEMMA CutMade ==
  ASSUME NEW s, IsStore(s), NEW at \in DOMAIN s.points \cup {s.next}, NEW role
  PROVE  IsStore(CutAt(s, at, role)) /\ IsCut(s, CutAt(s, at, role), at)
<1> DEFINE t == CutAt(s, at, role)
<1>1. CASE at = s.next
  <2>1. t = AddPoint(s, Serving(role))
    BY <1>1 DEF CutAt
  <2> HIDE DEF t
  <2>2. IsStore(t) /\ IsCut(s, t, at)
    BY <1>1, <2>1, PointAdded DEF IsCut
  <2> QED
    BY <2>2 DEF t
<1>2. CASE at # s.next
  <2>1. t = s
    BY <1>2 DEF CutAt
  <2> QED
    BY <1>2, <2>1, NextIsNat DEF Grows, Keeps, IsCut
<1> QED
  BY <1>1, <1>2

(* The second cut may be a point minted after the first was.               *)
LEMMA CutTwice ==
  ASSUME NEW s, IsStore(s), NEW at \in DOMAIN s.points \cup {s.next}, NEW role,
         NEW other \in DOMAIN s.points \cup {IF at = s.next THEN s.next + 1 ELSE s.next},
         NEW t, t = CutAt(CutAt(s, at, role), other, role)
  PROVE  /\ IsStore(t) /\ Grows(s, t) /\ t.curves = s.curves
         /\ at \in DOMAIN t.points /\ other \in DOMAIN t.points
<1> DEFINE u == CutAt(s, at, role)
<1>1. IsStore(u) /\ IsCut(s, u, at)
  BY CutMade
<1>2. t = CutAt(u, other, role)
  OBVIOUS
<1> HIDE DEF u
<1>3. other \in DOMAIN u.points \cup {u.next}
  BY <1>1 DEF IsCut, Grows
<1>4. IsStore(t) /\ IsCut(u, t, other)
  BY <1>1, <1>2, <1>3, CutMade
<1>5. Grows(s, t)
  BY <1>1, <1>4, GrowsOn, NextIsNat DEF IsCut
<1> QED
  BY <1>1, <1>4, <1>5 DEF IsCut, Grows

(* A piece between two points that stand (replace_curve_with_pieces).      *)
LEMMA PieceMade ==
  ASSUME NEW s, IsStore(s), NEW kind \in {"segment", "arc", "bezier"},
         NEW from \in DOMAIN s.points, NEW to \in DOMAIN s.points, NEW role,
         NEW t, t = PieceOf(s, kind, from, to, role)
  PROVE  IsStore(t) /\ Grows(s, t)
<1>1. CASE kind = "segment"
  <2>1. t = AddCurve(s, "segment", <<from, to>>, role)
    BY <1>1 DEF PieceOf
  <2> QED
    BY <2>1, SegmentConnected
<1>2. CASE kind = "arc"
  <2>1. t = ArcConnected(s, from, to, role)
    BY <1>2 DEF PieceOf
  <2> QED
    BY <2>1, ArcIsConnected
<1>3. CASE kind = "bezier"
  <2> DEFINE points == <<from, s.next + 1, s.next + 2, to>>
             promised == {s.next + 1, s.next + 2}
             u == AddCurve(s, "bezier", points, role)
             row == u.next .. u.next + 2 - 1
  <2>1. t = Planted(u, 2, {1, 2})
    BY <1>3 DEF PieceOf
  <2>2. s.next \in Nat /\ s.next + 1 \in Nat /\ s.next + 2 \in Nat /\ from \in Nat /\ to \in Nat
    BY NextIsNat
  <2>3. "bezier" \in DOMAIN DrawnFrom /\ ~("bezier" = "controlSpline") /\ DrawnFrom["bezier"] = 4
    BY DEF DrawnFrom
  <2>4. /\ points \in Seq(Nat) /\ Len(points) = 4
        /\ Elements(points) = {from, s.next + 1, s.next + 2, to}
    BY <2>2, FourOf
  <2>5. Elements(points) \subseteq DOMAIN s.points \cup promised /\ Len(points) >= DrawnFrom["bezier"]
    BY <2>3, <2>4
  <2> HIDE DEF points, promised
  <2>6. IsStoreBut(s, promised) /\ CanDraw(s, promised, "bezier", points)
    BY <2>3, <2>4, <2>5, PromisesMore DEF CanDraw
  <2>7. IsStoreBut(u, promised) /\ IsDrawn(s, u)
    BY <2>6, AddedCurve
  <2> HIDE DEF u
  <2>8. u.next = s.next + 1 /\ u.next \in Nat /\ u.points = s.points /\ Keeps(s, u, {}, {})
    BY <2>2, <2>7 DEF IsDrawn
  <2>9. promised \ row = {}
    BY <2>2, <2>8 DEF promised
  <2>10. IsStoreBut(t, promised \ row) /\ IsPlanted(u, t, 2, {1, 2})
    BY <2>1, <2>7, PlantedRow
  <2>11. IsStore(t)
    BY <2>9, <2>10 DEF IsStore
  <2>12. Keeps(s, t, {}, {})
    BY <2>8, <2>10, KeepsOn DEF IsPlanted
  <2>13. DOMAIN s.points \subseteq DOMAIN t.points /\ s.next <= t.next
    BY <2>2, <2>8, <2>10 DEF IsPlanted
  <2> QED
    BY <2>11, <2>12, <2>13 DEF Grows
<1> QED
  BY <1>1, <1>2, <1>3

(* split_segment: the first piece keeps the id.                            *)
LEMMA SegmentSplit ==
  ASSUME NEW s, IsStore(s), NEW c \in Segments(s), NEW t, t = SplitSegment(s, c)
  PROVE  IsStore(t) /\ Grows(s, t)
<1> DEFINE u == AddPoint(s, "free")
           v == [u EXCEPT !.curves[c].points[2] = s.next]
           far == s.curves[c].points[2]
           mid == s.next
<1>1. IsStore(u) /\ Grows(s, u) /\ mid \in DOMAIN u.points /\ u.curves = s.curves
  BY PointAdded
<1>2. c \in DOMAIN s.curves /\ s.curves[c].kind = "segment"
  BY DEF Segments, OfKind
<1>3. 2 \in 1 .. Len(s.curves[c].points) /\ far \in DOMAIN s.points
  BY <1>2, CurveFacts DEF IsStore, DrawnFrom
<1>4. t = AddCurve(v, "segment", <<mid, far>>, "real")
  BY DEF SplitSegment, AddFreePoint
<1>5. v = [u EXCEPT !.curves[c].points[2] = mid]
  OBVIOUS
<1> HIDE DEF u, v, mid
<1>6. c \in DOMAIN u.curves /\ u.curves[c].kind # "controlSpline" /\ 2 \in 1 .. Len(u.curves[c].points)
  BY <1>1, <1>2, <1>3
<1>7. IsStore(v) /\ Grows(u, v) /\ v.points = u.points
  BY <1>1, <1>5, <1>6, PointExchanged
<1>8. mid \in DOMAIN v.points /\ far \in DOMAIN v.points
  BY <1>1, <1>3, <1>7 DEF Grows
<1> HIDE DEF far
<1>9. IsStore(t) /\ Grows(v, t)
  BY <1>4, <1>7, <1>8, SegmentConnected
<1> QED
  BY <1>1, <1>7, <1>9, GrowsOn, NextIsNat

(* break_segment, break_arc.                                               *)
LEMMA StrokeBroken ==
  ASSUME NEW s, IsStore(s), NEW c \in DOMAIN s.curves, s.curves[c].kind \in {"segment", "arc"},
         NEW at \in DOMAIN s.points \cup {s.next}, NEW t, t = BreakStroke(s, c, at)
  PROVE  IsStore(t) /\ Grows(s, t)
<1> DEFINE curve == s.curves[c]
           u == CutAt(s, at, curve.role)
           v == [u EXCEPT !.curves[c].points[2] = at]
           rest == [curve.points EXCEPT ![1] = at]
           kind == curve.kind
           role == curve.role
<1>1. /\ IsStore(u) /\ Grows(s, u) /\ at \in DOMAIN u.points /\ u.curves = s.curves
      /\ DOMAIN s.points \subseteq DOMAIN u.points
  BY CutMade DEF IsCut, Grows
<1>2. /\ curve.points \in Seq(Nat) /\ Len(curve.points) >= DrawnFrom[kind]
      /\ 1 \in 1 .. Len(curve.points) /\ 2 \in 1 .. Len(curve.points)
      /\ Elements(curve.points) \subseteq DOMAIN s.points
  BY CurveFacts DEF IsStore, DrawnFrom
<1>3. t = AddCurve(v, kind, rest, role)
  BY DEF BreakStroke
<1>4. kind \in DOMAIN DrawnFrom \ {"controlSpline"} /\ kind # "controlSpline"
  BY DEF DrawnFrom
<1>5. u.curves[c] = curve
  BY <1>1
<1>6. at \in Nat
  BY <1>1, NextIsNat
<1> HIDE DEF u
<1>7. c \in DOMAIN u.curves /\ u.curves[c].kind # "controlSpline" /\ 2 \in 1 .. Len(u.curves[c].points)
  BY <1>1, <1>2, <1>4
<1>8. IsStore(v) /\ Grows(u, v) /\ v.points = u.points
  BY <1>1, <1>7, PointExchanged
<1>9. /\ rest \in Seq(Nat) /\ Len(rest) = Len(curve.points)
      /\ Elements(rest) \subseteq Elements(curve.points) \cup {at}
  <2> HIDE DEF curve
  <2> QED
    BY <1>2, <1>6, PlaceWritten
<1> HIDE DEF v, rest, kind, role, curve
<1>10. Len(rest) >= DrawnFrom[kind] /\ Elements(rest) \subseteq DOMAIN v.points
  BY <1>1, <1>2, <1>8, <1>9
<1>11. IsStore(t) /\ Grows(v, t)
  BY <1>3, <1>4, <1>8, <1>9, <1>10, CurveAdded
<1> QED
  BY <1>1, <1>8, <1>11, GrowsOn, NextIsNat

(* A curve gone, what grew in its place, and the sweep.                    *)
LEMMA ReplacedAndSettled ==
  ASSUME NEW s, IsStore(s), NEW c, NEW u, u = WithoutCurve(s, c),
         NEW v, IsStore(v), Grows(u, v), NEW t, t = Settled(v)
  PROVE  IsStore(t) /\ Keeps(s, t, {c}, {}) /\ Settles(t)
<1>1. Keeps(s, u, {c}, {})
  BY CurveGone
<1>2. IsStore(t) /\ Keeps(v, t, {}, {}) /\ Settles(t)
  BY SettledIs
<1> QED
  BY <1>1, <1>2, KeepsOn DEF Grows

(* What an edit that only grows the store and then settles keeps.          *)
LEMMA GrownAndSettled ==
  ASSUME NEW s, NEW v, IsStore(v), Grows(s, v), NEW t, t = Settled(v)
  PROVE  IsStore(t) /\ Keeps(s, t, {}, {}) /\ Settles(t)
<1>1. IsStore(t) /\ Keeps(v, t, {}, {}) /\ Settles(t)
  BY SettledIs
<1> QED
  BY <1>1, KeepsOn DEF Grows

(* break_circle: two arcs about the center it had.                         *)
LEMMA CircleBroken ==
  ASSUME NEW s, IsStore(s), NEW c \in DOMAIN s.curves, NEW at \in DOMAIN s.points \cup {s.next},
         NEW other \in DOMAIN s.points \cup {IF at = s.next THEN s.next + 1 ELSE s.next},
         NEW t, t = Settled(BreakCircle(s, c, at, other))
  PROVE  IsStore(t) /\ Keeps(s, t, {c}, {}) /\ Settles(t)
<1> DEFINE role == s.curves[c].role
           center == s.curves[c].points[1]
           u == WithoutCurve(s, c)
           v == CutAt(CutAt(u, at, role), other, role)
           one == <<at, other, center>>
           two == <<other, at, center>>
           half == AddCurve(v, "arc", one, role)
           whole == AddCurve(half, "arc", two, role)
<1>1. IsStore(u) /\ u.points = s.points /\ u.next = s.next
  BY CurveGone
<1>2. t = Settled(whole)
  BY DEF BreakCircle
<1>3. center \in DOMAIN s.points
  <2>1. Len(s.curves[c].points) >= 1
    BY CurveFacts DEF IsStore, DrawnFrom
  <2> QED
    BY <2>1, CurveFacts DEF IsStore
<1>4. "arc" \in DOMAIN DrawnFrom \ {"controlSpline"} /\ DrawnFrom["arc"] = 3
  BY DEF DrawnFrom
<1>5. u = WithoutCurve(s, c)
  OBVIOUS
<1> HIDE DEF u, center, role
<1>6. /\ at \in DOMAIN u.points \cup {u.next}
      /\ other \in DOMAIN u.points \cup {IF at = u.next THEN u.next + 1 ELSE u.next}
  BY <1>1
<1>7. /\ IsStore(v) /\ Grows(u, v) /\ at \in DOMAIN v.points /\ other \in DOMAIN v.points
  BY <1>1, <1>6, CutTwice
<1> HIDE DEF v
<1>8. center \in DOMAIN v.points
  BY <1>1, <1>3, <1>7 DEF Grows
<1>9. at \in Nat /\ other \in Nat /\ center \in Nat
  BY <1>7, <1>8, NextIsNat
<1>10. /\ one \in Seq(Nat) /\ Len(one) = 3 /\ Elements(one) = {at, other, center}
       /\ two \in Seq(Nat) /\ Len(two) = 3 /\ Elements(two) = {other, at, center}
  BY <1>9, ThreeOf
<1> HIDE DEF one, two
<1>11. Len(one) >= DrawnFrom["arc"] /\ Elements(one) \subseteq DOMAIN v.points
  BY <1>4, <1>7, <1>8, <1>10
<1>12. IsStore(half) /\ Grows(v, half)
  BY <1>4, <1>7, <1>10, <1>11, CurveAdded
<1> HIDE DEF half
<1>13. Len(two) >= DrawnFrom["arc"] /\ Elements(two) \subseteq DOMAIN half.points
  BY <1>4, <1>7, <1>8, <1>10, <1>12 DEF Grows
<1>14. IsStore(whole) /\ Grows(half, whole)
  BY <1>4, <1>10, <1>12, <1>13, CurveAdded
<1> HIDE DEF whole
<1>15. Grows(u, half)
  BY <1>1, <1>7, <1>12, GrowsOn, NextIsNat
<1>16. Grows(u, whole)
  BY <1>1, <1>12, <1>14, <1>15, GrowsOn, NextIsNat
<1> QED
  BY <1>2, <1>5, <1>14, <1>16, ReplacedAndSettled

(* One piece, and one after it.                                            *)
LEMMA TwoPiecesMade ==
  ASSUME NEW s, IsStore(s), NEW kind \in {"segment", "arc", "bezier"}, NEW role,
         NEW a \in DOMAIN s.points, NEW b \in DOMAIN s.points,
         NEW d \in DOMAIN s.points, NEW e \in DOMAIN s.points,
         NEW t, t = PieceOf(PieceOf(s, kind, a, b, role), kind, d, e, role)
  PROVE  IsStore(t) /\ Grows(s, t)
<1> DEFINE u == PieceOf(s, kind, a, b, role)
<1>1. IsStore(u) /\ Grows(s, u)
  BY PieceMade
<1>2. t = PieceOf(u, kind, d, e, role)
  OBVIOUS
<1> HIDE DEF u
<1>3. d \in DOMAIN u.points /\ e \in DOMAIN u.points
  BY <1>1 DEF Grows
<1>4. IsStore(t) /\ Grows(u, t)
  BY <1>1, <1>2, <1>3, PieceMade
<1> QED
  BY <1>1, <1>4, GrowsOn, NextIsNat

(* The far end of an open curve that can be cut.                           *)
LEMMA EndsStand ==
  ASSUME NEW s, IsStore(s), NEW c \in DOMAIN s.curves,
         s.curves[c].kind \in {"segment", "arc", "bezier"}
  PROVE  /\ s.curves[c].points[1] \in DOMAIN s.points
         /\ s.curves[c].points[2] \in DOMAIN s.points
         /\ s.curves[c].kind = "bezier" => s.curves[c].points[4] \in DOMAIN s.points
<1> DEFINE n == Len(s.curves[c].points)
<1>1. /\ n \in Nat /\ n >= DrawnFrom[s.curves[c].kind]
      /\ \A i \in 1 .. n : s.curves[c].points[i] \in DOMAIN s.points
  BY CurveFacts DEF IsStore
<1>2. n >= 2 /\ (s.curves[c].kind = "bezier" => n >= 4)
  BY <1>1 DEF DrawnFrom
<1> HIDE DEF n
<1>3. 1 \in 1 .. n /\ 2 \in 1 .. n /\ (s.curves[c].kind = "bezier" => 4 \in 1 .. n)
  BY <1>1, <1>2
<1> QED
  BY <1>1, <1>3

(* break_bezier.                                                           *)
LEMMA BezierBroken ==
  ASSUME NEW s, IsStore(s), NEW c \in DOMAIN s.curves, s.curves[c].kind = "bezier",
         NEW at \in DOMAIN s.points \cup {s.next}, NEW t, t = Settled(BreakBezier(s, c, at))
  PROVE  IsStore(t) /\ Keeps(s, t, {c}, {}) /\ Settles(t)
<1> DEFINE role == s.curves[c].role
           near == s.curves[c].points[1]
           far == s.curves[c].points[4]
           u == WithoutCurve(s, c)
           v == CutAt(u, at, role)
           w == PieceOf(PieceOf(v, "bezier", near, at, role), "bezier", at, far, role)
<1>1. near \in DOMAIN s.points /\ far \in DOMAIN s.points
  BY EndsStand
<1>2. IsStore(u) /\ u.points = s.points /\ u.next = s.next
  BY CurveGone
<1>3. t = Settled(w)
  BY DEF BreakBezier
<1>4. u = WithoutCurve(s, c)
  OBVIOUS
<1> HIDE DEF role, near, far, u
<1>5. at \in DOMAIN u.points \cup {u.next}
  BY <1>2
<1>6. IsStore(v) /\ Grows(u, v) /\ at \in DOMAIN v.points /\ DOMAIN u.points \subseteq DOMAIN v.points
  BY <1>2, <1>5, CutMade DEF IsCut, Grows
<1> HIDE DEF v
<1>7. near \in DOMAIN v.points /\ far \in DOMAIN v.points
  BY <1>1, <1>2, <1>6
<1>8. IsStore(w) /\ Grows(v, w)
  BY <1>6, <1>7, TwoPiecesMade
<1> HIDE DEF w
<1>9. Grows(u, w)
  BY <1>2, <1>6, <1>8, GrowsOn, NextIsNat
<1> QED
  BY <1>3, <1>4, <1>8, <1>9, ReplacedAndSettled

(* with_curve_trimmed: what is left runs from an end to a cut, ...         *)
LEMMA CurveTrimmedTo ==
  ASSUME NEW s, IsStore(s), NEW c \in DOMAIN s.curves,
         s.curves[c].kind \in {"segment", "arc", "bezier"},
         NEW end \in DOMAIN s.points, NEW at \in DOMAIN s.points \cup {s.next},
         NEW t, t = TrimTo(s, c, end, at)
  PROVE  IsStore(t) /\ Keeps(s, t, {c}, {}) /\ Settles(t)
<1> DEFINE role == s.curves[c].role
           kind == s.curves[c].kind
           u == WithoutCurve(s, c)
           v == CutAt(u, at, role)
           w == PieceOf(v, kind, end, at, role)
<1>1. IsStore(u) /\ u.points = s.points /\ u.next = s.next
  BY CurveGone
<1>2. t = Settled(w) /\ kind \in {"segment", "arc", "bezier"}
  BY DEF TrimTo
<1>3. u = WithoutCurve(s, c)
  OBVIOUS
<1> HIDE DEF role, kind, u
<1>4. end \in DOMAIN u.points /\ at \in DOMAIN u.points \cup {u.next}
  BY <1>1
<1>5. IsStore(v) /\ Grows(u, v) /\ at \in DOMAIN v.points /\ DOMAIN u.points \subseteq DOMAIN v.points
  BY <1>1, <1>4, CutMade DEF IsCut, Grows
<1> HIDE DEF v
<1>6. IsStore(w) /\ Grows(v, w)
  BY <1>2, <1>4, <1>5, PieceMade
<1> HIDE DEF w
<1>7. Grows(u, w)
  BY <1>1, <1>5, <1>6, GrowsOn, NextIsNat
<1> QED
  BY <1>2, <1>3, <1>6, <1>7, ReplacedAndSettled

(* ... or from each end to one, ...                                        *)
LEMMA CurveTrimmedBetween ==
  ASSUME NEW s, IsStore(s), NEW c \in DOMAIN s.curves,
         s.curves[c].kind \in {"segment", "arc", "bezier"},
         NEW at \in DOMAIN s.points \cup {s.next},
         NEW other \in DOMAIN s.points \cup {IF at = s.next THEN s.next + 1 ELSE s.next},
         NEW gone \in 1 .. 3, NEW t, t = TrimBetween(s, c, at, other, gone)
  PROVE  IsStore(t) /\ Keeps(s, t, {c}, {}) /\ Settles(t)
<1> DEFINE role == s.curves[c].role
           kind == s.curves[c].kind
           near == s.curves[c].points[1]
           far == s.curves[c].points[IF s.curves[c].kind = "bezier" THEN 4 ELSE 2]
           u == WithoutCurve(s, c)
           v == CutAt(CutAt(u, at, role), other, role)
           ends == <<near, at, other, far>>
           first == IF gone = 1 THEN 2 ELSE 1
           second == IF gone = 3 THEN 2 ELSE 3
           w == PieceOf(PieceOf(v, kind, ends[first], ends[first + 1], role),
                        kind, ends[second], ends[second + 1], role)
<1>1. near \in DOMAIN s.points /\ far \in DOMAIN s.points
  BY EndsStand
<1>2. IsStore(u) /\ u.points = s.points /\ u.next = s.next
  BY CurveGone
<1>3. t = Settled(w) /\ kind \in {"segment", "arc", "bezier"}
  BY DEF TrimBetween
<1>4. u = WithoutCurve(s, c)
  OBVIOUS
<1> HIDE DEF role, kind, near, far, u, w
<1>5. /\ at \in DOMAIN u.points \cup {u.next}
      /\ other \in DOMAIN u.points \cup {IF at = u.next THEN u.next + 1 ELSE u.next}
  BY <1>2
<1>6. /\ IsStore(v) /\ Grows(u, v) /\ at \in DOMAIN v.points /\ other \in DOMAIN v.points
  BY <1>2, <1>5, CutTwice
<1> HIDE DEF v
<1>7. near \in DOMAIN v.points /\ far \in DOMAIN v.points
  BY <1>1, <1>2, <1>6 DEF Grows
<1>8. IsStore(w) /\ Grows(v, w)
  <2> HIDE DEF ends
  <2>1. /\ ends[1] = near /\ ends[2] = at /\ ends[3] = other /\ ends[4] = far
    BY DEF ends
  <2>2. \A i \in 1 .. 4 : ends[i] \in DOMAIN v.points
    BY <1>6, <1>7, <2>1
  <2>3. first \in 1 .. 3 /\ second \in 1 .. 3
    OBVIOUS
  <2>4. /\ ends[first] \in DOMAIN v.points /\ ends[first + 1] \in DOMAIN v.points
        /\ ends[second] \in DOMAIN v.points /\ ends[second + 1] \in DOMAIN v.points
    BY <2>2, <2>3
  <2> HIDE DEF first, second
  <2> QED
    BY <1>3, <1>6, <2>4, TwoPiecesMade DEF w
<1>9. Grows(u, w)
  BY <1>2, <1>6, <1>8, GrowsOn, NextIsNat
<1> QED
  BY <1>3, <1>4, <1>8, <1>9, ReplacedAndSettled

(* ... and an arc is left of a circle.                                     *)
LEMMA CircleTrimmed ==
  ASSUME NEW s, IsStore(s), NEW c \in DOMAIN s.curves,
         NEW at \in DOMAIN s.points \cup {s.next},
         NEW other \in DOMAIN s.points \cup {IF at = s.next THEN s.next + 1 ELSE s.next},
         NEW t, t = TrimCircle(s, c, at, other)
  PROVE  IsStore(t) /\ Keeps(s, t, {c}, {}) /\ Settles(t)
<1> DEFINE role == s.curves[c].role
           u == WithoutCurve(s, c)
           v == CutAt(CutAt(u, at, role), other, role)
           w == PieceOf(v, "arc", at, other, role)
<1>1. IsStore(u) /\ u.points = s.points /\ u.next = s.next
  BY CurveGone
<1>2. t = Settled(w)
  BY DEF TrimCircle
<1>3. u = WithoutCurve(s, c)
  OBVIOUS
<1> HIDE DEF role, u
<1>4. /\ at \in DOMAIN u.points \cup {u.next}
      /\ other \in DOMAIN u.points \cup {IF at = u.next THEN u.next + 1 ELSE u.next}
  BY <1>1
<1>5. /\ IsStore(v) /\ Grows(u, v) /\ at \in DOMAIN v.points /\ other \in DOMAIN v.points
  BY <1>1, <1>4, CutTwice
<1> HIDE DEF v
<1>6. IsStore(w) /\ Grows(v, w)
  BY <1>5, PieceMade
<1> HIDE DEF w
<1>7. Grows(u, w)
  BY <1>1, <1>5, <1>6, GrowsOn, NextIsNat
<1> QED
  BY <1>2, <1>3, <1>6, <1>7, ReplacedAndSettled

(* A curve that no other crosses leaves nothing.                           *)
LEMMA CurveTrimmedAway ==
  ASSUME NEW s, IsStore(s), NEW c \in DOMAIN s.curves, NEW t, t = TrimAway(s, c)
  PROVE  IsStore(t) /\ Keeps(s, t, {c}, {}) /\ Settles(t)
<1> DEFINE u == WithoutCurve(s, c)
<1>1. IsStore(u) /\ Keeps(s, u, {c}, {})
  BY CurveGone
<1>2. t = Settled(u)
  BY DEF TrimAway
<1> HIDE DEF u
<1>3. IsStore(t) /\ Keeps(u, t, {}, {}) /\ Settles(t)
  BY <1>1, <1>2, SettledIs
<1> QED
  BY <1>1, <1>3, KeepsOn

(* The corner point becomes the end of one segment and a fresh one the end *)
(* of the other.                                                           *)
LEMMA CornerIsOpened ==
  ASSUME NEW s, IsStore(s), NEW p, NEW one, NEW two \in Segments(s),
         NEW t, t = CornerOpened(s, p, one, two)
  PROVE  IsStore(t) /\ Grows(s, t) /\ s.next \in DOMAIN t.points
<1> DEFINE u == AddPoint(s, Serving(s.curves[one].role))
           curve == s.curves[two]
           end == IF curve.points[1] = p THEN 1 ELSE 2
           fresh == s.next
<1>1. IsStore(u) /\ Grows(s, u) /\ fresh \in DOMAIN u.points /\ u.curves = s.curves
  BY PointAdded
<1>2. two \in DOMAIN s.curves /\ curve.kind = "segment"
  BY DEF Segments, OfKind
<1>3. Len(curve.points) \in Nat /\ Len(curve.points) >= 2
  BY <1>2, CurveFacts DEF IsStore, DrawnFrom
<1>4. end \in 1 .. Len(curve.points)
  BY <1>3
<1>5. t = [u EXCEPT !.curves[two].points[end] = fresh]
  BY DEF CornerOpened
<1> HIDE DEF u, end, fresh
<1>6. /\ two \in DOMAIN u.curves /\ u.curves[two].kind # "controlSpline"
      /\ end \in 1 .. Len(u.curves[two].points)
  BY <1>1, <1>2, <1>4
<1>7. IsStore(t) /\ Grows(u, t) /\ t.points = u.points
  BY <1>1, <1>5, <1>6, PointExchanged
<1>8. Grows(s, t)
  BY <1>1, <1>7, GrowsOn, NextIsNat
<1> QED
  BY <1>1, <1>7, <1>8 DEF fresh

(* Fillet and chamfer.                                                     *)
LEMMA CornerRounded ==
  ASSUME NEW s, IsStore(s), NEW p \in DOMAIN s.points, NEW one, NEW two \in Segments(s),
         NEW t, t = Filleted(s, p, one, two) \/ t = Chamfered(s, p, one, two)
  PROVE  IsStore(t) /\ Grows(s, t)
<1> DEFINE opened == CornerOpened(s, p, one, two)
           fresh == s.next
           role == s.curves[one].role
<1>1. IsStore(opened) /\ Grows(s, opened) /\ fresh \in DOMAIN opened.points
  BY CornerIsOpened
<1>2. p \in DOMAIN opened.points
  BY <1>1 DEF Grows
<1>3. CASE t = Filleted(s, p, one, two)
  <2> DEFINE rounded == ArcConnected(opened, p, fresh, role)
             first == TangentTo(one, opened.next)
             second == TangentTo(two, opened.next)
             half == AddClaim(rounded, first)
  <2>1. t = AddClaim(half, second)
    BY <1>3 DEF Filleted
  <2> HIDE DEF opened, fresh, role, first, second
  <2>2. IsStore(rounded) /\ Grows(opened, rounded)
    BY <1>1, <1>2, ArcIsConnected
  <2> HIDE DEF rounded
  <2>3. IsStore(half) /\ Grows(rounded, half)
    BY <2>2, ClaimAdded
  <2> HIDE DEF half
  <2>4. IsStore(t) /\ Grows(half, t)
    BY <2>1, <2>3, ClaimAdded
  <2>5. Grows(s, rounded)
    BY <1>1, <2>2, GrowsOn, NextIsNat
  <2>6. Grows(s, half)
    BY <2>2, <2>3, <2>5, GrowsOn, NextIsNat
  <2> QED
    BY <2>3, <2>4, <2>6, GrowsOn, NextIsNat
<1>4. CASE t = Chamfered(s, p, one, two)
  <2>1. t = AddCurve(opened, "segment", <<p, fresh>>, role)
    BY <1>4 DEF Chamfered
  <2> HIDE DEF opened, fresh, role
  <2>2. IsStore(t) /\ Grows(opened, t)
    BY <1>1, <1>2, <2>1, SegmentConnected
  <2> QED
    BY <1>1, <2>2, GrowsOn, NextIsNat
<1> QED
  BY <1>3, <1>4

(* apply_offset.                                                           *)
LEMMA CurveOffset ==
  ASSUME NEW s, IsStore(s), NEW c \in DOMAIN s.curves,
         s.curves[c].kind \in {"segment", "arc", "circle"}, NEW t, t = OffsetOf(s, c)
  PROVE  IsStore(t) /\ Grows(s, t)
<1> DEFINE role == s.curves[c].role
           ends == IF Serving(role) = "free" THEN {} ELSE {1, 2}
<1>1. CASE s.curves[c].kind = "segment"
  <2>1. t = AddCurve(Planted(s, 2, ends), "segment", Row(s, 2), role)
    BY <1>1 DEF OffsetOf
  <2>2. Enough("segment", 2)
    BY DEF Enough, DrawnFrom
  <2> HIDE DEF ends
  <2> QED
    BY <2>1, <2>2, RowDrawn
<1>2. CASE s.curves[c].kind = "arc"
  <2> DEFINE u == Planted(s, 2, ends)
             row == s.next .. s.next + 2 - 1
             from == s.next
             to == s.next + 1
  <2>1. t = ArcConnected(u, from, to, role)
    BY <1>2 DEF OffsetOf
  <2>2. s.next \in Nat
    BY NextIsNat
  <2>3. from \in row /\ to \in row
    BY <2>2
  <2> HIDE DEF ends
  <2>4. IsStore(u) /\ IsPlanted(s, u, 2, ends)
    BY RowPlanted
  <2> HIDE DEF u
  <2>5. /\ DOMAIN u.points = DOMAIN s.points \cup row
        /\ u.next = s.next + 2 /\ Keeps(s, u, {}, {})
    BY <2>4 DEF IsPlanted
  <2> HIDE DEF row, from, to
  <2>6. from \in DOMAIN u.points /\ to \in DOMAIN u.points
    BY <2>3, <2>5
  <2>7. IsStore(t) /\ Grows(u, t)
    BY <2>1, <2>4, <2>6, ArcIsConnected
  <2>8. Grows(s, u)
    BY <2>2, <2>5 DEF Grows
  <2> QED
    BY <2>4, <2>7, <2>8, GrowsOn, NextIsNat
<1>3. CASE s.curves[c].kind = "circle"
  <2>1. t = CircleAdded(s, role)
    BY <1>3 DEF OffsetOf
  <2> QED
    BY <2>1, CircleWithCenter
<1> QED
  BY <1>1, <1>2, <1>3

(* repair: the curves that are no longer curves go, and only them.         *)
LEMMA StoreRepaired ==
  ASSUME NEW s, IsStore(s), NEW invalid, NEW t, t = Repaired(s, invalid)
  PROVE  IsStore(t) /\ Keeps(s, t, DOMAIN s.curves, {})
<1> DEFINE left == Only(s.curves, {c \in DOMAIN s.curves \ invalid :
                                     Elements(s.curves[c].points) \subseteq DOMAIN s.points})
           u == [s EXCEPT !.curves = left]
           v == DropDanglingPatterns(u)
           w == DropDanglingConstraints(v)
<1>1. /\ Shape(s) /\ s.next \in Nat
      /\ \A c \in DOMAIN s.curves : Elements(s.curves[c].points) \subseteq DOMAIN s.points \cup {}
  BY StoreFacts DEF IsStore
<1>2. DOMAIN left \subseteq DOMAIN s.curves /\ \A c \in DOMAIN left : left[c] = s.curves[c]
  BY DEF Only
<1>3. t = PruneOrphanCenters(w)
  BY DEF Repaired
<1> HIDE DEF left
<1>4. u = Store(s.points, left, s.claims, s.patterns, s.next)
  BY <1>1, NewCurves
<1> HIDE DEF u
<1>5. Shape(u) /\ u.points = s.points /\ u.curves = left /\ u.next = s.next
  BY <1>4, StoreHas
<1>6. IsStoreBut(u, {})
  BY <1>1, <1>2, <1>5, StaysAStore DEF IsStore
<1>7. IsStore(u)
  BY <1>6 DEF IsStore
<1>8. IsStore(v) /\ v.points = u.points
  BY <1>7, PatternsDropped
<1> HIDE DEF v
<1>9. IsStore(w) /\ w.points = v.points
  BY <1>8, ClaimsDropped
<1> HIDE DEF w
<1>10. IsStore(t) /\ Keeps(w, t, {}, {})
  BY <1>3, <1>9, OrphansGone
<1> QED
  BY <1>5, <1>8, <1>9, <1>10 DEF Keeps

(***************************************************************************)
(* The doors.                                                              *)
(***************************************************************************)

(* What every door does first.                                             *)
LEMMA BecomesIs ==
  ASSUME NEW t, Becomes(t)
  PROVE  sketch' = t
BY DEF Becomes

(* Releasing a claim or a pattern leaves every curve and every point.      *)
LEMMA Released ==
  ASSUME NEW s, IsStore(s), NEW t, NEW kept,
         \/ t = [s EXCEPT !.claims = kept]
         \/ t = [s EXCEPT !.patterns = kept]
  PROVE  IsStore(t) /\ Grows(s, t)
<1>1. Shape(s) /\ s.next \in Nat
  BY StoreFacts DEF IsStore
<1>2. \/ t = Store(s.points, s.curves, kept, s.patterns, s.next)
      \/ t = Store(s.points, s.curves, s.claims, kept, s.next)
  BY <1>1, NewClaims, NewPatterns
<1>3. Shape(t) /\ t.points = s.points /\ t.curves = s.curves /\ t.next = s.next
  BY <1>2, StoreHas
<1>4. IsStoreBut(t, {}) /\ Keeps(s, t, {}, {})
  BY <1>3, RestStays DEF IsStore
<1> QED
  BY <1>1, <1>3, <1>4 DEF IsStore, Grows

(* The doors that draw take nothing.                                       *)
LEMMA DrawingGrows ==
  ASSUME IsStore(sketch),
         PlacePoint \/ PlantPoint \/ Connect \/ ConnectArc \/ DrawCircle \/ DrawHigherCurve
  PROVE  IsStore(sketch') /\ Grows(sketch, sketch')
<1>1. CASE PlacePoint
  <2>1. sketch' = AddPoint(sketch, "free")
    BY <1>1, BecomesIs DEF PlacePoint, AddFreePoint
  <2> QED
    BY <2>1, PointAdded
<1>2. CASE PlantPoint
  <2> DEFINE u == AddPoint(sketch, "free")
  <2>1. PICK c \in OfKind(sketch, {"segment", "arc", "circle"}) :
          sketch' = AddClaim(u, [kind |-> "onCurve", points |-> {sketch.next}, curves |-> {c}])
    BY <1>2, BecomesIs DEF PlantPoint, AddFreePoint
  <2>2. IsStore(u) /\ Grows(sketch, u)
    BY PointAdded
  <2> HIDE DEF u
  <2>3. IsStore(sketch') /\ Grows(u, sketch')
    BY <2>1, <2>2, ClaimAdded
  <2> QED
    BY <2>2, <2>3, GrowsOn, NextIsNat
<1>3. CASE Connect
  <2>1. PICK from \in Points, to \in Points :
          sketch' = AddCurve(sketch, "segment", <<from, to>>, "real")
    BY <1>3, BecomesIs DEF Connect, Connected
  <2> QED
    BY <2>1, SegmentConnected DEF Points
<1>4. CASE ConnectArc
  <2>1. PICK from \in Points, to \in Points : sketch' = ArcConnected(sketch, from, to, "real")
    BY <1>4, BecomesIs DEF ConnectArc
  <2> QED
    BY <2>1, ArcIsConnected DEF Points
<1>5. CASE DrawCircle
  <2>1. \/ sketch' = CircleAdded(sketch, "real")
        \/ \E center \in Points : sketch' = CircleAbout(sketch, center, "real")
    BY <1>5, BecomesIs DEF DrawCircle
  <2> QED
    BY <2>1, CircleDrawn, CircleWithCenter DEF Points
<1>6. CASE DrawHigherCurve
  <2>1. \/ sketch' = CubicBezierAdded(sketch) \/ sketch' = EllipseAdded(sketch)
        \/ sketch' = ConicAdded(sketch) \/ sketch' = ControlSplineAdded(sketch, 3)
        \/ sketch' = FitSplineAdded(sketch, 2)
    BY <1>6, BecomesIs DEF DrawHigherCurve
  <2> QED
    BY <2>1, RowCurveDrawn, FitSplineDrawn
<1> QED
  BY <1>1, <1>2, <1>3, <1>4, <1>5, <1>6

(* So do the doors that assert, and that release.                          *)
LEMMA AssertingGrows ==
  ASSUME IsStore(sketch),
         DeleteConstraint \/ DeletePattern \/ AddConstraint \/ RestateDimension \/ AddPattern
  PROVE  IsStore(sketch') /\ Grows(sketch, sketch')
<1>1. CASE DeleteConstraint
  <2>1. \E kept : sketch' = [sketch EXCEPT !.claims = kept]
    BY <1>1, BecomesIs DEF DeleteConstraint
  <2> QED
    BY <2>1, Released
<1>2. CASE DeletePattern
  <2>1. \E kept : sketch' = [sketch EXCEPT !.patterns = kept]
    BY <1>2, BecomesIs DEF DeletePattern
  <2> QED
    BY <2>1, Released
<1>3. CASE AddConstraint
  <2>1. \E claim : sketch' = AddClaim(sketch, claim)
    BY <1>3, BecomesIs DEF AddConstraint
  <2> QED
    BY <2>1, ClaimAdded
<1>4. CASE RestateDimension
  <2>1. PICK kept, claim : sketch' = AddClaim([sketch EXCEPT !.claims = kept], claim)
    BY <1>4, BecomesIs DEF RestateDimension
  <2> DEFINE u == [sketch EXCEPT !.claims = kept]
  <2>2. IsStore(u) /\ Grows(sketch, u)
    BY Released
  <2>3. sketch' = AddClaim(u, claim)
    BY <2>1
  <2> HIDE DEF u
  <2>4. IsStore(sketch') /\ Grows(u, sketch')
    BY <2>2, <2>3, ClaimAdded
  <2> QED
    BY <2>2, <2>4, GrowsOn, NextIsNat
<1>5. CASE AddPattern
  <2>1. \E pattern : sketch' = PushPattern(sketch, pattern)
    BY <1>5, BecomesIs DEF AddPattern
  <2> QED
    BY <2>1, PatternPushed
<1> QED
  BY <1>1, <1>2, <1>3, <1>4, <1>5

(* And the modify tools that remove no curve.                              *)
LEMMA ModifyingGrows ==
  ASSUME IsStore(sketch), Split \/ RoundACorner \/ Offset \/ ToggleConstruction
  PROVE  IsStore(sketch') /\ Grows(sketch, sketch')
<1>1. CASE Split
  <2>1. PICK c \in Segments(sketch) : sketch' = SplitSegment(sketch, c)
    BY <1>1, BecomesIs DEF Split
  <2> QED
    BY <2>1, SegmentSplit
<1>2. CASE RoundACorner
  <2>1. PICK p \in Points, one \in Segments(sketch), two \in Segments(sketch) :
          sketch' = Filleted(sketch, p, one, two) \/ sketch' = Chamfered(sketch, p, one, two)
    BY <1>2, BecomesIs DEF RoundACorner
  <2> QED
    BY <2>1, CornerRounded DEF Points
<1>3. CASE Offset
  <2>1. PICK c \in OfKind(sketch, {"segment", "arc", "circle"}) : sketch' = OffsetOf(sketch, c)
    BY <1>3, BecomesIs DEF Offset
  <2>2. c \in DOMAIN sketch.curves /\ sketch.curves[c].kind \in {"segment", "arc", "circle"}
    BY DEF OfKind
  <2> QED
    BY <2>1, <2>2, CurveOffset
<1>4. CASE ToggleConstruction
  <2>1. PICK c \in Curves : sketch' = Toggled(sketch, c)
    BY <1>4, BecomesIs DEF ToggleConstruction
  <2> QED
    BY <2>1, RoleToggled DEF Curves
<1> QED
  BY <1>1, <1>2, <1>3, <1>4

(* A door aimed at a curve takes no other, no point of the author's but of *)
(* its, and settles where its kind's delete does.                          *)
Takes(s, t, c) ==
  /\ Keeps(s, t, {c}, Elements(s.curves[c].points))
  /\ s.curves[c].kind \notin Unsettled => Settles(t)

(* What takes the curve alone and settles takes no more.                   *)
LEMMA TakesEnough ==
  ASSUME NEW s, NEW t, NEW c, NEW gone \in {{}, {c}}, Keeps(s, t, gone, {}), Settles(t)
  PROVE  Takes(s, t, c)
BY DEF Keeps, Takes

(* A cut stands or is the next point; so is the second one once the first  *)
(* was made.                                                               *)
LEMMA CutsStand ==
  ASSUME NEW c, NEW at \in Cuts(c)
  PROVE  /\ at \in DOMAIN sketch.points \cup {sketch.next}
         /\ \A other \in Others(c, at) :
              other \in DOMAIN sketch.points
                \cup {IF at = sketch.next THEN sketch.next + 1 ELSE sketch.next}
BY DEF Cuts, Others, Points

(* Break is aimed at the curve it cuts.                                    *)
LEMMA BreakTakes ==
  ASSUME IsStore(sketch), Break
  PROVE  IsStore(sketch') /\ \E c \in Curves : Takes(sketch, sketch', c)
<1> DEFINE Breaks(c, at) ==
      \/ Kind(c) \in {"segment", "arc"} /\ Becomes(Settled(BreakStroke(sketch, c, at)))
      \/ Kind(c) = "bezier" /\ Becomes(Settled(BreakBezier(sketch, c, at)))
      \/ Kind(c) = "circle" /\ \E other \in Others(c, at) :
            Becomes(Settled(BreakCircle(sketch, c, at, other)))
<1>1. PICK c \in OfKind(sketch, Cuttable) : \E at \in Cuts(c) : Breaks(c, at)
  BY DEF Break
<1>2. PICK at \in Cuts(c) : Breaks(c, at)
  BY <1>1
<1>3. c \in DOMAIN sketch.curves /\ at \in DOMAIN sketch.points \cup {sketch.next}
  BY CutsStand DEF OfKind
<1>4. CASE Kind(c) \in {"segment", "arc"} /\ Becomes(Settled(BreakStroke(sketch, c, at)))
  <2> DEFINE u == BreakStroke(sketch, c, at)
  <2>1. IsStore(u) /\ Grows(sketch, u)
    BY <1>3, <1>4, StrokeBroken DEF Kind
  <2>2. sketch' = Settled(u)
    BY <1>4, BecomesIs
  <2> HIDE DEF u
  <2>3. IsStore(sketch') /\ Keeps(sketch, sketch', {}, {}) /\ Settles(sketch')
    BY <2>1, <2>2, GrownAndSettled
  <2> QED
    BY <1>3, <2>3, TakesEnough DEF Curves
<1>5. CASE Kind(c) = "bezier" /\ Becomes(Settled(BreakBezier(sketch, c, at)))
  <2>1. IsStore(sketch') /\ Keeps(sketch, sketch', {c}, {}) /\ Settles(sketch')
    BY <1>3, <1>5, BezierBroken, BecomesIs DEF Kind
  <2> QED
    BY <1>3, <2>1, TakesEnough DEF Curves
<1>6. CASE Kind(c) = "circle" /\ \E other \in Others(c, at) :
             Becomes(Settled(BreakCircle(sketch, c, at, other)))
  <2>1. PICK other \in Others(c, at) : sketch' = Settled(BreakCircle(sketch, c, at, other))
    BY <1>6, BecomesIs
  <2>2. other \in DOMAIN sketch.points
          \cup {IF at = sketch.next THEN sketch.next + 1 ELSE sketch.next}
    BY CutsStand
  <2>3. IsStore(sketch') /\ Keeps(sketch, sketch', {c}, {}) /\ Settles(sketch')
    BY <1>3, <2>1, <2>2, CircleBroken
  <2> QED
    BY <1>3, <2>3, TakesEnough DEF Curves
<1> QED
  BY <1>2, <1>4, <1>5, <1>6

(* So is trim.                                                             *)
LEMMA TrimTakes ==
  ASSUME IsStore(sketch), Trim
  PROVE  IsStore(sketch') /\ \E c \in Curves : Takes(sketch, sketch', c)
<1>1. PICK c \in OfKind(sketch, Cuttable) :
        \/ Becomes(TrimAway(sketch, c))
        \/ \E end \in Ends(c), at \in Cuts(c) : Becomes(TrimTo(sketch, c, end, at))
        \/ \E at \in Cuts(c) : \E other \in Others(c, at) :
             IF Kind(c) = "circle" THEN Becomes(TrimCircle(sketch, c, at, other))
             ELSE \E gone \in 1 .. 3 : Becomes(TrimBetween(sketch, c, at, other, gone))
  BY DEF Trim
<1>2. c \in DOMAIN sketch.curves /\ sketch.curves[c].kind \in Cuttable
  BY DEF OfKind
<1>3. SUFFICES IsStore(sketch') /\ Keeps(sketch, sketch', {c}, {}) /\ Settles(sketch')
  BY <1>2, TakesEnough DEF Curves
<1>4. CASE Becomes(TrimAway(sketch, c))
  BY <1>2, <1>4, CurveTrimmedAway, BecomesIs
<1>5. CASE \E end \in Ends(c), at \in Cuts(c) : Becomes(TrimTo(sketch, c, end, at))
  <2>1. PICK end \in Ends(c), at \in Cuts(c) : sketch' = TrimTo(sketch, c, end, at)
    BY <1>5, BecomesIs
  <2>2. sketch.curves[c].kind \in {"segment", "arc", "bezier"}
    BY <1>2 DEF Ends, Kind, Cuttable
  <2>3. end \in DOMAIN sketch.points
    BY <1>2, <2>2, EndsStand DEF Ends, Kind
  <2>4. at \in DOMAIN sketch.points \cup {sketch.next}
    BY CutsStand
  <2> QED
    BY <1>2, <2>1, <2>2, <2>3, <2>4, CurveTrimmedTo
<1>6. CASE \E at \in Cuts(c) : \E other \in Others(c, at) :
             IF Kind(c) = "circle" THEN Becomes(TrimCircle(sketch, c, at, other))
             ELSE \E gone \in 1 .. 3 : Becomes(TrimBetween(sketch, c, at, other, gone))
  <2>1. PICK at \in Cuts(c) : \E other \in Others(c, at) :
          IF Kind(c) = "circle" THEN Becomes(TrimCircle(sketch, c, at, other))
          ELSE \E gone \in 1 .. 3 : Becomes(TrimBetween(sketch, c, at, other, gone))
    BY <1>6
  <2>2. PICK other \in Others(c, at) :
          IF Kind(c) = "circle" THEN sketch' = TrimCircle(sketch, c, at, other)
          ELSE \E gone \in 1 .. 3 : sketch' = TrimBetween(sketch, c, at, other, gone)
    BY <2>1, BecomesIs
  <2>3. /\ at \in DOMAIN sketch.points \cup {sketch.next}
        /\ other \in DOMAIN sketch.points
             \cup {IF at = sketch.next THEN sketch.next + 1 ELSE sketch.next}
    BY CutsStand
  <2>4. CASE Kind(c) = "circle"
    BY <1>2, <2>2, <2>3, <2>4, CircleTrimmed
  <2>5. CASE Kind(c) # "circle"
    <3>1. sketch.curves[c].kind \in {"segment", "arc", "bezier"}
      BY <1>2, <2>5 DEF Kind, Cuttable
    <3> QED
      <4>1. PICK gone \in 1 .. 3 : sketch' = TrimBetween(sketch, c, at, other, gone)
        BY <2>2, <2>5
      <4> QED
        BY <1>2, <2>3, <3>1, <4>1, CurveTrimmedBetween
  <2> QED
    BY <2>4, <2>5
<1> QED
  BY <1>1, <1>4, <1>5, <1>6

(* Every door, by what it is aimed at: nothing, a point, a curve, or what  *)
(* is no longer a curve.                                                   *)
LEMMA EveryDoor ==
  ASSUME IsStore(sketch), Next
  PROVE  /\ IsStore(sketch')
         /\ \/ Grows(sketch, sketch')
            \/ \E p \in Points :
                 /\ Keeps(sketch, sketch', Curves, {p})
                 /\ \A c \in LostCurves : p \in Elements(sketch.curves[c].points)
                 /\ sketch' = sketch \/ Settles(sketch')
            \/ \E c \in Curves : Takes(sketch, sketch', c)
            \/ Repair
<1>1. CASE \/ PlacePoint \/ PlantPoint \/ Connect \/ ConnectArc \/ DrawCircle
           \/ DrawHigherCurve
  BY <1>1, DrawingGrows
<1>2. CASE \/ DeleteConstraint \/ DeletePattern \/ AddConstraint \/ RestateDimension
           \/ AddPattern
  BY <1>2, AssertingGrows
<1>3. CASE Split \/ RoundACorner \/ Offset \/ ToggleConstruction
  BY <1>3, ModifyingGrows
<1>4. CASE DeletePoint
  <2>1. PICK p \in Points : sketch' = DeletePointCascade(sketch, p)
    BY <1>4, BecomesIs DEF DeletePoint
  <2>2. /\ IsStore(sketch') /\ Keeps(sketch, sketch', DOMAIN sketch.curves, {p})
        /\ \A c \in DOMAIN sketch.curves \ DOMAIN sketch'.curves :
              p \in Elements(sketch.curves[c].points)
        /\ sketch' = sketch \/ Settles(sketch')
    BY <2>1, PointDeleted DEF Points
  <2> QED
    BY <2>2 DEF Curves, LostCurves
<1>5. CASE DeleteACurve
  <2>1. PICK c \in Curves : sketch' = DeleteCurve(sketch, c)
    BY <1>5, BecomesIs DEF DeleteACurve
  <2>2. /\ IsStore(sketch') /\ Keeps(sketch, sketch', {c}, Elements(sketch.curves[c].points))
        /\ sketch.curves[c].kind \notin Unsettled => Settles(sketch')
    BY <2>1, CurveDeleted DEF Curves
  <2> QED
    BY <2>2 DEF Takes
<1>6. CASE Break
  BY <1>6, BreakTakes
<1>7. CASE Trim
  BY <1>7, TrimTakes
<1>8. CASE Repair
  <2>1. \E invalid : sketch' = Repaired(sketch, invalid)
    BY <1>8, BecomesIs DEF Repair
  <2> QED
    BY <1>8, <2>1, StoreRepaired
<1> QED
  BY <1>1, <1>2, <1>3, <1>4, <1>5, <1>6, <1>7, <1>8 DEF Next

(***************************************************************************)
(* The theorems.                                                           *)
(***************************************************************************)

(* The invariant: a sketch is a store before and after every door.         *)
THEOREM SketchStaysAStore == Spec => []IsStore(sketch)
<1>1. Init => IsStore(sketch)
  BY SessionsAreSessions DEF Init, Allowed
<1>2. IsStore(sketch) /\ [Next]_vars => IsStore(sketch)'
  <2> SUFFICES ASSUME IsStore(sketch), [Next]_vars PROVE IsStore(sketch')
    OBVIOUS
  <2>1. CASE Next
    BY <2>1, EveryDoor
  <2>2. CASE UNCHANGED vars
    BY <2>2 DEF vars
  <2> QED
    BY <2>1, <2>2
<1> QED
  BY <1>1, <1>2, PTL DEF Spec

(* No curve ever names a point the store does not hold: the cascades take  *)
(* a curve with the points it stands on, or heal it, and mint or keep      *)
(* every point they draw on.                                               *)
THEOREM CurvesKeepTheirPoints == Spec => []CurvesStandOnPoints
<1>1. IsStore(sketch) => CurvesStandOnPoints
  BY StoreFacts DEF IsStore, CurvesStandOnPoints, Curves, Points
<1> QED
  BY <1>1, SketchStaysAStore, PTL

(* An edit takes what it was aimed at and what stood on it, and no other   *)
(* curve and no other point of the author's.                               *)
THEOREM EditsTakeOnlyTheirAim == Spec => NothingElseVanishes
<1>1. IsStore(sketch) /\ [Next]_vars =>
        [IF Repair THEN LostFree = {}
         ELSE \E aim \in Points \cup Curves \cup {0} : TakesOnly(aim)]_vars
  <2> SUFFICES ASSUME IsStore(sketch), Next
               PROVE  IF Repair THEN LostFree = {}
                      ELSE \E aim \in Points \cup Curves \cup {0} : TakesOnly(aim)
    OBVIOUS
  <2>1. CASE Repair
    <3>1. \E invalid : sketch' = Repaired(sketch, invalid)
      BY <2>1, BecomesIs DEF Repair
    <3>2. Keeps(sketch, sketch', DOMAIN sketch.curves, {})
      BY <3>1, StoreRepaired
    <3>3. LostFree = {}
      BY <3>2 DEF Keeps, LostFree, LostPoints
    <3> QED
      BY <2>1, <3>3
  <2>2. CASE ~Repair
    <3>1. CASE Grows(sketch, sketch')
      <4>1. LostCurves = {} /\ LostFree = {}
        BY <3>1 DEF Grows, Keeps, LostCurves, LostFree, LostPoints
      <4>2. TakesOnly(0)
        BY <4>1 DEF TakesOnly
      <4> QED
        BY <2>2, <4>2
    <3>2. CASE \E p \in Points :
                 /\ Keeps(sketch, sketch', Curves, {p})
                 /\ \A c \in LostCurves : p \in Elements(sketch.curves[c].points)
      <4>1. PICK p \in Points :
              /\ Keeps(sketch, sketch', Curves, {p})
              /\ \A c \in LostCurves : p \in Elements(sketch.curves[c].points)
        BY <3>2
      <4>2. LostFree \subseteq {p}
        BY <4>1 DEF Keeps, LostFree, LostPoints
      <4>3. TakesOnly(p)
        BY <4>1, <4>2 DEF TakesOnly
      <4> QED
        BY <2>2, <4>3
    <3>3. CASE \E c \in Curves : Takes(sketch, sketch', c)
      <4>1. PICK c \in Curves : Keeps(sketch, sketch', {c}, Elements(sketch.curves[c].points))
        BY <3>3 DEF Takes
      <4>2. LostCurves \subseteq {c} /\ LostFree \subseteq Elements(sketch.curves[c].points)
        BY <4>1 DEF Keeps, LostCurves, LostFree, LostPoints
      <4>3. TakesOnly(c)
        BY <4>2 DEF TakesOnly
      <4> QED
        BY <2>2, <4>3
    <3> QED
      BY <2>2, <3>1, <3>2, <3>3, EveryDoor
  <2> QED
    BY <2>1, <2>2
<1> QED
  BY <1>1, SketchStaysAStore, PTL DEF Spec, NothingElseVanishes

(* An edit that takes a curve whose kind settles leaves no claim and no    *)
(* pattern about what is gone.                                             *)
THEOREM EditsLeaveNothingDangling == Spec => EditsSettle
<1>1. IsStore(sketch) /\ [Next]_vars =>
        [LostCurves # {} /\ LostCurves \cap OfKind(sketch, Unsettled) = {} /\ ~Repair =>
           /\ \A k \in DOMAIN sketch'.claims : ClaimStands(sketch', sketch'.claims[k])
           /\ \A k \in DOMAIN sketch'.patterns : PatternStands(sketch', sketch'.patterns[k])
        ]_vars
  <2> SUFFICES ASSUME IsStore(sketch), Next, LostCurves # {},
                      LostCurves \cap OfKind(sketch, Unsettled) = {}, ~Repair
               PROVE  Settles(sketch')
    BY DEF Settles
  <2>1. CASE Grows(sketch, sketch')
    BY <2>1 DEF Grows, Keeps, LostCurves
  <2>2. CASE sketch' = sketch \/ Settles(sketch')
    BY <2>2 DEF LostCurves
  <2>3. CASE \E c \in Curves : Takes(sketch, sketch', c)
    <3>1. PICK c \in Curves : Takes(sketch, sketch', c)
      BY <2>3
    <3>2. LostCurves \subseteq {c}
      BY <3>1 DEF Takes, Keeps, LostCurves
    <3>3. sketch.curves[c].kind \notin Unsettled
      BY <3>2 DEF OfKind, LostCurves
    <3> QED
      BY <3>1, <3>3 DEF Takes
  <2> QED
    BY <2>1, <2>2, <2>3, EveryDoor
<1> QED
  BY <1>1, SketchStaysAStore, PTL DEF Spec, EditsSettle

=============================================================================
