
-------------------------- MODULE CommandStackProofs --------------------------
(***************************************************************************)
(* Undo, for every palette and every starting document:                    *)
(*                                                                         *)
(*   - every intent makes of a document a document, and does to its        *)
(*     structure (the scene without its placements) what Edited says       *)
(*     (IntentLands);                                                      *)
(*   - the inverse captured before an intent, applied to any document with *)
(*     the structure the intent made, and the counter put back after it,   *)
(*     give the structure before (CommandReturns, the counter rule of      *)
(*     command.rs);                                                        *)
(*   - where every placement can be told again from what it keeps, they    *)
(*     give the whole document before (CommandBack);                       *)
(*   - so a transaction spans two documents, seen by their structure or    *)
(*     exactly (See), and a stack of transactions files a line of them     *)
(*     (Spans, Filed);                                                     *)
(*   - the core tells such a line at every state (Told, HistoryInv), and   *)
(*     each action of the code moves what it shows as LinearHistory says   *)
(*     (Advances).                                                         *)
(*                                                                         *)
(* Of all documents only the structure comes back: a rotation that an      *)
(* offset write dropped and an offset that a density rounded do not        *)
(* (HistoryIsLinear).  Where no palette offers the one or the other        *)
(* together with what it loses, the document does (HistoryIsExact).        *)
(***************************************************************************)
EXTENDS HistoryInvariant, SequenceTheorems, FiniteSetTheorems, WellFoundedInduction, TLAPS

(* A set of naturals below a bound has a least member.                      *)
LEMMA FirstExists ==
  ASSUME NEW n \in Nat, NEW S \in SUBSET (0 .. n), S # {}
  PROVE  \E m \in S : \A k \in S : m <= k
<1> DEFINE HasFirst(T) == \E m \in T : \A k \in T : m <= k
           Lacking == {T \in FiniteSubsetsOf(0 .. n) : T # {} /\ ~HasFirst(T)}
<1>1. IsFiniteSet(0 .. n)
  BY FS_Interval
<1>2. S \in FiniteSubsetsOf(0 .. n)
  BY <1>1, FS_Subset DEF FiniteSubsetsOf
<1>3. SUFFICES ASSUME Lacking # {} PROVE FALSE
  BY <1>2
<1>4. PICK T \in Lacking : \A U \in Lacking : <<U, T>> \notin StrictSubsetOrdering(0 .. n)
  BY <1>3, FS_StrictSubsetOrderingWellFounded, WFMin
<1>5. T \subseteq 0 .. n /\ IsFiniteSet(T) /\ T # {} /\ ~HasFirst(T)
  BY <1>4 DEF FiniteSubsetsOf
<1>6. PICK x \in T : TRUE
  BY <1>5
<1> DEFINE rest == T \ {x}
<1>7. IsFiniteSet(rest) /\ rest \subseteq 0 .. n
  BY <1>5, FS_RemoveElement
<1>8. rest \notin Lacking
  BY <1>4, <1>5, <1>6, <1>7 DEF StrictSubsetOrdering
<1>9. rest = {} \/ HasFirst(rest)
  BY <1>7, <1>8 DEF FiniteSubsetsOf
<1>10. CASE rest = {}
  <2>1. T = {x}
    BY <1>6, <1>10
  <2> QED
    BY <1>5, <1>6, <2>1
<1>11. CASE HasFirst(rest)
  <2>1. PICK m \in rest : \A k \in rest : m <= k
    BY <1>11
  <2>2. \A k \in T : k = x \/ m <= k
    BY <2>1
  <2>3. m \in Int /\ x \in Int /\ m \in T /\ T \subseteq Int
    BY <1>5, <1>6, <2>1
  <2>4. CASE m <= x
    BY <1>5, <2>2, <2>3, <2>4
  <2>5. CASE ~(m <= x)
    <3>1. \A k \in T : x <= k
      BY <2>2, <2>3, <2>5
    <3> QED
      BY <1>5, <1>6, <3>1
  <2> QED
    BY <2>4, <2>5
<1> QED
  BY <1>9, <1>10, <1>11

(* Induction up to a bound, the property given as the set of what has it.  *)
LEMMA Induct ==
  ASSUME NEW n \in Nat, NEW S, 0 \in S, \A k \in 1 .. n : k - 1 \in S => k \in S
  PROVE  \A k \in 0 .. n : k \in S
<1> DEFINE Bad == {k \in 0 .. n : k \notin S}
<1>1. SUFFICES ASSUME Bad # {} PROVE FALSE
  OBVIOUS
<1>2. Bad \in SUBSET (0 .. n)
  OBVIOUS
<1>3. PICK m \in Bad : \A k \in Bad : m <= k
  BY <1>1, <1>2, FirstExists
<1>4. m \in 1 .. n /\ m - 1 \in 0 .. n /\ ~(m <= m - 1)
  BY <1>3
<1>5. m - 1 \in S
  BY <1>3, <1>4
<1> QED
  BY <1>3, <1>4, <1>5

(* A walk of m - 1 steps over a scene extends to a walk of m steps.         *)
LEMMA OneMoreStep ==
  ASSUME NEW how, NEW given, NEW start, NEW m \in Nat \ {0},
         CanWalk(how, given, start, m - 1)
  PROVE  CanWalk(how, given, start, m)
<1>1. PICK f : IsWalk(how, given, start, m - 1, f)
  BY DEF CanWalk
<1> DEFINE At(h, k) == IF k = 0 THEN start ELSE Take(how, given, h[k - 1], k)
           g == [k \in 0 .. m |-> IF k < m THEN f[k] ELSE At(f, m)]
<1>2. \A k \in 0 .. m - 1 : f[k] = At(f, k)
  BY <1>1 DEF IsWalk
<1>3. g = [k \in 0 .. m |-> g[k]]
  OBVIOUS
<1>4. \A k \in 0 .. m : g[k] = IF k < m THEN f[k] ELSE At(f, m)
  OBVIOUS
<1> HIDE DEF g
<1>5. \A k \in 0 .. m : g[k] = At(g, k)
  <2> TAKE k \in 0 .. m
  <2>1. CASE k = 0
    BY <1>2, <1>4, <2>1
  <2>2. CASE k # 0
    <3>1. g[k - 1] = f[k - 1]
      BY <1>4, <2>2
    <3>2. CASE k < m
      BY <1>2, <1>4, <2>2, <3>1, <3>2
    <3>3. CASE k = m
      BY <1>4, <2>2, <3>1, <3>3
    <3> QED
      BY <3>2, <3>3
  <2> QED
    BY <2>1, <2>2
<1>6. IsWalk(how, given, start, m, g)
  BY <1>3, <1>5 DEF IsWalk
<1> QED
  BY <1>6 DEF CanWalk

(* Every walk can be made.                                                 *)
LEMMA WalkExists ==
  ASSUME NEW how, NEW given, NEW start, NEW n \in Nat
  PROVE  CanWalk(how, given, start, n)
<1> DEFINE S == {m \in 0 .. n : CanWalk(how, given, start, m)}
<1>1. 0 \in S
  <2> DEFINE f == [k \in 0 .. 0 |-> start]
  <2>1. IsWalk(how, given, start, 0, f)
    BY DEF IsWalk
  <2> QED
    BY <2>1 DEF CanWalk
<1>2. ASSUME NEW k \in 1 .. n, k - 1 \in S PROVE k \in S
  BY <1>2, OneMoreStep
<1>3. \A k \in 0 .. n : k \in S
  <2> HIDE DEF S
  <2> QED
    BY <1>1, <1>2, Induct
<1> QED
  BY <1>3

(* What a walk is, at its start and at every step.                         *)
LEMMA WalkSteps ==
  ASSUME NEW how, NEW given, NEW start, NEW n \in Nat, NEW f,
         IsWalk(how, given, start, n, f)
  PROVE  /\ f[0] = start
         /\ \A k \in 1 .. n : f[k] = Take(how, given, f[k - 1], k)
BY DEF IsWalk

(* CHOOSE over a one-element set returns the element.                       *)
LEMMA OnlyOne == \A x : (CHOOSE y \in {x} : TRUE) = x
OBVIOUS

(* Under is the last of such a walk.                                       *)
LEMMA UnderWalk ==
  ASSUME NEW arena, NEW tops, Cardinality(DOMAIN arena) \in Nat
  PROVE  \E f : /\ IsWalk("down", arena, tops, Cardinality(DOMAIN arena), f)
                /\ Under(arena, tops) = f[Cardinality(DOMAIN arena)]
<1> DEFINE n == Cardinality(DOMAIN arena)
           Down(ids, k) == ids \cup UNION {Children(arena, id) : id \in ids}
           P(f) == f = [k \in 0 .. n |->
                     IF k = 0 THEN tops
                     ELSE CHOOSE after \in {Down(before, k) : before \in {f[k - 1]}} : TRUE]
           at == CHOOSE f : P(f)
<1>1. Under(arena, tops) = at[n]
  BY DEF Under, Walk
<1>2. \A f : IsWalk("down", arena, tops, n, f) <=> P(f)
  <2> TAKE f
  <2>1. ASSUME NEW k \in 0 .. n
        PROVE (CHOOSE after \in {Down(before, k) : before \in {f[k - 1]}} : TRUE) = Take("down", arena, f[k - 1], k)
    <3>1. {Down(before, k) : before \in {f[k - 1]}} = {Down(f[k - 1], k)}
      OBVIOUS
    <3>2. Take("down", arena, f[k - 1], k) = Down(f[k - 1], k)
      BY DEF Take
    <3> HIDE DEF Down
    <3> QED
      BY <3>1, <3>2, OnlyOne
  <2> HIDE DEF Down
  <2> QED
    BY <2>1, Zenon DEF IsWalk
<1>3. \E f : P(f)
  <2>1. CanWalk("down", arena, tops, n)
    BY WalkExists
  <2> HIDE DEF P
  <2> QED
    BY <1>2, <2>1, Zenon DEF CanWalk
<1> HIDE DEF P
<1>4. P(at)
  BY <1>3, Zenon
<1> QED
  BY <1>1, <1>2, <1>4

(* A slot closed up.                                                       *)
LEMMA RemoveAtIs ==
  ASSUME NEW T, NEW s \in Seq(T), NEW i \in 1 .. Len(s)
  PROVE  /\ RemoveAt(s, i) \in Seq(T)
         /\ Len(RemoveAt(s, i)) = Len(s) - 1
         /\ \A k \in 1 .. Len(s) - 1 :
              RemoveAt(s, i)[k] = IF k < i THEN s[k] ELSE s[k + 1]
<1> DEFINE a == SubSeq(s, 1, i - 1)
           b == SubSeq(s, i + 1, Len(s))
<1>1. a \in Seq(T) /\ Len(a) = i - 1 /\ \A k \in 1 .. i - 1 : a[k] = s[k]
  OBVIOUS
<1>2. b \in Seq(T) /\ Len(b) = Len(s) - i /\ \A k \in 1 .. Len(s) - i : b[k] = s[k + i]
  OBVIOUS
<1>3. RemoveAt(s, i) = a \o b
  BY DEF RemoveAt
<1> HIDE DEF a, b
<1>4. a \o b \in Seq(T) /\ Len(a \o b) = Len(s) - 1
  <2>1. Len(s) \in Nat
    OBVIOUS
  <2>2. a \o b \in Seq(T) /\ Len(a \o b) = Len(a) + Len(b)
    BY <1>1, <1>2, ConcatProperties
  <2> QED
    BY <1>1, <1>2, <2>1, <2>2
<1>5. ASSUME NEW k \in 1 .. Len(s) - 1
      PROVE  (a \o b)[k] = IF k < i THEN s[k] ELSE s[k + 1]
  <2>1. CASE k < i
    BY <1>1, <1>2, <2>1
  <2>2. CASE ~(k < i)
    <3>1. (a \o b)[k] = b[k - (i - 1)]
      BY <1>1, <1>2, <2>2
    <3>2. k - (i - 1) \in 1 .. Len(s) - i
      BY <2>2
    <3>3. b[k - (i - 1)] = s[k - (i - 1) + i]
      BY <1>2, <3>2
    <3> QED
      BY <2>2, <3>1, <3>3
  <2> QED
    BY <2>1, <2>2
<1> QED
  BY <1>3, <1>4, <1>5

(* A slot made.                                                            *)
LEMMA InsertAtIs ==
  ASSUME NEW T, NEW s \in Seq(T), NEW i \in 1 .. Len(s) + 1, NEW e \in T
  PROVE  /\ InsertAt(s, i, e) \in Seq(T)
         /\ Len(InsertAt(s, i, e)) = Len(s) + 1
         /\ \A k \in 1 .. Len(s) + 1 :
              InsertAt(s, i, e)[k] = IF k < i THEN s[k] ELSE IF k = i THEN e ELSE s[k - 1]
<1> DEFINE a == SubSeq(s, 1, i - 1)
           b == SubSeq(s, i, Len(s))
           c == a \o <<e>>
<1>1. a \in Seq(T) /\ Len(a) = i - 1 /\ \A k \in 1 .. i - 1 : a[k] = s[k]
  OBVIOUS
<1>2. b \in Seq(T) /\ Len(b) = Len(s) - i + 1
      /\ \A k \in 1 .. Len(s) - i + 1 : b[k] = s[k + i - 1]
  OBVIOUS
<1>3. InsertAt(s, i, e) = c \o b
  BY DEF InsertAt
<1> HIDE DEF a, b
<1>4. c \in Seq(T) /\ Len(c) = i /\ \A k \in 1 .. i : c[k] = IF k < i THEN s[k] ELSE e
  BY <1>1
<1> HIDE DEF c
<1>5. c \o b \in Seq(T) /\ Len(c \o b) = Len(s) + 1
  <2>1. Len(s) \in Nat
    OBVIOUS
  <2>2. c \o b \in Seq(T) /\ Len(c \o b) = Len(c) + Len(b)
    BY <1>2, <1>4, ConcatProperties
  <2> QED
    BY <1>2, <1>4, <2>1, <2>2
<1>6. ASSUME NEW k \in 1 .. Len(s) + 1
      PROVE  (c \o b)[k] = IF k < i THEN s[k] ELSE IF k = i THEN e ELSE s[k - 1]
  <2>1. CASE k <= i
    <3>1. (c \o b)[k] = c[k]
      BY <1>2, <1>4, <2>1
    <3> QED
      BY <1>4, <2>1, <3>1
  <2>2. CASE ~(k <= i)
    <3>1. (c \o b)[k] = b[k - i]
      BY <1>2, <1>4, <2>2
    <3>2. k - i \in 1 .. Len(s) - i + 1
      BY <2>2
    <3>3. b[k - i] = s[k - i + i - 1]
      BY <1>2, <3>2
    <3> QED
      BY <2>2, <3>1, <3>3
  <2> QED
    BY <2>1, <2>2
<1> QED
  BY <1>3, <1>5, <1>6

(* The one undoes the other.                                               *)
LEMMA InsertRemoved ==
  ASSUME NEW T, NEW s \in Seq(T), NEW i \in 1 .. Len(s)
  PROVE  InsertAt(RemoveAt(s, i), i, s[i]) = s
<1> DEFINE r == RemoveAt(s, i)
           e == s[i]
           t == InsertAt(r, i, e)
<1>1. r \in Seq(T) /\ Len(r) = Len(s) - 1
      /\ \A k \in 1 .. Len(s) - 1 : r[k] = IF k < i THEN s[k] ELSE s[k + 1]
  BY RemoveAtIs
<1>2. e \in T /\ i \in 1 .. Len(r) + 1
  BY <1>1
<1> HIDE DEF r, e
<1>3. t \in Seq(T) /\ Len(t) = Len(r) + 1
      /\ \A k \in 1 .. Len(r) + 1 : t[k] = IF k < i THEN r[k] ELSE IF k = i THEN e ELSE r[k - 1]
  BY <1>1, <1>2, InsertAtIs
<1> HIDE DEF t
<1>4. ASSUME NEW k \in 1 .. Len(s) PROVE t[k] = s[k]
  <2>1. CASE k < i
    <3>1. k \in 1 .. Len(s) - 1 /\ k \in 1 .. Len(r) + 1
      BY <1>1, <2>1
    <3>2. t[k] = r[k]
      BY <1>3, <2>1, <3>1
    <3>3. r[k] = s[k]
      BY <1>1, <2>1, <3>1
    <3> QED
      BY <3>2, <3>3
  <2>2. CASE k = i
    BY <1>1, <1>3, <2>2 DEF e
  <2>3. CASE k > i
    <3>1. k \in 1 .. Len(r) + 1 /\ k - 1 \in 1 .. Len(s) - 1 /\ ~(k - 1 < i) /\ k - 1 + 1 = k
      BY <1>1, <2>3
    <3>2. t[k] = r[k - 1]
      BY <1>3, <2>3, <3>1
    <3>3. r[k - 1] = s[k - 1 + 1]
      BY <1>1, <3>1
    <3> QED
      BY <3>1, <3>2, <3>3
  <2> QED
    BY <2>1, <2>2, <2>3
<1>5. t = s
  BY <1>1, <1>3, <1>4, SeqEqual
<1> QED
  BY <1>5 DEF t, r, e

(* Removing the last element undoes an Append.                              *)
LEMMA RemoveAppended ==
  ASSUME NEW T, NEW s \in Seq(T), NEW e \in T
  PROVE  RemoveAt(Append(s, e), Len(s) + 1) = s
<1> DEFINE a == Append(s, e)
           t == RemoveAt(a, Len(s) + 1)
<1>1. a \in Seq(T) /\ Len(a) = Len(s) + 1 /\ \A k \in 1 .. Len(s) : a[k] = s[k]
  OBVIOUS
<1> HIDE DEF a
<1>2. t \in Seq(T) /\ Len(t) = Len(s)
      /\ \A k \in 1 .. Len(s) : t[k] = IF k < Len(s) + 1 THEN a[k] ELSE a[k + 1]
  <2>1. Len(s) + 1 \in 1 .. Len(a) /\ Len(a) - 1 = Len(s)
    BY <1>1
  <2> QED
    BY <1>1, <2>1, RemoveAtIs
<1> HIDE DEF t
<1>3. t = s
  BY <1>1, <1>2, SeqEqual
<1> QED
  BY <1>3 DEF t, a

(* One name for another.                                                   *)
LEMMA ReplaceAllIs ==
  ASSUME NEW T, NEW s \in Seq(T), NEW a, NEW b \in T
  PROVE  /\ ReplaceAll(s, a, b) \in Seq(T)
         /\ Len(ReplaceAll(s, a, b)) = Len(s)
         /\ \A k \in 1 .. Len(s) : ReplaceAll(s, a, b)[k] = IF s[k] = a THEN b ELSE s[k]
<1> DEFINE r == [k \in 1 .. Len(s) |-> IF s[k] = a THEN b ELSE s[k]]
<1>1. r \in [1 .. Len(s) -> T]
  OBVIOUS
<1>2. r \in Seq(T)
  BY <1>1
<1>3. Len(r) = Len(s)
  BY <1>2
<1> QED
  BY <1>2, <1>3 DEF ReplaceAll

(* Replacing an element by a new one and back leaves the row as it was.     *)
LEMMA ReplaceBack ==
  ASSUME NEW T, NEW s \in Seq(T), NEW a \in T, NEW b \in T, b \notin Range(s)
  PROVE  ReplaceAll(ReplaceAll(s, a, b), b, a) = s
<1> DEFINE r == ReplaceAll(s, a, b)
           t == ReplaceAll(r, b, a)
<1>1. r \in Seq(T) /\ Len(r) = Len(s)
      /\ \A k \in 1 .. Len(s) : r[k] = IF s[k] = a THEN b ELSE s[k]
  BY ReplaceAllIs
<1> HIDE DEF r
<1>2. t \in Seq(T) /\ Len(t) = Len(r)
      /\ \A k \in 1 .. Len(r) : t[k] = IF r[k] = b THEN a ELSE r[k]
  BY <1>1, ReplaceAllIs
<1> HIDE DEF t
<1>3. \A k \in 1 .. Len(s) : s[k] # b
  BY DEF Range
<1>4. t = s
  BY <1>1, <1>2, <1>3, SeqEqual
<1> QED
  BY <1>4 DEF t, r

(*********** A document without its placements ***********)

(* The fields of a record built by Make.                                    *)
LEMMA MakeHas ==
  ASSUME NEW a, NEW r, NEW d, NEW p, NEW n, NEW v
  PROVE  /\ IsMade(Make(a, r, d, p, n, v))
         /\ Make(a, r, d, p, n, v).arena = a
         /\ Make(a, r, d, p, n, v).roots = r
         /\ Make(a, r, d, p, n, v).definitions = d
         /\ Make(a, r, d, p, n, v).points = p
         /\ Make(a, r, d, p, n, v).next = n
         /\ Make(a, r, d, p, n, v).density = v
BY DEF Make, IsMade

(* What a scene and its structure have in common.                          *)
LEMMA StructureIs ==
  ASSUME NEW s, IsMade(s)
  PROVE  Structure(s) = Make(Contents(s.arena), s.roots, s.definitions, s.points, s.next, s.density)
<1>1. s = [arena |-> s.arena, roots |-> s.roots, definitions |-> s.definitions,
           points |-> s.points, next |-> s.next, density |-> s.density]
  BY DEF IsMade, Make
<1> DEFINE C == Contents(s.arena)
<1>2. Structure(s) = [s EXCEPT !.arena = C]
  BY DEF Structure, Contents
<1> HIDE DEF C
<1>3. [s EXCEPT !.arena = C] = Make(C, s.roots, s.definitions, s.points, s.next, s.density)
  BY <1>1 DEF Make
<1> QED
  BY <1>2, <1>3 DEF C

(* The structure of a scene keeps every field, the arena reduced to its     *)
(* contents.                                                                *)
LEMMA StructureHas ==
  ASSUME NEW s, IsMade(s)
  PROVE  /\ IsMade(Structure(s))
         /\ Structure(s).arena = Contents(s.arena)
         /\ Structure(s).roots = s.roots
         /\ Structure(s).definitions = s.definitions
         /\ Structure(s).points = s.points
         /\ Structure(s).next = s.next
         /\ Structure(s).density = s.density
<1> DEFINE C == Contents(s.arena)
<1>1. Structure(s) = Make(C, s.roots, s.definitions, s.points, s.next, s.density)
  BY StructureIs
<1> HIDE DEF C
<1>2. IsMade(Structure(s))
  BY <1>1, MakeHas
<1>3. Structure(s).arena = C /\ Structure(s).roots = s.roots
      /\ Structure(s).definitions = s.definitions /\ Structure(s).points = s.points
      /\ Structure(s).next = s.next /\ Structure(s).density = s.density
  BY <1>1 DEF Make
<1> QED
  BY <1>2, <1>3 DEF C

(* Contents reads the content of every node of an arena.                    *)
LEMMA ContentsHas ==
  ASSUME NEW arena
  PROVE  /\ DOMAIN Contents(arena) = DOMAIN arena
         /\ \A id \in DOMAIN arena : Contents(arena)[id] = arena[id].content
BY DEF Contents

(*********** What lies below ***********)

(* The children of a node depend on the contents of the arena alone.        *)
LEMMA ChildrenAre ==
  ASSUME NEW arena, NEW id
  PROVE  Children(arena, id) = Kids(Contents(arena), id)
BY ContentsHas DEF Children, Kids

(* Bare turns contents back into an arena of nodes.                         *)
LEMMA BareHas ==
  ASSUME NEW c
  PROVE  /\ DOMAIN Bare(c) = DOMAIN c
         /\ \A id \in DOMAIN c : Bare(c)[id].content = c[id]
BY DEF Bare, Node

(* One step of the walk adds the children of what was reached.              *)
LEMMA DeeperHas ==
  ASSUME NEW c, NEW ids, NEW x
  PROVE  x \in Deeper(c, ids) <=> x \in ids \/ \E id \in ids : x \in Kids(c, id)
BY DEF Deeper

(* The downward walk of the scene steps by Deeper.                          *)
LEMMA DownWalk ==
  ASSUME NEW arena, NEW tops, NEW n \in Nat, NEW f, IsWalk("down", arena, tops, n, f)
  PROVE  f[0] = tops /\ \A k \in 1 .. n : f[k] = Deeper(Contents(arena), f[k - 1])
<1>1. ASSUME NEW ids, NEW k PROVE Take("down", arena, ids, k) = Deeper(Contents(arena), ids)
  <2>1. {Children(arena, id) : id \in ids} = {Kids(Contents(arena), id) : id \in ids}
    BY ChildrenAre
  <2> QED
    BY <2>1 DEF Take, Deeper
<1>2. f[0] = tops /\ \A k \in 1 .. n : f[k] = Take("down", arena, f[k - 1], k)
  BY WalkSteps
<1> QED
  BY <1>1, <1>2

(* What lies below some nodes is the last term of the walk by Deeper, as    *)
(* long as the arena is large.                                              *)
LEMMA BareWalk ==
  ASSUME NEW c, c = [id \in DOMAIN c |-> c[id]], NEW tops, IsFiniteSet(DOMAIN c)
  PROVE  \E f : /\ f[0] = tops
                /\ \A k \in 1 .. Cardinality(DOMAIN c) : f[k] = Deeper(c, f[k - 1])
                /\ Below(c, tops) = f[Cardinality(DOMAIN c)]
<1>1. Cardinality(DOMAIN c) \in Nat /\ DOMAIN Bare(c) = DOMAIN c
  BY FS_CardinalityType, BareHas
<1>2. Contents(Bare(c)) = c
  BY BareHas DEF Contents
<1>3. PICK f : /\ IsWalk("down", Bare(c), tops, Cardinality(DOMAIN c), f)
               /\ Below(c, tops) = f[Cardinality(DOMAIN c)]
  BY <1>1, UnderWalk DEF Below
<1>4. f[0] = tops /\ \A k \in 1 .. Cardinality(DOMAIN c) : f[k] = Deeper(Contents(Bare(c)), f[k - 1])
  BY <1>1, <1>3, DownWalk
<1> QED
  BY <1>2, <1>3, <1>4

(* Only the contents of the nodes decide what lies below.                  *)
LEMMA UnderIs ==
  ASSUME NEW arena, NEW tops, IsFiniteSet(DOMAIN arena)
  PROVE  Under(arena, tops) = Below(Contents(arena), tops)
<1> DEFINE c == Contents(arena)
           bare == Bare(c)
           n == Cardinality(DOMAIN arena)
<1>1. DOMAIN bare = DOMAIN arena /\ DOMAIN c = DOMAIN arena
  BY BareHas, ContentsHas
<1>2. n \in Nat
  BY FS_CardinalityType
<1>3. Contents(bare) = c
  BY BareHas, ContentsHas DEF Contents
<1> HIDE DEF bare, c
<1>4. PICK f : IsWalk("down", arena, tops, n, f) /\ Under(arena, tops) = f[n]
  BY <1>2, UnderWalk
<1>5. PICK g : IsWalk("down", bare, tops, n, g) /\ Under(bare, tops) = g[n]
  BY <1>1, <1>2, UnderWalk
<1> HIDE DEF n
<1>6. f[0] = tops /\ \A k \in 1 .. n : f[k] = Deeper(c, f[k - 1])
  BY <1>2, <1>4, DownWalk DEF c
<1>7. g[0] = tops /\ \A k \in 1 .. n : g[k] = Deeper(c, g[k - 1])
  BY <1>2, <1>3, <1>5, DownWalk
<1> DEFINE S == {k \in 0 .. n : f[k] = g[k]}
<1>8. 0 \in S
  BY <1>2, <1>6, <1>7
<1>9. \A k \in 1 .. n : k - 1 \in S => k \in S
  BY <1>6, <1>7
<1>10. \A k \in 0 .. n : k \in S
  <2> HIDE DEF S
  <2> QED
    BY <1>2, <1>8, <1>9, Induct
<1>11. f[n] = g[n]
  BY <1>2, <1>10
<1> QED
  BY <1>4, <1>5, <1>11 DEF Below, bare, c

(* What lies below some nodes holds them, holds the kids of what it holds, *)
(* and is made of nodes.                                                   *)
LEMMA BelowIs ==
  ASSUME NEW c, c = [id \in DOMAIN c |-> c[id]], IsFiniteSet(DOMAIN c), Closed(c), NEW tops \in SUBSET DOMAIN c
  PROVE  /\ tops \subseteq Below(c, tops)
         /\ Below(c, tops) \subseteq DOMAIN c
         /\ KeepsKids(c, Below(c, tops))
<1> DEFINE n == Cardinality(DOMAIN c)
<1>1. n \in Nat
  BY FS_CardinalityType
<1>3. PICK f : f[0] = tops /\ (\A k \in 1 .. n : f[k] = Deeper(c, f[k - 1])) /\ Below(c, tops) = f[n]
  BY BareWalk
<1>5. /\ f[0] = tops
      /\ \A k \in 1 .. n : \A x :
            x \in f[k] <=> x \in f[k - 1] \/ \E id \in f[k - 1] : x \in Kids(c, id)
  BY <1>3, DeeperHas
<1> HIDE DEF n
<1> DEFINE Inside == {k \in 0 .. n : tops \subseteq f[k] /\ f[k] \subseteq DOMAIN c}
           Full(k) == KeepsKids(c, f[k]) \/ Cardinality(f[k]) > k
           FullSteps == {k \in 0 .. n : Full(k)}
<1>6. \A k \in 0 .. n : k \in Inside
  <2>1. 0 \in Inside
    BY <1>1, <1>5
  <2>2. \A k \in 1 .. n : k - 1 \in Inside => k \in Inside
    BY <1>5 DEF Closed
  <2> HIDE DEF Inside
  <2> QED
    BY <1>1, <2>1, <2>2, Induct
<1>7. \A k \in 0 .. n : IsFiniteSet(f[k]) /\ Cardinality(f[k]) \in Nat /\ Cardinality(f[k]) <= n
  BY <1>1, <1>6, FS_Subset, FS_CardinalityType DEF n
<1>8. \A k \in 0 .. n : k \in FullSteps
  <2>1. 0 \in FullSteps
    <3>1. CASE tops = {}
      BY <1>1, <1>5, <3>1 DEF KeepsKids
    <3>2. CASE tops # {}
      <4>1. Cardinality(tops) # 0
        BY <1>1, <1>5, <1>7, <3>2, FS_EmptySet
      <4> QED
        BY <1>1, <1>5, <1>7, <4>1
    <3> QED
      BY <3>1, <3>2
  <2>2. ASSUME NEW k \in 1 .. n, k - 1 \in FullSteps PROVE k \in FullSteps
    <3>1. k - 1 \in 0 .. n /\ f[k - 1] \subseteq f[k] /\ k \in 0 .. n
      BY <1>1, <1>5, <2>2
    <3>2. CASE KeepsKids(c, f[k - 1])
      <4> DEFINE F == f[k - 1]
      <4>2. KeepsKids(c, F) => Deeper(c, F) = F
        <5> HIDE DEF F
        <5> QED
          BY DEF KeepsKids, Deeper
      <4>1. Deeper(c, f[k - 1]) = f[k - 1]
        BY <3>2, <4>2
      <4>3. f[k] = f[k - 1]
        BY <1>3, <2>2, <4>1
      <4> QED
        BY <3>1, <3>2, <4>3
    <3>3. CASE ~KeepsKids(c, f[k - 1]) /\ Cardinality(f[k - 1]) > k - 1
      <4>1. PICK id \in f[k - 1] : ~(Kids(c, id) \subseteq f[k - 1])
        BY <3>3 DEF KeepsKids
      <4>2. Kids(c, id) \subseteq f[k]
        BY <1>5, <4>1
      <4>3. f[k] # f[k - 1]
        BY <4>1, <4>2
      <4>4. Cardinality(f[k - 1]) < Cardinality(f[k])
        BY <1>7, <3>1, <4>3, FS_Subset
      <4> QED
        BY <1>7, <3>1, <3>3, <4>4
    <3> QED
      BY <2>2, <3>2, <3>3
  <2> HIDE DEF FullSteps
  <2> QED
    BY <1>1, <2>1, <2>2, Induct
<1>9. n \in 0 .. n /\ ~(Cardinality(f[n]) > n)
  BY <1>1, <1>7
<1>10. KeepsKids(c, f[n]) /\ tops \subseteq f[n] /\ f[n] \subseteq DOMAIN c
  BY <1>6, <1>8, <1>9
<1> QED
  BY <1>3, <1>10

(* And is the least to do so.                                              *)
LEMMA BelowLeast ==
  ASSUME NEW c, c = [id \in DOMAIN c |-> c[id]], IsFiniteSet(DOMAIN c), NEW tops, NEW C, tops \subseteq C, KeepsKids(c, C)
  PROVE  Below(c, tops) \subseteq C
<1> DEFINE n == Cardinality(DOMAIN c)
<1>1. n \in Nat
  BY FS_CardinalityType
<1>2. PICK f : f[0] = tops /\ (\A k \in 1 .. n : f[k] = Deeper(c, f[k - 1])) /\ Below(c, tops) = f[n]
  BY BareWalk
<1>4. /\ f[0] = tops
      /\ \A k \in 1 .. n : \A x :
            x \in f[k] <=> x \in f[k - 1] \/ \E id \in f[k - 1] : x \in Kids(c, id)
  BY <1>2, DeeperHas
<1> HIDE DEF n
<1> DEFINE Inside == {k \in 0 .. n : f[k] \subseteq C}
<1>5. 0 \in Inside
  BY <1>1, <1>4
<1>6. \A k \in 1 .. n : k - 1 \in Inside => k \in Inside
  BY <1>4 DEF KeepsKids
<1>7. \A k \in 0 .. n : k \in Inside
  <2> HIDE DEF Inside
  <2> QED
    BY <1>1, <1>5, <1>6, Induct
<1> QED
  BY <1>1, <1>2, <1>7

(* What lies below is on top or is a kid of something below.               *)
LEMMA BelowComesFrom ==
  ASSUME NEW c, c = [id \in DOMAIN c |-> c[id]], IsFiniteSet(DOMAIN c), Closed(c), NEW tops \in SUBSET DOMAIN c,
         NEW x \in Below(c, tops)
  PROVE  x \in tops \/ \E y \in Below(c, tops) : x \in Kids(c, y)
<1> DEFINE B == Below(c, tops)
           C == {y \in B : y \in tops \/ \E w \in B : y \in Kids(c, w)}
<1>1. tops \subseteq B /\ KeepsKids(c, B)
  BY BelowIs
<1> HIDE DEF B
<1>2. tops \subseteq C
  BY <1>1
<1>3. KeepsKids(c, C)
  BY <1>1 DEF KeepsKids
<1>4. B \subseteq C
  <2> HIDE DEF C
  <2> QED
    BY <1>2, <1>3, BelowLeast DEF B
<1> QED
  BY <1>4 DEF B

(*********** The rows of an outline ***********)

(* Ids of a typed outline lie below its counter, and its arena is finite.   *)
LEMMA BuiltFacts ==
  ASSUME NEW z, IsBuilt(z)
  PROVE  /\ IsMade(z) /\ z.arena = [id \in DOMAIN z.arena |-> z.arena[id]]
         /\ IsFiniteSet(DOMAIN z.arena)
         /\ \A id \in DOMAIN z.arena : id \in Nat /\ id > 1 /\ id < z.next
         /\ z.next \in Nat /\ z.next > 1
<1>1. z.next \in Nat /\ z.next > 1 /\ DOMAIN z.arena \subseteq 2 .. z.next - 1
  BY DEF IsBuilt
<1>2. IsFiniteSet(2 .. z.next - 1)
  BY <1>1, FS_Interval
<1>3. IsFiniteSet(DOMAIN z.arena)
  BY <1>1, <1>2, FS_Subset
<1> QED
  BY <1>1, <1>3 DEF IsBuilt

(* A group's content is its row of children and nothing else.               *)
LEMMA GroupIs ==
  ASSUME NEW content, IsContent(content), content.kind = "group"
  PROVE  content = Group(content.children) /\ content.children \in Seq(Nat)
BY DEF IsContent

(* The rows of a typed outline, by owner: the roots (1), a group (its id),  *)
(* a definition (minus its place).                                          *)
LEMMA RowTyped ==
  ASSUME NEW z, IsBuilt(z), NEW o \in Rows(z)
  PROVE  /\ o \in Int /\ Row(z, o) \in Seq(Nat)
         /\ o > 1 => o \in DOMAIN z.arena /\ z.arena[o].kind = "group"
         /\ o < 1 => -o \in DOMAIN z.definitions /\ o < 0
<1>1. CASE o = 1
  BY <1>1 DEF IsBuilt, Row
<1>2. CASE o \in DOMAIN z.arena /\ z.arena[o].kind = "group"
  <2>1. o \in Nat /\ o > 1
    BY <1>2, BuiltFacts
  <2>2. z.arena[o].children \in Seq(Nat)
    BY <1>2, GroupIs DEF IsBuilt
  <2> QED
    BY <1>2, <2>1, <2>2 DEF Row
<1>3. ASSUME NEW i \in DOMAIN z.definitions, o = -i PROVE
         o \in Int /\ Row(z, o) \in Seq(Nat) /\ -o \in DOMAIN z.definitions /\ o < 0
  <2>1. z.definitions \in Seq([id : Nat, children : Seq(Nat)])
    BY DEF IsBuilt
  <2>4. i \in 1 .. Len(z.definitions) /\ Len(z.definitions) \in Nat
    BY <1>3, <2>1
  <2>5. z.definitions[i] \in [id : Nat, children : Seq(Nat)]
    BY <2>1, <2>4, ElementOfSeq
  <2>2. i \in Nat /\ i > 0 /\ z.definitions[i].children \in Seq(Nat)
    BY <2>4, <2>5
  <2>3. -o = i /\ o < 0 /\ o \in Int
    BY <1>3, <2>2
  <2> QED
    BY <2>2, <2>3 DEF Row
<1>4. o = 1 \/ (o \in DOMAIN z.arena /\ z.arena[o].kind = "group") \/ \E i \in DOMAIN z.definitions : o = -i
  BY DEF Rows
<1>5. CASE \E i \in DOMAIN z.definitions : o = -i
  <2>1. o \in Int /\ Row(z, o) \in Seq(Nat) /\ -o \in DOMAIN z.definitions /\ o < 0
    BY <1>3, <1>5
  <2> QED
    BY <2>1
<1>6. CASE o \in DOMAIN z.arena /\ z.arena[o].kind = "group"
  <2>1. o \in Nat /\ o > 1
    BY <1>6, BuiltFacts
  <2> QED
    BY <1>2, <1>6, <2>1
<1> QED
  BY <1>1, <1>4, <1>5, <1>6

(* The kids of a node and the nodes on top, by their slots.                *)
LEMMA KidNamed ==
  ASSUME NEW z, IsBuilt(z), NEW g, NEW x
  PROVE  x \in Kids(z.arena, g) <=> g \in DOMAIN z.arena /\ \E i : Named(z, g, i, x)
<1>1. CASE g \in DOMAIN z.arena /\ z.arena[g].kind = "group"
  <2>1. g > 1 /\ g \in Nat /\ g \in Rows(z)
    BY <1>1, BuiltFacts DEF Rows
  <2>2. Row(z, g) = z.arena[g].children
    BY <2>1 DEF Row
  <2>3. x \in Range(Row(z, g)) <=> \E i : Named(z, g, i, x)
    BY <2>1 DEF Range, Named
  <2> QED
    BY <1>1, <2>2, <2>3 DEF Kids
<1>2. CASE g \in DOMAIN z.arena /\ z.arena[g].kind # "group"
  <2>1. g > 1 /\ g \in Nat
    BY <1>2, BuiltFacts
  <2>2. \A i : ~Named(z, g, i, x)
    BY <1>2, <2>1, RowTyped DEF Named
  <2> QED
    BY <1>2, <2>2 DEF Kids
<1>3. CASE g \notin DOMAIN z.arena
  BY <1>3 DEF Kids
<1> QED
  BY <1>1, <1>2, <1>3

(* The roots are the nodes that slots of the root row name.                 *)
LEMMA TopNamed ==
  ASSUME NEW z, NEW x
  PROVE  x \in Range(z.roots) <=> \E i : Named(z, 1, i, x)
BY DEF Named, Range, Rows, Row

(* Groups and roots of an outline name nodes of its arena.                  *)
LEMMA OutlineClosed ==
  ASSUME NEW z, IsOutline(z)
  PROVE  Closed(z.arena) /\ Range(z.roots) \subseteq DOMAIN z.arena
<1>1. IsBuilt(z) /\ \A o, i, id : Named(z, o, i, id) => id \in DOMAIN z.arena
  BY DEF IsOutline, IsSpun
<1>2. Closed(z.arena)
  BY <1>1, KidNamed DEF Closed
<1> QED
  BY <1>1, <1>2, TopNamed

(* Below is closed under children, and everything in it was asked for or    *)
(* hangs from something in it.                                              *)
LEMMA BelowFacts ==
  ASSUME NEW z, IsOutline(z), NEW tops \in SUBSET DOMAIN z.arena
  PROVE  /\ tops \subseteq Below(z.arena, tops)
         /\ Below(z.arena, tops) \subseteq DOMAIN z.arena
         /\ KeepsKids(z.arena, Below(z.arena, tops))
         /\ \A x \in Below(z.arena, tops) :
              x \in tops \/ \E y \in Below(z.arena, tops) : x \in Kids(z.arena, y)
<1>1. /\ z.arena = [id \in DOMAIN z.arena |-> z.arena[id]] /\ IsFiniteSet(DOMAIN z.arena)
      /\ Closed(z.arena)
  BY BuiltFacts, OutlineClosed DEF IsOutline
<1> QED
  BY <1>1, BelowIs, BelowComesFrom

(* Below is the least set that holds the tops and is closed under children. *)
LEMMA OutlineLeast ==
  ASSUME NEW z, IsOutline(z), NEW tops, NEW C, tops \subseteq C, KeepsKids(z.arena, C)
  PROVE  Below(z.arena, tops) \subseteq C
BY BuiltFacts, BelowLeast DEF IsOutline

(* Every id of the tree sits in it, and the slots of the tree hold its ids. *)
LEMMA TreeSits ==
  ASSUME NEW z, IsOutline(z), NEW id
  PROVE  id \in TreeOf(z) <=> \E o, k : Sits(z, o, k, id)
<1>1. Range(z.roots) \subseteq DOMAIN z.arena /\ IsBuilt(z)
  BY OutlineClosed DEF IsOutline
<1>2. /\ Range(z.roots) \subseteq TreeOf(z) /\ TreeOf(z) \subseteq DOMAIN z.arena
      /\ KeepsKids(z.arena, TreeOf(z))
      /\ \A x \in TreeOf(z) : x \in Range(z.roots) \/ \E y \in TreeOf(z) : x \in Kids(z.arena, y)
  BY <1>1, BelowFacts DEF TreeOf
<1>3. ASSUME id \in TreeOf(z) PROVE \E o, k : Sits(z, o, k, id)
  <2>1. CASE id \in Range(z.roots)
    BY <2>1, TopNamed DEF Sits
  <2>2. CASE \E y \in TreeOf(z) : id \in Kids(z.arena, y)
    BY <1>1, <2>2, KidNamed DEF Sits
  <2> QED
    BY <1>2, <1>3, <2>1, <2>2
<1>4. ASSUME NEW o, NEW k, Sits(z, o, k, id) PROVE id \in TreeOf(z)
  <2>1. CASE o = 1
    BY <1>2, <1>4, <2>1, TopNamed DEF Sits
  <2>2. CASE o \in TreeOf(z)
    <3>1. id \in Kids(z.arena, o)
      BY <1>1, <1>2, <1>4, <2>2, KidNamed DEF Sits
    <3> QED
      BY <1>2, <2>2, <3>1 DEF KeepsKids
  <2> QED
    BY <1>4, <2>1, <2>2 DEF Sits
<1> QED
  BY <1>3, <1>4

(* What the scene calls its tree, a parent, the siblings and the position. *)
LEMMA SceneHas ==
  ASSUME NEW s, IsDocument(s)
  PROVE  /\ IsMade(Structure(s)) /\ IsMade(s) /\ IsOutline(Structure(s))
         /\ Structure(s).arena = Contents(s.arena)
         /\ DOMAIN Structure(s).arena = DOMAIN s.arena
         /\ \A id \in DOMAIN s.arena : Structure(s).arena[id] = s.arena[id].content
         /\ Structure(s).roots = s.roots
         /\ Structure(s).definitions = s.definitions
         /\ Structure(s).points = s.points
         /\ Structure(s).next = s.next
         /\ Structure(s).density = s.density
<1>1. IsMade(s) /\ IsOutline(Structure(s))
  BY DEF IsDocument, IsFrame
<1>2. /\ IsMade(Structure(s))
      /\ Structure(s).arena = Contents(s.arena)
      /\ Structure(s).roots = s.roots
      /\ Structure(s).definitions = s.definitions
      /\ Structure(s).points = s.points
      /\ Structure(s).next = s.next
      /\ Structure(s).density = s.density
  BY <1>1, StructureHas
<1>3. /\ DOMAIN Structure(s).arena = DOMAIN s.arena
      /\ \A id \in DOMAIN s.arena : Structure(s).arena[id] = s.arena[id].content
  BY <1>2, ContentsHas
<1> QED
  BY <1>1, <1>2, <1>3

(* The scene's downward walk computes Below of its structure.               *)
LEMMA SceneBelow ==
  ASSUME NEW s, IsDocument(s), NEW tops
  PROVE  Under(s.arena, tops) = Below(Structure(s).arena, tops)
<1>1. IsFiniteSet(DOMAIN s.arena) /\ Structure(s).arena = Contents(s.arena)
  BY SceneHas, BuiltFacts DEF IsOutline
<1> QED
  BY <1>1, UnderIs

(* The node tree of a document is the tree of its structure.                *)
LEMMA SceneTree ==
  ASSUME NEW s, IsDocument(s)
  PROVE  Tree(s) = TreeOf(Structure(s))
BY SceneBelow, SceneHas DEF Tree, TreeOf

(* What the scene's upward look-ups (parent, siblings, position) return for *)
(* a node that sits in a slot.                                              *)
LEMMA ParentIs ==
  ASSUME NEW s, IsDocument(s), NEW o, NEW k, NEW id, Sits(Structure(s), o, k, id)
  PROVE  /\ id \in Tree(s)
         /\ ParentOf(s, id) = IF o = 1 THEN {} ELSE {o}
         /\ Siblings(s, ParentOf(s, id)) = Row(Structure(s), o)
         /\ Position(Row(Structure(s), o), id) = k
         /\ k \in 1 .. Len(Row(Structure(s), o)) /\ Row(Structure(s), o)[k] = id
         /\ Row(Structure(s), o) \in Seq(Nat)
         /\ o # 1 => o \in DOMAIN s.arena /\ s.arena[o].content.kind = "group" /\ o \in Nat /\ o > 1
<1> DEFINE z == Structure(s)
<1>1. IsOutline(z) /\ IsBuilt(z)
      /\ \A p, q, i, j, x : Named(z, p, i, x) /\ Named(z, q, j, x) => p = q /\ i = j
  BY SceneHas DEF IsOutline, IsSpun
<1>2. /\ z.arena = Contents(s.arena) /\ z.roots = s.roots /\ DOMAIN z.arena = DOMAIN s.arena
      /\ \A x \in DOMAIN s.arena : z.arena[x] = s.arena[x].content
  BY SceneHas
<1>3. Tree(s) = TreeOf(z)
  BY SceneTree
<1>4. Sits(z, o, k, id)
  OBVIOUS
<1> HIDE DEF z
<1>5. Named(z, o, k, id) /\ (o = 1 \/ o \in TreeOf(z)) /\ id \in TreeOf(z)
  BY <1>1, <1>4, TreeSits DEF Sits
<1>6. Range(z.roots) \subseteq DOMAIN z.arena /\ TreeOf(z) \subseteq DOMAIN z.arena
  BY <1>1, OutlineClosed, BelowFacts DEF TreeOf
<1>7. \A g : g \in ParentOf(s, id) <=> g \in TreeOf(z) /\ id \in Kids(z.arena, g)
  BY <1>2, <1>3, ChildrenAre DEF ParentOf
<1>8. \A g : g \in ParentOf(s, id) <=> g = o /\ o # 1
  <2> TAKE g
  <2>1. ASSUME g \in ParentOf(s, id) PROVE g = o /\ o # 1
    <3>1. g \in DOMAIN z.arena /\ \E i : Named(z, g, i, id)
      BY <1>1, <1>7, <2>1, KidNamed
    <3>2. g = o
      BY <1>1, <1>5, <3>1
    <3>3. g \in Nat /\ g > 1
      BY <1>1, <3>1, BuiltFacts
    <3> QED
      BY <3>2, <3>3
  <2>2. ASSUME g = o, o # 1 PROVE g \in ParentOf(s, id)
    <3>1. g \in TreeOf(z) /\ g \in DOMAIN z.arena
      BY <1>5, <1>6, <2>2
    <3>2. id \in Kids(z.arena, g)
      BY <1>1, <1>5, <2>2, <3>1, KidNamed
    <3> QED
      BY <1>7, <3>1, <3>2
  <2> QED
    BY <2>1, <2>2
<1>9. ParentOf(s, id) = IF o = 1 THEN {} ELSE {o}
  BY <1>8
<1>10. o \in Rows(z) /\ Row(z, o) \in Seq(Nat) /\ o \in Int
  BY <1>1, <1>5, RowTyped DEF Named
<1>11. o # 1 => o \in DOMAIN z.arena /\ o \in Nat /\ o > 1 /\ z.arena[o].kind = "group"
  <2>1. SUFFICES ASSUME o # 1 PROVE o \in DOMAIN z.arena /\ o \in Nat /\ o > 1 /\ z.arena[o].kind = "group"
    OBVIOUS
  <2>2. o \in DOMAIN z.arena /\ o \in Nat /\ o > 1
    BY <1>1, <1>5, <1>6, <2>1, BuiltFacts
  <2> QED
    BY <1>1, <1>10, <2>2, RowTyped
<1>12. Siblings(s, ParentOf(s, id)) = Row(z, o)
  <2>1. CASE o = 1
    BY <1>2, <1>9, <2>1 DEF Siblings, Row
  <2>2. CASE o # 1
    <3>1. (CHOOSE g \in {o} : TRUE) = o
      OBVIOUS
    <3>2. Siblings(s, ParentOf(s, id)) = s.arena[o].content.children
      BY <1>9, <2>2, <3>1 DEF Siblings
    <3> QED
      BY <1>2, <1>11, <2>2, <3>2 DEF Row
  <2> QED
    BY <2>1, <2>2
<1>13. k \in 1 .. Len(Row(z, o)) /\ Row(z, o)[k] = id
  BY <1>5, <1>10 DEF Named
<1>14. \A i \in 1 .. Len(Row(z, o)) : Row(z, o)[i] = id => i = k
  BY <1>1, <1>5, <1>10 DEF Named
<1>15. Position(Row(z, o), id) = k
  BY <1>13, <1>14 DEF Position
<1> QED
  BY <1>2, <1>3, <1>5, <1>9, <1>10, <1>11, <1>12, <1>13, <1>15 DEF z

(*********** The edits of the scene, seen on its structure ***********)

(* A record of the six fields with one of them another.                    *)
LEMMA PutArena ==
  ASSUME NEW s, IsMade(s), NEW A
  PROVE  [s EXCEPT !.arena = A] = Filled(s, A)
BY DEF IsMade, Make, Filled

(* A single-field EXCEPT on a scene is the named write.                     *)
LEMMA PutFields ==
  ASSUME NEW s, IsMade(s), NEW x
  PROVE  /\ [s EXCEPT !.roots = x] = Rooted(s, x)
         /\ [s EXCEPT !.definitions = x] = Defining(s, x)
         /\ [s EXCEPT !.points = x] = Pointing(s, x)
         /\ [s EXCEPT !.next = x] = Numbered(s, x)
         /\ [s EXCEPT !.density = x] = Dense(s, x)
BY DEF IsMade, Make, Rooted, Defining, Pointing, Numbered, Dense

(* A scene made of nodes, and its structure.                               *)
LEMMA FrameMade ==
  ASSUME NEW A, AreNodes(A), NEW r, NEW d, NEW p, NEW n, NEW v
  PROVE  /\ IsFrame(Make(A, r, d, p, n, v))
         /\ Structure(Make(A, r, d, p, n, v)) = Make(Contents(A), r, d, p, n, v)
<1> DEFINE s == Make(A, r, d, p, n, v)
<1>1. IsMade(s) /\ s.arena = A /\ s.roots = r /\ s.definitions = d /\ s.points = p
      /\ s.next = n /\ s.density = v
  BY MakeHas
<1> HIDE DEF s
<1>2. IsFrame(s)
  BY <1>1 DEF IsFrame, AreNodes
<1>3. Structure(s) = Make(Contents(A), r, d, p, n, v)
  BY <1>1, StructureIs
<1> QED
  BY <1>2, <1>3 DEF s

(* The parts of a scene whose arena holds nodes, and of its structure.      *)
LEMMA FrameHas ==
  ASSUME NEW s, IsFrame(s)
  PROVE  /\ IsMade(s) /\ AreNodes(s.arena) /\ IsMade(Structure(s))
         /\ Structure(s).arena = Contents(s.arena)
         /\ Structure(s).roots = s.roots
         /\ Structure(s).definitions = s.definitions
         /\ Structure(s).points = s.points
         /\ Structure(s).next = s.next
         /\ Structure(s).density = s.density
         /\ DOMAIN Structure(s).arena = DOMAIN s.arena
         /\ \A id \in DOMAIN s.arena : Structure(s).arena[id] = s.arena[id].content
<1>1. IsMade(s) /\ AreNodes(s.arena)
  BY DEF IsFrame, AreNodes
<1>2. /\ IsMade(Structure(s))
      /\ Structure(s).arena = Contents(s.arena)
      /\ Structure(s).roots = s.roots
      /\ Structure(s).definitions = s.definitions
      /\ Structure(s).points = s.points
      /\ Structure(s).next = s.next
      /\ Structure(s).density = s.density
  BY <1>1, StructureHas
<1> QED
  BY <1>1, <1>2, ContentsHas

(* Putting one node into an arena puts its content into the contents.       *)
LEMMA ArenaWith ==
  ASSUME NEW A, AreNodes(A), NEW id, NEW c, NEW at
  PROVE  /\ AreNodes(NodeOver(A, id, c, at))
         /\ Contents(NodeOver(A, id, c, at)) = With(Contents(A), id, c)
<1> DEFINE B == NodeOver(A, id, c, at)
<1>1. B = [x \in DOMAIN A \cup {id} |-> IF x = id THEN Node(c, at) ELSE A[x]]
  BY DEF NodeOver, Over
<1>2. DOMAIN B = DOMAIN A \cup {id} /\ B[id] = Node(c, at)
      /\ \A x \in DOMAIN A : x # id => B[x] = A[x]
  BY <1>1
<1>3. B = [x \in DOMAIN B |-> B[x]]
  BY <1>1
<1> HIDE DEF B
<1>4. \A x \in DOMAIN A : A[x] = Node(A[x].content, A[x].at)
  BY DEF AreNodes
<1>5. B[id].content = c /\ B[id].at = at
  BY <1>2 DEF Node
<1>6. \A x \in DOMAIN B : B[x] = Node(B[x].content, B[x].at)
  BY <1>2, <1>4, <1>5
<1>7. AreNodes(B)
  BY <1>3, <1>6 DEF AreNodes
<1>8. \A x \in DOMAIN B : B[x].content = IF x = id THEN c ELSE Contents(A)[x]
  BY <1>2, <1>5, ContentsHas
<1>9. Contents(B) = With(Contents(A), id, c)
  BY <1>2, <1>8, ContentsHas DEF Contents, With
<1> QED
  BY <1>7, <1>9 DEF B

(* Dropping nodes from an arena drops their contents.                       *)
LEMMA ArenaWithout ==
  ASSUME NEW A, AreNodes(A), NEW ids
  PROVE  /\ AreNodes([x \in DOMAIN A \ ids |-> A[x]])
         /\ Contents([x \in DOMAIN A \ ids |-> A[x]]) = Without(Contents(A), ids)
BY DEF AreNodes, Contents, Without

(* Writing the content of one node writes that entry of the contents.       *)
LEMMA ArenaPainted ==
  ASSUME NEW A, AreNodes(A), NEW g \in DOMAIN A, NEW c
  PROVE  /\ AreNodes([A EXCEPT ![g].content = c])
         /\ Contents([A EXCEPT ![g].content = c]) = With(Contents(A), g, c)
<1> DEFINE B == [A EXCEPT ![g].content = c]
<1>1. A = [x \in DOMAIN A |-> A[x]] /\ \A x \in DOMAIN A : A[x] = Node(A[x].content, A[x].at)
  BY DEF AreNodes
<1>2. DOMAIN B = DOMAIN A /\ B = [x \in DOMAIN B |-> B[x]] /\ \A x \in DOMAIN A : x # g => B[x] = A[x]
  BY <1>1
<1>3. B[g] = [A[g] EXCEPT !.content = c]
  BY <1>1
<1>4. B[g] = Node(c, A[g].at)
  BY <1>1, <1>3 DEF Node
<1> HIDE DEF B
<1>5. B[g].content = c /\ B[g].at = A[g].at
  BY <1>4 DEF Node
<1>6. \A x \in DOMAIN B : B[x] = Node(B[x].content, B[x].at)
  BY <1>1, <1>2, <1>4, <1>5
<1>7. AreNodes(B)
  BY <1>2, <1>6 DEF AreNodes
<1>8. \A x \in DOMAIN B : B[x].content = IF x = g THEN c ELSE Contents(A)[x]
  BY <1>2, <1>5, ContentsHas
<1>9. Contents(B) = With(Contents(A), g, c)
  BY <1>2, <1>8, ContentsHas DEF Contents, With
<1> QED
  BY <1>7, <1>9 DEF B

(* Moving a node leaves the contents alone.                                 *)
LEMMA ArenaReplaced ==
  ASSUME NEW A, AreNodes(A), NEW g \in DOMAIN A, NEW at
  PROVE  /\ AreNodes([A EXCEPT ![g].at = at])
         /\ Contents([A EXCEPT ![g].at = at]) = Contents(A)
<1> DEFINE B == [A EXCEPT ![g].at = at]
<1>1. A = [x \in DOMAIN A |-> A[x]] /\ \A x \in DOMAIN A : A[x] = Node(A[x].content, A[x].at)
  BY DEF AreNodes
<1>2. DOMAIN B = DOMAIN A /\ B = [x \in DOMAIN B |-> B[x]] /\ \A x \in DOMAIN A : x # g => B[x] = A[x]
  BY <1>1
<1>3. B[g] = [A[g] EXCEPT !.at = at]
  BY <1>1
<1>4. B[g] = Node(A[g].content, at)
  BY <1>1, <1>3 DEF Node
<1> HIDE DEF B
<1>5. B[g].content = A[g].content /\ B[g].at = at
  BY <1>4 DEF Node
<1>6. \A x \in DOMAIN B : B[x] = Node(B[x].content, B[x].at)
  BY <1>1, <1>2, <1>4, <1>5
<1>7. AreNodes(B)
  BY <1>2, <1>6 DEF AreNodes
<1>8. \A x \in DOMAIN B : B[x].content = A[x].content
  BY <1>2, <1>5
<1>9. Contents(B) = Contents(A)
  BY <1>2, <1>8 DEF Contents
<1> QED
  BY <1>7, <1>9 DEF B

(* Replacing the arena of a scene replaces the contents of its structure.   *)
LEMMA FilledFrame ==
  ASSUME NEW s, IsFrame(s), NEW A, AreNodes(A)
  PROVE  Mirrors(Filled(s, A), Filled(Structure(s), Contents(A)))
<1>1. Structure(s).roots = s.roots /\ Structure(s).definitions = s.definitions
      /\ Structure(s).points = s.points /\ Structure(s).next = s.next
      /\ Structure(s).density = s.density
  BY FrameHas
<1>2. /\ IsFrame(Make(A, s.roots, s.definitions, s.points, s.next, s.density))
      /\ Structure(Make(A, s.roots, s.definitions, s.points, s.next, s.density))
           = Make(Contents(A), s.roots, s.definitions, s.points, s.next, s.density)
  BY FrameMade
<1> QED
  BY <1>1, <1>2 DEF Mirrors, Filled

(* Store on the scene is PutIn on the structure (arena insert, scene.rs).   *)
LEMMA StoreFrame ==
  ASSUME NEW s, IsFrame(s), NEW id, NEW c, NEW at
  PROVE  Mirrors(Store(s, id, Node(c, at)), PutIn(Structure(s), id, c))
<1> DEFINE A == NodeOver(s.arena, id, c, at)
<1>0. AreNodes(s.arena) /\ Structure(s).arena = Contents(s.arena)
  BY FrameHas
<1>1. AreNodes(A) /\ Contents(A) = With(Structure(s).arena, id, c)
  BY <1>0, ArenaWith
<1>2. Store(s, id, Node(c, at)) = [s EXCEPT !.arena = A]
  BY DEF Store, NodeOver
<1> HIDE DEF A
<1> QED
  BY <1>1, <1>2, FrameHas, PutArena, FilledFrame DEF PutIn

(* Drop on the scene is TakenOut on the structure (arena remove, scene.rs). *)
LEMMA DropFrame ==
  ASSUME NEW s, IsFrame(s), NEW ids
  PROVE  Mirrors(Drop(s, ids), TakenOut(Structure(s), ids))
<1> DEFINE A == [x \in DOMAIN s.arena \ ids |-> s.arena[x]]
<1>1. AreNodes(A) /\ Contents(A) = Without(Structure(s).arena, ids)
  BY FrameHas, ArenaWithout
<1>2. Drop(s, ids) = [s EXCEPT !.arena = A]
  BY DEF Drop
<1> HIDE DEF A
<1> QED
  BY <1>1, <1>2, FrameHas, PutArena, FilledFrame DEF TakenOut

(* Writing one content on the scene is PutIn on the structure.              *)
LEMMA PaintFrame ==
  ASSUME NEW s, IsFrame(s), NEW g \in DOMAIN s.arena, NEW c
  PROVE  Mirrors([s EXCEPT !.arena[g].content = c], PutIn(Structure(s), g, c))
<1> DEFINE A == [s.arena EXCEPT ![g].content = c]
<1>1. AreNodes(A) /\ Contents(A) = With(Structure(s).arena, g, c)
  BY FrameHas, ArenaPainted
<1>3. IsMade(s)
  BY FrameHas
<1>2. [s EXCEPT !.arena[g].content = c] = Filled(s, A)
  BY <1>3 DEF IsMade, Make, Filled
<1> HIDE DEF A
<1> QED
  BY <1>1, <1>2, FilledFrame DEF PutIn

(* Writing roots, definitions, points or the counter is the same write on   *)
(* the structure.                                                           *)
LEMMA FieldFrame ==
  ASSUME NEW s, IsFrame(s), NEW x
  PROVE  /\ Mirrors([s EXCEPT !.roots = x], Rooted(Structure(s), x))
         /\ Mirrors([s EXCEPT !.definitions = x], Defining(Structure(s), x))
         /\ Mirrors([s EXCEPT !.points = x], Pointing(Structure(s), x))
         /\ Mirrors([s EXCEPT !.next = x], Numbered(Structure(s), x))
<1>1. IsMade(s) /\ AreNodes(s.arena) /\ Structure(s).arena = Contents(s.arena)
      /\ Structure(s).roots = s.roots /\ Structure(s).definitions = s.definitions
      /\ Structure(s).points = s.points /\ Structure(s).next = s.next
      /\ Structure(s).density = s.density
  BY FrameHas
<1>2. /\ [s EXCEPT !.roots = x] = Rooted(s, x)
      /\ [s EXCEPT !.definitions = x] = Defining(s, x)
      /\ [s EXCEPT !.points = x] = Pointing(s, x)
      /\ [s EXCEPT !.next = x] = Numbered(s, x)
  BY <1>1, PutFields
<1>3. Mirrors(Rooted(s, x), Rooted(Structure(s), x))
  BY <1>1, FrameMade DEF Mirrors, Rooted
<1>4. Mirrors(Defining(s, x), Defining(Structure(s), x))
  BY <1>1, FrameMade DEF Mirrors, Defining
<1>5. Mirrors(Pointing(s, x), Pointing(Structure(s), x))
  BY <1>1, FrameMade DEF Mirrors, Pointing
<1>6. Mirrors(Numbered(s, x), Numbered(Structure(s), x))
  BY <1>1, FrameMade DEF Mirrors, Numbered
<1> QED
  BY <1>2, <1>3, <1>4, <1>5, <1>6

(* Writing the row of an owner on the scene is Respin on the structure.     *)
LEMMA RespunFrame ==
  ASSUME NEW s, IsFrame(s), NEW o, o = 1 \/ IsGroup(s, o), NEW row
  PROVE  Mirrors(Respun(s, ParentSet(o), row), Respin(Structure(s), o, row))
<1>1. CASE o = 1
  BY <1>1, FieldFrame DEF ParentSet, Respun, Respin
<1>2. CASE o # 1
  <2>1. (CHOOSE g \in {o} : TRUE) = o
    BY OnlyOne
  <2>2. o \in DOMAIN s.arena /\ IsGroup(s, o)
    BY <1>2 DEF IsGroup
  <2>3. Respun(s, ParentSet(o), row) = [s EXCEPT !.arena[o].content = Group(row)]
    BY <1>2, <2>1, <2>2 DEF ParentSet, Respun
  <2> QED
    BY <1>2, <2>2, <2>3, PaintFrame DEF Respin
<1> QED
  BY <1>1, <1>2

(*********** Each edit, mirrored ***********)

(* What it means that a scene mirrors an outline, field by field.           *)
LEMMA MirrorsIs ==
  ASSUME NEW s, NEW z, Mirrors(s, z)
  PROVE  /\ IsFrame(s) /\ IsMade(s) /\ IsMade(z) /\ Structure(s) = z
         /\ s.roots = z.roots /\ s.definitions = z.definitions /\ s.points = z.points
         /\ s.next = z.next /\ s.density = z.density
         /\ DOMAIN s.arena = DOMAIN z.arena
         /\ \A id \in DOMAIN s.arena : z.arena[id] = s.arena[id].content
BY FrameHas DEF Mirrors

(* FieldFrame and DropFrame for a scene known through the outline it        *)
(* mirrors.                                                                 *)
LEMMA MirrorWrites ==
  ASSUME NEW s, NEW z, Mirrors(s, z), NEW x
  PROVE  /\ Mirrors([s EXCEPT !.roots = x], Rooted(z, x))
         /\ Mirrors([s EXCEPT !.definitions = x], Defining(z, x))
         /\ Mirrors([s EXCEPT !.points = x], Pointing(z, x))
         /\ Mirrors([s EXCEPT !.next = x], Numbered(z, x))
         /\ Mirrors(Drop(s, x), TakenOut(z, x))
BY FieldFrame, DropFrame DEF Mirrors

(* StoreFrame, PaintFrame and RespunFrame for a scene known through the     *)
(* outline it mirrors.                                                      *)
LEMMA MirrorPuts ==
  ASSUME NEW s, NEW z, Mirrors(s, z), NEW id, NEW c
  PROVE  /\ \A at : Mirrors(Store(s, id, Node(c, at)), PutIn(z, id, c))
         /\ id \in DOMAIN s.arena => Mirrors([s EXCEPT !.arena[id].content = c], PutIn(z, id, c))
         /\ id = 1 \/ IsGroup(s, id) => Mirrors(Respun(s, ParentSet(id), c), Respin(z, id, c))
<1>1. IsFrame(s) /\ Structure(s) = z
  BY DEF Mirrors
<1>2. \A at : Mirrors(Store(s, id, Node(c, at)), PutIn(z, id, c))
  BY <1>1, StoreFrame
<1>3. ASSUME id \in DOMAIN s.arena PROVE Mirrors([s EXCEPT !.arena[id].content = c], PutIn(z, id, c))
  BY <1>1, <1>3, PaintFrame
<1>4. ASSUME id = 1 \/ IsGroup(s, id) PROVE Mirrors(Respun(s, ParentSet(id), c), Respin(z, id, c))
  BY <1>1, <1>4, RespunFrame
<1> QED
  BY <1>2, <1>3, <1>4

(* AddNode's two writes, one after the other.                               *)
LEMMA WriteRoots ==
  ASSUME NEW t, IsMade(t), NEW id, NEW n
  PROVE  [t EXCEPT !.roots = Append(@, id), !.next = n]
           = [[t EXCEPT !.roots = Append(t.roots, id)] EXCEPT !.next = n]
BY DEF IsMade, Make

(* AddPoint's two writes, one after the other.                              *)
LEMMA WritePoints ==
  ASSUME NEW t, IsMade(t), NEW p, NEW n
  PROVE  [t EXCEPT !.points = Append(@, p), !.next = @ + n]
           = [[t EXCEPT !.points = Append(t.points, p)] EXCEPT !.next = t.next + n]
BY DEF IsMade, Make

(* Scene::add_node appends the new id to the roots of the structure.        *)
LEMMA AddNodeMirrors ==
  ASSUME NEW s, IsFrame(s), NEW c, NEW at
  PROVE  Mirrors(AddNode(s, Node(c, at)), Added(Structure(s), c))
<1> DEFINE z == Structure(s)
           t == Store(s, s.next, Node(c, at))
<1>1. Mirrors(s, z)
  BY DEF Mirrors
<1>2. s.next = z.next /\ s.roots = z.roots
  BY <1>1, MirrorsIs
<1> HIDE DEF z
<1>3. Mirrors(t, PutIn(z, z.next, c))
  BY <1>1, <1>2, MirrorPuts
<1>4. PutIn(z, z.next, c).roots = z.roots
  BY DEF PutIn, Filled, Make
<1>5. AddNode(s, Node(c, at)) = [t EXCEPT !.roots = Append(@, s.next), !.next = s.next + 1]
  BY DEF AddNode
<1> HIDE DEF t
<1>6. IsMade(t) /\ t.roots = z.roots
  BY <1>3, <1>4, MirrorsIs
<1>7. AddNode(s, Node(c, at)) = [[t EXCEPT !.roots = Append(z.roots, z.next)] EXCEPT !.next = z.next + 1]
  BY <1>2, <1>5, <1>6, WriteRoots
<1>8. Mirrors([t EXCEPT !.roots = Append(z.roots, z.next)], Rooted(PutIn(z, z.next, c), Append(z.roots, z.next)))
  BY <1>3, MirrorWrites
<1> DEFINE v == [t EXCEPT !.roots = Append(z.roots, z.next)]
           y == Rooted(PutIn(z, z.next, c), Append(z.roots, z.next))
<1>9. Mirrors(v, y) /\ AddNode(s, Node(c, at)) = [v EXCEPT !.next = z.next + 1]
  BY <1>7, <1>8
<1> HIDE DEF v, y
<1>10. Mirrors([v EXCEPT !.next = z.next + 1], Numbered(y, z.next + 1))
  BY <1>9, MirrorWrites
<1> QED
  BY <1>9, <1>10 DEF Added, z, y

(* Scene::add_child_to_group appends the new id to the group's row.         *)
LEMMA AddChildMirrors ==
  ASSUME NEW s, IsDocument(s), NEW g, IsGroup(s, g), NEW c, NEW at
  PROVE  Mirrors(AddChildToGroup(s, g, Node(c, at)), Adopted(Structure(s), g, c))
<1> DEFINE z == Structure(s)
           t == Store(s, s.next, Node(c, at))
           u == [t EXCEPT !.next = s.next + 1]
           y == Numbered(PutIn(z, z.next, c), z.next + 1)
           row == Append(z.arena[g].children, z.next)
<1>1. Mirrors(s, z) /\ IsBuilt(z) /\ IsFrame(s)
  BY DEF Mirrors, IsDocument, IsOutline
<1>2. s.next = z.next /\ DOMAIN s.arena = DOMAIN z.arena /\ \A id \in DOMAIN s.arena : z.arena[id] = s.arena[id].content
  BY <1>1, MirrorsIs
<1>3. g \in DOMAIN z.arena /\ z.arena[g].kind = "group" /\ g # z.next
  <2>1. g \in DOMAIN s.arena /\ s.arena[g].content.kind = "group"
    BY DEF IsGroup
  <2> HIDE DEF z
  <2>2. g \in DOMAIN z.arena /\ z.arena[g].kind = "group"
    BY <1>2, <2>1
  <2>3. g \in Nat /\ g < z.next /\ z.next \in Nat
    BY <1>1, <2>2, BuiltFacts
  <2> QED
    BY <2>2, <2>3
<1>4. z.arena[g] = Group(z.arena[g].children)
  BY <1>1, <1>3, GroupIs DEF IsBuilt
<1> HIDE DEF z
<1>5. Mirrors(t, PutIn(z, z.next, c))
  BY <1>1, <1>2, MirrorPuts
<1> HIDE DEF t
<1>6. Mirrors(u, y)
  BY <1>2, <1>5, MirrorWrites
<1>7. y.arena = With(z.arena, z.next, c)
  BY DEF PutIn, Filled, Numbered, Make
<1>8. g \in DOMAIN y.arena /\ y.arena[g] = z.arena[g]
  BY <1>3, <1>7 DEF With
<1> HIDE DEF y
<1>10. AddChildToGroup(s, g, Node(c, at)) = [u EXCEPT !.arena[g].content.children = Append(@, s.next)]
  BY DEF AddChildToGroup, t
<1> HIDE DEF u
<1>9. IsMade(u) /\ IsFrame(u) /\ g \in DOMAIN u.arena /\ u.arena[g].content = z.arena[g]
  BY <1>6, <1>8, MirrorsIs
<1>11. [u EXCEPT !.arena[g].content.children = Append(@, s.next)]
         = [u EXCEPT !.arena[g].content = [u.arena[g].content EXCEPT !.children = Append(u.arena[g].content.children, s.next)]]
  <2>1. u.arena[g] = Node(u.arena[g].content, u.arena[g].at)
    <3>1. AreNodes(u.arena)
      BY <1>9, FrameHas
    <3> QED
      BY <1>9, <3>1 DEF AreNodes
  <2> QED
    BY <1>9, <2>1 DEF IsMade, Make, Node
<1>12. [u.arena[g].content EXCEPT !.children = Append(u.arena[g].content.children, s.next)] = Group(row)
  <2> DEFINE ch == z.arena[g].children
  <2>1. u.arena[g].content = Group(ch) /\ s.next = z.next
    BY <1>2, <1>4, <1>9
  <2> HIDE DEF ch
  <2>2. [u.arena[g].content EXCEPT !.children = Append(u.arena[g].content.children, s.next)]
          = Group(Append(ch, z.next))
    BY <2>1 DEF Group
  <2> QED
    BY <2>2 DEF ch
<1> HIDE DEF row
<1>13. Mirrors([u EXCEPT !.arena[g].content = Group(row)], PutIn(y, g, Group(row)))
  BY <1>6, <1>9, MirrorPuts
<1> QED
  BY <1>10, <1>11, <1>12, <1>13 DEF Adopted, y, row, z

(* ParentIs with the owner as the set the scene's operators pass around.    *)
LEMMA SlotParent ==
  ASSUME NEW s, IsDocument(s), NEW o, NEW k, NEW id, Sits(Structure(s), o, k, id)
  PROVE  /\ id \in Tree(s)
         /\ ParentOf(s, id) = ParentSet(o)
         /\ Siblings(s, ParentOf(s, id)) = Row(Structure(s), o)
         /\ Position(Row(Structure(s), o), id) = k
         /\ o = 1 \/ IsGroup(s, o)
         /\ Mirrors(s, Structure(s))
BY ParentIs DEF ParentSet, IsGroup, Mirrors, IsDocument

(* Scene::wrap_in_group replaces the node's slot by the new group's.        *)
LEMMA WrapMirrors ==
  ASSUME NEW s, IsDocument(s), NEW o, NEW k, NEW t, Sits(Structure(s), o, k, t)
  PROVE  Mirrors(WrapInGroup(s, t), Wrapped(Structure(s), o, t))
<1> DEFINE z == Structure(s)
           row == ReplaceAll(Row(z, o), t, z.next)
           u == Respun(s, ParentSet(o), row)
           v == [u EXCEPT !.next = z.next + 1]
<1>1. /\ t \in Tree(s) /\ ParentOf(s, t) = ParentSet(o) /\ Siblings(s, ParentOf(s, t)) = Row(z, o)
      /\ o = 1 \/ IsGroup(s, o)
      /\ Mirrors(s, z)
  BY SlotParent
<1>2. s.next = z.next
  BY <1>1, MirrorsIs
<1>3. WrapInGroup(s, t) = Store(v, z.next, Node(Group(<<t>>), Upright))
  BY <1>1, <1>2 DEF WrapInGroup
<1> HIDE DEF z
<1>4. Mirrors(u, Respin(z, o, row))
  BY <1>1, MirrorPuts
<1> HIDE DEF u
<1>5. Mirrors(v, Numbered(Respin(z, o, row), z.next + 1))
  BY <1>4, MirrorWrites
<1> HIDE DEF v
<1>6. Mirrors(Store(v, z.next, Node(Group(<<t>>), Upright)),
              PutIn(Numbered(Respin(z, o, row), z.next + 1), z.next, Group(<<t>>)))
  BY <1>5, MirrorPuts
<1> QED
  BY <1>3, <1>6 DEF Wrapped, z

(* The inverse of a grouping puts the node back into the group's slot.      *)
LEMMA UngroupMirrors ==
  ASSUME NEW s, IsDocument(s), NEW o, NEW k, NEW g, Sits(Structure(s), o, k, g), NEW t
  PROVE  Mirrors(Ungroup(s, g, t), Unwrapped(Structure(s), o, g, t))
<1> DEFINE z == Structure(s)
           row == ReplaceAll(Row(z, o), g, t)
           u == Respun(s, ParentSet(o), row)
<1>1. /\ g \in Tree(s) /\ ParentOf(s, g) = ParentSet(o) /\ Siblings(s, ParentOf(s, g)) = Row(z, o)
      /\ o = 1 \/ IsGroup(s, o)
      /\ Mirrors(s, z)
  BY SlotParent
<1>2. Ungroup(s, g, t) = Drop(u, {g})
  BY <1>1 DEF Ungroup
<1> HIDE DEF z
<1>3. Mirrors(u, Respin(z, o, row))
  BY <1>1, MirrorPuts
<1> HIDE DEF u
<1>4. Mirrors(Drop(u, {g}), TakenOut(Respin(z, o, row), {g}))
  BY <1>3, MirrorWrites
<1> QED
  BY <1>2, <1>4 DEF Unwrapped, z

(* Scene::detach_and_purge takes the slot out and drops everything below    *)
(* it.                                                                      *)
LEMMA PurgeMirrors ==
  ASSUME NEW s, IsDocument(s), NEW o, NEW k, NEW t, Sits(Structure(s), o, k, t)
  PROVE  Mirrors(DetachAndPurge(s, t), Purged(Structure(s), o, k, t))
<1> DEFINE z == Structure(s)
           row == RemoveAt(Row(z, o), k)
           u == Respun(s, ParentSet(o), row)
           gone == Below(z.arena, {t})
<1>1. /\ t \in Tree(s) /\ ParentOf(s, t) = ParentSet(o) /\ Siblings(s, ParentOf(s, t)) = Row(z, o)
      /\ Position(Row(z, o), t) = k
      /\ o = 1 \/ IsGroup(s, o)
      /\ Mirrors(s, z)
  BY SlotParent
<1>2. Under(s.arena, {t}) = gone
  BY SceneBelow
<1>3. DetachAndPurge(s, t) = Drop(u, gone)
  BY <1>1, <1>2 DEF DetachAndPurge
<1> HIDE DEF z
<1>4. Mirrors(u, Respin(z, o, row))
  BY <1>1, MirrorPuts
<1> HIDE DEF u
<1>5. Mirrors(Drop(u, gone), TakenOut(Respin(z, o, row), gone))
  BY <1>4, MirrorWrites
<1> QED
  BY <1>3, <1>5 DEF Purged, z

(* Wrapping, purging and ungrouping a node out of the tree change nothing.  *)
LEMMA OutOfTree ==
  ASSUME NEW s, IsDocument(s), NEW id, id \notin TreeOf(Structure(s))
  PROVE  /\ WrapInGroup(s, id) = s /\ DetachAndPurge(s, id) = s
         /\ \A t : Ungroup(s, id, t) = s
BY SceneTree DEF WrapInGroup, DetachAndPurge, Ungroup

(* Scene::make_definition_from donates a group's row, or moves any other    *)
(* body under a new id.                                                     *)
LEMMA DefinitionMirrors ==
  ASSUME NEW s, IsDocument(s), NEW t \in DOMAIN s.arena
  PROVE  Mirrors(MakeDefinitionFrom(s, t),
                 IF Structure(s).arena[t].kind = "group" THEN Donated(Structure(s), t)
                 ELSE Bodied(Structure(s), t))
<1> DEFINE z == Structure(s)
           def == NextDefId(z)
           c == z.arena[t]
           u == [s EXCEPT !.arena[t].content = Placed(def)]
           v == [Store(u, z.next, Node(c, Upright)) EXCEPT !.next = z.next + 1]
           dg == [id |-> def, children |-> c.children]
           db == [id |-> def, children |-> <<z.next>>]
<1>1. Mirrors(s, z) /\ IsFrame(s)
  BY DEF Mirrors, IsDocument
<1>2. s.next = z.next /\ s.definitions = z.definitions /\ DOMAIN s.arena = DOMAIN z.arena
      /\ z.arena[t] = s.arena[t].content
  BY <1>1, MirrorsIs
<1>3. NextDefId(s) = def
  BY <1>2 DEF NextDefId
<1>4. MakeDefinitionFrom(s, t)
        = IF c.kind = "group" THEN [u EXCEPT !.definitions = Append(@, dg)]
          ELSE [v EXCEPT !.definitions = Append(@, db)]
  BY <1>2, <1>3 DEF MakeDefinitionFrom
<1> HIDE DEF z, def
<1>5. Mirrors(u, PutIn(z, t, Placed(def)))
  BY <1>1, MirrorPuts
<1> HIDE DEF u, c
<1>6. Mirrors(Store(u, z.next, Node(c, Upright)), PutIn(PutIn(z, t, Placed(def)), z.next, c))
  BY <1>5, MirrorPuts
<1>7. Mirrors(v, Numbered(PutIn(PutIn(z, t, Placed(def)), z.next, c), z.next + 1))
  BY <1>6, MirrorWrites
<1> HIDE DEF v, dg, db
<1>8. u.definitions = z.definitions /\ v.definitions = z.definitions /\ IsMade(u) /\ IsMade(v)
  BY <1>5, <1>7, MirrorsIs DEF PutIn, Filled, Numbered, Make
<1>9. Mirrors([u EXCEPT !.definitions = Append(z.definitions, dg)],
              Defining(PutIn(z, t, Placed(def)), Append(z.definitions, dg)))
  BY <1>5, MirrorWrites
<1>10. Mirrors([v EXCEPT !.definitions = Append(z.definitions, db)],
               Defining(Numbered(PutIn(PutIn(z, t, Placed(def)), z.next, c), z.next + 1), Append(z.definitions, db)))
  BY <1>7, MirrorWrites
<1>11. [u EXCEPT !.definitions = Append(@, dg)] = [u EXCEPT !.definitions = Append(z.definitions, dg)]
  BY <1>8
<1>12. [v EXCEPT !.definitions = Append(@, db)] = [v EXCEPT !.definitions = Append(z.definitions, db)]
  BY <1>8
<1> QED
  BY <1>4, <1>9, <1>10, <1>11, <1>12 DEF Donated, Bodied, dg, db, c, def, z

(*********** The slots of a structure ***********)

(* The entries of a typed list of definitions.                              *)
LEMMA DefinitionTyped ==
  ASSUME NEW d \in Seq([id : Nat, children : Seq(Nat)]), NEW e \in DOMAIN d
  PROVE  e \in Nat /\ e > 0 /\ e <= Len(d) /\ d[e].id \in Nat /\ d[e].children \in Seq(Nat)
<1>1. e \in 1 .. Len(d) /\ Len(d) \in Nat
  OBVIOUS
<1>2. d[e] \in [id : Nat, children : Seq(Nat)]
  BY <1>1, ElementOfSeq
<1> QED
  BY <1>1, <1>2

(* Which slots name a node: of the roots, of a group, of a definition.      *)
LEMMA NamedIs ==
  ASSUME NEW z, IsBuilt(z), NEW o, NEW i, NEW x
  PROVE  /\ Named(z, o, i, x) <=>
              (o = 1 /\ Slot(z.roots, i, x)) \/ GroupSlot(z.arena, o, i, x) \/ DefSlot(z.definitions, o, i, x)
         /\ GroupSlot(z.arena, o, i, x) => o \in Nat /\ o > 1
         /\ DefSlot(z.definitions, o, i, x) => o \in Int /\ o < 0 /\ -o \in 1 .. Len(z.definitions)
<1>1. \A g \in DOMAIN z.arena : g \in Nat /\ g > 1
  BY BuiltFacts
<1>2. z.definitions \in Seq([id : Nat, children : Seq(Nat)])
  BY DEF IsBuilt
<1>3. \A e \in DOMAIN z.definitions : e \in Nat /\ e > 0 /\ e <= Len(z.definitions) /\ Len(z.definitions) \in Nat
  BY <1>2, DefinitionTyped
<1>4. \A e \in Nat : e > 0 => -e < 0 /\ -e \in Int /\ -(-e) = e
  OBVIOUS
<1>5. GroupSlot(z.arena, o, i, x) => o \in Nat /\ o > 1
  BY <1>1 DEF GroupSlot
<1>6. DefSlot(z.definitions, o, i, x) => o \in Int /\ o < 0 /\ -o \in 1 .. Len(z.definitions)
  <2>1. SUFFICES ASSUME NEW e \in DOMAIN z.definitions, o = -e
                 PROVE o \in Int /\ o < 0 /\ -o \in 1 .. Len(z.definitions)
    BY DEF DefSlot
  <2> QED
    BY <1>3, <2>1
<1>7. CASE o = 1
  <2>1. Named(z, o, i, x) <=> Slot(z.roots, i, x)
    BY <1>7 DEF Named, Rows, Row, Slot
  <2>2. ~GroupSlot(z.arena, o, i, x) /\ ~DefSlot(z.definitions, o, i, x)
    BY <1>5, <1>6, <1>7
  <2> QED
    BY <1>7, <2>1, <2>2, <1>5, <1>6
<1>8. CASE o \in DOMAIN z.arena /\ z.arena[o].kind = "group"
  <2>1. o \in Rows(z) /\ o > 1 /\ o # 1
    BY <1>1, <1>8 DEF Rows
  <2>2. Row(z, o) = z.arena[o].children
    BY <2>1 DEF Row
  <2>3. ~DefSlot(z.definitions, o, i, x)
    BY <1>1, <1>6, <1>8
  <2> QED
    BY <1>5, <1>6, <1>8, <2>1, <2>2, <2>3 DEF Named, GroupSlot, Slot
<1>9. ASSUME NEW e \in DOMAIN z.definitions, o = -e
      PROVE Named(z, o, i, x) <=> DefSlot(z.definitions, o, i, x)
  <2>1. o \in Rows(z) /\ o # 1 /\ ~(o > 1) /\ -o = e /\ o \in Int
    BY <1>3, <1>4, <1>9 DEF Rows
  <2>2. Row(z, o) = z.definitions[e].children
    BY <2>1 DEF Row
  <2>3. \A q \in DOMAIN z.definitions : o = -q => q = e
    BY <1>3, <1>9
  <2>4. DefSlot(z.definitions, o, i, x) <=> Slot(z.definitions[e].children, i, x)
    BY <1>9, <2>3 DEF DefSlot
  <2> QED
    BY <2>1, <2>2, <2>4 DEF Named, Slot
<1>10. CASE o # 1 /\ ~(o \in DOMAIN z.arena /\ z.arena[o].kind = "group") /\ \E e \in DOMAIN z.definitions : o = -e
  BY <1>5, <1>6, <1>9, <1>10 DEF GroupSlot
<1>11. CASE o # 1 /\ ~(o \in DOMAIN z.arena /\ z.arena[o].kind = "group") /\ ~\E e \in DOMAIN z.definitions : o = -e
  <2>1. o \notin Rows(z)
    BY <1>11 DEF Rows
  <2> QED
    BY <1>5, <1>6, <1>11, <2>1 DEF Named, GroupSlot, DefSlot
<1> QED
  BY <1>7, <1>8, <1>10, <1>11

(* A typed outline is a typed arena with typed lists beside it.             *)
LEMMA BuiltIs ==
  ASSUME NEW z
  PROVE  IsBuilt(z) <=>
           IsMade(z) /\ IsArena(z.arena, z.next) /\ IsTyped(z.roots, z.definitions, z.points)
BY DEF IsBuilt, IsArena, IsTyped

(* Make of a typed arena and typed lists is a typed outline.                *)
LEMMA BuiltOf ==
  ASSUME NEW A, NEW r, NEW d, NEW p, NEW n, NEW v, IsArena(A, n), IsTyped(r, d, p)
  PROVE  IsBuilt(Make(A, r, d, p, n, v))
BY BuiltIs, MakeHas

(* BuiltOf with the typing written out.                                     *)
LEMMA BuiltMade ==
  ASSUME NEW A, A = [id \in DOMAIN A |-> A[id]], \A id \in DOMAIN A : IsContent(A[id]),
         NEW n \in Nat, n > 1, DOMAIN A \subseteq 2 .. n - 1,
         NEW r \in Seq(Nat), NEW d \in Seq([id : Nat, children : Seq(Nat)]),
         NEW p \in Seq([id : Nat, origin : BOOLEAN]), NEW v
  PROVE  IsBuilt(Make(A, r, d, p, n, v))
<1> DEFINE y == Make(A, r, d, p, n, v)
<1>1. IsMade(y) /\ y.arena = A /\ y.roots = r /\ y.definitions = d /\ y.points = p /\ y.next = n
  BY MakeHas
<1> HIDE DEF y
<1>2. IsBuilt(y)
  BY <1>1 DEF IsBuilt
<1> QED
  BY <1>2 DEF y

(* The fields of an outline that has one node more.                         *)
LEMMA GrownHas ==
  ASSUME NEW z, NEW c
  PROVE  /\ IsMade(Grown(z, c)) /\ Grown(z, c).arena = With(z.arena, z.next, c)
         /\ Grown(z, c).roots = z.roots /\ Grown(z, c).definitions = z.definitions
         /\ Grown(z, c).points = z.points /\ Grown(z, c).next = z.next + 1
         /\ Grown(z, c).density = z.density
         /\ DOMAIN Grown(z, c).arena = DOMAIN z.arena \cup {z.next}
         /\ Grown(z, c).arena[z.next] = c
         /\ \A id \in DOMAIN z.arena : id # z.next => Grown(z, c).arena[id] = z.arena[id]
<1>1. Grown(z, c) = Make(With(z.arena, z.next, c), z.roots, z.definitions, z.points, z.next + 1, z.density)
  BY DEF Grown, Numbered, PutIn, Filled, Make
<1> DEFINE A == With(z.arena, z.next, c)
<1>2. /\ DOMAIN A = DOMAIN z.arena \cup {z.next} /\ A[z.next] = c
      /\ \A id \in DOMAIN z.arena : id # z.next => A[id] = z.arena[id]
  BY DEF With
<1>3. Grown(z, c) = Make(A, z.roots, z.definitions, z.points, z.next + 1, z.density)
  BY <1>1
<1> HIDE DEF A
<1>4. /\ IsMade(Grown(z, c)) /\ Grown(z, c).arena = A
      /\ Grown(z, c).roots = z.roots /\ Grown(z, c).definitions = z.definitions
      /\ Grown(z, c).points = z.points /\ Grown(z, c).next = z.next + 1
      /\ Grown(z, c).density = z.density
  BY <1>3, MakeHas
<1> QED
  BY <1>2, <1>4 DEF A

(* An outline with one node more is typed.                                  *)
LEMMA GrownBuilt ==
  ASSUME NEW z, IsBuilt(z), NEW c, IsContent(c)
  PROVE  IsBuilt(Grown(z, c))
<1> DEFINE A == With(z.arena, z.next, c)
<1>1. Grown(z, c) = Make(A, z.roots, z.definitions, z.points, z.next + 1, z.density)
  BY DEF Grown, Numbered, PutIn, Filled, Make
<1>2. /\ A = [id \in DOMAIN A |-> A[id]] /\ DOMAIN A = DOMAIN z.arena \cup {z.next} /\ A[z.next] = c
      /\ \A id \in DOMAIN z.arena : id # z.next => A[id] = z.arena[id]
  BY DEF With
<1>3. \A id \in DOMAIN z.arena : id \in Nat /\ id > 1 /\ id < z.next /\ z.next \in Nat
  BY BuiltFacts
<1> HIDE DEF A
<1>4. /\ z.next \in Nat /\ z.roots \in Seq(Nat) /\ z.definitions \in Seq([id : Nat, children : Seq(Nat)])
      /\ z.points \in Seq([id : Nat, origin : BOOLEAN])
      /\ \A id \in DOMAIN A : IsContent(A[id])
  BY <1>2 DEF IsBuilt
<1>5. z.next > 1 /\ z.next + 1 \in Nat /\ z.next + 1 > 1 /\ DOMAIN A \subseteq 2 .. (z.next + 1) - 1
  <2>1. z.next > 1
    BY DEF IsBuilt
  <2> QED
    BY <1>2, <1>3, <1>4, <2>1
<1> QED
  BY <1>1, <1>2, <1>4, <1>5, BuiltMade

(* A new node adds the slots of its own row and no other.                   *)
LEMMA GrownSlots ==
  ASSUME NEW z, IsBuilt(z), NEW c, IsContent(c), NEW o, NEW i, NEW x
  PROVE  Named(Grown(z, c), o, i, x) <=>
           \/ Named(z, o, i, x)
           \/ o = z.next /\ c.kind = "group" /\ Slot(c.children, i, x)
<1> DEFINE y == Grown(z, c)
<1>1. IsBuilt(y)
  BY GrownBuilt
<1>2. /\ y.roots = z.roots /\ y.definitions = z.definitions
      /\ DOMAIN y.arena = DOMAIN z.arena \cup {z.next} /\ y.arena[z.next] = c
      /\ \A id \in DOMAIN z.arena : id # z.next => y.arena[id] = z.arena[id]
  BY GrownHas
<1>3. z.next \notin DOMAIN z.arena
  <2>1. z.next \in Nat /\ \A id \in DOMAIN z.arena : id \in Nat /\ id < z.next
    BY BuiltFacts
  <2> QED
    BY <2>1
<1> HIDE DEF y
<1>4. GroupSlot(y.arena, o, i, x) <=>
        GroupSlot(z.arena, o, i, x) \/ (o = z.next /\ c.kind = "group" /\ Slot(c.children, i, x))
  BY <1>2, <1>3 DEF GroupSlot
<1>5. Named(y, o, i, x) <=>
        (o = 1 /\ Slot(y.roots, i, x)) \/ GroupSlot(y.arena, o, i, x) \/ DefSlot(y.definitions, o, i, x)
  BY <1>1, NamedIs
<1>6. Named(z, o, i, x) <=>
        (o = 1 /\ Slot(z.roots, i, x)) \/ GroupSlot(z.arena, o, i, x) \/ DefSlot(z.definitions, o, i, x)
  BY NamedIs
<1> QED
  BY <1>2, <1>4, <1>5, <1>6 DEF y

(* A node with another content.                                            *)
LEMMA PutInHas ==
  ASSUME NEW z, NEW t \in DOMAIN z.arena, NEW c
  PROVE  /\ IsMade(PutIn(z, t, c)) /\ PutIn(z, t, c).arena = With(z.arena, t, c)
         /\ PutIn(z, t, c).roots = z.roots /\ PutIn(z, t, c).definitions = z.definitions
         /\ PutIn(z, t, c).points = z.points /\ PutIn(z, t, c).next = z.next
         /\ PutIn(z, t, c).density = z.density
         /\ DOMAIN PutIn(z, t, c).arena = DOMAIN z.arena
         /\ PutIn(z, t, c).arena[t] = c
         /\ \A id \in DOMAIN z.arena : id # t => PutIn(z, t, c).arena[id] = z.arena[id]
<1> DEFINE A == With(z.arena, t, c)
<1>1. PutIn(z, t, c) = Make(A, z.roots, z.definitions, z.points, z.next, z.density)
  BY DEF PutIn, Filled
<1>2. DOMAIN A = DOMAIN z.arena /\ A[t] = c /\ \A id \in DOMAIN z.arena : id # t => A[id] = z.arena[id]
  BY DEF With
<1> HIDE DEF A
<1>3. /\ IsMade(PutIn(z, t, c)) /\ PutIn(z, t, c).arena = A
      /\ PutIn(z, t, c).roots = z.roots /\ PutIn(z, t, c).definitions = z.definitions
      /\ PutIn(z, t, c).points = z.points /\ PutIn(z, t, c).next = z.next
      /\ PutIn(z, t, c).density = z.density
  BY <1>1, MakeHas
<1> QED
  BY <1>2, <1>3 DEF A

(* Rewriting the content of a node keeps the outline typed.                 *)
LEMMA PutInBuilt ==
  ASSUME NEW z, IsBuilt(z), NEW t \in DOMAIN z.arena, NEW c, IsContent(c)
  PROVE  IsBuilt(PutIn(z, t, c))
<1> DEFINE A == With(z.arena, t, c)
<1>1. PutIn(z, t, c) = Make(A, z.roots, z.definitions, z.points, z.next, z.density)
  BY DEF PutIn, Filled
<1>2. /\ A = [id \in DOMAIN A |-> A[id]] /\ DOMAIN A = DOMAIN z.arena /\ A[t] = c
      /\ \A id \in DOMAIN z.arena : id # t => A[id] = z.arena[id]
  BY DEF With
<1> HIDE DEF A
<1>3. /\ z.next \in Nat /\ z.next > 1 /\ z.roots \in Seq(Nat)
      /\ z.definitions \in Seq([id : Nat, children : Seq(Nat)])
      /\ z.points \in Seq([id : Nat, origin : BOOLEAN])
      /\ DOMAIN A \subseteq 2 .. z.next - 1
      /\ \A id \in DOMAIN A : IsContent(A[id])
  BY <1>2 DEF IsBuilt
<1> QED
  BY <1>1, <1>2, <1>3, BuiltMade

(* Rewriting the content of a node replaces its own slots and no other.     *)
LEMMA PutInSlots ==
  ASSUME NEW z, IsBuilt(z), NEW t \in DOMAIN z.arena, NEW c, IsContent(c), NEW o, NEW i, NEW x
  PROVE  Named(PutIn(z, t, c), o, i, x) <=>
           \/ o # t /\ Named(z, o, i, x)
           \/ o = t /\ c.kind = "group" /\ Slot(c.children, i, x)
<1> DEFINE y == PutIn(z, t, c)
<1>1. IsBuilt(y)
  BY PutInBuilt
<1>2. /\ y.roots = z.roots /\ y.definitions = z.definitions
      /\ DOMAIN y.arena = DOMAIN z.arena /\ y.arena[t] = c
      /\ \A id \in DOMAIN z.arena : id # t => y.arena[id] = z.arena[id]
  BY PutInHas
<1>3. t \in Nat /\ t > 1
  BY BuiltFacts
<1> HIDE DEF y
<1>4. GroupSlot(y.arena, o, i, x) <=>
        (o # t /\ GroupSlot(z.arena, o, i, x)) \/ (o = t /\ c.kind = "group" /\ Slot(c.children, i, x))
  BY <1>2 DEF GroupSlot
<1>5. Named(y, o, i, x) <=>
        (o = 1 /\ Slot(y.roots, i, x)) \/ GroupSlot(y.arena, o, i, x) \/ DefSlot(y.definitions, o, i, x)
  BY <1>1, NamedIs
<1>6. /\ Named(z, o, i, x) <=>
        (o = 1 /\ Slot(z.roots, i, x)) \/ GroupSlot(z.arena, o, i, x) \/ DefSlot(z.definitions, o, i, x)
      /\ DefSlot(z.definitions, o, i, x) => o \in Int /\ o < 0
  BY NamedIs
<1> QED
  BY <1>2, <1>3, <1>4, <1>5, <1>6 DEF y

(* A row rewritten.                                                        *)
LEMMA RootedHas ==
  ASSUME NEW z, NEW row
  PROVE  /\ IsMade(Rooted(z, row)) /\ Rooted(z, row).arena = z.arena
         /\ Rooted(z, row).roots = row /\ Rooted(z, row).definitions = z.definitions
         /\ Rooted(z, row).points = z.points /\ Rooted(z, row).next = z.next
         /\ Rooted(z, row).density = z.density
BY MakeHas DEF Rooted

(* Group makes the content of a group.                                      *)
LEMMA GroupHas ==
  ASSUME NEW row \in Seq(Nat)
  PROVE  IsContent(Group(row)) /\ Group(row).kind = "group" /\ Group(row).children = row
BY DEF Group, IsContent

(* The fields of an outline with one row rewritten.                         *)
LEMMA RespinHas ==
  ASSUME NEW z, NEW o, o = 1 \/ o \in DOMAIN z.arena, NEW row
  PROVE  /\ IsMade(Respin(z, o, row)) /\ Respin(z, o, row).definitions = z.definitions
         /\ Respin(z, o, row).points = z.points /\ Respin(z, o, row).next = z.next
         /\ Respin(z, o, row).density = z.density
         /\ Respin(z, o, row).roots = IF o = 1 THEN row ELSE z.roots
         /\ DOMAIN Respin(z, o, row).arena = DOMAIN z.arena
         /\ \A id \in DOMAIN z.arena :
              Respin(z, o, row).arena[id] = IF id = o /\ o # 1 THEN Group(row) ELSE z.arena[id]
<1>1. CASE o = 1
  <2>1. Respin(z, o, row) = Rooted(z, row)
    BY <1>1 DEF Respin
  <2> QED
    BY <1>1, <2>1, RootedHas
<1>2. CASE o # 1
  <2>1. Respin(z, o, row) = PutIn(z, o, Group(row))
    BY <1>2 DEF Respin
  <2>2. o \in DOMAIN z.arena
    BY <1>2
  <2> QED
    BY <1>2, <2>1, <2>2, PutInHas
<1> QED
  BY <1>1, <1>2

(* Rewriting a row keeps the outline typed.                                 *)
LEMMA RespinBuilt ==
  ASSUME NEW z, IsBuilt(z), NEW o, o = 1 \/ o \in DOMAIN z.arena, NEW row \in Seq(Nat)
  PROVE  IsBuilt(Respin(z, o, row))
<1>1. CASE o = 1
  <2>1. Respin(z, o, row) = Make(z.arena, row, z.definitions, z.points, z.next, z.density)
    BY <1>1 DEF Respin, Rooted
  <2>2. IsArena(z.arena, z.next) /\ IsTyped(row, z.definitions, z.points)
    BY BuiltIs DEF IsTyped
  <2> QED
    BY <2>1, <2>2, BuiltOf
<1>2. CASE o # 1
  BY <1>2, PutInBuilt, GroupHas DEF Respin
<1> QED
  BY <1>1, <1>2

(* Rewriting a row replaces the slots of its owner and no other.            *)
LEMMA RespinSlots ==
  ASSUME NEW z, IsBuilt(z), NEW p, p = 1 \/ p \in DOMAIN z.arena, NEW row \in Seq(Nat),
         NEW o, NEW i, NEW x
  PROVE  Named(Respin(z, p, row), o, i, x) <=>
           IF o = p THEN Slot(row, i, x) ELSE Named(z, o, i, x)
<1>1. CASE p = 1
  <2> DEFINE y == Respin(z, p, row)
  <2>1. y.arena = z.arena /\ y.roots = row /\ y.definitions = z.definitions /\ IsBuilt(y)
    <3>1. y = Rooted(z, row)
      BY <1>1 DEF Respin
    <3>2. IsBuilt(y)
      BY RespinBuilt
    <3>3. y.arena = z.arena /\ y.roots = row /\ y.definitions = z.definitions
      BY <3>1, RootedHas
    <3> QED
      BY <3>2, <3>3
  <2> HIDE DEF y
  <2>2. Named(y, o, i, x) <=>
          (o = 1 /\ Slot(y.roots, i, x)) \/ GroupSlot(y.arena, o, i, x) \/ DefSlot(y.definitions, o, i, x)
    BY <2>1, NamedIs
  <2>3. /\ Named(z, o, i, x) <=>
          (o = 1 /\ Slot(z.roots, i, x)) \/ GroupSlot(z.arena, o, i, x) \/ DefSlot(z.definitions, o, i, x)
        /\ GroupSlot(z.arena, o, i, x) => o \in Nat /\ o > 1
        /\ DefSlot(z.definitions, o, i, x) => o \in Int /\ o < 0
    BY NamedIs
  <2> QED
    BY <1>1, <2>1, <2>2, <2>3 DEF y
<1>2. CASE p # 1
  <2>1. Respin(z, p, row) = PutIn(z, p, Group(row)) /\ p \in DOMAIN z.arena
    BY <1>2 DEF Respin
  <2>2. IsContent(Group(row)) /\ Group(row).kind = "group" /\ Group(row).children = row
    BY GroupHas
  <2>3. Named(PutIn(z, p, Group(row)), o, i, x) <=>
          (o # p /\ Named(z, o, i, x)) \/ (o = p /\ Slot(row, i, x))
    BY <2>1, <2>2, PutInSlots
  <2> QED
    BY <2>1, <2>3
<1> QED
  BY <1>1, <1>2

(* The fields of an outline with one definition more.                       *)
LEMMA EnlistedHas ==
  ASSUME NEW z, NEW def, NEW row
  PROVE  /\ IsMade(Enlisted(z, def, row)) /\ Enlisted(z, def, row).arena = z.arena
         /\ Enlisted(z, def, row).roots = z.roots
         /\ Enlisted(z, def, row).definitions = Append(z.definitions, Entry(def, row))
         /\ Enlisted(z, def, row).points = z.points /\ Enlisted(z, def, row).next = z.next
         /\ Enlisted(z, def, row).density = z.density
<1> DEFINE d == Append(z.definitions, Entry(def, row))
<1>1. Enlisted(z, def, row) = Make(z.arena, z.roots, d, z.points, z.next, z.density)
  BY DEF Enlisted, Defining
<1> HIDE DEF d
<1>2. /\ IsMade(Enlisted(z, def, row)) /\ Enlisted(z, def, row).arena = z.arena
      /\ Enlisted(z, def, row).roots = z.roots
      /\ Enlisted(z, def, row).definitions = d
      /\ Enlisted(z, def, row).points = z.points /\ Enlisted(z, def, row).next = z.next
      /\ Enlisted(z, def, row).density = z.density
  BY <1>1, MakeHas
<1> QED
  BY <1>2 DEF d

(* A list of definitions with one entry more.                               *)
LEMMA ListGrows ==
  ASSUME NEW d \in Seq([id : Nat, children : Seq(Nat)]), NEW def \in Nat, NEW row \in Seq(Nat)
  PROVE  /\ Append(d, Entry(def, row)) \in Seq([id : Nat, children : Seq(Nat)])
         /\ DOMAIN Append(d, Entry(def, row)) = DOMAIN d \cup {Len(d) + 1}
         /\ Len(Append(d, Entry(def, row))) = Len(d) + 1 /\ Len(d) \in Nat
         /\ Append(d, Entry(def, row))[Len(d) + 1] = Entry(def, row)
         /\ \A e \in DOMAIN d : e # Len(d) + 1 /\ Append(d, Entry(def, row))[e] = d[e]
<1> DEFINE n == Entry(def, row)
<1>1. n \in [id : Nat, children : Seq(Nat)]
  BY DEF Entry
<1> HIDE DEF n
<1>2. Append(d, n) \in Seq([id : Nat, children : Seq(Nat)]) /\ Len(Append(d, n)) = Len(d) + 1
      /\ Len(d) \in Nat /\ Append(d, n)[Len(d) + 1] = n
      /\ \A e \in 1 .. Len(d) : Append(d, n)[e] = d[e]
  BY <1>1
<1>3. DOMAIN Append(d, n) = 1 .. Len(d) + 1 /\ DOMAIN d = 1 .. Len(d)
  BY <1>2
<1> QED
  BY <1>2, <1>3 DEF n

(* One definition more keeps the outline typed.                             *)
LEMMA EnlistedBuilt ==
  ASSUME NEW z, IsBuilt(z), NEW def \in Nat, NEW row \in Seq(Nat)
  PROVE  IsBuilt(Enlisted(z, def, row))
<1>1. z.definitions \in Seq([id : Nat, children : Seq(Nat)])
  BY DEF IsBuilt
<1>2. Append(z.definitions, Entry(def, row)) \in Seq([id : Nat, children : Seq(Nat)])
  BY <1>1, ListGrows
<1> DEFINE d == Append(z.definitions, Entry(def, row))
<1>3. Enlisted(z, def, row) = Make(z.arena, z.roots, d, z.points, z.next, z.density)
  BY DEF Enlisted, Defining
<1>4. d \in Seq([id : Nat, children : Seq(Nat)])
  BY <1>2
<1> HIDE DEF d
<1>5. IsArena(z.arena, z.next) /\ IsTyped(z.roots, d, z.points)
  BY <1>4, BuiltIs DEF IsTyped
<1> QED
  BY <1>3, <1>5, BuiltOf

(* A new definition adds the slots of its row and no other.                 *)
LEMMA EnlistedSlots ==
  ASSUME NEW z, IsBuilt(z), NEW def \in Nat, NEW row \in Seq(Nat), NEW o, NEW i, NEW x
  PROVE  Named(Enlisted(z, def, row), o, i, x) <=>
           Named(z, o, i, x) \/ (o = -(Len(z.definitions) + 1) /\ Slot(row, i, x))
<1> DEFINE y == Enlisted(z, def, row)
           d == z.definitions
           dd == Append(d, Entry(def, row))
           n == Len(d) + 1
<1>1. IsBuilt(y) /\ y.arena = z.arena /\ y.roots = z.roots /\ y.definitions = dd
  BY EnlistedBuilt, EnlistedHas
<1>2. d \in Seq([id : Nat, children : Seq(Nat)])
  BY DEF IsBuilt
<1>3. /\ DOMAIN dd = DOMAIN d \cup {n} /\ dd[n] = Entry(def, row)
      /\ \A e \in DOMAIN d : e # n /\ dd[e] = d[e]
  BY <1>2, ListGrows
<1>4. Entry(def, row).children = row
  BY DEF Entry
<1>5. Named(y, o, i, x) <=>
        (o = 1 /\ Slot(y.roots, i, x)) \/ GroupSlot(y.arena, o, i, x) \/ DefSlot(y.definitions, o, i, x)
  BY <1>1, NamedIs
<1>6. Named(z, o, i, x) <=>
        (o = 1 /\ Slot(z.roots, i, x)) \/ GroupSlot(z.arena, o, i, x) \/ DefSlot(z.definitions, o, i, x)
  BY NamedIs
<1> HIDE DEF y, d, dd, n
<1>7. DefSlot(dd, o, i, x) <=> DefSlot(d, o, i, x) \/ (o = -n /\ Slot(row, i, x))
  BY <1>3, <1>4 DEF DefSlot
<1> QED
  BY <1>1, <1>5, <1>6, <1>7 DEF y, n, d

(* Nodes left out.                                                         *)
LEMMA TakenHas ==
  ASSUME NEW z, NEW ids
  PROVE  /\ IsMade(TakenOut(z, ids)) /\ TakenOut(z, ids).arena = Without(z.arena, ids)
         /\ TakenOut(z, ids).roots = z.roots /\ TakenOut(z, ids).definitions = z.definitions
         /\ TakenOut(z, ids).points = z.points /\ TakenOut(z, ids).next = z.next
         /\ TakenOut(z, ids).density = z.density
         /\ DOMAIN TakenOut(z, ids).arena = DOMAIN z.arena \ ids
         /\ \A id \in DOMAIN z.arena \ ids : TakenOut(z, ids).arena[id] = z.arena[id]
<1> DEFINE A == Without(z.arena, ids)
<1>1. TakenOut(z, ids) = Make(A, z.roots, z.definitions, z.points, z.next, z.density)
  BY DEF TakenOut, Filled
<1>2. DOMAIN A = DOMAIN z.arena \ ids /\ \A id \in DOMAIN z.arena \ ids : A[id] = z.arena[id]
  BY DEF Without
<1> HIDE DEF A
<1>3. /\ IsMade(TakenOut(z, ids)) /\ TakenOut(z, ids).arena = A
      /\ TakenOut(z, ids).roots = z.roots /\ TakenOut(z, ids).definitions = z.definitions
      /\ TakenOut(z, ids).points = z.points /\ TakenOut(z, ids).next = z.next
      /\ TakenOut(z, ids).density = z.density
  BY <1>1, MakeHas
<1> QED
  BY <1>2, <1>3 DEF A

(* Dropping nodes keeps the outline typed.                                  *)
LEMMA TakenBuilt ==
  ASSUME NEW z, IsBuilt(z), NEW ids
  PROVE  IsBuilt(TakenOut(z, ids))
<1> DEFINE A == Without(z.arena, ids)
<1>1. TakenOut(z, ids) = Make(A, z.roots, z.definitions, z.points, z.next, z.density)
  BY DEF TakenOut, Filled
<1>2. /\ A = [id \in DOMAIN A |-> A[id]] /\ DOMAIN A = DOMAIN z.arena \ ids
      /\ \A id \in DOMAIN A : A[id] = z.arena[id]
  BY DEF Without
<1> HIDE DEF A
<1>3. /\ z.next \in Nat /\ z.next > 1 /\ z.roots \in Seq(Nat)
      /\ z.definitions \in Seq([id : Nat, children : Seq(Nat)])
      /\ z.points \in Seq([id : Nat, origin : BOOLEAN])
      /\ DOMAIN A \subseteq 2 .. z.next - 1
      /\ \A id \in DOMAIN A : IsContent(A[id])
  BY <1>2 DEF IsBuilt
<1> QED
  BY <1>1, <1>2, <1>3, BuiltMade

(* Dropping nodes drops the slots of their rows.                            *)
LEMMA TakenSlots ==
  ASSUME NEW z, IsBuilt(z), NEW ids \in SUBSET DOMAIN z.arena, NEW o, NEW i, NEW x
  PROVE  Named(TakenOut(z, ids), o, i, x) <=> Named(z, o, i, x) /\ o \notin ids
<1> DEFINE y == TakenOut(z, ids)
<1>1. IsBuilt(y)
  BY TakenBuilt
<1>2. /\ y.roots = z.roots /\ y.definitions = z.definitions
      /\ DOMAIN y.arena = DOMAIN z.arena \ ids
      /\ \A id \in DOMAIN z.arena \ ids : y.arena[id] = z.arena[id]
  BY TakenHas
<1>3. \A id \in ids : id \in Nat /\ id > 1
  BY BuiltFacts
<1> HIDE DEF y
<1>4. GroupSlot(y.arena, o, i, x) <=> GroupSlot(z.arena, o, i, x) /\ o \notin ids
  BY <1>2 DEF GroupSlot
<1>5. Named(y, o, i, x) <=>
        (o = 1 /\ Slot(y.roots, i, x)) \/ GroupSlot(y.arena, o, i, x) \/ DefSlot(y.definitions, o, i, x)
  BY <1>1, NamedIs
<1>6. /\ Named(z, o, i, x) <=>
        (o = 1 /\ Slot(z.roots, i, x)) \/ GroupSlot(z.arena, o, i, x) \/ DefSlot(z.definitions, o, i, x)
      /\ DefSlot(z.definitions, o, i, x) => o \in Int /\ o < 0
  BY NamedIs
<1>7. (o = 1 => o \notin ids) /\ (o \in Int /\ o < 0 => o \notin ids)
  BY <1>3
<1> QED
  BY <1>2, <1>4, <1>5, <1>6, <1>7 DEF y

(*********** The edits keep an outline an outline ***********)

(* A slot is a place of its row.                                            *)
LEMMA SlotNat ==
  ASSUME NEW T, NEW row \in Seq(T), NEW i, NEW x, Slot(row, i, x)
  PROVE  i \in 1 .. Len(row) /\ i \in Nat /\ row[i] = x /\ x \in T /\ Len(row) \in Nat
<1>1. DOMAIN row = 1 .. Len(row) /\ Len(row) \in Nat
  OBVIOUS
<1>2. i \in 1 .. Len(row) /\ row[i] = x
  BY <1>1 DEF Slot
<1> QED
  BY <1>1, <1>2, ElementOfSeq

(* The row of the roots or of a group, and the slots it makes.              *)
LEMMA OwnerRow ==
  ASSUME NEW z, IsBuilt(z), NEW o, IsOwner(z, o)
  PROVE  /\ Row(z, o) \in Seq(Nat) /\ o \in Nat /\ o >= 1
         /\ Row(z, o) = IF o = 1 THEN z.roots ELSE z.arena[o].children
         /\ \A i, x : Named(z, o, i, x) <=> Slot(Row(z, o), i, x)
         /\ (o = 1 \/ o \in DOMAIN z.arena)
<1>0. \A g \in DOMAIN z.arena : g \in Nat /\ g > 1
  BY BuiltFacts
<1>1. o \in Nat /\ o >= 1 /\ o \in Rows(z) /\ (o # 1 => o > 1)
  BY <1>0 DEF IsOwner, Rows
<1>2. Row(z, o) \in Seq(Nat)
  BY <1>1, RowTyped
<1>3. Row(z, o) = IF o = 1 THEN z.roots ELSE z.arena[o].children
  BY <1>1 DEF Row
<1>4. \A i, x : Named(z, o, i, x) <=> Slot(Row(z, o), i, x)
  BY <1>1 DEF Named, Slot
<1> QED
  BY <1>1, <1>2, <1>3, <1>4 DEF IsOwner

(* Append adds one slot at the end.                                         *)
LEMMA AppendSlots ==
  ASSUME NEW T, NEW row \in Seq(T), NEW n \in T, NEW i, NEW x
  PROVE  Slot(Append(row, n), i, x) <=> Slot(row, i, x) \/ (i = Len(row) + 1 /\ x = n)
<1> DEFINE a == Append(row, n)
<1>1. a \in Seq(T) /\ Len(a) = Len(row) + 1 /\ a[Len(row) + 1] = n /\ \A k \in 1 .. Len(row) : a[k] = row[k]
  OBVIOUS
<1>2. DOMAIN a = 1 .. Len(row) + 1 /\ DOMAIN row = 1 .. Len(row) /\ Len(row) \in Nat
  BY <1>1
<1> HIDE DEF a
<1>3. Slot(a, i, x) <=> Slot(row, i, x) \/ (i = Len(row) + 1 /\ x = n)
  BY <1>1, <1>2 DEF Slot
<1> QED
  BY <1>3 DEF a

(* A slot for a new node keeps every node in exactly one slot.              *)
LEMMA GainsSpun ==
  ASSUME NEW z, IsSpun(z), NEW y, NEW p, NEW m, NEW n, Gains(z, y, p, m, n)
  PROVE  IsSpun(y)
<1>1. \A o, i, x : Named(y, o, i, x) => x \in DOMAIN y.arena
  BY DEF IsSpun, Gains
<1>2. \A x \in DOMAIN y.arena : \E o, i : Named(y, o, i, x)
  BY DEF IsSpun, Gains
<1>3. ASSUME NEW o, NEW q, NEW i, NEW j, NEW x, Named(y, o, i, x), Named(y, q, j, x)
      PROVE o = q /\ i = j
  <2>1. CASE x = n
    BY <1>3, <2>1 DEF IsSpun, Gains
  <2>2. CASE x # n
    <3>1. Named(z, o, i, x) /\ Named(z, q, j, x)
      BY <1>3, <2>2 DEF Gains
    <3> QED
      BY <3>1 DEF IsSpun
  <2> QED
    BY <2>1, <2>2
<1> QED
  BY <1>1, <1>2, <1>3 DEF IsSpun

(* Adding to the roots and to a group are the same operation for two        *)
(* owners.                                                                  *)
LEMMA JoinedIs ==
  ASSUME NEW z, IsBuilt(z), NEW c
  PROVE  /\ Added(z, c) = Joined(z, 1, c)
         /\ \A g \in DOMAIN z.arena : g # 1 /\ Adopted(z, g, c) = Joined(z, g, c)
<1>1. Added(z, c) = Joined(z, 1, c)
  BY DEF Added, Joined, Grown, Respin, Rooted, Numbered, PutIn, Filled, Make, Row
<1>2. ASSUME NEW g \in DOMAIN z.arena PROVE g # 1 /\ Adopted(z, g, c) = Joined(z, g, c)
  <2>1. g \in Nat /\ g > 1
    BY BuiltFacts
  <2>2. Row(z, g) = z.arena[g].children
    BY <2>1 DEF Row
  <2> QED
    BY <2>1, <2>2 DEF Adopted, Joined, Grown, Respin
<1> QED
  BY <1>1, <1>2

(* The fields and slots of an outline after an add.                         *)
LEMMA JoinedHas ==
  ASSUME NEW z, IsBuilt(z), NEW o, IsOwner(z, o), NEW c, IsBlank(c)
  PROVE  /\ IsBuilt(Joined(z, o, c)) /\ IsMade(Joined(z, o, c))
         /\ Joined(z, o, c).definitions = z.definitions
         /\ Joined(z, o, c).points = z.points /\ Joined(z, o, c).next = z.next + 1
         /\ Joined(z, o, c).density = z.density
         /\ Joined(z, o, c).roots = IF o = 1 THEN Append(z.roots, z.next) ELSE z.roots
         /\ DOMAIN Joined(z, o, c).arena = DOMAIN z.arena \cup {z.next}
         /\ z.next \notin DOMAIN z.arena /\ o # z.next
         /\ Joined(z, o, c).arena[z.next] = c
         /\ \A id \in DOMAIN z.arena :
              Joined(z, o, c).arena[id] =
                IF id = o /\ o # 1 THEN Group(Append(Row(z, o), z.next)) ELSE z.arena[id]
         /\ Gains(z, Joined(z, o, c), o, Len(Row(z, o)) + 1, z.next)
<1> DEFINE n == z.next
           y == Grown(z, c)
           row == Append(Row(z, o), n)
           j == Joined(z, o, c)
<1>0. n \in Nat /\ n > 1 /\ \A id \in DOMAIN z.arena : id \in Nat /\ id > 1 /\ id < n
  BY BuiltFacts
<1>1. n \notin DOMAIN z.arena /\ o # n
  BY <1>0 DEF IsOwner
<1>2. IsContent(c) /\ (c.kind = "group" => c.children = <<>>)
  BY DEF IsBlank
<1>3. /\ IsBuilt(y) /\ y.roots = z.roots /\ y.definitions = z.definitions
      /\ y.points = z.points /\ y.next = n + 1 /\ y.density = z.density
      /\ DOMAIN y.arena = DOMAIN z.arena \cup {n} /\ y.arena[n] = c
      /\ \A id \in DOMAIN z.arena : id # n => y.arena[id] = z.arena[id]
  BY <1>2, GrownHas, GrownBuilt
<1>4. Row(z, o) \in Seq(Nat) /\ (o = 1 \/ o \in DOMAIN z.arena)
      /\ (o = 1 => Row(z, o) = z.roots)
      /\ \A i, x : Named(z, o, i, x) <=> Slot(Row(z, o), i, x)
  BY OwnerRow
<1>5. \A p, i, x : Named(y, p, i, x) <=> Named(z, p, i, x)
  <2> TAKE p, i, x
  <2>1. ~(c.kind = "group" /\ Slot(c.children, i, x))
    BY <1>2 DEF Slot
  <2> QED
    BY <1>2, <2>1, GrownSlots
<1>6. j = Respin(y, o, row)
  BY DEF Joined
<1> HIDE DEF y, n
<1>7. row \in Seq(Nat) /\ (o = 1 \/ o \in DOMAIN y.arena)
  BY <1>0, <1>3, <1>4
<1>8. \A i, x : Slot(row, i, x) <=> Slot(Row(z, o), i, x) \/ (i = Len(Row(z, o)) + 1 /\ x = n)
  BY <1>0, <1>4, AppendSlots
<1> HIDE DEF row, j
<1>9. /\ IsBuilt(j) /\ IsMade(j) /\ j.definitions = y.definitions
      /\ j.points = y.points /\ j.next = y.next /\ j.density = y.density
      /\ j.roots = IF o = 1 THEN row ELSE y.roots
      /\ DOMAIN j.arena = DOMAIN y.arena
      /\ \A id \in DOMAIN y.arena :
           j.arena[id] = IF id = o /\ o # 1 THEN Group(row) ELSE y.arena[id]
  <2>1. IsBuilt(j)
    BY <1>3, <1>6, <1>7, RespinBuilt
  <2>2. \/ o = 1
        \/ o \in DOMAIN y.arena
    BY <1>7
  <2> DEFINE w == Respin(y, o, row)
  <2>3. /\ IsMade(w) /\ w.definitions = y.definitions
        /\ w.points = y.points /\ w.next = y.next /\ w.density = y.density
        /\ w.roots = (IF o = 1 THEN row ELSE y.roots)
        /\ DOMAIN w.arena = DOMAIN y.arena
        /\ \A id \in DOMAIN y.arena :
             w.arena[id] = (IF id = o /\ o # 1 THEN Group(row) ELSE y.arena[id])
    BY <2>2, RespinHas
  <2> QED
    BY <2>1, <2>3, <1>6
<1>10. \A p, i, x : Named(j, p, i, x) <=> IF p = o THEN Slot(row, i, x) ELSE Named(y, p, i, x)
  BY <1>3, <1>6, <1>7, RespinSlots
<1>11. \A x : ~Named(z, o, Len(Row(z, o)) + 1, x)
  <2> TAKE x
  <2>1. SUFFICES ASSUME Slot(Row(z, o), Len(Row(z, o)) + 1, x) PROVE FALSE
    BY <1>4
  <2>2. Len(Row(z, o)) \in Nat /\ Len(Row(z, o)) + 1 \in 1 .. Len(Row(z, o))
    BY <1>4, <2>1, SlotNat
  <2> QED
    BY <2>2
<1>12. Gains(z, j, o, Len(Row(z, o)) + 1, n)
  <2>1. DOMAIN j.arena = DOMAIN z.arena \cup {n}
    BY <1>3, <1>9
  <2>2. \A p, i, x : Named(j, p, i, x) <=> Named(z, p, i, x) \/ (p = o /\ i = Len(Row(z, o)) + 1 /\ x = n)
    BY <1>4, <1>5, <1>8, <1>10
  <2> QED
    BY <1>1, <1>11, <2>1, <2>2 DEF Gains
<1>13. j.arena[n] = c
  BY <1>1, <1>3, <1>9
<1>14. j.roots = IF o = 1 THEN Append(z.roots, n) ELSE z.roots
  BY <1>3, <1>4, <1>9 DEF row
<1>15. \A id \in DOMAIN z.arena :
              j.arena[id] = IF id = o /\ o # 1 THEN Group(Append(Row(z, o), n)) ELSE z.arena[id]
  BY <1>1, <1>3, <1>9 DEF row
<1> QED
  BY <1>1, <1>3, <1>9, <1>12, <1>13, <1>14, <1>15 DEF j, n

(* Points and definitions look after themselves.                           *)
LEMMA PointedMore ==
  ASSUME NEW z, IsOutline(z), NEW y, y.points = z.points, y.next \in Nat, y.next >= z.next,
         DOMAIN y.arena \subseteq DOMAIN z.arena \cup {z.next}
  PROVE  IsPointed(y)
<1>1. /\ z.next \in Nat
      /\ \A i, j \in DOMAIN z.points : z.points[i].id = z.points[j].id => i = j
      /\ \A i \in DOMAIN z.points :
           z.points[i].id \notin DOMAIN z.arena /\ z.points[i].id \in 2 .. z.next - 1
  BY BuiltFacts DEF IsOutline, IsPointed
<1>2. \A i \in DOMAIN y.points :
        y.points[i].id \notin DOMAIN y.arena /\ y.points[i].id \in 2 .. y.next - 1
  <2> TAKE i \in DOMAIN y.points
  <2> DEFINE q == z.points[i].id
  <2>1. q \notin DOMAIN z.arena /\ q \in 2 .. z.next - 1 /\ y.points[i].id = q
    BY <1>1
  <2> HIDE DEF q
  <2>2. q # z.next /\ q \in 2 .. y.next - 1
    BY <1>1, <2>1
  <2> QED
    BY <2>1, <2>2
<1> QED
  BY <1>1, <1>2 DEF IsPointed

(* An add makes an outline of an outline.                                   *)
LEMMA JoinedOutline ==
  ASSUME NEW z, IsOutline(z), NEW o, IsOwner(z, o), NEW c, IsBlank(c), Stocks(z, c)
  PROVE  IsOutline(Joined(z, o, c))
<1> DEFINE j == Joined(z, o, c)
<1>1. IsBuilt(z) /\ IsSpun(z) /\ IsStocked(z)
  BY DEF IsOutline
<1>2. /\ IsBuilt(j) /\ j.definitions = z.definitions /\ j.points = z.points /\ j.next = z.next + 1
      /\ DOMAIN j.arena = DOMAIN z.arena \cup {z.next} /\ j.arena[z.next] = c
      /\ \A id \in DOMAIN z.arena :
           j.arena[id] = IF id = o /\ o # 1 THEN Group(Append(Row(z, o), z.next)) ELSE z.arena[id]
      /\ Gains(z, j, o, Len(Row(z, o)) + 1, z.next)
  BY <1>1, JoinedHas
<1> HIDE DEF j
<1>3. IsSpun(j)
  BY <1>1, <1>2, GainsSpun
<1>4. IsStocked(j)
  <2>1. \A d : HasDefinition(j, d) <=> HasDefinition(z, d)
    BY <1>2 DEF HasDefinition
  <2>2. Group(Append(Row(z, o), z.next)).kind # "instance"
    BY DEF Group
  <2> QED
    BY <1>1, <1>2, <2>1, <2>2 DEF IsStocked, Stocks
<1>5. z.next \in Nat /\ j.next \in Nat /\ j.next >= z.next
  <2>1. z.next \in Nat
    BY <1>1, BuiltFacts
  <2> QED
    BY <1>2, <2>1
<1>6. IsPointed(j)
  BY <1>2, <1>5, PointedMore
<1> QED
  BY <1>2, <1>3, <1>4, <1>6 DEF IsOutline, j

(* A row of one has one slot.                                               *)
LEMMA OneSlot ==
  ASSUME NEW a, NEW i, NEW x
  PROVE  Slot(<<a>>, i, x) <=> i = 1 /\ x = a
BY DEF Slot

(* A node wrapped in a new group.                                          *)
LEMMA WrappedIs ==
  ASSUME NEW z, IsBuilt(z), NEW o, IsOwner(z, o), NEW t
  PROVE  Wrapped(z, o, t) = Respin(Grown(z, Group(<<t>>)), o, ReplaceAll(Row(z, o), t, z.next))
<1> DEFINE row == ReplaceAll(Row(z, o), t, z.next)
           h == Group(<<t>>)
           g == Group(row)
           A == z.arena
           n == z.next
<1>1. CASE o = 1
  BY <1>1 DEF Wrapped, Grown, Respin, Rooted, Numbered, PutIn, Filled, Make
<1>2. CASE o # 1
  <2>1. o \in DOMAIN A /\ o # n
    <3>1. o \in DOMAIN z.arena
      BY <1>2 DEF IsOwner
    <3>2. o \in Nat /\ o < z.next /\ z.next \in Nat
      BY <3>1, BuiltFacts
    <3> QED
      BY <3>1, <3>2
  <2>2. /\ Wrapped(z, o, t) = Make(With(With(A, o, g), n, h), z.roots, z.definitions, z.points, n + 1, z.density)
        /\ Respin(Grown(z, h), o, row)
             = Make(With(With(A, n, h), o, g), z.roots, z.definitions, z.points, n + 1, z.density)
    BY <1>2 DEF Wrapped, Grown, Respin, Numbered, PutIn, Filled, Make
  <2> HIDE DEF A, n, g, h
  <2>3. With(With(A, o, g), n, h) = With(With(A, n, h), o, g)
    BY <2>1 DEF With
  <2> QED
    BY <2>2, <2>3 DEF h
<1> QED
  BY <1>1, <1>2

(* A new group around a node keeps every node in exactly one slot.          *)
LEMMA WrapsSpun ==
  ASSUME NEW z, IsSpun(z), NEW y, NEW o, NEW k, NEW t, NEW n, Wraps(z, y, o, k, t, n)
  PROVE  IsSpun(y)
<1>0. t \in DOMAIN z.arena /\ t # n
  BY DEF IsSpun, Wraps
<1>1. \A p, i, x : Named(y, p, i, x) => x \in DOMAIN y.arena
  BY <1>0 DEF IsSpun, Wraps
<1>2. ASSUME NEW x \in DOMAIN y.arena PROVE \E p, i : Named(y, p, i, x)
  <2>1. CASE x = n
    BY <2>1 DEF Wraps
  <2>2. CASE x = t
    BY <2>2 DEF Wraps
  <2>3. CASE x # n /\ x # t
    BY <2>3 DEF IsSpun, Wraps
  <2> QED
    BY <2>1, <2>2, <2>3
<1>3. ASSUME NEW p, NEW q, NEW i, NEW j, NEW x, Named(y, p, i, x), Named(y, q, j, x)
      PROVE p = q /\ i = j
  <2>1. CASE x = n
    <3>1. \A r, m : ~Named(z, r, m, n)
      BY DEF IsSpun, Wraps
    <3> QED
      BY <1>0, <1>3, <2>1, <3>1 DEF Wraps
  <2>2. CASE x = t
    BY <1>0, <1>3, <2>2 DEF Wraps
  <2>3. CASE x # n /\ x # t
    <3>1. Named(z, p, i, x) /\ Named(z, q, j, x)
      BY <1>3, <2>3 DEF Wraps
    <3> QED
      BY <3>1 DEF IsSpun
  <2> QED
    BY <2>1, <2>2, <2>3
<1> QED
  BY <1>1, <1>2, <1>3 DEF IsSpun

(* The fields and slots of an outline after a wrap.                         *)
LEMMA WrappedHas ==
  ASSUME NEW z, IsOutline(z), NEW o, IsOwner(z, o), NEW k, NEW t, Named(z, o, k, t)
  PROVE  /\ IsBuilt(Wrapped(z, o, t)) /\ IsMade(Wrapped(z, o, t))
         /\ Wrapped(z, o, t).definitions = z.definitions
         /\ Wrapped(z, o, t).points = z.points /\ Wrapped(z, o, t).next = z.next + 1
         /\ Wrapped(z, o, t).density = z.density
         /\ Wrapped(z, o, t).roots = IF o = 1 THEN ReplaceAll(Row(z, o), t, z.next) ELSE z.roots
         /\ DOMAIN Wrapped(z, o, t).arena = DOMAIN z.arena \cup {z.next}
         /\ Wrapped(z, o, t).arena[z.next] = Around(t)
         /\ \A id \in DOMAIN z.arena :
              Wrapped(z, o, t).arena[id] =
                IF id = o /\ o # 1 THEN Group(ReplaceAll(Row(z, o), t, z.next)) ELSE z.arena[id]
         /\ Wraps(z, Wrapped(z, o, t), o, k, t, z.next)
<1> DEFINE n == z.next
           h == Around(t)
           y == Grown(z, h)
           row == ReplaceAll(Row(z, o), t, n)
           w == Wrapped(z, o, t)
<1>a. IsBuilt(z) /\ IsSpun(z)
  BY DEF IsOutline
<1>0. n \in Nat /\ n > 1 /\ \A id \in DOMAIN z.arena : id \in Nat /\ id > 1 /\ id < n
  BY <1>a, BuiltFacts
<1>b. t \in DOMAIN z.arena /\ \A p, i : Named(z, p, i, t) => p = o /\ i = k
  BY <1>a DEF IsSpun
<1>1. n \notin DOMAIN z.arena /\ o # n /\ t # n /\ t \in Nat
  BY <1>0, <1>b DEF IsOwner
<1>2. IsContent(h) /\ h.kind = "group" /\ h.children = <<t>>
  <2>1. <<t>> \in Seq(Nat)
    BY <1>1
  <2> QED
    BY <2>1, GroupHas DEF Around
<1>3. /\ IsBuilt(y) /\ y.roots = z.roots /\ y.definitions = z.definitions
      /\ y.points = z.points /\ y.next = n + 1 /\ y.density = z.density
      /\ DOMAIN y.arena = DOMAIN z.arena \cup {n} /\ y.arena[n] = h
      /\ \A id \in DOMAIN z.arena : id # n => y.arena[id] = z.arena[id]
  BY <1>a, <1>2, GrownHas, GrownBuilt
<1>4. Row(z, o) \in Seq(Nat) /\ (o = 1 \/ o \in DOMAIN z.arena)
      /\ \A i, x : Named(z, o, i, x) <=> Slot(Row(z, o), i, x)
  BY <1>a, OwnerRow
<1>5. \A p, i, x : Named(y, p, i, x) <=> Named(z, p, i, x) \/ (p = n /\ i = 1 /\ x = t)
  <2> HIDE DEF h
  <2> TAKE p, i, x
  <2>1. Slot(h.children, i, x) <=> i = 1 /\ x = t
    BY <1>2, OneSlot
  <2> QED
    BY <1>a, <1>2, <2>1, GrownSlots
<1>6. w = Respin(y, o, row)
  BY <1>a, WrappedIs DEF Around
<1> HIDE DEF y, n, h
<1>7. row \in Seq(Nat) /\ Len(row) = Len(Row(z, o)) /\ Len(row) \in Nat
      /\ \A i \in 1 .. Len(row) : row[i] = IF Row(z, o)[i] = t THEN n ELSE Row(z, o)[i]
  <2> DEFINE q == Row(z, o)
             r == ReplaceAll(q, t, n)
  <2>1. q \in Seq(Nat) /\ n \in Nat /\ Len(q) \in Nat
    BY <1>0, <1>4
  <2> HIDE DEF q
  <2>2. r \in Seq(Nat) /\ Len(r) = Len(q) /\ \A i \in 1 .. Len(q) : r[i] = IF q[i] = t THEN n ELSE q[i]
    BY <2>1, ReplaceAllIs
  <2> HIDE DEF r
  <2> QED
    BY <2>1, <2>2 DEF r, q
<1>8. \A i, x : Slot(row, i, x) <=>
        (Slot(Row(z, o), i, x) /\ x # t) \/ (Slot(Row(z, o), i, t) /\ x = n)
  <2>1. DOMAIN row = 1 .. Len(row) /\ DOMAIN Row(z, o) = 1 .. Len(row)
    BY <1>4, <1>7
  <2> HIDE DEF row
  <2> QED
    BY <1>7, <2>1 DEF Slot
<1> HIDE DEF row, w
<1>9. o = 1 \/ o \in DOMAIN y.arena
  BY <1>3, <1>4
<1> DEFINE v == Respin(y, o, row)
<1>10. /\ IsMade(v) /\ v.definitions = y.definitions
       /\ v.points = y.points /\ v.next = y.next /\ v.density = y.density
       /\ v.roots = (IF o = 1 THEN row ELSE y.roots)
       /\ DOMAIN v.arena = DOMAIN y.arena
       /\ \A id \in DOMAIN y.arena :
            v.arena[id] = (IF id = o /\ o # 1 THEN Group(row) ELSE y.arena[id])
  BY <1>9, RespinHas
<1>11. IsBuilt(v)
  BY <1>3, <1>7, <1>9, RespinBuilt
<1>12. \A p, i, x : Named(v, p, i, x) <=> IF p = o THEN Slot(row, i, x) ELSE Named(y, p, i, x)
  BY <1>3, <1>7, <1>9, RespinSlots
<1> HIDE DEF v
<1>13. v = w
  BY <1>6 DEF v
<1>14. Wraps(z, v, o, k, t, n)
  <2>1. DOMAIN v.arena = DOMAIN z.arena \cup {n}
    BY <1>3, <1>10
  <2>2. ASSUME NEW p, NEW i, NEW x
        PROVE Named(v, p, i, x) <=>
                \/ Named(z, p, i, x) /\ x # t
                \/ p = o /\ i = k /\ x = n
                \/ p = n /\ i = 1 /\ x = t
    <3>1. CASE p = o
      BY <1>1, <1>4, <1>8, <1>12, <1>b, <3>1
    <3>2. CASE p # o
      BY <1>1, <1>5, <1>12, <1>b, <3>2
    <3> QED
      BY <3>1, <3>2
  <2> QED
    BY <1>1, <2>1, <2>2 DEF Wraps
<1>15. v.arena[n] = h /\ v.roots = (IF o = 1 THEN row ELSE z.roots)
       /\ \A id \in DOMAIN z.arena : v.arena[id] = (IF id = o /\ o # 1 THEN Group(row) ELSE z.arena[id])
  BY <1>1, <1>3, <1>10
<1> QED
  BY <1>3, <1>10, <1>11, <1>13, <1>14, <1>15 DEF w, n, h, row

(* A wrap makes an outline of an outline.                                   *)
LEMMA WrappedOutline ==
  ASSUME NEW z, IsOutline(z), NEW o, IsOwner(z, o), NEW k, NEW t, Named(z, o, k, t)
  PROVE  IsOutline(Wrapped(z, o, t))
<1> DEFINE j == Wrapped(z, o, t)
           row == ReplaceAll(Row(z, o), t, z.next)
<1>1. IsBuilt(z) /\ IsSpun(z) /\ IsStocked(z)
  BY DEF IsOutline
<1>2. /\ IsBuilt(j) /\ j.definitions = z.definitions /\ j.points = z.points /\ j.next = z.next + 1
      /\ DOMAIN j.arena = DOMAIN z.arena \cup {z.next} /\ j.arena[z.next] = Around(t)
      /\ \A id \in DOMAIN z.arena :
           j.arena[id] = (IF id = o /\ o # 1 THEN Group(row) ELSE z.arena[id])
      /\ Wraps(z, j, o, k, t, z.next)
  BY WrappedHas
<1> HIDE DEF j, row
<1>3. IsSpun(j)
  BY <1>1, <1>2, WrapsSpun
<1>4. IsStocked(j)
  <2>1. \A d : HasDefinition(j, d) <=> HasDefinition(z, d)
    BY <1>2 DEF HasDefinition
  <2>2. Group(row).kind # "instance" /\ Around(t).kind # "instance"
    BY DEF Group, Around
  <2> QED
    BY <1>1, <1>2, <2>1, <2>2 DEF IsStocked
<1>5. z.next \in Nat /\ j.next \in Nat /\ j.next >= z.next
  <2>1. z.next \in Nat
    BY <1>1, BuiltFacts
  <2> QED
    BY <1>2, <2>1
<1>6. IsPointed(j)
  BY <1>2, <1>5, PointedMore
<1> QED
  BY <1>2, <1>3, <1>4, <1>6 DEF IsOutline, j

(* The next definition id is past every one in use.                        *)
LEMMA NextDefIs ==
  ASSUME NEW z, z.definitions \in Seq([id : Nat, children : Seq(Nat)])
  PROVE  /\ NextDefId(z) \in Nat
         /\ \A e \in DOMAIN z.definitions : z.definitions[e].id < NextDefId(z)
<1> DEFINE d == z.definitions
           n == Len(d)
           S == {0} \cup {d[i].id : i \in DOMAIN d}
           Tops == {k \in 0 .. n : \E m \in S : \A e \in 1 .. k : d[e].id <= m}
<1>1. n \in Nat /\ DOMAIN d = 1 .. n /\ \A e \in 1 .. n : d[e].id \in Nat /\ d[e].id \in S
  BY DefinitionTyped
<1>2. \A m \in S : m \in Nat
  BY <1>1
<1>a. 0 \in S
  OBVIOUS
<1> HIDE DEF S, n, d
<1>3. 0 \in Tops
  BY <1>1, <1>a
<1>4. ASSUME NEW k \in 1 .. n, k - 1 \in Tops PROVE k \in Tops
  <2>1. PICK m \in S : \A e \in 1 .. k - 1 : d[e].id <= m
    BY <1>4
  <2>2. d[k].id \in S /\ d[k].id \in Nat /\ m \in Nat /\ k \in 0 .. n
    BY <1>1, <1>2, <1>4
  <2>3. CASE d[k].id <= m
    <3>1. \A e \in 1 .. k : d[e].id <= m
      BY <2>1, <2>3, <1>4
    <3> QED
      BY <2>2, <3>1
  <2>4. CASE ~(d[k].id <= m)
    <3>1. \A e \in 1 .. k : d[e].id <= d[k].id
      <4> TAKE e \in 1 .. k
      <4>1. CASE e = k
        BY <2>2, <4>1
      <4>2. CASE e # k
        <5>1. e \in 1 .. k - 1 /\ e \in 1 .. n
          BY <1>1, <1>4, <4>2
        <5>2. d[e].id \in Nat /\ d[e].id <= m
          BY <1>1, <2>1, <5>1
        <5> QED
          BY <2>2, <2>4, <5>2
      <4> QED
        BY <4>1, <4>2
    <3> QED
      BY <2>2, <3>1
  <2> QED
    BY <2>3, <2>4
<1>5. \A k \in 0 .. n : k \in Tops
  <2> HIDE DEF Tops
  <2> QED
    BY <1>1, <1>3, <1>4, Induct
<1>6. PICK m \in S : \A e \in 1 .. n : d[e].id <= m
  <2>1. n \in 0 .. n
    BY <1>1
  <2> QED
    BY <1>5, <2>1
<1>7. \A y \in S : m >= y
  BY <1>1, <1>2, <1>6 DEF S
<1>8. Max(S) \in S /\ \A y \in S : Max(S) >= y
  BY <1>6, <1>7 DEF Max
<1>9. NextDefId(z) = 1 + Max(S)
  BY DEF NextDefId, S, d
<1>10. \A e \in DOMAIN d : d[e].id \in Nat /\ d[e].id <= Max(S)
  BY <1>1, <1>2, <1>8
<1> QED
  BY <1>2, <1>8, <1>9, <1>10 DEF d

(* The content of an instance.                                              *)
LEMMA PlacedHas ==
  ASSUME NEW d
  PROVE  IsContent(Placed(d)) /\ Placed(d).kind = "instance" /\ Placed(d).def = d
BY DEF IsContent, Placed

(* One definition more: the earlier ones and the new one are stocked.       *)
LEMMA StocksMore ==
  ASSUME NEW z, NEW y, z.definitions \in Seq([id : Nat, children : Seq(Nat)]),
         NEW def \in Nat, NEW row \in Seq(Nat),
         y.definitions = Append(z.definitions, Entry(def, row)), NEW q
  PROVE  HasDefinition(y, q) <=> HasDefinition(z, q) \/ q = def
<1> DEFINE d == z.definitions
           e == Append(d, Entry(def, row))
<1>1. /\ DOMAIN e = DOMAIN d \cup {Len(d) + 1} /\ e[Len(d) + 1] = Entry(def, row)
      /\ \A i \in DOMAIN d : i # Len(d) + 1 /\ e[i] = d[i]
  BY ListGrows
<1>2. Entry(def, row).id = def
  BY DEF Entry
<1>3. y.definitions = e
  OBVIOUS
<1> HIDE DEF e
<1>4. (\E i \in DOMAIN e : e[i].id = q) <=> (\E i \in DOMAIN d : d[i].id = q) \/ q = def
  BY <1>1, <1>2
<1> QED
  BY <1>3, <1>4 DEF HasDefinition

(* Moving a row from a group to a new definition keeps every node in        *)
(* exactly one slot.                                                        *)
LEMMA MovesSpun ==
  ASSUME NEW z, IsSpun(z), NEW y, NEW t, NEW e, Moves(z, y, t, e)
  PROVE  IsSpun(y)
<1>1. \A p, i, x : Named(y, p, i, x) => x \in DOMAIN y.arena
  BY DEF IsSpun, Moves
<1>2. ASSUME NEW x \in DOMAIN y.arena PROVE \E p, i : Named(y, p, i, x)
  <2>1. PICK p, i : Named(z, p, i, x)
    BY <1>2 DEF IsSpun, Moves
  <2>2. CASE p = t
    BY <2>1, <2>2 DEF Moves
  <2>3. CASE p # t
    BY <2>1, <2>3 DEF Moves
  <2> QED
    BY <2>2, <2>3
<1>3. ASSUME NEW p, NEW q, NEW i, NEW j, NEW x, Named(y, p, i, x), Named(y, q, j, x)
      PROVE p = q /\ i = j
  <2>1. (p # t /\ Named(z, p, i, x)) \/ (p = e /\ Named(z, t, i, x))
    BY <1>3 DEF Moves
  <2>2. (q # t /\ Named(z, q, j, x)) \/ (q = e /\ Named(z, t, j, x))
    BY <1>3 DEF Moves
  <2> QED
    BY <2>1, <2>2 DEF IsSpun
<1> QED
  BY <1>1, <1>2, <1>3 DEF IsSpun

(* The next place of the definitions names nothing yet.                     *)
LEMMA FreshOwner ==
  ASSUME NEW z, IsBuilt(z), NEW i, NEW x
  PROVE  ~Named(z, -(Len(z.definitions) + 1), i, x)
<1> DEFINE n == Len(z.definitions)
           e == -(n + 1)
<1>1. n \in Nat
  BY DEF IsBuilt
<1>2. e # 1 /\ e \in Int /\ ~(e > 1) /\ ~(-e \in 1 .. n)
  BY <1>1
<1> HIDE DEF e
<1>3. ~Named(z, e, i, x)
  BY <1>2, NamedIs
<1> QED
  BY <1>3 DEF e

(* Making a definition of a group: write the instance, then enlist the row. *)
LEMMA DonatedIs ==
  ASSUME NEW z, NEW t
  PROVE  Donated(z, t) = Enlisted(PutIn(z, t, Placed(NextDefId(z))), NextDefId(z), z.arena[t].children)
BY DEF Donated, Enlisted, Entry, PutIn, Filled, Make

(* The fields and slots of an outline after a group became a definition.    *)
LEMMA DonatedHas ==
  ASSUME NEW z, IsBuilt(z), NEW t \in DOMAIN z.arena, z.arena[t].kind = "group"
  PROVE  /\ IsBuilt(Donated(z, t)) /\ IsMade(Donated(z, t))
         /\ Donated(z, t).roots = z.roots /\ Donated(z, t).points = z.points
         /\ Donated(z, t).next = z.next /\ Donated(z, t).density = z.density
         /\ Donated(z, t).definitions = Append(z.definitions, Entry(NextDefId(z), z.arena[t].children))
         /\ DOMAIN Donated(z, t).arena = DOMAIN z.arena
         /\ Donated(z, t).arena[t] = Placed(NextDefId(z))
         /\ \A id \in DOMAIN z.arena : id # t => Donated(z, t).arena[id] = z.arena[id]
         /\ Moves(z, Donated(z, t), t, -(Len(z.definitions) + 1))
<1> DEFINE def == NextDefId(z)
           c == Placed(def)
           row == z.arena[t].children
           y == PutIn(z, t, c)
           w == Enlisted(y, def, row)
           e == -(Len(z.definitions) + 1)
<1>1. def \in Nat
  BY NextDefIs DEF IsBuilt
<1>2. row \in Seq(Nat)
  BY GroupIs DEF IsBuilt
<1>3. IsContent(c) /\ c.kind # "group"
  BY PlacedHas
<1>4. Donated(z, t) = w
  BY DonatedIs
<1> HIDE DEF c, def
<1>5. /\ IsBuilt(y) /\ y.roots = z.roots /\ y.definitions = z.definitions
      /\ y.points = z.points /\ y.next = z.next
      /\ y.density = z.density /\ DOMAIN y.arena = DOMAIN z.arena /\ y.arena[t] = c
      /\ \A id \in DOMAIN z.arena : id # t => y.arena[id] = z.arena[id]
  BY <1>3, PutInHas, PutInBuilt
<1>6. \A o, i, x : Named(y, o, i, x) <=> o # t /\ Named(z, o, i, x)
  BY <1>3, PutInSlots
<1>7. \A i, x : Named(z, t, i, x) <=> Slot(row, i, x)
  <2>1. t \in Nat /\ t > 1 /\ IsOwner(z, t)
    BY BuiltFacts DEF IsOwner
  <2>2. Row(z, t) = row
    BY <2>1 DEF Row
  <2> QED
    BY <2>1, <2>2, OwnerRow
<1> HIDE DEF y, row
<1>8. /\ IsBuilt(w) /\ IsMade(w) /\ w.arena = y.arena /\ w.roots = y.roots
      /\ w.definitions = Append(y.definitions, Entry(def, row))
      /\ w.points = y.points /\ w.next = y.next /\ w.density = y.density
  <2>1. IsBuilt(w)
    BY <1>1, <1>2, <1>5, EnlistedBuilt
  <2> QED
    BY <2>1, EnlistedHas
<1>9. \A o, i, x : Named(w, o, i, x) <=> Named(y, o, i, x) \/ (o = e /\ Slot(row, i, x))
  BY <1>1, <1>2, <1>5, EnlistedSlots
<1>10. \A i, x : ~Named(z, e, i, x)
  BY FreshOwner
<1> HIDE DEF w, e
<1>11. Moves(z, w, t, e)
  BY <1>5, <1>6, <1>7, <1>8, <1>9, <1>10 DEF Moves
<1> QED
  BY <1>4, <1>5, <1>8, <1>11 DEF e, def, row, c

(* Making a definition of a group makes an outline of an outline.           *)
LEMMA DonatedOutline ==
  ASSUME NEW z, IsOutline(z), NEW t \in DOMAIN z.arena, z.arena[t].kind = "group"
  PROVE  IsOutline(Donated(z, t))
<1> DEFINE def == NextDefId(z)
           row == z.arena[t].children
           y == Donated(z, t)
           e == -(Len(z.definitions) + 1)
<1>1. IsBuilt(z) /\ IsSpun(z) /\ IsStocked(z) /\ z.definitions \in Seq([id : Nat, children : Seq(Nat)])
  BY DEF IsOutline, IsBuilt
<1>2. /\ IsBuilt(y) /\ y.points = z.points /\ y.next = z.next
      /\ y.definitions = Append(z.definitions, Entry(def, row))
      /\ DOMAIN y.arena = DOMAIN z.arena /\ y.arena[t] = Placed(def)
      /\ \A id \in DOMAIN z.arena : id # t => y.arena[id] = z.arena[id]
      /\ Moves(z, y, t, e)
  BY <1>1, DonatedHas
<1>3. def \in Nat /\ row \in Seq(Nat)
  BY <1>1, NextDefIs, GroupIs DEF IsBuilt
<1> HIDE DEF y, def, row, e
<1>4. IsSpun(y)
  BY <1>1, <1>2, MovesSpun
<1>5. IsStocked(y)
  <2>1. ASSUME NEW q PROVE HasDefinition(y, q) <=> HasDefinition(z, q) \/ q = def
    <3>1. y.definitions = Append(z.definitions, Entry(def, row))
      BY <1>2
    <3> QED
      BY <1>1, <1>3, <3>1, StocksMore
  <2>2. Placed(def).def = def
    BY PlacedHas
  <2> QED
    BY <1>1, <1>2, <2>1, <2>2 DEF IsStocked
<1>6. z.next \in Nat /\ y.next >= z.next
  <2>1. z.next \in Nat
    BY <1>1, BuiltFacts
  <2> QED
    BY <1>2, <2>1
<1>7. IsPointed(y)
  BY <1>2, <1>6, PointedMore
<1> QED
  BY <1>2, <1>4, <1>5, <1>7 DEF IsOutline, y

(* Any other node becomes the body of one.                                 *)
LEMMA BodiedIs ==
  ASSUME NEW z, IsBuilt(z), NEW t \in DOMAIN z.arena
  PROVE  Bodied(z, t)
           = Enlisted(PutIn(Grown(z, z.arena[t]), t, Placed(NextDefId(z))), NextDefId(z), <<z.next>>)
<1> DEFINE def == NextDefId(z)
           c == z.arena[t]
           n == z.next
           A == z.arena
           h == Placed(def)
           d == Append(z.definitions, Entry(def, <<n>>))
<1>1. t # n
  <2>1. t \in Nat /\ t < z.next /\ z.next \in Nat
    BY BuiltFacts
  <2> QED
    BY <2>1
<1>2. /\ Bodied(z, t) = Make(With(With(A, t, h), n, c), z.roots, d, z.points, n + 1, z.density)
      /\ Enlisted(PutIn(Grown(z, z.arena[t]), t, Placed(NextDefId(z))), NextDefId(z), <<z.next>>)
           = Make(With(With(A, n, c), t, h), z.roots, d, z.points, n + 1, z.density)
  BY DEF Bodied, Enlisted, Entry, Defining, Numbered, Grown, PutIn, Filled, Make
<1> HIDE DEF A, h, c, n
<1>3. With(With(A, t, h), n, c) = With(With(A, n, c), t, h)
  BY <1>1 DEF With
<1> HIDE DEF d
<1> QED
  BY <1>2, <1>3

(* The fields and slots of an outline after a body became a definition.     *)
LEMMA BodiedHas ==
  ASSUME NEW z, IsBuilt(z), NEW t \in DOMAIN z.arena, z.arena[t].kind # "group"
  PROVE  /\ IsBuilt(Bodied(z, t)) /\ IsMade(Bodied(z, t))
         /\ Bodied(z, t).roots = z.roots /\ Bodied(z, t).points = z.points
         /\ Bodied(z, t).next = z.next + 1 /\ Bodied(z, t).density = z.density
         /\ Bodied(z, t).definitions = Append(z.definitions, Entry(NextDefId(z), Sole(z.next)))
         /\ DOMAIN Bodied(z, t).arena = DOMAIN z.arena \cup {z.next}
         /\ z.next \notin DOMAIN z.arena
         /\ Bodied(z, t).arena[t] = Placed(NextDefId(z))
         /\ Bodied(z, t).arena[z.next] = z.arena[t]
         /\ \A id \in DOMAIN z.arena : id # t => Bodied(z, t).arena[id] = z.arena[id]
         /\ Gains(z, Bodied(z, t), -(Len(z.definitions) + 1), 1, z.next)
<1> DEFINE def == NextDefId(z)
           c == z.arena[t]
           n == z.next
           h == Placed(def)
           g == Grown(z, c)
           y == PutIn(g, t, h)
           w == Enlisted(y, def, <<n>>)
           e == -(Len(z.definitions) + 1)
<1>1. def \in Nat
  BY NextDefIs DEF IsBuilt
<1>2. n \in Nat /\ n \notin DOMAIN z.arena /\ t # n
  <2>1. z.next \in Nat /\ \A id \in DOMAIN z.arena : id \in Nat /\ id < z.next
    BY BuiltFacts
  <2> QED
    BY <2>1
<1>3. IsContent(h) /\ h.kind # "group"
  BY PlacedHas
<1>4. Bodied(z, t) = w
  BY BodiedIs
<1>5. IsContent(c)
  BY DEF IsBuilt
<1>6. <<n>> \in Seq(Nat)
  BY <1>2
<1>a. c.kind # "group"
  OBVIOUS
<1> HIDE DEF h, def, c, n
<1>7. /\ IsBuilt(g) /\ g.roots = z.roots /\ g.definitions = z.definitions
      /\ g.points = z.points /\ g.next = n + 1 /\ g.density = z.density
      /\ DOMAIN g.arena = DOMAIN z.arena \cup {n} /\ g.arena[n] = c
      /\ \A id \in DOMAIN z.arena : id # n => g.arena[id] = z.arena[id]
  BY <1>5, GrownHas, GrownBuilt DEF n
<1>8. \A o, i, x : Named(g, o, i, x) <=> Named(z, o, i, x)
  BY <1>5, <1>a, GrownSlots
<1> HIDE DEF g
<1>b. t \in DOMAIN g.arena
  BY <1>7
<1>9. /\ y.roots = g.roots /\ y.definitions = g.definitions
      /\ y.points = g.points /\ y.next = g.next
      /\ y.density = g.density /\ DOMAIN y.arena = DOMAIN g.arena /\ y.arena[t] = h
      /\ \A id \in DOMAIN g.arena : id # t => y.arena[id] = g.arena[id]
  BY <1>b, PutInHas
<1>c. IsBuilt(y)
  BY <1>3, <1>7, <1>b, PutInBuilt
<1>10. \A o, i, x : Named(y, o, i, x) <=> o # t /\ Named(g, o, i, x)
  BY <1>3, <1>7, <1>b, PutInSlots
<1> HIDE DEF y
<1>11. IsBuilt(w)
  BY <1>1, <1>6, <1>c, EnlistedBuilt
<1>12. /\ IsMade(w) /\ w.arena = y.arena /\ w.roots = y.roots
       /\ w.definitions = Append(y.definitions, Entry(def, <<n>>))
       /\ w.points = y.points /\ w.next = y.next /\ w.density = y.density
  BY EnlistedHas
<1>13. \A o, i, x : Named(w, o, i, x) <=> Named(y, o, i, x) \/ (o = -(Len(y.definitions) + 1) /\ Slot(<<n>>, i, x))
  BY <1>1, <1>6, <1>c, EnlistedSlots
<1>14. \A i, x : ~Named(z, e, i, x)
  BY FreshOwner
<1>15. \A i, x : ~Named(z, t, i, x)
  <2>1. \A i, x : ~GroupSlot(z.arena, t, i, x)
    BY <1>a DEF GroupSlot, c
  <2>2. t \in Nat /\ t > 1
    BY BuiltFacts
  <2> QED
    BY <2>1, <2>2, NamedIs
<1> HIDE DEF w
<1>16. -(Len(y.definitions) + 1) = e
  BY <1>7, <1>9
<1> HIDE DEF e
<1>17. Gains(z, w, e, 1, n)
  <2>1. DOMAIN w.arena = DOMAIN z.arena \cup {n}
    BY <1>7, <1>9, <1>12
  <2>2. ASSUME NEW o, NEW i, NEW x
        PROVE Named(w, o, i, x) <=> Named(z, o, i, x) \/ (o = e /\ i = 1 /\ x = n)
    BY <1>8, <1>10, <1>13, <1>15, <1>16, OneSlot
  <2> QED
    BY <1>2, <1>14, <2>1, <2>2 DEF Gains
<1>18. w.arena[t] = h /\ w.arena[n] = c /\ \A id \in DOMAIN z.arena : id # t => w.arena[id] = z.arena[id]
  BY <1>2, <1>7, <1>9, <1>12
<1> QED
  BY <1>2, <1>4, <1>7, <1>9, <1>11, <1>12, <1>17, <1>18 DEF e, def, h, c, n, Sole

(* Making a definition of a body makes an outline of an outline.            *)
LEMMA BodiedOutline ==
  ASSUME NEW z, IsOutline(z), NEW t \in DOMAIN z.arena, z.arena[t].kind # "group"
  PROVE  IsOutline(Bodied(z, t))
<1> DEFINE def == NextDefId(z)
           row == Sole(z.next)
           y == Bodied(z, t)
           e == -(Len(z.definitions) + 1)
<1>1. IsBuilt(z) /\ IsSpun(z) /\ IsStocked(z) /\ z.definitions \in Seq([id : Nat, children : Seq(Nat)])
  BY DEF IsOutline, IsBuilt
<1>a. z.next \in Nat
  BY <1>1, BuiltFacts
<1>2. /\ IsBuilt(y) /\ y.points = z.points /\ y.next = z.next + 1
      /\ y.definitions = Append(z.definitions, Entry(def, row))
      /\ DOMAIN y.arena = DOMAIN z.arena \cup {z.next} /\ y.arena[t] = Placed(def)
      /\ y.arena[z.next] = z.arena[t]
      /\ \A id \in DOMAIN z.arena : id # t => y.arena[id] = z.arena[id]
      /\ Gains(z, y, e, 1, z.next)
  BY <1>1, BodiedHas
<1>3. def \in Nat /\ row \in Seq(Nat)
  BY <1>1, <1>a, NextDefIs DEF Sole
<1> HIDE DEF y, def, row, e
<1>4. IsSpun(y)
  BY <1>1, <1>2, GainsSpun
<1>5. IsStocked(y)
  <2>1. ASSUME NEW q PROVE HasDefinition(y, q) <=> HasDefinition(z, q) \/ q = def
    <3>1. y.definitions = Append(z.definitions, Entry(def, row))
      BY <1>2
    <3> QED
      BY <1>1, <1>3, <3>1, StocksMore
  <2>2. Placed(def).def = def
    BY PlacedHas
  <2> QED
    BY <1>1, <1>2, <2>1, <2>2 DEF IsStocked
<1>6. y.next \in Nat /\ y.next >= z.next
  BY <1>2, <1>a
<1>7. IsPointed(y)
  BY <1>2, <1>6, PointedMore
<1> QED
  BY <1>2, <1>4, <1>5, <1>7 DEF IsOutline, y

(*********** What a removal takes ***********)

(* What a purge drops: the node, and everything that hangs from what is     *)
(* dropped.                                                                 *)
LEMMA GoneIs ==
  ASSUME NEW z, IsOutline(z), NEW t \in DOMAIN z.arena
  PROVE  /\ t \in Gone(z, t) /\ Gone(z, t) \subseteq DOMAIN z.arena
         /\ \A x \in Gone(z, t) : x = t \/ \E g \in Gone(z, t) : \E j : Named(z, g, j, x)
         /\ \A g \in Gone(z, t) : \A j, x : Named(z, g, j, x) => x \in Gone(z, t)
<1> DEFINE G == Gone(z, t)
<1>1. IsBuilt(z) /\ {t} \in SUBSET DOMAIN z.arena
  BY DEF IsOutline
<1>2. {t} \subseteq G /\ G \subseteq DOMAIN z.arena /\ KeepsKids(z.arena, G)
      /\ \A x \in G : x \in {t} \/ \E y \in G : x \in Kids(z.arena, y)
  BY <1>1, BelowFacts DEF Gone
<1> HIDE DEF G
<1>3. \A x \in G : x = t \/ \E g \in G : \E j : Named(z, g, j, x)
  BY <1>1, <1>2, KidNamed
<1>4. ASSUME NEW g \in G, NEW j, NEW x, Named(z, g, j, x) PROVE x \in G
  <2>1. x \in Kids(z.arena, g)
    BY <1>1, <1>2, <1>4, KidNamed
  <2> QED
    BY <1>2, <2>1 DEF KeepsKids
<1> QED
  BY <1>2, <1>3, <1>4 DEF G

(* A node of the tree does not lie below itself.                           *)
LEMMA OwnerStays ==
  ASSUME NEW z, IsOutline(z), NEW o, NEW k, NEW t, Sits(z, o, k, t)
  PROVE  o \notin Gone(z, t)
<1> DEFINE G == Gone(z, t)
           C == TreeOf(z) \ G
<1>1. IsBuilt(z) /\ IsSpun(z) /\ Named(z, o, k, t) /\ t \in DOMAIN z.arena
  BY DEF IsOutline, IsSpun, Sits
<1>2. /\ t \in G /\ G \subseteq DOMAIN z.arena
      /\ \A x \in G : x = t \/ \E g \in G : \E j : Named(z, g, j, x)
  BY <1>1, GoneIs
<1>3. SUFFICES ASSUME o \in G PROVE FALSE
  OBVIOUS
<1>4. \A g \in G : g \in Nat /\ g > 1
  BY <1>1, <1>2, BuiltFacts
<1>5. o # 1 /\ 1 \notin G
  BY <1>3, <1>4
<1>6. /\ Range(z.roots) \subseteq TreeOf(z) /\ KeepsKids(z.arena, TreeOf(z))
      /\ TreeOf(z) \subseteq DOMAIN z.arena
  BY OutlineClosed, BelowFacts DEF TreeOf
<1> HIDE DEF G
<1>7. Range(z.roots) \subseteq C
  <2>1. SUFFICES ASSUME NEW x \in Range(z.roots), x \in G PROVE FALSE
    BY <1>6
  <2>2. PICK i : Named(z, 1, i, x)
    BY <2>1, TopNamed
  <2>3. x = t \/ \E g \in G : \E j : Named(z, g, j, x)
    BY <1>2, <2>1
  <2> QED
    BY <1>1, <1>5, <2>2, <2>3 DEF IsSpun
<1>8. KeepsKids(z.arena, C)
  <2>1. SUFFICES ASSUME NEW g \in C, NEW x \in Kids(z.arena, g), x \in G PROVE FALSE
    BY <1>6 DEF KeepsKids
  <2>2. PICK i : Named(z, g, i, x)
    BY <1>1, <2>1, KidNamed
  <2>3. x = t \/ \E y \in G : \E j : Named(z, y, j, x)
    BY <1>2, <2>1
  <2>4. g \notin G
    OBVIOUS
  <2> QED
    BY <1>1, <1>3, <2>2, <2>3, <2>4 DEF IsSpun
<1> HIDE DEF C
<1>9. TreeOf(z) \subseteq C
  BY <1>7, <1>8, OutlineLeast DEF TreeOf
<1>10. t \in TreeOf(z)
  BY TreeSits
<1> QED
  BY <1>2, <1>9, <1>10 DEF C

(* RemoveAt takes one slot out and moves the later ones down.               *)
LEMMA RemovedSlots ==
  ASSUME NEW T, NEW row \in Seq(T), NEW k \in 1 .. Len(row), NEW i, NEW x
  PROVE  Slot(RemoveAt(row, k), i, x) <=>
           i \in Nat /\ i >= 1 /\ Slot(row, IF i >= k THEN i + 1 ELSE i, x)
<1> DEFINE r == RemoveAt(row, k)
<1>1. /\ r \in Seq(T) /\ Len(r) = Len(row) - 1
      /\ \A j \in 1 .. Len(row) - 1 : r[j] = IF j < k THEN row[j] ELSE row[j + 1]
  BY RemoveAtIs
<1>2. DOMAIN row = 1 .. Len(row) /\ Len(row) \in Nat
  OBVIOUS
<1> HIDE DEF r
<1>3. DOMAIN r = 1 .. Len(row) - 1
  BY <1>1
<1>4. CASE i \in 1 .. Len(row) - 1
  <2>1. r[i] = IF i < k THEN row[i] ELSE row[i + 1]
    BY <1>1, <1>4
  <2>2. i \in Nat /\ i >= 1 /\ i \in DOMAIN row /\ i + 1 \in DOMAIN row /\ i \in DOMAIN r
    BY <1>2, <1>3, <1>4
  <2>3. CASE i < k
    <3>1. ~(i >= k)
      BY <1>4, <2>3
    <3> QED
      BY <2>1, <2>2, <2>3, <3>1 DEF Slot, r
  <2>4. CASE ~(i < k)
    <3>1. i >= k
      BY <1>4, <2>4
    <3> QED
      BY <2>1, <2>2, <2>4, <3>1 DEF Slot, r
  <2> QED
    BY <2>3, <2>4
<1>5. CASE i \notin 1 .. Len(row) - 1
  <2>1. ~Slot(r, i, x)
    BY <1>3, <1>5 DEF Slot
  <2>2. ASSUME i \in Nat, i >= 1, Slot(row, IF i >= k THEN i + 1 ELSE i, x) PROVE FALSE
    BY <1>2, <1>5, <2>2 DEF Slot
  <2> QED
    BY <2>1, <2>2 DEF r
<1> QED
  BY <1>4, <1>5

(* A slot's owner, place and node are numbers.                              *)
LEMMA NamedNat ==
  ASSUME NEW z, IsBuilt(z), NEW o, NEW i, NEW x, Named(z, o, i, x)
  PROVE  i \in Nat /\ i >= 1 /\ o \in Rows(z) /\ x \in Nat
<1>1. o \in Rows(z) /\ Slot(Row(z, o), i, x)
  BY DEF Named, Slot
<1>2. Row(z, o) \in Seq(Nat)
  BY <1>1, RowTyped
<1> QED
  BY <1>1, <1>2, SlotNat

(* Taking a slot and all below it keeps every node in exactly one slot.     *)
LEMMA LosesSpun ==
  ASSUME NEW z, IsOutline(z), NEW y, NEW o, NEW k, NEW t \in DOMAIN z.arena,
         Loses(z, y, o, k, t, Gone(z, t))
  PROVE  IsSpun(y)
<1> DEFINE G == Gone(z, t)
<1>1. /\ t \in G /\ G \subseteq DOMAIN z.arena
      /\ \A x \in G : x = t \/ \E g \in G : \E j : Named(z, g, j, x)
      /\ \A g \in G : \A j, x : Named(z, g, j, x) => x \in G
  BY GoneIs
<1>2. /\ DOMAIN y.arena = DOMAIN z.arena \ G
      /\ Named(z, o, k, t) /\ k \in Nat
      /\ \A p, i, x : Named(y, p, i, x) <=>
           p \notin G /\ i \in Nat /\ i >= 1 /\ Named(z, p, Old(p, o, k, i), x)
  BY DEF Loses
<1>3. IsSpun(z) /\ IsBuilt(z)
  BY DEF IsOutline
<1> HIDE DEF G
<1>4. ASSUME NEW p, NEW i, NEW x, Named(y, p, i, x) PROVE x \in DOMAIN y.arena
  <2>1. p \notin G /\ i \in Nat /\ Named(z, p, Old(p, o, k, i), x)
    BY <1>2, <1>4
  <2>2. x \in DOMAIN z.arena
    BY <1>3, <2>1 DEF IsSpun
  <2>3. ~(p = o /\ Old(p, o, k, i) = k)
    BY <1>2, <2>1 DEF Old
  <2>4. x # t
    BY <1>2, <1>3, <2>1, <2>3 DEF IsSpun
  <2>5. x \notin G
    BY <1>1, <1>3, <2>1, <2>4 DEF IsSpun
  <2> QED
    BY <1>2, <2>2, <2>5
<1>5. ASSUME NEW x \in DOMAIN y.arena PROVE \E p, i : Named(y, p, i, x)
  <2>1. x \in DOMAIN z.arena /\ x \notin G
    BY <1>2, <1>5
  <2>2. PICK p, i : Named(z, p, i, x)
    BY <1>3, <2>1 DEF IsSpun
  <2>3. p \notin G /\ i \in Nat /\ i >= 1
    BY <1>1, <1>3, <2>1, <2>2, NamedNat
  <2>4. CASE p = o /\ i > k
    <3> DEFINE j == i - 1
    <3>2. k >= 1
      BY <1>2, <1>3, NamedNat
    <3>1. j \in Nat /\ j >= 1 /\ j >= k /\ j + 1 = i
      BY <1>2, <2>3, <2>4, <3>2
    <3> HIDE DEF j
    <3>3. Old(p, o, k, j) = i
      BY <2>4, <3>1 DEF Old
    <3> QED
      BY <1>2, <2>2, <2>3, <3>1, <3>3
  <2>5. CASE p # o \/ i < k
    <3>1. Old(p, o, k, i) = i
      BY <1>2, <2>3, <2>5 DEF Old
    <3> QED
      BY <1>2, <2>2, <2>3, <3>1
  <2>6. CASE p = o /\ i = k
    <3>1. x = t
      BY <1>2, <2>2, <2>6 DEF Named
    <3> QED
      BY <1>1, <2>1, <3>1
  <2> QED
    BY <1>2, <2>3, <2>4, <2>5, <2>6
<1>6. ASSUME NEW p, NEW q, NEW i, NEW j, NEW x, Named(y, p, i, x), Named(y, q, j, x)
      PROVE p = q /\ i = j
  <2>1. i \in Nat /\ j \in Nat /\ Named(z, p, Old(p, o, k, i), x) /\ Named(z, q, Old(q, o, k, j), x)
    BY <1>2, <1>6
  <2>2. p = q /\ Old(p, o, k, i) = Old(q, o, k, j)
    BY <1>3, <2>1 DEF IsSpun
  <2> QED
    BY <1>2, <2>1, <2>2 DEF Old
<1> QED
  BY <1>4, <1>5, <1>6 DEF IsSpun

(* The fields and slots of an outline after a purge.                        *)
LEMMA PurgedHas ==
  ASSUME NEW z, IsOutline(z), NEW o, IsOwner(z, o), NEW k, NEW t, Named(z, o, k, t)
  PROVE  /\ IsBuilt(Purged(z, o, k, t)) /\ IsMade(Purged(z, o, k, t))
         /\ Purged(z, o, k, t).definitions = z.definitions
         /\ Purged(z, o, k, t).points = z.points /\ Purged(z, o, k, t).next = z.next
         /\ Purged(z, o, k, t).density = z.density
         /\ Purged(z, o, k, t).roots = IF o = 1 THEN RemoveAt(Row(z, o), k) ELSE z.roots
         /\ DOMAIN Purged(z, o, k, t).arena = DOMAIN z.arena \ Gone(z, t)
         /\ \A id \in DOMAIN z.arena \ Gone(z, t) :
              Purged(z, o, k, t).arena[id] =
                IF id = o /\ o # 1 THEN Group(RemoveAt(Row(z, o), k)) ELSE z.arena[id]
         /\ Loses(z, Purged(z, o, k, t), o, k, t, Gone(z, t))
         /\ t \in DOMAIN z.arena /\ k \in 1 .. Len(Row(z, o)) /\ Row(z, o)[k] = t
<1> DEFINE row == RemoveAt(Row(z, o), k)
           G == Gone(z, t)
           y == Respin(z, o, row)
           w == TakenOut(y, G)
<1>1. IsBuilt(z) /\ IsSpun(z) /\ t \in DOMAIN z.arena
  BY DEF IsOutline, IsSpun
<1>2. Row(z, o) \in Seq(Nat) /\ (o = 1 \/ o \in DOMAIN z.arena)
      /\ \A i, x : Named(z, o, i, x) <=> Slot(Row(z, o), i, x)
  BY <1>1, OwnerRow
<1>3. k \in 1 .. Len(Row(z, o)) /\ Row(z, o)[k] = t /\ k \in Nat
  BY <1>2, SlotNat
<1>4. G \subseteq DOMAIN z.arena
  BY <1>1, GoneIs
<1>5. Purged(z, o, k, t) = w
  BY DEF Purged, Gone
<1>6. row \in Seq(Nat)
  BY <1>2, <1>3, RemoveAtIs
<1>7. \A i, x : Slot(row, i, x) <=> i \in Nat /\ i >= 1 /\ Slot(Row(z, o), IF i >= k THEN i + 1 ELSE i, x)
  BY <1>2, <1>3, RemovedSlots
<1> HIDE DEF row, G
<1>8. IsBuilt(y)
  BY <1>1, <1>2, <1>6, RespinBuilt
<1>9. /\ y.definitions = z.definitions
      /\ y.points = z.points /\ y.next = z.next /\ y.density = z.density
      /\ y.roots = (IF o = 1 THEN row ELSE z.roots)
      /\ DOMAIN y.arena = DOMAIN z.arena
      /\ \A id \in DOMAIN z.arena :
           y.arena[id] = (IF id = o /\ o # 1 THEN Group(row) ELSE z.arena[id])
  <2>1. o = 1 \/ o \in DOMAIN z.arena
    BY <1>2
  <2> QED
    BY <2>1, RespinHas
<1>10. \A p, i, x : Named(y, p, i, x) <=> IF p = o THEN Slot(row, i, x) ELSE Named(z, p, i, x)
  BY <1>1, <1>2, <1>6, RespinSlots
<1> HIDE DEF y
<1>11. IsBuilt(w)
  BY <1>8, TakenBuilt
<1>12. /\ IsMade(w) /\ w.roots = y.roots /\ w.definitions = y.definitions
       /\ w.points = y.points /\ w.next = y.next /\ w.density = y.density
       /\ DOMAIN w.arena = DOMAIN y.arena \ G
       /\ \A id \in DOMAIN y.arena \ G : w.arena[id] = y.arena[id]
  BY TakenHas
<1>13. \A p, i, x : Named(w, p, i, x) <=> Named(y, p, i, x) /\ p \notin G
  BY <1>4, <1>8, <1>9, TakenSlots
<1> HIDE DEF w
<1>14. Loses(z, w, o, k, t, G)
  <2>1. DOMAIN w.arena = DOMAIN z.arena \ G
    BY <1>9, <1>12
  <2>2. ASSUME NEW p, NEW i, NEW x
        PROVE Named(w, p, i, x) <=>
                p \notin G /\ i \in Nat /\ i >= 1 /\ Named(z, p, Old(p, o, k, i), x)
    <3>1. CASE p = o
      <4>1. Named(w, p, i, x) <=> Slot(row, i, x) /\ p \notin G
        BY <1>10, <1>13, <3>1
      <4>2. Named(z, p, Old(p, o, k, i), x) <=> Slot(Row(z, o), IF i >= k THEN i + 1 ELSE i, x)
        BY <1>2, <3>1 DEF Old
      <4> QED
        BY <1>7, <4>1, <4>2
    <3>2. CASE p # o
      <4>1. Named(w, p, i, x) <=> Named(z, p, i, x) /\ p \notin G
        BY <1>10, <1>13, <3>2
      <4>2. Old(p, o, k, i) = i
        BY <3>2 DEF Old
      <4>3. Named(z, p, i, x) => i \in Nat /\ i >= 1
        BY <1>1, NamedNat
      <4> QED
        BY <4>1, <4>2, <4>3
    <3> QED
      BY <3>1, <3>2
  <2> QED
    BY <1>3, <2>1, <2>2 DEF Loses
<1>15. /\ w.roots = (IF o = 1 THEN row ELSE z.roots)
       /\ DOMAIN w.arena = DOMAIN z.arena \ G
       /\ \A id \in DOMAIN z.arena \ G :
            w.arena[id] = (IF id = o /\ o # 1 THEN Group(row) ELSE z.arena[id])
  BY <1>9, <1>12
<1> QED
  BY <1>1, <1>3, <1>5, <1>9, <1>11, <1>12, <1>14, <1>15 DEF row, G

(* A purge makes an outline of an outline.                                  *)
LEMMA PurgedOutline ==
  ASSUME NEW z, IsOutline(z), NEW o, IsOwner(z, o), NEW k, NEW t, Named(z, o, k, t)
  PROVE  IsOutline(Purged(z, o, k, t))
<1> DEFINE y == Purged(z, o, k, t)
           row == RemoveAt(Row(z, o), k)
           G == Gone(z, t)
<1>1. IsBuilt(z) /\ IsStocked(z)
  BY DEF IsOutline
<1>2. /\ IsBuilt(y) /\ y.definitions = z.definitions /\ y.points = z.points /\ y.next = z.next
      /\ DOMAIN y.arena = DOMAIN z.arena \ G
      /\ \A id \in DOMAIN z.arena \ G :
           y.arena[id] = (IF id = o /\ o # 1 THEN Group(row) ELSE z.arena[id])
      /\ Loses(z, y, o, k, t, G)
      /\ t \in DOMAIN z.arena
  BY PurgedHas
<1>3. IsSpun(y)
  BY <1>2, LosesSpun
<1> HIDE DEF y, row, G
<1>4. IsStocked(y)
  <2>1. \A d : HasDefinition(y, d) <=> HasDefinition(z, d)
    BY <1>2 DEF HasDefinition
  <2>2. Group(row).kind # "instance"
    BY DEF Group
  <2> QED
    BY <1>1, <1>2, <2>1, <2>2 DEF IsStocked
<1>5. z.next \in Nat /\ y.next >= z.next
  <2>1. z.next \in Nat
    BY <1>1, BuiltFacts
  <2> QED
    BY <1>2, <2>1
<1>6. DOMAIN y.arena \subseteq DOMAIN z.arena \cup {z.next}
  BY <1>2
<1>7. IsPointed(y)
  BY <1>2, <1>5, <1>6, PointedMore
<1> QED
  BY <1>2, <1>3, <1>4, <1>7 DEF IsOutline, y

(* A material, a sketch body: the tree is not touched.                     *)
LEMMA PaintedOutline ==
  ASSUME NEW z, IsOutline(z), NEW t \in DOMAIN z.arena, z.arena[t].kind # "group",
         NEW c, IsContent(c), c.kind \notin {"group", "instance"}
  PROVE  IsOutline(PutIn(z, t, c))
<1> DEFINE y == PutIn(z, t, c)
<1>1. IsBuilt(z) /\ IsStocked(z) /\ IsSpun(z) /\ IsPointed(z)
  BY DEF IsOutline
<1>2. /\ y.roots = z.roots /\ y.definitions = z.definitions
      /\ y.points = z.points /\ y.next = z.next
      /\ DOMAIN y.arena = DOMAIN z.arena /\ y.arena[t] = c
      /\ \A id \in DOMAIN z.arena : id # t => y.arena[id] = z.arena[id]
  BY PutInHas
<1>3. IsBuilt(y)
  BY <1>1, PutInBuilt
<1>4. \A o, i, x : Named(y, o, i, x) <=> Named(z, o, i, x)
  <2>1. \A o, i, x : Named(y, o, i, x) <=> o # t /\ Named(z, o, i, x)
    BY <1>1, PutInSlots
  <2>2. \A i, x : ~Named(z, t, i, x)
    <3>1. \A i, x : ~GroupSlot(z.arena, t, i, x)
      BY DEF GroupSlot
    <3>2. t \in Nat /\ t > 1
      BY <1>1, BuiltFacts
    <3> QED
      BY <1>1, <3>1, <3>2, NamedIs
  <2> QED
    BY <2>1, <2>2
<1> HIDE DEF y
<1>5. IsSpun(y)
  BY <1>1, <1>2, <1>4 DEF IsSpun
<1>6. IsStocked(y)
  BY <1>1, <1>2 DEF IsStocked, HasDefinition
<1>7. IsPointed(y)
  BY <1>1, <1>2 DEF IsPointed
<1> QED
  BY <1>3, <1>5, <1>6, <1>7 DEF IsOutline, y

(* The points and the density may change without the tree noticing.         *)
LEMMA SameTree ==
  ASSUME NEW z, IsOutline(z), NEW p, NEW n, Pins(z, p, n), NEW v
  PROVE  IsOutline(Make(z.arena, z.roots, z.definitions, p, n, v))
<1> DEFINE y == Make(z.arena, z.roots, z.definitions, p, n, v)
<1>0. /\ p \in Seq([id : Nat, origin : BOOLEAN]) /\ n \in Nat /\ n >= z.next
      /\ \A i, j \in DOMAIN p : p[i].id = p[j].id => i = j
      /\ \A i \in DOMAIN p : p[i].id \notin DOMAIN z.arena /\ p[i].id \in 2 .. n - 1
  BY DEF Pins
<1>1. IsBuilt(z) /\ IsStocked(z) /\ IsSpun(z)
  BY DEF IsOutline
<1>2. /\ y.arena = z.arena /\ y.roots = z.roots /\ y.definitions = z.definitions
      /\ y.points = p /\ y.next = n
  BY MakeHas
<1>3. IsBuilt(y)
  <2>1. IsArena(z.arena, z.next) /\ IsTyped(z.roots, z.definitions, z.points)
    BY <1>1, BuiltIs
  <2>2. IsArena(z.arena, n)
    <3>1. z.next \in Nat /\ n > 1 /\ DOMAIN z.arena \subseteq 2 .. n - 1
      BY <1>0, <2>1 DEF IsArena
    <3> QED
      BY <1>0, <2>1, <3>1 DEF IsArena
  <2>3. IsTyped(z.roots, z.definitions, p)
    BY <1>0, <2>1 DEF IsTyped
  <2> QED
    BY <2>2, <2>3, BuiltOf
<1> HIDE DEF y
<1>4. \A o, i, x : Named(y, o, i, x) <=> Named(z, o, i, x)
  BY <1>1, <1>2, <1>3, NamedIs
<1>5. IsSpun(y)
  BY <1>1, <1>2, <1>4 DEF IsSpun
<1>6. IsStocked(y)
  BY <1>1, <1>2 DEF IsStocked, HasDefinition
<1>7. IsPointed(y)
  BY <1>0, <1>2 DEF IsPointed
<1> QED
  BY <1>3, <1>5, <1>6, <1>7 DEF IsOutline, y

(* A new density keeps an outline.                                          *)
LEMMA DenseOutline ==
  ASSUME NEW z, IsOutline(z), NEW v
  PROVE  IsOutline(Dense(z, v))
<1>1. IsTyped(z.roots, z.definitions, z.points) /\ IsArena(z.arena, z.next)
  BY BuiltIs DEF IsOutline
<1>2. z.points \in Seq([id : Nat, origin : BOOLEAN]) /\ z.next \in Nat /\ z.next >= z.next
  BY <1>1 DEF IsTyped, IsArena
<1>3. /\ \A i, j \in DOMAIN z.points : z.points[i].id = z.points[j].id => i = j
      /\ \A i \in DOMAIN z.points :
           z.points[i].id \notin DOMAIN z.arena /\ z.points[i].id \in 2 .. z.next - 1
  BY DEF IsOutline, IsPointed
<1>4. Dense(z, v) = Make(z.arena, z.roots, z.definitions, z.points, z.next, v)
  BY DEF Dense
<1>5. Pins(z, z.points, z.next)
  BY <1>2, <1>3 DEF Pins
<1> QED
  BY <1>4, <1>5, SameTree

(* A new point keeps an outline.                                            *)
LEMMA PinnedOutline ==
  ASSUME NEW z, IsOutline(z)
  PROVE  IsOutline(Pinned(z))
<1> DEFINE q == z.points
           n == z.next
           p == Append(q, Point(n))
           m == n + 1
<1>1. IsTyped(z.roots, z.definitions, z.points) /\ IsArena(z.arena, z.next)
  BY BuiltIs DEF IsOutline
<1>2. q \in Seq([id : Nat, origin : BOOLEAN]) /\ n \in Nat /\ m \in Nat /\ n > 1 /\ m >= n /\ m - 1 = n
  <2>1. q \in Seq([id : Nat, origin : BOOLEAN]) /\ n \in Nat /\ n > 1
    BY <1>1 DEF IsTyped, IsArena
  <2> HIDE DEF n
  <2> QED
    BY <2>1
<1>3. /\ \A i, j \in DOMAIN q : q[i].id = q[j].id => i = j
      /\ \A i \in DOMAIN q :
           q[i].id \notin DOMAIN z.arena /\ q[i].id \in 2 .. n - 1
      /\ n \notin DOMAIN z.arena
  BY <1>1 DEF IsOutline, IsPointed, IsArena
<1>4. Pinned(z) = Make(z.arena, z.roots, z.definitions, p, m, z.density)
  BY DEF Pinned, Numbered, Pointing, Make
<1> HIDE DEF q, m
<1>5. Point(n) \in [id : Nat, origin : BOOLEAN] /\ Point(n).id = n
  BY <1>2 DEF Point
<1>6. /\ p \in Seq([id : Nat, origin : BOOLEAN]) /\ Len(p) = Len(q) + 1 /\ p[Len(q) + 1] = Point(n)
      /\ \A i \in 1 .. Len(q) : p[i] = q[i]
      /\ DOMAIN q = 1 .. Len(q) /\ Len(q) \in Nat
  BY <1>2, <1>5
<1>7. DOMAIN p = 1 .. Len(q) + 1
  BY <1>6
<1> HIDE DEF p
<1>8. \A i \in DOMAIN p : p[i].id = IF i = Len(q) + 1 THEN n ELSE q[i].id
  BY <1>5, <1>6, <1>7
<1>9. \A i \in DOMAIN p : i # Len(q) + 1 => i \in DOMAIN q
  BY <1>6, <1>7
<1>10. \A i \in DOMAIN q : q[i].id # n
  <2> TAKE i \in DOMAIN q
  <2> DEFINE x == q[i].id
  <2>1. x \in 2 .. n - 1
    BY <1>3
  <2> HIDE DEF x
  <2>2. x # n
    BY <1>2, <2>1
  <2> QED
    BY <2>2 DEF x
<1>11. \A i, j \in DOMAIN p : p[i].id = p[j].id => i = j
  BY <1>3, <1>8, <1>9, <1>10
<1>12. \A i \in DOMAIN p : p[i].id \notin DOMAIN z.arena /\ p[i].id \in 2 .. m - 1
  <2> TAKE i \in DOMAIN p
  <2>1. CASE i = Len(q) + 1
    BY <1>2, <1>3, <1>8, <2>1
  <2>2. CASE i # Len(q) + 1
    <3> DEFINE x == q[i].id
    <3>1. x \in 2 .. n - 1 /\ x \notin DOMAIN z.arena /\ p[i].id = x
      BY <1>3, <1>8, <1>9, <2>2
    <3> HIDE DEF x
    <3>2. x \in 2 .. m - 1
      BY <1>2, <3>1
    <3> QED
      BY <3>1, <3>2
  <2> QED
    BY <2>1, <2>2
<1>13. Pins(z, p, m)
  BY <1>2, <1>6, <1>11, <1>12 DEF Pins
<1> QED
  BY <1>4, <1>13, SameTree

(* Removing a point keeps an outline.                                       *)
LEMMA UnpinnedOutline ==
  ASSUME NEW z, IsOutline(z), NEW i \in DOMAIN z.points
  PROVE  IsOutline(Unpinned(z, i)) /\ i \in 1 .. Len(z.points)
<1> DEFINE q == z.points
           n == z.next
           p == RemoveAt(q, i)
<1>1. IsTyped(z.roots, z.definitions, z.points) /\ IsArena(z.arena, z.next)
  BY BuiltIs DEF IsOutline
<1>2. q \in Seq([id : Nat, origin : BOOLEAN]) /\ n \in Nat
  BY <1>1 DEF IsTyped, IsArena
<1>3. /\ \A a, b \in DOMAIN q : q[a].id = q[b].id => a = b
      /\ \A a \in DOMAIN q :
           q[a].id \notin DOMAIN z.arena /\ q[a].id \in 2 .. n - 1
  BY DEF IsOutline, IsPointed
<1>4. Unpinned(z, i) = Make(z.arena, z.roots, z.definitions, p, n, z.density)
  BY DEF Unpinned, Pointing
<1>5. i \in DOMAIN q
  OBVIOUS
<1> HIDE DEF q
<1>6. i \in 1 .. Len(q) /\ DOMAIN q = 1 .. Len(q) /\ Len(q) \in Nat
  BY <1>2, <1>5
<1>7. /\ p \in Seq([id : Nat, origin : BOOLEAN]) /\ Len(p) = Len(q) - 1
      /\ \A k \in 1 .. Len(q) - 1 : p[k] = IF k < i THEN q[k] ELSE q[k + 1]
  BY <1>2, <1>6, RemoveAtIs
<1> HIDE DEF p
<1>8. DOMAIN p = 1 .. Len(q) - 1
  BY <1>6, <1>7
<1> DEFINE old(k) == IF k < i THEN k ELSE k + 1
<1>9. \A k \in DOMAIN p : old(k) \in DOMAIN q /\ p[k] = q[old(k)] /\ k \in Nat
  BY <1>6, <1>7, <1>8
<1>10. \A a, b \in DOMAIN p : old(a) = old(b) => a = b
  BY <1>6, <1>8
<1> HIDE DEF old
<1>11. \A a, b \in DOMAIN p : p[a].id = p[b].id => a = b
  BY <1>3, <1>9, <1>10
<1>12. \A a \in DOMAIN p : p[a].id \notin DOMAIN z.arena /\ p[a].id \in 2 .. n - 1
  BY <1>3, <1>9
<1>13. Pins(z, p, n)
  BY <1>2, <1>7, <1>11, <1>12 DEF Pins
<1>14. IsOutline(Unpinned(z, i))
  BY <1>4, <1>13, SameTree
<1> QED
  BY <1>6, <1>14 DEF q

(*********** What an intent makes of a structure ***********)

(* A node of the tree has its slot.                                        *)
LEMMA SlotHas ==
  ASSUME NEW z, IsOutline(z), NEW t \in TreeOf(z)
  PROVE  /\ Sits(z, OwnerOf(z, t), SlotOf(z, t), t)
         /\ IsOwner(z, OwnerOf(z, t)) /\ Named(z, OwnerOf(z, t), SlotOf(z, t), t)
         /\ t \in DOMAIN z.arena
<1>1. \E o, k : Sits(z, o, k, t)
  BY TreeSits
<1>2. \E k : Sits(z, OwnerOf(z, t), k, t)
  BY <1>1 DEF OwnerOf
<1>3. Sits(z, OwnerOf(z, t), SlotOf(z, t), t)
  BY <1>2 DEF SlotOf
<1> DEFINE o == OwnerOf(z, t)
           k == SlotOf(z, t)
<1>4. Named(z, o, k, t) /\ (o = 1 \/ o \in TreeOf(z)) /\ IsBuilt(z) /\ IsSpun(z)
  BY <1>3 DEF Sits, IsOutline
<1> HIDE DEF o, k
<1>5. t \in DOMAIN z.arena
  BY <1>4 DEF IsSpun
<1>6. o \in TreeOf(z) => o \in DOMAIN z.arena
  <2>1. Range(z.roots) \subseteq DOMAIN z.arena
    BY OutlineClosed
  <2> QED
    BY <2>1, BelowFacts DEF TreeOf
<1>7. IsOwner(z, o)
  <2>1. CASE o = 1
    BY <2>1 DEF IsOwner
  <2>2. CASE o # 1
    <3>1. o \in DOMAIN z.arena /\ o \in Rows(z)
      BY <1>4, <1>6, <2>2 DEF Named
    <3>2. o \in Nat /\ o > 1
      BY <1>4, <3>1, BuiltFacts
    <3> QED
      BY <1>4, <3>1, <3>2, RowTyped DEF IsOwner
  <2> QED
    BY <2>1, <2>2
<1> QED
  BY <1>3, <1>4, <1>5, <1>7 DEF o, k

(* The writes that a field takes.                                          *)
LEMMA PaintMirrors ==
  ASSUME NEW s, IsDocument(s), NEW t, NEW m
  PROVE  /\ IsKind(Structure(s), t, {"tool", "sketch"}) =>
              Mirrors([s EXCEPT !.arena[t].content.material = m], Repainted(Structure(s), t, m))
         /\ IsKind(Structure(s), t, {"sketch"}) =>
              Mirrors([s EXCEPT !.arena[t].content.producer = m], Resketched(Structure(s), t, m))
<1>1. IsFrame(s) /\ IsMade(s) /\ AreNodes(s.arena) /\ DOMAIN Structure(s).arena = DOMAIN s.arena
      /\ \A id \in DOMAIN s.arena : Structure(s).arena[id] = s.arena[id].content
  BY FrameHas DEF IsDocument
<1>2. ASSUME IsKind(Structure(s), t, {"tool", "sketch"})
      PROVE Mirrors([s EXCEPT !.arena[t].content.material = m], Repainted(Structure(s), t, m))
  <2>1. t \in DOMAIN s.arena /\ Structure(s).arena[t] = s.arena[t].content
    BY <1>1, <1>2 DEF IsKind
  <2> DEFINE c == s.arena[t].content
             d == [c EXCEPT !.material = m]
  <2>2. [s EXCEPT !.arena[t].content.material = m] = [s EXCEPT !.arena[t].content = d]
    <3>1. s.arena[t] = Node(s.arena[t].content, s.arena[t].at)
      BY <1>1, <2>1 DEF AreNodes
    <3> QED
      BY <1>1, <2>1, <3>1 DEF IsMade, Make, Node
  <2>3. Mirrors([s EXCEPT !.arena[t].content = d], PutIn(Structure(s), t, d))
    <3> HIDE DEF d
    <3> QED
      BY <1>1, <2>1, PaintFrame
  <2> QED
    BY <2>1, <2>2, <2>3 DEF Repainted
<1>3. ASSUME IsKind(Structure(s), t, {"sketch"})
      PROVE Mirrors([s EXCEPT !.arena[t].content.producer = m], Resketched(Structure(s), t, m))
  <2>1. t \in DOMAIN s.arena /\ Structure(s).arena[t] = s.arena[t].content
    BY <1>1, <1>3 DEF IsKind
  <2> DEFINE c == s.arena[t].content
             d == [c EXCEPT !.producer = m]
  <2>2. [s EXCEPT !.arena[t].content.producer = m] = [s EXCEPT !.arena[t].content = d]
    <3>1. s.arena[t] = Node(s.arena[t].content, s.arena[t].at)
      BY <1>1, <2>1 DEF AreNodes
    <3> QED
      BY <1>1, <2>1, <3>1 DEF IsMade, Make, Node
  <2>3. Mirrors([s EXCEPT !.arena[t].content = d], PutIn(Structure(s), t, d))
    <3> HIDE DEF d
    <3> QED
      BY <1>1, <2>1, PaintFrame
  <2> QED
    BY <2>1, <2>2, <2>3 DEF Resketched
<1> QED
  BY <1>2, <1>3

(* A placement written leaves the structure as it was.                     *)
LEMMA OffsetMirrors ==
  ASSUME NEW s, IsDocument(s), NEW t \in DOMAIN s.arena, NEW at
  PROVE  Mirrors([s EXCEPT !.arena[t].at = at], Structure(s))
<1> DEFINE A == [s.arena EXCEPT ![t].at = at]
<1>1. IsFrame(s) /\ IsMade(s) /\ AreNodes(s.arena) /\ Structure(s).arena = Contents(s.arena)
      /\ IsMade(Structure(s))
  BY FrameHas DEF IsDocument
<1>2. AreNodes(A) /\ Contents(A) = Structure(s).arena
  BY <1>1, ArenaReplaced
<1>3. [s EXCEPT !.arena[t].at = at] = Filled(s, A)
  BY <1>1 DEF IsMade, Make, Filled
<1> HIDE DEF A
<1>4. Mirrors(Filled(s, A), Filled(Structure(s), Structure(s).arena))
  BY <1>1, <1>2, FilledFrame
<1>5. Filled(Structure(s), Structure(s).arena) = Structure(s)
  BY <1>1 DEF IsMade, Filled
<1> QED
  BY <1>3, <1>4, <1>5

(* So does a density, but for the density itself.                          *)
LEMMA DensityMirrors ==
  ASSUME NEW s, IsDocument(s), NEW v
  PROVE  Mirrors(SetDensity(s, v), Dense(Structure(s), v))
<1> DEFINE at(id) == Retargeted(s.arena[id].at, s.density, v)
           B == [id \in DOMAIN s.arena |-> Node(s.arena[id].content, at(id))]
           u == [s EXCEPT !.density = v]
<1>1. IsFrame(s) /\ IsMade(s) /\ AreNodes(s.arena) /\ Structure(s).arena = Contents(s.arena)
  BY FrameHas DEF IsDocument
<1>2. u.arena = s.arena /\ IsMade(u) /\ u.roots = s.roots /\ u.definitions = s.definitions
      /\ u.points = s.points /\ u.next = s.next /\ u.density = v
  BY <1>1 DEF IsMade, Make
<1>3. SetDensity(s, v)
        = [u EXCEPT !.arena = [id \in DOMAIN u.arena |->
              Node(u.arena[id].content, Retargeted(u.arena[id].at, s.density, v))]]
  BY DEF SetDensity
<1>4. [id \in DOMAIN u.arena |-> Node(u.arena[id].content, Retargeted(u.arena[id].at, s.density, v))] = B
  BY <1>2
<1> HIDE DEF at
<1>5. AreNodes(B) /\ Contents(B) = Contents(s.arena)
  BY DEF AreNodes, Contents, Node
<1> HIDE DEF B, u
<1>6. SetDensity(s, v) = Make(B, s.roots, s.definitions, s.points, s.next, v)
  BY <1>2, <1>3, <1>4 DEF IsMade, Make
<1>7. /\ IsFrame(Make(B, s.roots, s.definitions, s.points, s.next, v))
      /\ Structure(Make(B, s.roots, s.definitions, s.points, s.next, v))
           = Make(Contents(B), s.roots, s.definitions, s.points, s.next, v)
  BY <1>5, FrameMade
<1>8. Make(Contents(B), s.roots, s.definitions, s.points, s.next, v) = Dense(Structure(s), v)
  BY <1>1, <1>5, FrameHas DEF Dense
<1> QED
  BY <1>6, <1>7, <1>8 DEF Mirrors

(* Scene::add_point and the removal of a deletable point, on the structure. *)
LEMMA PointMirrors ==
  ASSUME NEW s, IsDocument(s)
  PROVE  /\ Mirrors(AddPoint(s), Pinned(Structure(s)))
         /\ \A i : Deletable(s, i) => Mirrors(RemovePoint(s, i), Unpinned(Structure(s), i))
<1> DEFINE z == Structure(s)
           u == [s EXCEPT !.points = Append(z.points, Point(z.next))]
<1>1. Mirrors(s, z)
  BY DEF Mirrors, IsDocument
<1>2. s.points = z.points /\ s.next = z.next /\ IsMade(s)
  BY <1>1, MirrorsIs
<1>3. AddPoint(s) = [u EXCEPT !.next = z.next + 1]
  <2>1. AddPoint(s) = [s EXCEPT !.points = Append(@, Point(z.next)), !.next = @ + 1]
    BY <1>2 DEF AddPoint, Point
  <2> QED
    BY <1>2, <2>1, WritePoints
<1> HIDE DEF z
<1>4. Mirrors(u, Pointing(z, Append(z.points, Point(z.next))))
  BY <1>1, MirrorWrites
<1> HIDE DEF u
<1>5. Mirrors([u EXCEPT !.next = z.next + 1], Numbered(Pointing(z, Append(z.points, Point(z.next))), z.next + 1))
  BY <1>4, MirrorWrites
<1>6. ASSUME NEW i, Deletable(s, i) PROVE Mirrors(RemovePoint(s, i), Unpinned(z, i))
  <2>1. RemovePoint(s, i) = [s EXCEPT !.points = RemoveAt(z.points, i)]
    BY <1>2, <1>6 DEF RemovePoint
  <2>2. Mirrors([s EXCEPT !.points = RemoveAt(z.points, i)], Pointing(z, RemoveAt(z.points, i)))
    BY <1>1, MirrorWrites
  <2> QED
    BY <2>1, <2>2 DEF Unpinned
<1> QED
  BY <1>3, <1>5, <1>6 DEF Pinned, z

(***************************************************************************)
(* Every intent lands on what the structure says it makes.                 *)
(***************************************************************************)

(* Dispatch by intent, one equation per kind (AppCore::dispatch,            *)
(* intent.rs).                                                              *)
LEMMA DispatchIs ==
  ASSUME NEW s, NEW i
  PROVE  /\ i.kind = "PlaceNode" =>
              Dispatch(s, i) = AddNode(s, Node(i.content, FromVoxels(i.voxels, i.tilted)))
         /\ i.kind = "AddChild" =>
              Dispatch(s, i) = IF Mints(s, i) THEN AddChildToGroup(s, i.group, Node(i.content, Upright)) ELSE s
         /\ i.kind = "AddInstance" =>
              Dispatch(s, i) = IF Mints(s, i) THEN AddInstance(s, i.def) ELSE s
         /\ i.kind = "GroupNode" => Dispatch(s, i) = WrapInGroup(s, i.target)
         /\ i.kind = "MakeDefinition" => Dispatch(s, i) = MakeDefinitionFrom(s, i.target)
         /\ i.kind = "RemoveNode" => Dispatch(s, i) = DetachAndPurge(s, i.target)
         /\ i.kind \in FieldWrites =>
              Dispatch(s, i) = IF Writable(s, i) THEN Written(s, i) ELSE s
         /\ i.kind = "SetDensity" => Dispatch(s, i) = SetDensity(s, i.density)
         /\ i.kind = "AddPoint" => Dispatch(s, i) = AddPoint(s)
         /\ i.kind = "RemovePoint" => Dispatch(s, i) = RemovePoint(s, i.index)
BY DEF Dispatch, FieldWrites

(* What an intent of the tree does to a structure, one equation per kind.   *)
LEMMA EditedIs ==
  ASSUME NEW z, NEW i
  PROVE  /\ i.kind = "PlaceNode" => Edited(z, i) = Joined(z, 1, i.content)
         /\ i.kind = "AddChild" =>
              Edited(z, i) = IF i.group \in TreeOf(z) /\ IsKind(z, i.group, {"group"})
                             THEN Joined(z, i.group, i.content) ELSE z
         /\ i.kind = "AddInstance" =>
              Edited(z, i) = IF HasDefinition(z, i.def) THEN Joined(z, 1, Placed(i.def)) ELSE z
         /\ i.kind = "GroupNode" =>
              Edited(z, i) = IF i.target \in TreeOf(z)
                             THEN Wrapped(z, OwnerOf(z, i.target), i.target) ELSE z
         /\ i.kind = "MakeDefinition" =>
              Edited(z, i) = IF i.target \notin DOMAIN z.arena THEN z
                             ELSE IF z.arena[i.target].kind = "group"
                                  THEN Donated(z, i.target) ELSE Bodied(z, i.target)
         /\ i.kind = "RemoveNode" =>
              Edited(z, i) = IF i.target \in TreeOf(z)
                             THEN Purged(z, OwnerOf(z, i.target), SlotOf(z, i.target), i.target) ELSE z
BY DEF Edited

(* What an intent that writes fields, points or the density does to a       *)
(* structure.                                                               *)
LEMMA FieldEdited ==
  ASSUME NEW z, NEW i
  PROVE  /\ i.kind = "SetMaterial" =>
              Edited(z, i) = IF IsKind(z, i.target, {"tool", "sketch"})
                             THEN Repainted(z, i.target, i.material) ELSE z
         /\ i.kind = "SetSketch" =>
              Edited(z, i) = IF IsKind(z, i.target, {"sketch"})
                             THEN Resketched(z, i.target, i.producer) ELSE z
         /\ i.kind = "SetOffset" => Edited(z, i) = z
         /\ i.kind = "SetDensity" => Edited(z, i) = Dense(z, i.density)
         /\ i.kind = "AddPoint" => Edited(z, i) = Pinned(z)
         /\ i.kind = "RemovePoint" =>
              Edited(z, i) = IF i.index \in DOMAIN z.points /\ ~z.points[i.index].origin
                             THEN Unpinned(z, i.index) ELSE z
BY DEF Edited

(* The facts the cases below begin with.                                   *)
LEMMA DocumentHas ==
  ASSUME NEW s, IsDocument(s)
  PROVE  /\ IsFrame(s) /\ IsMade(s) /\ Mirrors(s, Structure(s)) /\ IsOutline(Structure(s))
         /\ IsBuilt(Structure(s)) /\ Tree(s) = TreeOf(Structure(s))
         /\ \A d : HasDef(s, d) <=> HasDefinition(Structure(s), d)
         /\ \A id : id \in DOMAIN s.arena <=> id \in DOMAIN Structure(s).arena
         /\ \A id \in DOMAIN s.arena : Structure(s).arena[id] = s.arena[id].content
         /\ \A id : IsGroup(s, id) <=> IsKind(Structure(s), id, {"group"})
<1>1. IsFrame(s) /\ IsMade(s) /\ Mirrors(s, Structure(s)) /\ IsOutline(Structure(s))
      /\ IsBuilt(Structure(s))
  BY FrameHas DEF IsDocument, Mirrors, IsOutline
<1>2. Structure(s).definitions = s.definitions /\ DOMAIN Structure(s).arena = DOMAIN s.arena
      /\ \A id \in DOMAIN s.arena : Structure(s).arena[id] = s.arena[id].content
  BY <1>1, FrameHas
<1>3. \A d : HasDef(s, d) <=> HasDefinition(Structure(s), d)
  BY <1>2 DEF HasDef, HasDefinition
<1>4. \A id : IsGroup(s, id) <=> IsKind(Structure(s), id, {"group"})
  BY <1>2 DEF IsGroup, IsKind
<1> QED
  BY <1>1, <1>2, <1>3, <1>4, SceneTree

(* PlaceNode does to the structure of a document what Edited says, and      *)
(* leaves a document.                                                       *)
LEMMA PlaceLands ==
  ASSUME NEW s, IsDocument(s), NEW i, i.kind = "PlaceNode", IsSpec(i.content)
  PROVE  Lands(s, i)
<1> DEFINE z == Structure(s)
           c == i.content
           at == FromVoxels(i.voxels, i.tilted)
<1>1. Dispatch(s, i) = AddNode(s, Node(c, at)) /\ Edited(z, i) = Joined(z, 1, c)
  BY DispatchIs, EditedIs
<1>2. IsFrame(s) /\ IsOutline(z) /\ IsBuilt(z)
  BY DocumentHas
<1>3. IsBlank(c) /\ Stocks(z, c) /\ IsOwner(z, 1)
  BY DEF IsSpec, Stocks, IsOwner
<1> HIDE DEF c, at
<1>4. Mirrors(AddNode(s, Node(c, at)), Added(z, c))
  BY <1>2, AddNodeMirrors
<1> HIDE DEF z
<1>5. Added(z, c) = Joined(z, 1, c)
  BY <1>2, JoinedIs
<1>6. IsOutline(Joined(z, 1, c))
  BY <1>2, <1>3, JoinedOutline
<1> QED
  BY <1>1, <1>4, <1>5, <1>6 DEF Lands, z

(* The same of AddChild, with its refusals.                                 *)
LEMMA ChildLands ==
  ASSUME NEW s, IsDocument(s), NEW i, i.kind = "AddChild", IsSpec(i.content)
  PROVE  Lands(s, i)
<1> DEFINE z == Structure(s)
           c == i.content
           g == i.group
<1>1. Dispatch(s, i) = IF Mints(s, i) THEN AddChildToGroup(s, g, Node(c, Upright)) ELSE s
  BY DispatchIs
<1>2. Edited(z, i) = IF g \in TreeOf(z) /\ IsKind(z, g, {"group"}) THEN Joined(z, g, c) ELSE z
  BY EditedIs
<1>3. IsFrame(s) /\ IsOutline(z) /\ IsBuilt(z) /\ Mirrors(s, z) /\ Tree(s) = TreeOf(z)
      /\ (IsGroup(s, g) <=> IsKind(z, g, {"group"}))
  BY DocumentHas
<1>4. Mints(s, i) <=> g \in TreeOf(z) /\ IsKind(z, g, {"group"})
  BY <1>3 DEF Mints
<1>5. IsBlank(c) /\ Stocks(z, c)
  BY DEF IsSpec, Stocks
<1> HIDE DEF c, g
<1>6. ASSUME Mints(s, i) PROVE Lands(s, i)
  <2>1. IsGroup(s, g) /\ IsKind(z, g, {"group"})
    BY <1>3, <1>4, <1>6
  <2>2. Mirrors(AddChildToGroup(s, g, Node(c, Upright)), Adopted(z, g, c))
    BY <2>1, AddChildMirrors
  <2> HIDE DEF z
  <2>3. g \in DOMAIN z.arena /\ IsOwner(z, g)
    BY <2>1 DEF IsKind, IsOwner
  <2>4. Adopted(z, g, c) = Joined(z, g, c)
    BY <1>3, <2>3, JoinedIs
  <2>5. IsOutline(Joined(z, g, c))
    BY <1>3, <1>5, <2>3, JoinedOutline
  <2> QED
    BY <1>1, <1>2, <1>4, <1>6, <2>2, <2>4, <2>5 DEF Lands, z
<1>7. ASSUME ~Mints(s, i) PROVE Lands(s, i)
  BY <1>1, <1>2, <1>3, <1>4, <1>7 DEF Lands
<1> QED
  BY <1>6, <1>7

(* The same of AddInstance, with its refusal of an unknown definition.      *)
LEMMA InstanceLands ==
  ASSUME NEW s, IsDocument(s), NEW i, i.kind = "AddInstance"
  PROVE  Lands(s, i)
<1> DEFINE z == Structure(s)
           c == Placed(i.def)
<1>1. Dispatch(s, i) = IF Mints(s, i) THEN AddInstance(s, i.def) ELSE s
  BY DispatchIs
<1>2. Edited(z, i) = IF HasDefinition(z, i.def) THEN Joined(z, 1, c) ELSE z
  BY EditedIs
<1>3. IsFrame(s) /\ IsOutline(z) /\ IsBuilt(z) /\ Mirrors(s, z)
      /\ (HasDef(s, i.def) <=> HasDefinition(z, i.def))
  BY DocumentHas
<1>4. Mints(s, i) <=> HasDefinition(z, i.def)
  BY <1>3 DEF Mints
<1>5. PICK at : AddInstance(s, i.def) = AddNode(s, Node(c, at))
  BY DEF AddInstance
<1>6. IsContent(c) /\ c.kind = "instance" /\ c.def = i.def
  BY PlacedHas
<1> HIDE DEF c
<1>7. IsBlank(c) /\ IsOwner(z, 1)
  BY <1>6 DEF IsBlank, IsOwner
<1>8. Mirrors(AddNode(s, Node(c, at)), Added(z, c))
  BY <1>3, AddNodeMirrors
<1> HIDE DEF z
<1>9. Added(z, c) = Joined(z, 1, c)
  BY <1>3, JoinedIs
<1>10. ASSUME HasDefinition(z, i.def) PROVE IsOutline(Joined(z, 1, c))
  BY <1>3, <1>6, <1>7, <1>10, JoinedOutline DEF Stocks
<1> QED
  BY <1>1, <1>2, <1>3, <1>4, <1>5, <1>8, <1>9, <1>10 DEF Lands, z

(* The same of GroupNode and RemoveNode, no-ops outside the tree.           *)
LEMMA TreeLands ==
  ASSUME NEW s, IsDocument(s), NEW i, i.kind \in {"GroupNode", "RemoveNode"}
  PROVE  Lands(s, i)
<1> DEFINE z == Structure(s)
           t == i.target
           o == OwnerOf(z, t)
           k == SlotOf(z, t)
<1>1. /\ i.kind = "GroupNode" => Dispatch(s, i) = WrapInGroup(s, t)
      /\ i.kind = "RemoveNode" => Dispatch(s, i) = DetachAndPurge(s, t)
  BY DispatchIs
<1>2. /\ i.kind = "GroupNode" => Edited(z, i) = IF t \in TreeOf(z) THEN Wrapped(z, o, t) ELSE z
      /\ i.kind = "RemoveNode" => Edited(z, i) = IF t \in TreeOf(z) THEN Purged(z, o, k, t) ELSE z
  BY EditedIs
<1>3. IsOutline(z) /\ Mirrors(s, z)
  BY DocumentHas
<1> HIDE DEF t
<1>4. ASSUME t \in TreeOf(z) PROVE Lands(s, i)
  <2>1. Sits(z, o, k, t) /\ IsOwner(z, o) /\ Named(z, o, k, t)
    BY <1>3, <1>4, SlotHas
  <2> HIDE DEF o, k
  <2>2. Mirrors(WrapInGroup(s, t), Wrapped(z, o, t)) /\ Mirrors(DetachAndPurge(s, t), Purged(z, o, k, t))
    BY <2>1, WrapMirrors, PurgeMirrors
  <2>3. IsOutline(Wrapped(z, o, t)) /\ IsOutline(Purged(z, o, k, t))
    BY <1>3, <2>1, WrappedOutline, PurgedOutline
  <2> QED
    BY <1>1, <1>2, <1>4, <2>2, <2>3 DEF Lands, o, k
<1>5. ASSUME t \notin TreeOf(z) PROVE Lands(s, i)
  <2>1. WrapInGroup(s, t) = s /\ DetachAndPurge(s, t) = s
    BY <1>5, OutOfTree
  <2> QED
    BY <1>1, <1>2, <1>3, <1>5, <2>1 DEF Lands
<1> QED
  BY <1>4, <1>5

(* The same of MakeDefinition.                                              *)
LEMMA DefinitionLands ==
  ASSUME NEW s, IsDocument(s), NEW i, i.kind = "MakeDefinition"
  PROVE  Lands(s, i)
<1> DEFINE z == Structure(s)
           t == i.target
<1>1. Dispatch(s, i) = MakeDefinitionFrom(s, t)
  BY DispatchIs
<1>2. Edited(z, i) = IF t \notin DOMAIN z.arena THEN z
                     ELSE IF z.arena[t].kind = "group" THEN Donated(z, t) ELSE Bodied(z, t)
  BY EditedIs
<1>3. IsOutline(z) /\ Mirrors(s, z) /\ (t \in DOMAIN s.arena <=> t \in DOMAIN z.arena)
  BY DocumentHas
<1> HIDE DEF t
<1>4. ASSUME t \in DOMAIN z.arena PROVE Lands(s, i)
  <2>1. Mirrors(MakeDefinitionFrom(s, t), IF z.arena[t].kind = "group" THEN Donated(z, t) ELSE Bodied(z, t))
    BY <1>3, <1>4, DefinitionMirrors
  <2>2. z.arena[t].kind = "group" => IsOutline(Donated(z, t))
    BY <1>3, <1>4, DonatedOutline
  <2>3. z.arena[t].kind # "group" => IsOutline(Bodied(z, t))
    BY <1>3, <1>4, BodiedOutline
  <2> QED
    BY <1>1, <1>2, <1>4, <2>1, <2>2, <2>3 DEF Lands
<1>5. ASSUME t \notin DOMAIN z.arena PROVE Lands(s, i)
  <2>1. MakeDefinitionFrom(s, t) = s
    BY <1>3, <1>5 DEF MakeDefinitionFrom
  <2> QED
    BY <1>1, <1>2, <1>3, <1>5, <2>1 DEF Lands
<1> QED
  BY <1>4, <1>5

(* A content that takes a write is a content still.                        *)
LEMMA PaintedContent ==
  ASSUME NEW c, IsContent(c), NEW m
  PROVE  /\ c.kind \in {"tool", "sketch"} =>
              /\ IsContent([c EXCEPT !.material = m]) /\ [c EXCEPT !.material = m].kind = c.kind
              /\ \A n : [[c EXCEPT !.material = n] EXCEPT !.material = c.material] = c
         /\ c.kind = "sketch" =>
              /\ IsContent([c EXCEPT !.producer = m]) /\ [c EXCEPT !.producer = m].kind = c.kind
              /\ \A n : [[c EXCEPT !.producer = n] EXCEPT !.producer = c.producer] = c
<1>1. CASE c.kind = "tool"
  <2>1. c = [kind |-> "tool", material |-> c.material]
    BY <1>1 DEF IsContent, Sketch, Group, Placed, Tool
  <2>2. [c EXCEPT !.material = m] = Tool(m)
    BY <2>1 DEF Tool
  <2>3. Tool(m).kind = "tool" /\ Tool(m).material = m
    BY DEF Tool
  <2>4. IsContent([c EXCEPT !.material = m])
    BY <2>2, <2>3 DEF IsContent
  <2>5. \A n : [[c EXCEPT !.material = n] EXCEPT !.material = c.material] = c
    BY <2>1
  <2> QED
    BY <1>1, <2>2, <2>3, <2>4, <2>5
<1>2. CASE c.kind = "sketch"
  <2>1. c = [kind |-> "sketch", producer |-> c.producer, material |-> c.material]
    BY <1>2 DEF IsContent, Sketch, Group, Placed, Tool
  <2> DEFINE p == c.producer
             q == c.material
  <2>2. [c EXCEPT !.material = m] = Sketch(p, m) /\ [c EXCEPT !.producer = m] = Sketch(m, q)
    BY <2>1 DEF Sketch
  <2>3. \A n : [[c EXCEPT !.material = n] EXCEPT !.material = c.material] = c
    BY <2>1
  <2>4. \A n : [[c EXCEPT !.producer = n] EXCEPT !.producer = c.producer] = c
    BY <2>1
  <2> HIDE DEF p, q
  <2>5. \A a, b : Sketch(a, b).kind = "sketch" /\ Sketch(a, b).producer = a /\ Sketch(a, b).material = b
    BY DEF Sketch
  <2>6. \A a, b : IsContent(Sketch(a, b))
    BY <2>5 DEF IsContent
  <2>7. IsContent([c EXCEPT !.material = m]) /\ [c EXCEPT !.material = m].kind = c.kind
    BY <1>2, <2>2, <2>5, <2>6
  <2>8. IsContent([c EXCEPT !.producer = m]) /\ [c EXCEPT !.producer = m].kind = c.kind
    BY <1>2, <2>2, <2>5, <2>6
  <2> QED
    BY <2>3, <2>4, <2>7, <2>8
<1> QED
  BY <1>1, <1>2

(* A new material or sketch keeps an outline and the node's kind.           *)
LEMMA RepaintedOutline ==
  ASSUME NEW z, IsOutline(z), NEW t, NEW m
  PROVE  /\ IsKind(z, t, {"tool", "sketch"}) =>
              IsOutline(Repainted(z, t, m)) /\ IsKind(Repainted(z, t, m), t, {"tool", "sketch"})
         /\ IsKind(z, t, {"sketch"}) =>
              IsOutline(Resketched(z, t, m)) /\ IsKind(Resketched(z, t, m), t, {"sketch"})
<1> DEFINE c == z.arena[t]
<1>1. \A id \in DOMAIN z.arena : IsContent(z.arena[id])
  BY DEF IsOutline, IsBuilt
<1>2. ASSUME NEW d, t \in DOMAIN z.arena, c.kind # "group", IsContent(d), d.kind \notin {"group", "instance"}
      PROVE IsOutline(PutIn(z, t, d)) /\ t \in DOMAIN PutIn(z, t, d).arena /\ PutIn(z, t, d).arena[t] = d
  BY <1>2, PaintedOutline, PutInHas
<1>3. ASSUME IsKind(z, t, {"tool", "sketch"})
      PROVE IsOutline(Repainted(z, t, m)) /\ IsKind(Repainted(z, t, m), t, {"tool", "sketch"})
  <2> DEFINE d == [c EXCEPT !.material = m]
  <2>1. t \in DOMAIN z.arena /\ c.kind \in {"tool", "sketch"} /\ IsContent(c)
    BY <1>1, <1>3 DEF IsKind
  <2>2. IsContent(d) /\ d.kind = c.kind
    BY <2>1, PaintedContent
  <2>3. Repainted(z, t, m) = PutIn(z, t, d)
    BY DEF Repainted
  <2> HIDE DEF d
  <2>4. IsOutline(PutIn(z, t, d)) /\ t \in DOMAIN PutIn(z, t, d).arena /\ PutIn(z, t, d).arena[t] = d
    BY <1>2, <2>1, <2>2
  <2> QED
    BY <2>1, <2>2, <2>3, <2>4 DEF IsKind
<1>4. ASSUME IsKind(z, t, {"sketch"})
      PROVE IsOutline(Resketched(z, t, m)) /\ IsKind(Resketched(z, t, m), t, {"sketch"})
  <2> DEFINE d == [c EXCEPT !.producer = m]
  <2>1. t \in DOMAIN z.arena /\ c.kind = "sketch" /\ IsContent(c)
    BY <1>1, <1>4 DEF IsKind
  <2>2. IsContent(d) /\ d.kind = c.kind
    BY <2>1, PaintedContent
  <2>3. Resketched(z, t, m) = PutIn(z, t, d)
    BY DEF Resketched
  <2> HIDE DEF d
  <2>4. IsOutline(PutIn(z, t, d)) /\ t \in DOMAIN PutIn(z, t, d).arena /\ PutIn(z, t, d).arena[t] = d
    BY <1>2, <2>1, <2>2
  <2> QED
    BY <2>1, <2>2, <2>3, <2>4 DEF IsKind
<1> QED
  BY <1>3, <1>4

(* Whether a field write is accepted depends on the structure alone.        *)
LEMMA WritableIs ==
  ASSUME NEW s, IsDocument(s), NEW i
  PROVE  /\ i.kind = "SetMaterial" => (Writable(s, i) <=> IsKind(Structure(s), i.target, {"tool", "sketch"}))
         /\ i.kind = "SetSketch" => (Writable(s, i) <=> IsKind(Structure(s), i.target, {"sketch"}))
         /\ i.kind = "SetOffset" => (Writable(s, i) <=> i.target \in DOMAIN s.arena)
<1>1. /\ \A id : id \in DOMAIN s.arena <=> id \in DOMAIN Structure(s).arena
      /\ \A id \in DOMAIN s.arena : Structure(s).arena[id] = s.arena[id].content
  BY DocumentHas
<1> QED
  BY <1>1 DEF Writable, IsKind

(* Field writes do to the structure what Edited says; SetOffset does        *)
(* nothing to it.                                                           *)
LEMMA FieldLands ==
  ASSUME NEW s, IsDocument(s), NEW i, i.kind \in FieldWrites
  PROVE  Lands(s, i)
<1> DEFINE z == Structure(s)
           t == i.target
<1>1. Dispatch(s, i) = IF Writable(s, i) THEN Written(s, i) ELSE s
  BY DispatchIs
<1>2. Mirrors(s, z) /\ IsOutline(z)
  BY DocumentHas
<1>3. CASE i.kind = "SetMaterial"
  <2>1. Edited(z, i) = IF IsKind(z, t, {"tool", "sketch"}) THEN Repainted(z, t, i.material) ELSE z
    BY <1>3, FieldEdited
  <2>2. Writable(s, i) <=> IsKind(z, t, {"tool", "sketch"})
    BY <1>3, WritableIs
  <2>3. Written(s, i) = [s EXCEPT !.arena[t].content.material = i.material]
    BY <1>3 DEF Written
  <2>4. IsKind(z, t, {"tool", "sketch"}) =>
          Mirrors([s EXCEPT !.arena[t].content.material = i.material], Repainted(z, t, i.material))
    BY PaintMirrors
  <2>5. IsKind(z, t, {"tool", "sketch"}) => IsOutline(Repainted(z, t, i.material))
    BY <1>2, RepaintedOutline
  <2> HIDE DEF z, t
  <2> QED
    BY <1>1, <1>2, <2>1, <2>2, <2>3, <2>4, <2>5 DEF Lands, z
<1>4. CASE i.kind = "SetSketch"
  <2>1. Edited(z, i) = IF IsKind(z, t, {"sketch"}) THEN Resketched(z, t, i.producer) ELSE z
    BY <1>4, FieldEdited
  <2>2. Writable(s, i) <=> IsKind(z, t, {"sketch"})
    BY <1>4, WritableIs
  <2>3. Written(s, i) = [s EXCEPT !.arena[t].content.producer = i.producer]
    BY <1>4 DEF Written
  <2>4. IsKind(z, t, {"sketch"}) =>
          Mirrors([s EXCEPT !.arena[t].content.producer = i.producer], Resketched(z, t, i.producer))
    BY PaintMirrors
  <2>5. IsKind(z, t, {"sketch"}) => IsOutline(Resketched(z, t, i.producer))
    BY <1>2, RepaintedOutline
  <2> HIDE DEF z, t
  <2> QED
    BY <1>1, <1>2, <2>1, <2>2, <2>3, <2>4, <2>5 DEF Lands, z
<1>5. CASE i.kind = "SetOffset"
  <2>1. Edited(z, i) = z
    BY <1>5, FieldEdited
  <2>2. Writable(s, i) <=> t \in DOMAIN s.arena
    BY <1>5, WritableIs
  <2>3. Written(s, i) = [s EXCEPT !.arena[t].at = FromMeasure(i.measure, s.density)]
    BY <1>5 DEF Written
  <2>4. t \in DOMAIN s.arena => Mirrors([s EXCEPT !.arena[t].at = FromMeasure(i.measure, s.density)], z)
    BY OffsetMirrors
  <2> HIDE DEF z, t
  <2> QED
    BY <1>1, <1>2, <2>1, <2>2, <2>3, <2>4 DEF Lands, z
<1> QED
  BY <1>3, <1>4, <1>5 DEF FieldWrites

(* SetDensity, AddPoint and RemovePoint do to the structure what Edited     *)
(* says.                                                                    *)
LEMMA PointLands ==
  ASSUME NEW s, IsDocument(s), NEW i, i.kind \in {"SetDensity", "AddPoint", "RemovePoint"}
  PROVE  Lands(s, i)
<1> DEFINE z == Structure(s)
<1>1. Mirrors(s, z) /\ IsOutline(z) /\ s.points = z.points
  BY DocumentHas, SceneHas
<1>2. CASE i.kind = "SetDensity"
  <2>1. Dispatch(s, i) = SetDensity(s, i.density) /\ Edited(z, i) = Dense(z, i.density)
    BY <1>2, DispatchIs, FieldEdited
  <2>2. Mirrors(SetDensity(s, i.density), Dense(z, i.density)) /\ IsOutline(Dense(z, i.density))
    BY <1>1, DensityMirrors, DenseOutline
  <2> QED
    BY <2>1, <2>2 DEF Lands
<1>3. CASE i.kind = "AddPoint"
  <2>1. Dispatch(s, i) = AddPoint(s) /\ Edited(z, i) = Pinned(z)
    BY <1>3, DispatchIs, FieldEdited
  <2>2. Mirrors(AddPoint(s), Pinned(z)) /\ IsOutline(Pinned(z))
    BY <1>1, PointMirrors, PinnedOutline
  <2> QED
    BY <2>1, <2>2 DEF Lands
<1>4. CASE i.kind = "RemovePoint"
  <2> DEFINE n == i.index
  <2>1. /\ Dispatch(s, i) = RemovePoint(s, n)
        /\ Edited(z, i) = IF n \in DOMAIN z.points /\ ~z.points[n].origin THEN Unpinned(z, n) ELSE z
    BY <1>4, DispatchIs, FieldEdited
  <2>2. Deletable(s, n) <=> n \in DOMAIN z.points /\ ~z.points[n].origin
    BY <1>1 DEF Deletable
  <2> HIDE DEF n, z
  <2>3. CASE Deletable(s, n)
    <3>1. Mirrors(RemovePoint(s, n), Unpinned(z, n)) /\ IsOutline(Unpinned(z, n))
      BY <1>1, <2>2, <2>3, PointMirrors, UnpinnedOutline DEF z
    <3> QED
      BY <2>1, <2>2, <2>3, <3>1 DEF Lands, z
  <2>4. CASE ~Deletable(s, n)
    <3>1. RemovePoint(s, n) = s
      BY <2>4 DEF RemovePoint
    <3> QED
      BY <1>1, <2>1, <2>2, <2>4, <3>1 DEF Lands, z
  <2> QED
    BY <2>3, <2>4
<1> QED
  BY <1>2, <1>3, <1>4

(* Every intent: a document becomes a document whose structure is the       *)
(* Edited one (AppCore::dispatch).                                          *)
LEMMA IntentLands ==
  ASSUME NEW s, IsDocument(s), NEW i, IsIntent(i)
  PROVE  Lands(s, i) /\ IsDocument(Dispatch(s, i)) /\ Structure(Dispatch(s, i)) = Edited(Structure(s), i)
<1>1. Lands(s, i)
  <2>1. i.kind \in {"PlaceNode", "AddChild", "AddInstance", "GroupNode", "RemoveNode", "MakeDefinition",
                    "SetDensity", "AddPoint", "RemovePoint"} \cup FieldWrites
    BY DEF IsIntent, FieldWrites
  <2>2. i.kind \in {"PlaceNode", "AddChild"} => IsSpec(i.content)
    BY DEF IsIntent
  <2> QED
    BY <2>1, <2>2, PlaceLands, ChildLands, InstanceLands, TreeLands, DefinitionLands, FieldLands, PointLands
<1> QED
  BY <1>1 DEF Lands, Mirrors, IsDocument

(* The counter is the last thing reversed.                                 *)
LEMMA Rewound1 ==
  ASSUME NEW u, IsDocument(u), NEW i, NEW t, NEW w,
         Mirrors(ApplyInverse(t, CaptureInverse(u, i)), w), Matches(w, Structure(u))
  PROVE  Mirrors(ReverseCommand(t, Command(u, i)), Structure(u))
<1> DEFINE z == Structure(u)
           v == ApplyInverse(t, CaptureInverse(u, i))
<1>1. u.next = z.next /\ IsMade(z)
  BY SceneHas
<1>2. ReverseCommand(t, Command(u, i)) = [v EXCEPT !.next = z.next]
  BY <1>1 DEF ReverseCommand, Command
<1>3. Mirrors(v, w)
  OBVIOUS
<1> HIDE DEF v
<1>4. Mirrors([v EXCEPT !.next = z.next], Numbered(w, z.next))
  BY <1>3, MirrorWrites
<1>5. Numbered(w, z.next) = z
  BY <1>1 DEF Numbered, Matches, IsMade
<1> QED
  BY <1>2, <1>4, <1>5

(* An intent that leaves the structure alone is undone when its inverse     *)
(* leaves it alone.                                                         *)
LEMMA NothingToReturn ==
  ASSUME NEW u, IsDocument(u), NEW i, Edited(Structure(u), i) = Structure(u),
         \A t : IsDocument(t) /\ Structure(t) = Structure(u) =>
                  Mirrors(ApplyInverse(t, CaptureInverse(u, i)), Structure(u))
  PROVE  Returns(u, i)
<1>1. Matches(Structure(u), Structure(u))
  BY SceneHas DEF Matches
<1> QED
  BY <1>1, Rewound1 DEF Returns

(* The NoOp inverse undoes an intent that changed nothing.                  *)
LEMMA NoOpReturns ==
  ASSUME NEW u, IsDocument(u), NEW i, Edited(Structure(u), i) = Structure(u), CaptureInverse(u, i) = NoOp
  PROVE  Returns(u, i)
<1>1. \A t : ApplyInverse(t, NoOp) = t
  BY DEF ApplyInverse, NoOp
<1>2. \A t : IsDocument(t) => Mirrors(t, Structure(t))
  BY DocumentHas
<1> QED
  BY <1>1, <1>2, NothingToReturn

(* A tree whose slots another still reaches is inside it.                  *)
LEMMA TreeGrows ==
  ASSUME NEW z, IsOutline(z), NEW y, IsOutline(y),
         \A p, i, x : Named(z, p, i, x) /\ (p = 1 \/ p \in TreeOf(y)) => x \in TreeOf(y)
  PROVE  TreeOf(z) \subseteq TreeOf(y)
<1>1. IsBuilt(z)
  BY DEF IsOutline
<1>2. Range(z.roots) \subseteq TreeOf(y)
  BY TopNamed
<1>3. KeepsKids(z.arena, TreeOf(y))
  <2>1. ASSUME NEW g \in TreeOf(y), NEW x \in Kids(z.arena, g) PROVE x \in TreeOf(y)
    BY <1>1, KidNamed
  <2> QED
    BY <2>1 DEF KeepsKids
<1> DEFINE C == TreeOf(y)
           tops == Range(z.roots)
<1>4. tops \subseteq C /\ KeepsKids(z.arena, C) /\ TreeOf(z) = Below(z.arena, tops)
  BY <1>2, <1>3 DEF TreeOf
<1> HIDE DEF C, tops
<1>5. Below(z.arena, tops) \subseteq C
  BY <1>4, OutlineLeast
<1> QED
  BY <1>4, <1>5 DEF C

(* A row of an arena made of contents.                                     *)
LEMMA OwnedGroup ==
  ASSUME NEW z, IsBuilt(z), NEW o, IsOwner(z, o), o # 1
  PROVE  z.arena[o] = Group(Row(z, o)) /\ o \in DOMAIN z.arena
<1>1. o \in DOMAIN z.arena /\ z.arena[o].kind = "group" /\ IsContent(z.arena[o])
  BY DEF IsOwner, IsBuilt
<1>2. Row(z, o) = z.arena[o].children
  BY OwnerRow
<1> QED
  BY <1>1, <1>2, GroupIs

(* What was added has nothing below it, and taking it out undoes it.       *)
LEMMA JoinedSits ==
  ASSUME NEW z, IsOutline(z), NEW o, IsOwner(z, o), o = 1 \/ o \in TreeOf(z),
         NEW c, IsBlank(c), Stocks(z, c)
  PROVE  Sits(Joined(z, o, c), o, Len(Row(z, o)) + 1, z.next)
<1> DEFINE y == Joined(z, o, c)
           m == Len(Row(z, o)) + 1
           n == z.next
<1>1. IsOutline(y) /\ IsBuilt(z)
  BY JoinedOutline DEF IsOutline
<1>2. Gains(z, y, o, m, n)
  BY <1>1, JoinedHas
<1> HIDE DEF y, m, n
<1>3. Named(y, o, m, n) /\ \A p, i, x : Named(z, p, i, x) => Named(y, p, i, x)
  BY <1>2 DEF Gains
<1>4. \A p, i, x : Named(y, p, i, x) /\ (p = 1 \/ p \in TreeOf(y)) => x \in TreeOf(y)
  <2> TAKE p, i, x
  <2> HAVE Named(y, p, i, x) /\ (p = 1 \/ p \in TreeOf(y))
  <2>1. Sits(y, p, i, x)
    BY DEF Sits
  <2> QED
    BY <1>1, <2>1, TreeSits
<1>5. \A p, i, x : Named(z, p, i, x) /\ (p = 1 \/ p \in TreeOf(y)) => x \in TreeOf(y)
  BY <1>3, <1>4
<1>6. TreeOf(z) \subseteq TreeOf(y)
  BY <1>1, <1>5, TreeGrows
<1>7. Sits(y, o, m, n)
  BY <1>3, <1>6 DEF Sits
<1> QED
  BY <1>7 DEF y, m, n

(* Nothing hangs from a node just added, so undoing the add purges it       *)
(* alone.                                                                   *)
LEMMA JoinedAlone ==
  ASSUME NEW z, IsOutline(z), NEW o, IsOwner(z, o),
         NEW c, IsBlank(c), Stocks(z, c)
  PROVE  Gone(Joined(z, o, c), z.next) = {z.next}
<1> DEFINE y == Joined(z, o, c)
           n == z.next
<1>1. IsOutline(y) /\ IsBuilt(z)
  BY JoinedOutline DEF IsOutline
<1>2. n \in DOMAIN y.arena /\ y.arena[n] = c
  BY <1>1, JoinedHas
<1> HIDE DEF y, n
<1>3. Kids(y.arena, n) = {}
  BY <1>2 DEF IsBlank, Kids, Range
<1>4. KeepsKids(y.arena, {n})
  BY <1>3 DEF KeepsKids
<1> DEFINE C == {n}
<1>5. C \subseteq C /\ KeepsKids(y.arena, C)
  BY <1>4
<1> HIDE DEF C
<1>6. Below(y.arena, C) \subseteq C
  BY <1>1, <1>5, OutlineLeast
<1>7. n \in Gone(y, n)
  BY <1>1, <1>2, GoneIs
<1> QED
  BY <1>6, <1>7 DEF Gone, C, y, n

(* Purging the node just added, with the counter restored, is the structure *)
(* before.                                                                  *)
LEMMA JoinedBack ==
  ASSUME NEW z, IsOutline(z), NEW o, IsOwner(z, o),
         NEW c, IsBlank(c), Stocks(z, c)
  PROVE  Matches(Purged(Joined(z, o, c), o, Len(Row(z, o)) + 1, z.next), z)
<1> DEFINE y == Joined(z, o, c)
           m == Len(Row(z, o)) + 1
           n == z.next
           w == Purged(y, o, m, n)
           row == Append(Row(z, o), n)
<1>1. IsOutline(y) /\ IsBuilt(z) /\ IsBuilt(y)
  BY JoinedOutline DEF IsOutline
<1>2. /\ y.definitions = z.definitions /\ y.points = z.points /\ y.density = z.density
      /\ y.roots = IF o = 1 THEN row ELSE z.roots
      /\ DOMAIN y.arena = DOMAIN z.arena \cup {n} /\ n \notin DOMAIN z.arena /\ o # n
      /\ \A id \in DOMAIN z.arena :
           y.arena[id] = IF id = o /\ o # 1 THEN Group(row) ELSE z.arena[id]
      /\ Gains(z, y, o, m, n)
  <2>1. o = 1 => Row(z, o) = z.roots
    BY DEF Row
  <2> QED
    BY <1>1, <2>1, JoinedHas
<1>3. Gone(y, n) = {n}
  BY JoinedAlone
<1>4. Row(z, o) \in Seq(Nat) /\ n \in Nat /\ (o = 1 \/ o \in DOMAIN z.arena) /\ o \in Nat /\ o >= 1
  BY <1>1, OwnerRow, BuiltFacts
<1>5. RemoveAt(row, m) = Row(z, o)
  BY <1>4, RemoveAppended
<1>6. row \in Seq(Nat)
  BY <1>4
<1>7. o # 1 => z.arena[o] = Group(Row(z, o))
  BY <1>1, OwnedGroup
<1>8. o = 1 => Row(z, o) = z.roots
  BY DEF Row
<1>9. z.arena = [id \in DOMAIN z.arena |-> z.arena[id]]
  BY <1>1, BuiltFacts
<1> HIDE DEF y, m, n, row
<1>10. Named(y, o, m, n)
  BY <1>2 DEF Gains
<1>11. IsOwner(y, o) /\ Row(y, o) = row
  <2>1. CASE o = 1
    BY <1>2, <2>1 DEF IsOwner, Row
  <2>2. CASE o # 1
    <3>1. o > 1 /\ o \in DOMAIN y.arena /\ y.arena[o] = Group(row)
      BY <1>2, <1>4, <2>2
    <3>2. Group(row).kind = "group" /\ Group(row).children = row
      BY <1>6, GroupHas
    <3> QED
      BY <3>1, <3>2 DEF IsOwner, Row
  <2> QED
    BY <2>1, <2>2
<1>12. /\ IsMade(w) /\ w.definitions = y.definitions /\ w.points = y.points /\ w.density = y.density
       /\ w.roots = IF o = 1 THEN RemoveAt(Row(y, o), m) ELSE y.roots
       /\ DOMAIN w.arena = DOMAIN y.arena \ Gone(y, n)
       /\ \A id \in DOMAIN y.arena \ Gone(y, n) :
            w.arena[id] = IF id = o /\ o # 1 THEN Group(RemoveAt(Row(y, o), m)) ELSE y.arena[id]
       /\ IsBuilt(w)
  BY <1>1, <1>10, <1>11, PurgedHas
<1> HIDE DEF w
<1>13. DOMAIN w.arena = DOMAIN z.arena /\ w.arena = [id \in DOMAIN w.arena |-> w.arena[id]]
  BY <1>2, <1>3, <1>12, BuiltFacts
<1>14. \A id \in DOMAIN z.arena : w.arena[id] = z.arena[id]
  <2> TAKE id \in DOMAIN z.arena
  <2>1. id \in DOMAIN y.arena \ Gone(y, n)
    BY <1>2, <1>3
  <2>2. w.arena[id] = IF id = o /\ o # 1 THEN Group(Row(z, o)) ELSE y.arena[id]
    BY <1>5, <1>11, <1>12, <2>1
  <2> QED
    BY <1>2, <1>7, <2>2
<1>15. w.arena = z.arena
  BY <1>9, <1>13, <1>14
<1>16. w.roots = z.roots
  BY <1>2, <1>5, <1>8, <1>11, <1>12
<1> QED
  BY <1>2, <1>12, <1>15, <1>16 DEF Matches, w, y, m, n

(* Nothing has the reserved id 0, so an add that minted nothing unmakes    *)
(* nothing.                                                                *)
LEMMA NoNodeZero ==
  ASSUME NEW t, IsDocument(t)
  PROVE  DetachAndPurge(t, 0) = t
<1>1. IsOutline(Structure(t)) /\ IsBuilt(Structure(t))
  BY DocumentHas
<1>a. \A id \in DOMAIN Structure(t).arena : id > 1
  BY <1>1, BuiltFacts
<1>2. 0 \notin DOMAIN Structure(t).arena
  <2> DEFINE D == DOMAIN Structure(t).arena
  <2>1. \A id \in D : id > 1
    BY <1>a
  <2> HIDE DEF D
  <2>2. 0 \notin D
    BY <2>1
  <2> QED
    BY <2>2 DEF D
<1>3. 0 \notin TreeOf(Structure(t))
  BY <1>1, <1>2, SlotHas
<1> QED
  BY <1>3, OutOfTree

(* What capture_inverse records before an intent, one equation per kind     *)
(* (command.rs).                                                            *)
LEMMA CaptureIs ==
  ASSUME NEW s, NEW i
  PROVE  /\ i.kind = "PlaceNode" => CaptureInverse(s, i) = RemoveAdded(s, i)
         /\ i.kind = "AddChild" =>
              CaptureInverse(s, i) = IF IsGroup(s, i.group) THEN RemoveAdded(s, i) ELSE NoOp
         /\ i.kind = "AddInstance" =>
              CaptureInverse(s, i) = IF HasDef(s, i.def) THEN RemoveAdded(s, i) ELSE NoOp
         /\ i.kind = "GroupNode" =>
              CaptureInverse(s, i) = IF i.target \in DOMAIN s.arena
                                     THEN [kind |-> "UngroupNode", target |-> i.target, group |-> s.next]
                                     ELSE NoOp
         /\ i.kind = "MakeDefinition" => CaptureInverse(s, i) = CaptureMakeDefinition(s, i.target)
         /\ i.kind = "RemoveNode" => CaptureInverse(s, i) = CaptureRemove(s, i.target)
         /\ i.kind \in FieldWrites =>
              CaptureInverse(s, i) = IF Writable(s, i) THEN Field(PriorField(s, i)) ELSE NoOp
         /\ i.kind = "SetDensity" =>
              CaptureInverse(s, i) = Field([i EXCEPT !.density = s.density])
         /\ i.kind = "AddPoint" =>
              CaptureInverse(s, i) = [kind |-> "RemoveAddedPoint", index |-> Len(s.points) + 1]
         /\ i.kind = "RemovePoint" =>
              CaptureInverse(s, i) = IF Deletable(s, i.index)
                                     THEN [kind |-> "InsertPoint", index |-> i.index, point |-> s.points[i.index]]
                                     ELSE NoOp
BY DEF CaptureInverse, FieldWrites

(* RemoveAdded undoes an add to a given owner.                              *)
LEMMA AddReturns ==
  ASSUME NEW u, IsDocument(u), NEW i, NEW o, NEW c,
         IsOwner(Structure(u), o), o = 1 \/ o \in TreeOf(Structure(u)),
         IsBlank(c), Stocks(Structure(u), c), Edited(Structure(u), i) = Joined(Structure(u), o, c),
         CaptureInverse(u, i) = [kind |-> "RemoveAdded", id |-> u.next]
  PROVE  Returns(u, i)
<1> DEFINE z == Structure(u)
           m == Len(Row(z, o)) + 1
           inverse == [kind |-> "RemoveAdded", id |-> u.next]
<1>1. IsOutline(z) /\ u.next = z.next
  BY SceneHas
<1>2. Sits(Joined(z, o, c), o, m, z.next) /\ Matches(Purged(Joined(z, o, c), o, m, z.next), z)
  BY <1>1, JoinedSits, JoinedBack
<1>3. \A t : ApplyInverse(t, inverse) = DetachAndPurge(t, z.next)
  BY <1>1 DEF ApplyInverse
<1> HIDE DEF m, inverse
<1>4. ASSUME NEW t, IsDocument(t), Structure(t) = Joined(z, o, c)
      PROVE Mirrors(ReverseCommand(t, Command(u, i)), z)
  <2>1. Mirrors(DetachAndPurge(t, z.next), Purged(Joined(z, o, c), o, m, z.next))
    BY <1>2, <1>4, PurgeMirrors
  <2>2. Mirrors(ApplyInverse(t, CaptureInverse(u, i)), Purged(Joined(z, o, c), o, m, z.next))
    BY <1>3, <2>1 DEF inverse
  <2> QED
    BY <1>2, <2>2, Rewound1
<1> QED
  BY <1>4 DEF Returns

(* RemoveAdded undoes PlaceNode, AddChild and AddInstance.                  *)
LEMMA AddsReturn ==
  ASSUME NEW u, IsDocument(u), NEW i, IsIntent(i), i.kind \in {"PlaceNode", "AddChild", "AddInstance"}
  PROVE  Returns(u, i)
<1> DEFINE z == Structure(u)
<1>1. /\ IsOutline(z) /\ Tree(u) = TreeOf(z) /\ \A d : HasDef(u, d) <=> HasDefinition(z, d)
      /\ \A id : IsGroup(u, id) <=> IsKind(z, id, {"group"})
      /\ \A id : id \in DOMAIN u.arena <=> id \in DOMAIN z.arena
  BY DocumentHas
<1>2. RemoveAdded(u, i) = [kind |-> "RemoveAdded", id |-> IF Mints(u, i) THEN u.next ELSE 0]
  BY DEF RemoveAdded
<1>3. IsOwner(z, 1)
  BY DEF IsOwner
<1>4. CASE i.kind = "PlaceNode"
  <2>1. CaptureInverse(u, i) = [kind |-> "RemoveAdded", id |-> u.next]
    BY <1>2, <1>4, CaptureIs DEF Mints
  <2>2. Edited(z, i) = Joined(z, 1, i.content) /\ IsBlank(i.content) /\ Stocks(z, i.content)
    BY <1>4, EditedIs DEF IsIntent, IsSpec, Stocks
  <2> HIDE DEF z
  <2> QED
    BY <1>3, <2>1, <2>2, AddReturns DEF z
<1>5. CASE i.kind = "AddInstance"
  <2> DEFINE c == Placed(i.def)
  <2>1. Edited(z, i) = IF HasDefinition(z, i.def) THEN Joined(z, 1, c) ELSE z
    BY <1>5, EditedIs
  <2>2. CaptureInverse(u, i) = IF HasDefinition(z, i.def) THEN [kind |-> "RemoveAdded", id |-> u.next] ELSE NoOp
    BY <1>1, <1>2, <1>5, CaptureIs DEF Mints
  <2>3. IsBlank(c) /\ c.def = i.def
    BY PlacedHas DEF IsBlank
  <2> HIDE DEF c
  <2>4. CASE HasDefinition(z, i.def)
    <3>1. Stocks(z, c)
      BY <2>3, <2>4 DEF Stocks
    <3> QED
      BY <1>3, <2>1, <2>2, <2>3, <2>4, <3>1, AddReturns
  <2>5. CASE ~HasDefinition(z, i.def)
    BY <2>1, <2>2, <2>5, NoOpReturns
  <2> QED
    BY <2>4, <2>5
<1>6. CASE i.kind = "AddChild"
  <2> DEFINE g == i.group
             c == i.content
  <2>1. Edited(z, i) = IF g \in TreeOf(z) /\ IsKind(z, g, {"group"}) THEN Joined(z, g, c) ELSE z
    BY <1>6, EditedIs
  <2>2. CaptureInverse(u, i) = IF IsKind(z, g, {"group"}) THEN RemoveAdded(u, i) ELSE NoOp
    BY <1>1, <1>6, CaptureIs
  <2>3. Mints(u, i) <=> g \in TreeOf(z) /\ IsKind(z, g, {"group"})
    BY <1>1, <1>6 DEF Mints
  <2>4. IsBlank(c) /\ Stocks(z, c)
    BY <1>6 DEF IsIntent, IsSpec, Stocks
  <2> HIDE DEF c, g
  <2>5. CASE Mints(u, i)
    <3>1. IsOwner(z, g) /\ g \in TreeOf(z)
      BY <2>3, <2>5 DEF IsOwner, IsKind
    <3>2. CaptureInverse(u, i) = [kind |-> "RemoveAdded", id |-> u.next]
      BY <1>2, <2>2, <2>3, <2>5
    <3>3. Edited(z, i) = Joined(z, g, c)
      BY <2>1, <2>3, <2>5
    <3> QED
      BY <2>4, <3>1, <3>2, <3>3, AddReturns
  <2>6. CASE ~Mints(u, i)
    <3>1. Edited(z, i) = z
      BY <2>1, <2>3, <2>6
    <3>2. CASE IsKind(z, g, {"group"})
      <4> DEFINE inverse == [kind |-> "RemoveAdded", id |-> 0]
      <4>1. CaptureInverse(u, i) = inverse
        BY <1>2, <2>2, <2>6, <3>2
      <4>2. \A t : ApplyInverse(t, inverse) = DetachAndPurge(t, 0)
        BY DEF ApplyInverse
      <4>3. \A t : IsDocument(t) => Mirrors(DetachAndPurge(t, 0), Structure(t))
        BY NoNodeZero, DocumentHas
      <4> HIDE DEF inverse
      <4> QED
        BY <3>1, <4>1, <4>2, <4>3, NothingToReturn
    <3>3. CASE ~IsKind(z, g, {"group"})
      BY <2>2, <3>1, <3>3, NoOpReturns
    <3> QED
      BY <3>2, <3>3
  <2> QED
    BY <2>5, <2>6
<1> QED
  BY <1>4, <1>5, <1>6

(* What is outside the arena is outside the tree.                          *)
LEMMA TreeInArena ==
  ASSUME NEW z, IsOutline(z)
  PROVE  TreeOf(z) \subseteq DOMAIN z.arena /\ z.next \notin TreeOf(z) /\ z.next \notin DOMAIN z.arena
<1>1. TreeOf(z) \subseteq DOMAIN z.arena
  BY SlotHas
<1>2. IsBuilt(z)
  BY DEF IsOutline
<1> DEFINE D == DOMAIN z.arena
           n == z.next
<1>3. \A id \in D : id \in Nat /\ id < n
  BY <1>2, BuiltFacts
<1>4. n \in Nat
  BY <1>2, BuiltFacts
<1> HIDE DEF D, n
<1>5. n \notin D
  BY <1>3, <1>4
<1> QED
  BY <1>1, <1>5 DEF D, n

(* The new group stands where its child stood, in a row still reached.     *)
LEMMA WrappedSits ==
  ASSUME NEW z, IsOutline(z), NEW o, NEW k, NEW t, Sits(z, o, k, t), IsOwner(z, o)
  PROVE  Sits(Wrapped(z, o, t), o, k, z.next)
<1> DEFINE y == Wrapped(z, o, t)
           n == z.next
<1>1. Named(z, o, k, t) /\ (o = 1 \/ o \in TreeOf(z)) /\ IsSpun(z)
  BY DEF Sits, IsOutline
<1>2. IsOutline(y)
  BY <1>1, WrappedOutline
<1>3. Wraps(z, y, o, k, t, n)
  BY <1>1, WrappedHas
<1> HIDE DEF y, n
<1>4. Named(y, o, k, n) /\ Named(y, n, 1, t)
  BY <1>3 DEF Wraps
<1>5. \A p, i, x : Named(z, p, i, x) /\ x # t => Named(y, p, i, x)
  BY <1>3 DEF Wraps
<1>6. \A p, i : Named(z, p, i, t) => p = o
  BY <1>1 DEF IsSpun
<1>7. \A p, i, x : Named(y, p, i, x) /\ (p = 1 \/ p \in TreeOf(y)) => x \in TreeOf(y)
  <2> TAKE p, i, x
  <2> HAVE Named(y, p, i, x) /\ (p = 1 \/ p \in TreeOf(y))
  <2>1. Sits(y, p, i, x)
    BY DEF Sits
  <2> QED
    BY <1>2, <2>1, TreeSits
<1>8. ASSUME NEW p, NEW i, NEW x, Named(z, p, i, x) /\ (p = 1 \/ p \in TreeOf(y)) PROVE x \in TreeOf(y)
  <2>1. CASE x # t
    BY <1>5, <1>7, <1>8, <2>1
  <2>2. CASE x = t
    <3>1. p = o
      BY <1>6, <1>8, <2>2
    <3>2. n \in TreeOf(y)
      BY <1>4, <1>7, <1>8, <3>1
    <3> QED
      BY <1>4, <1>7, <2>2, <3>2
  <2> QED
    BY <2>1, <2>2
<1>9. TreeOf(z) \subseteq TreeOf(y)
  BY <1>2, <1>8, TreeGrows
<1>10. Sits(y, o, k, n)
  BY <1>1, <1>4, <1>9 DEF Sits
<1> QED
  BY <1>10 DEF y, n

(* Ungrouping what was just wrapped, with the counter restored, is the      *)
(* structure before.                                                        *)
LEMMA WrappedBack ==
  ASSUME NEW z, IsOutline(z), NEW o, IsOwner(z, o), NEW k, NEW t, Named(z, o, k, t)
  PROVE  Matches(Unwrapped(Wrapped(z, o, t), o, z.next, t), z)
<1> DEFINE y == Wrapped(z, o, t)
           n == z.next
           row == ReplaceAll(Row(z, o), t, n)
           back == ReplaceAll(Row(y, o), n, t)
           v == Respin(y, o, back)
           w == TakenOut(v, {n})
<1>1. IsBuilt(z) /\ IsSpun(z) /\ IsOutline(y) /\ IsBuilt(y)
  BY WrappedOutline DEF IsOutline
<1>2. /\ y.definitions = z.definitions /\ y.points = z.points /\ y.density = z.density
      /\ y.roots = IF o = 1 THEN row ELSE z.roots
      /\ DOMAIN y.arena = DOMAIN z.arena \cup {n}
      /\ \A id \in DOMAIN z.arena :
           y.arena[id] = (IF id = o /\ o # 1 THEN Group(row) ELSE z.arena[id])
  <2> HIDE DEF y, row, n
  <2>1. Wrapped(z, o, t) = y /\ z.next = n /\ ReplaceAll(Row(z, o), t, z.next) = row
    BY DEF y, n, row
  <2>2. /\ y.definitions = z.definitions /\ y.points = z.points
        /\ y.density = z.density
        /\ y.roots = (IF o = 1 THEN row ELSE z.roots)
        /\ DOMAIN y.arena = DOMAIN z.arena \cup {n}
        /\ \A id \in DOMAIN z.arena :
             y.arena[id] = (IF id = o /\ o # 1 THEN Group(row) ELSE z.arena[id])
    BY <2>1, WrappedHas
  <2> QED
    BY <2>2
<1>3. /\ Row(z, o) \in Seq(Nat) /\ n \in Nat /\ (o = 1 \/ o \in DOMAIN z.arena) /\ o \in Nat /\ o >= 1
      /\ \A i, x : Named(z, o, i, x) <=> Slot(Row(z, o), i, x)
  BY <1>1, OwnerRow, BuiltFacts
<1>4. n \notin DOMAIN z.arena /\ t \in DOMAIN z.arena
  BY <1>1, TreeInArena DEF IsSpun
<1>5. t \in Nat
  BY <1>1, <1>4, BuiltFacts
<1>6. n \notin Range(Row(z, o))
  <2>1. \A i \in DOMAIN Row(z, o) : Named(z, o, i, Row(z, o)[i])
    BY <1>3 DEF Slot
  <2>2. \A i \in DOMAIN Row(z, o) : Row(z, o)[i] \in DOMAIN z.arena
    BY <1>1, <2>1 DEF IsSpun
  <2> QED
    BY <1>4, <2>2 DEF Range
<1>7. row \in Seq(Nat)
  BY <1>3, ReplaceAllIs
<1>8. ReplaceAll(row, n, t) = Row(z, o)
  BY <1>3, <1>5, <1>6, ReplaceBack
<1>9. o # 1 => z.arena[o] = Group(Row(z, o))
  BY <1>1, OwnedGroup
<1>10. o = 1 => Row(z, o) = z.roots
  BY DEF Row
<1>11. z.arena = [id \in DOMAIN z.arena |-> z.arena[id]]
  BY <1>1, BuiltFacts
<1> HIDE DEF y, n, row, back
<1>12. Row(y, o) = row
  <2>1. CASE o = 1
    BY <1>2, <2>1 DEF Row
  <2>2. CASE o # 1
    <3>1. o > 1 /\ y.arena[o] = Group(row)
      BY <1>2, <1>3, <2>2
    <3>2. Group(row).children = row
      BY <1>7, GroupHas
    <3> QED
      BY <3>1, <3>2 DEF Row
  <2> QED
    BY <2>1, <2>2
<1>13. back = Row(z, o)
  BY <1>8, <1>12 DEF back
<1>14. o = 1 \/ o \in DOMAIN y.arena
  BY <1>2, <1>3
<1>15. /\ IsMade(v) /\ v.definitions = y.definitions
       /\ v.points = y.points
       /\ v.density = y.density
       /\ v.roots = IF o = 1 THEN back ELSE y.roots
       /\ DOMAIN v.arena = DOMAIN y.arena
       /\ \A id \in DOMAIN y.arena :
            v.arena[id] = IF id = o /\ o # 1 THEN Group(back) ELSE y.arena[id]
  BY <1>14, RespinHas
<1> HIDE DEF v
<1>16. /\ IsMade(w) /\ w.arena = Without(v.arena, {n})
       /\ w.roots = v.roots /\ w.definitions = v.definitions
       /\ w.points = v.points
       /\ w.density = v.density
       /\ DOMAIN w.arena = DOMAIN v.arena \ {n}
       /\ \A id \in DOMAIN v.arena \ {n} : w.arena[id] = v.arena[id]
  BY TakenHas
<1> HIDE DEF w
<1>17. DOMAIN w.arena = DOMAIN z.arena
  BY <1>2, <1>4, <1>15, <1>16
<1>18. w.arena = [id \in DOMAIN w.arena |-> w.arena[id]]
  BY <1>16 DEF Without
<1>19. \A id \in DOMAIN z.arena : w.arena[id] = z.arena[id]
  BY <1>2, <1>4, <1>9, <1>13, <1>15, <1>16
<1>20. w.arena = z.arena
  BY <1>11, <1>17, <1>18, <1>19
<1>21. w.roots = z.roots
  BY <1>2, <1>10, <1>13, <1>15, <1>16
<1> QED
  BY <1>2, <1>15, <1>16, <1>20, <1>21 DEF Matches, Unwrapped, w, v, back, y, n

(* UngroupNode undoes GroupNode.                                            *)
LEMMA GroupReturns ==
  ASSUME NEW u, IsDocument(u), NEW i, i.kind = "GroupNode"
  PROVE  Returns(u, i)
<1> DEFINE z == Structure(u)
           t == i.target
           o == OwnerOf(z, t)
           k == SlotOf(z, t)
           inverse == [kind |-> "UngroupNode", target |-> t, group |-> u.next]
<1>1. /\ IsOutline(z) /\ u.next = z.next
      /\ (t \in DOMAIN u.arena <=> t \in DOMAIN z.arena)
  BY SceneHas
<1>2. CaptureInverse(u, i) = IF t \in DOMAIN u.arena THEN inverse ELSE NoOp
  BY CaptureIs
<1>3. Edited(z, i) = IF t \in TreeOf(z) THEN Wrapped(z, o, t) ELSE z
  BY EditedIs
<1>4. \A s : ApplyInverse(s, inverse) = Ungroup(s, z.next, t)
  BY <1>1 DEF ApplyInverse
<1>5. TreeOf(z) \subseteq DOMAIN z.arena /\ z.next \notin TreeOf(z)
  BY <1>1, TreeInArena
<1> HIDE DEF t, inverse
<1>6. CASE t \in TreeOf(z)
  <2>1. Sits(z, o, k, t) /\ IsOwner(z, o) /\ Named(z, o, k, t)
    BY <1>1, <1>6, SlotHas
  <2> HIDE DEF o, k
  <2> DEFINE y == Wrapped(z, o, t)
  <2>2. Sits(y, o, k, z.next) /\ Matches(Unwrapped(y, o, z.next, t), z)
    BY <1>1, <2>1, WrappedSits, WrappedBack
  <2>3. Edited(z, i) = y /\ CaptureInverse(u, i) = inverse
    BY <1>1, <1>2, <1>3, <1>5, <1>6 DEF o
  <2> HIDE DEF y
  <2>4. ASSUME NEW s, IsDocument(s), Structure(s) = y
        PROVE Mirrors(ReverseCommand(s, Command(u, i)), z)
    <3>1. Mirrors(Ungroup(s, z.next, t), Unwrapped(y, o, z.next, t))
      BY <2>2, <2>4, UngroupMirrors
    <3>2. Mirrors(ApplyInverse(s, CaptureInverse(u, i)), Unwrapped(y, o, z.next, t))
      BY <1>4, <2>3, <3>1
    <3> QED
      BY <2>2, <3>2, Rewound1
  <2> QED
    BY <2>3, <2>4 DEF Returns
<1>7. CASE t \notin TreeOf(z) /\ t \in DOMAIN z.arena
  <2>1. ASSUME NEW s, IsDocument(s), Structure(s) = z PROVE Mirrors(Ungroup(s, z.next, t), z)
    BY <1>5, <2>1, OutOfTree, DocumentHas
  <2> QED
    BY <1>1, <1>2, <1>3, <1>4, <1>7, <2>1, NothingToReturn
<1>8. CASE t \notin TreeOf(z) /\ t \notin DOMAIN z.arena
  BY <1>1, <1>2, <1>3, <1>8, NoOpReturns
<1> QED
  BY <1>6, <1>7, <1>8

(*********** Taking back what removed, defined, wrote or pointed ***********)

(* Reinserting captured nodes into an arena restores exactly those.         *)
LEMMA RestockedHas ==
  ASSUME NEW A, NEW B, NEW ids, AreNodes(A), AreNodes(B), ids \subseteq DOMAIN A
  PROVE  Restocks(Restocked(B, A, ids), B, A, ids)
<1> DEFINE R == Restocked(B, A, ids)
<1>1. R = [id \in DOMAIN B \cup ids |-> IF id \in ids THEN A[id] ELSE B[id]]
  BY DEF Restocked, Captured, Over
<1>2. DOMAIN R = DOMAIN B \cup ids /\ R = [id \in DOMAIN R |-> R[id]]
      /\ \A id \in DOMAIN R : R[id] = IF id \in ids THEN A[id] ELSE B[id]
  BY <1>1
<1> HIDE DEF R
<1>3. /\ \A id \in DOMAIN A : A[id] = Node(A[id].content, A[id].at)
      /\ \A id \in DOMAIN B : B[id] = Node(B[id].content, B[id].at)
  BY DEF AreNodes
<1>4. \A id \in DOMAIN R : R[id] = Node(R[id].content, R[id].at)
  BY <1>2, <1>3
<1>5. AreNodes(R)
  BY <1>2, <1>4 DEF AreNodes
<1> QED
  BY <1>2, <1>5 DEF R, Restocks

(* A subtree taken out with its nodes, put back where it was.              *)
LEMMA ReinsertMirrors ==
  ASSUME NEW u, IsDocument(u), NEW o, NEW k, NEW t, Sits(Structure(u), o, k, t),
         IsOwner(Structure(u), o),
         NEW s, IsDocument(s), Structure(s) = Purged(Structure(u), o, k, t)
  PROVE  \E w : /\ Mirrors(Reinsert(s, ParentSet(o), k, t,
                                    Captured(u.arena, Gone(Structure(u), t))), w)
                /\ Matches(w, Structure(u))
<1> DEFINE z == Structure(u)
           y == Purged(z, o, k, t)
           G == Gone(z, t)
           nodes == Captured(u.arena, G)
           R == Restocked(s.arena, u.arena, G)
           stored == [s EXCEPT !.arena = R]
           v == Filled(y, Contents(R))
           row == RemoveAt(Row(z, o), k)
           w == Respin(v, o, Row(z, o))
<1>1. IsOutline(z) /\ IsBuilt(z) /\ Named(z, o, k, t)
  BY DocumentHas DEF Sits
<1>2. /\ y.definitions = z.definitions /\ y.points = z.points /\ y.density = z.density
      /\ y.roots = (IF o = 1 THEN row ELSE z.roots)
      /\ DOMAIN y.arena = DOMAIN z.arena \ G
      /\ \A id \in DOMAIN z.arena \ G :
           y.arena[id] = (IF id = o /\ o # 1 THEN Group(row) ELSE z.arena[id])
      /\ t \in DOMAIN z.arena /\ k \in 1 .. Len(Row(z, o)) /\ Row(z, o)[k] = t
      /\ Loses(z, y, o, k, t, G)
  BY <1>1, PurgedHas
<1>3. o \notin G
  BY <1>1, OwnerStays
<1>4. G \subseteq DOMAIN z.arena
  BY <1>1, <1>2, GoneIs
<1>5. /\ Row(z, o) \in Seq(Nat) /\ (o = 1 \/ o \in DOMAIN z.arena) /\ o \in Nat /\ o >= 1
  BY <1>1, OwnerRow
<1>6. InsertAt(row, k, t) = Row(z, o) /\ row \in Seq(Nat)
  BY <1>2, <1>5, InsertRemoved, RemoveAtIs
<1>7. o # 1 => z.arena[o] = Group(Row(z, o))
  BY <1>1, OwnedGroup
<1>8. o = 1 => Row(z, o) = z.roots
  BY DEF Row
<1>9. z.arena = [id \in DOMAIN z.arena |-> z.arena[id]]
  BY <1>1, BuiltFacts
<1>10. /\ AreNodes(u.arena) /\ DOMAIN u.arena = DOMAIN z.arena
       /\ \A id \in DOMAIN u.arena : z.arena[id] = u.arena[id].content
  BY FrameHas DEF IsDocument
<1>11. /\ IsFrame(s) /\ IsMade(s) /\ AreNodes(s.arena) /\ DOMAIN s.arena = DOMAIN y.arena
       /\ \A id \in DOMAIN s.arena : y.arena[id] = s.arena[id].content
       /\ s.roots = y.roots
  BY FrameHas DEF IsDocument
<1>a. Structure(s) = y
  OBVIOUS
<1> HIDE DEF z, y, G
<1>12. /\ AreNodes(R) /\ DOMAIN R = DOMAIN s.arena \cup G
       /\ \A id \in G : R[id] = u.arena[id]
       /\ \A id \in DOMAIN s.arena \ G : R[id] = s.arena[id]
  <2> DEFINE A == u.arena
             B == s.arena
  <2>1. G \subseteq DOMAIN A /\ AreNodes(A) /\ AreNodes(B) /\ R = Restocked(B, A, G)
    BY <1>4, <1>10, <1>11
  <2> HIDE DEF A, B, R
  <2>2. Restocks(R, B, A, G)
    BY <2>1, RestockedHas
  <2> QED
    BY <2>2 DEF Restocks, A, B
<1>13. Reinsert(s, ParentSet(o), k, t, nodes)
         = Respun(stored, ParentSet(o), InsertAt(Siblings(stored, ParentSet(o)), k, t))
  BY DEF Reinsert, Restocked
<1> HIDE DEF R, row
<1>14. Mirrors(stored, v)
  <2>1. stored = Filled(s, R)
    BY <1>11, PutArena
  <2>2. Mirrors(Filled(s, R), Filled(Structure(s), Contents(R)))
    BY <1>11, <1>12, FilledFrame
  <2> QED
    BY <1>a, <2>1, <2>2
<1>15. stored.arena = R /\ stored.roots = s.roots
  BY <1>11 DEF IsMade, Make
<1> HIDE DEF stored, nodes
<1>16. DOMAIN R = DOMAIN z.arena
  BY <1>2, <1>4, <1>11, <1>12
<1>17. \A id \in DOMAIN R :
         R[id].content = IF id = o /\ o # 1 THEN Group(row) ELSE z.arena[id]
  BY <1>2, <1>3, <1>10, <1>11, <1>12, <1>16
<1>18. o = 1 \/ IsGroup(stored, o)
  <2>1. Group(row).kind = "group"
    BY <1>6, GroupHas
  <2> QED
    BY <1>5, <1>15, <1>16, <1>17, <2>1 DEF IsGroup
<1>19. Siblings(stored, ParentSet(o)) = row
  <2>1. CASE o = 1
    BY <1>2, <1>11, <1>15, <2>1 DEF Siblings, ParentSet
  <2>2. CASE o # 1
    <3>1. (CHOOSE g \in {o} : TRUE) = o
      BY OnlyOne
    <3>2. Siblings(stored, ParentSet(o)) = R[o].content.children
      BY <1>15, <2>2, <3>1 DEF Siblings, ParentSet
    <3>3. R[o].content = Group(row)
      BY <1>5, <1>16, <1>17, <2>2
    <3>4. Group(row).children = row
      BY <1>6, GroupHas
    <3> QED
      BY <3>2, <3>3, <3>4
  <2> QED
    BY <2>1, <2>2
<1>20. Mirrors(Reinsert(s, ParentSet(o), k, t, nodes), w)
  <2>1. Reinsert(s, ParentSet(o), k, t, nodes) = Respun(stored, ParentSet(o), Row(z, o))
    BY <1>6, <1>13, <1>19
  <2> HIDE DEF v
  <2> QED
    BY <1>14, <1>18, <2>1, MirrorPuts
<1>21. /\ IsMade(v) /\ v.arena = Contents(R) /\ v.roots = y.roots /\ v.definitions = y.definitions
       /\ v.points = y.points /\ v.density = y.density
  <2> DEFINE C == Contents(R)
  <2> HIDE DEF C
  <2> QED
    BY MakeHas DEF Filled, C
<1>22. DOMAIN v.arena = DOMAIN z.arena /\ \A id \in DOMAIN z.arena : v.arena[id] = R[id].content
  BY <1>16, <1>21, ContentsHas
<1> HIDE DEF v
<1>23. o = 1 \/ o \in DOMAIN v.arena
  BY <1>5, <1>22
<1>24. /\ IsMade(w) /\ w.definitions = v.definitions
       /\ w.points = v.points
       /\ w.density = v.density
       /\ w.roots = IF o = 1 THEN Row(z, o) ELSE v.roots
       /\ DOMAIN w.arena = DOMAIN v.arena
       /\ \A id \in DOMAIN v.arena :
            w.arena[id] = IF id = o /\ o # 1 THEN Group(Row(z, o)) ELSE v.arena[id]
  BY <1>23, RespinHas
<1>25. w.arena = [id \in DOMAIN w.arena |-> w.arena[id]]
  <2>1. CASE o = 1
    BY <1>21, <2>1 DEF Respin, Rooted, Make, Contents
  <2>2. CASE o # 1
    <3>1. w.arena = With(v.arena, o, Group(Row(z, o)))
      BY <2>2 DEF Respin, PutIn, Filled, Make
    <3> HIDE DEF w
    <3> QED
      BY <3>1 DEF With
  <2> QED
    BY <2>1, <2>2
<1> HIDE DEF w
<1>26. \A id \in DOMAIN z.arena : w.arena[id] = z.arena[id]
  BY <1>7, <1>16, <1>17, <1>22, <1>24
<1>27. w.arena = z.arena
  BY <1>9, <1>22, <1>24, <1>25, <1>26
<1>28. w.roots = z.roots
  BY <1>2, <1>8, <1>21, <1>24
<1>29. Matches(w, z)
  BY <1>2, <1>21, <1>24, <1>27, <1>28 DEF Matches
<1> QED
  BY <1>20, <1>29 DEF nodes, G, z

(* Reinserting the captured subtree at its place undoes RemoveNode.         *)
LEMMA RemoveReturns ==
  ASSUME NEW u, IsDocument(u), NEW i, i.kind = "RemoveNode"
  PROVE  Returns(u, i)
<1> DEFINE z == Structure(u)
           t == i.target
           o == OwnerOf(z, t)
           k == SlotOf(z, t)
           nodes == Captured(u.arena, Gone(z, t))
           inverse == [kind |-> "InsertSubtree", parent |-> ParentSet(o), index |-> k, root |-> t,
                       nodes |-> nodes]
<1>1. IsOutline(z) /\ Tree(u) = TreeOf(z)
  BY DocumentHas
<1>2. CaptureInverse(u, i) = CaptureRemove(u, t)
  BY CaptureIs
<1>3. Edited(z, i) = IF t \in TreeOf(z) THEN Purged(z, o, k, t) ELSE z
  BY EditedIs
<1> HIDE DEF t
<1>4. CASE t \in TreeOf(z)
  <2>1. Sits(z, o, k, t) /\ IsOwner(z, o)
    BY <1>1, <1>4, SlotHas
  <2>2. /\ ParentOf(u, t) = ParentSet(o) /\ Siblings(u, ParentOf(u, t)) = Row(z, o)
        /\ Position(Row(z, o), t) = k
    BY <2>1, SlotParent
  <2>3. Under(u.arena, {t}) = Gone(z, t)
    BY SceneBelow DEF Gone
  <2>4. CaptureRemove(u, t) = inverse
    BY <1>1, <1>4, <2>2, <2>3 DEF CaptureRemove, Captured
  <2>5. \A s : ApplyInverse(s, inverse) = Reinsert(s, ParentSet(o), k, t, nodes)
    BY DEF ApplyInverse
  <2>6. Edited(z, i) = Purged(z, o, k, t)
    BY <1>3, <1>4
  <2> HIDE DEF o, k, inverse
  <2>7. ASSUME NEW s, IsDocument(s), Structure(s) = Purged(z, o, k, t)
        PROVE Mirrors(ReverseCommand(s, Command(u, i)), z)
    <3>1. PICK w : /\ Mirrors(Reinsert(s, ParentSet(o), k, t, nodes), w)
                   /\ Matches(w, z)
      BY <2>1, <2>7, ReinsertMirrors
    <3>2. Mirrors(ApplyInverse(s, CaptureInverse(u, i)), w)
      BY <1>2, <2>4, <2>5, <3>1
    <3> QED
      BY <3>1, <3>2, Rewound1
  <2> QED
    BY <2>6, <2>7 DEF Returns
<1>5. CASE t \notin TreeOf(z)
  <2>1. CaptureInverse(u, i) = NoOp
    BY <1>1, <1>2, <1>5 DEF CaptureRemove
  <2> QED
    BY <1>3, <1>5, <2>1, NoOpReturns
<1> QED
  BY <1>4, <1>5

(* The list without a definition is the last of a walk over it.            *)
LEMMA KeepWalk ==
  ASSUME NEW list, NEW def, Len(list) \in Nat
  PROVE  \E f : /\ IsWalk("keep", [list |-> list, def |-> def], <<>>, Len(list), f)
                /\ WithoutDef(list, def) = f[Len(list)]
<1> DEFINE n == Len(list)
           given == [list |-> list, def |-> def]
           Keep(kept, k) == IF list[k].id = def THEN kept ELSE Append(kept, list[k])
           P(f) == f = [k \in 0 .. n |->
                     IF k = 0 THEN <<>>
                     ELSE CHOOSE after \in {Keep(before, k) : before \in {f[k - 1]}} : TRUE]
           at == CHOOSE f : P(f)
<1>1. WithoutDef(list, def) = at[n]
  BY DEF WithoutDef, Walk
<1>2. \A f : IsWalk("keep", given, <<>>, n, f) <=> P(f)
  <2> TAKE f
  <2>1. ASSUME NEW k \in 0 .. n
        PROVE (CHOOSE after \in {Keep(before, k) : before \in {f[k - 1]}} : TRUE) = Take("keep", given, f[k - 1], k)
    <3>1. {Keep(before, k) : before \in {f[k - 1]}} = {Keep(f[k - 1], k)}
      OBVIOUS
    <3>2. Take("keep", given, f[k - 1], k) = Keep(f[k - 1], k)
      BY DEF Take
    <3> HIDE DEF Keep
    <3> QED
      BY <3>1, <3>2, OnlyOne
  <2> HIDE DEF Keep
  <2> QED
    BY <2>1, Zenon DEF IsWalk
<1>3. \E f : P(f)
  <2>1. CanWalk("keep", given, <<>>, n)
    BY WalkExists
  <2> HIDE DEF P
  <2> QED
    BY <1>2, <2>1, Zenon DEF CanWalk
<1> HIDE DEF P
<1>4. P(at)
  BY <1>3, Zenon
<1> QED
  BY <1>1, <1>2, <1>4

(* Dropping by id the definition just appended leaves the list as it was.   *)
LEMMA ListShrinks ==
  ASSUME NEW d \in Seq([id : Nat, children : Seq(Nat)]), NEW def \in Nat, NEW row \in Seq(Nat),
         Unused(d, def)
  PROVE  WithoutDef(Append(d, Entry(def, row)), def) = d
<1> DEFINE T == [id : Nat, children : Seq(Nat)]
           list == Append(d, Entry(def, row))
           m == Len(d)
           given == [list |-> list, def |-> def]
<1>1. Len(list) = m + 1 /\ m \in Nat /\ list[m + 1] = Entry(def, row)
      /\ \A e \in DOMAIN d : e # m + 1 /\ list[e] = d[e]
  BY ListGrows
<1>a. DOMAIN d = 1 .. m
  OBVIOUS
<1>2. \A e \in 1 .. m : d[e] \in T /\ d[e].id \in Nat /\ d[e].id < def
  <2> TAKE e \in 1 .. m
  <2>1. d[e] \in T
    <3> HIDE DEF T
    <3> QED
      BY ElementOfSeq DEF T
  <2>2. d[e].id \in Nat /\ d[e].id < def
    BY <1>a, DefinitionTyped DEF Unused
  <2> QED
    BY <2>1, <2>2
<1> HIDE DEF T, list, m
<1>3. PICK f : IsWalk("keep", given, <<>>, m + 1, f) /\ WithoutDef(list, def) = f[m + 1]
  BY <1>1, KeepWalk
<1>4. f[0] = <<>> /\ \A k \in 1 .. m + 1 :
        f[k] = IF list[k].id = def THEN f[k - 1] ELSE Append(f[k - 1], list[k])
  <2>1. \A b, k : Take("keep", given, b, k) = IF list[k].id = def THEN b ELSE Append(b, list[k])
    BY DEF Take
  <2> DEFINE none == <<>>
             n == m + 1
  <2>2. n \in Nat /\ IsWalk("keep", given, none, n, f)
    BY <1>1, <1>3
  <2> HIDE DEF given, none, n
  <2>3. f[0] = none /\ \A k \in 1 .. n : f[k] = Take("keep", given, f[k - 1], k)
    BY <2>2 DEF IsWalk
  <2> QED
    BY <2>1, <2>3 DEF none, n
<1>5. \A e \in 1 .. m : list[e].id # def /\ list[e] = d[e]
  <2> TAKE e \in 1 .. m
  <2>1. list[e] = d[e]
    BY <1>1, <1>a
  <2>2. d[e].id < def /\ d[e].id \in Nat
    BY <1>2
  <2> QED
    BY <2>1, <2>2
<1> DEFINE First(s, k) == s \in Seq(T) /\ Len(s) = k /\ \A j \in 1 .. k : s[j] = d[j]
           S == {k \in 0 .. m : First(f[k], k)}
<1>6. 0 \in S
  <2>1. First(f[0], 0)
    BY <1>4
  <2> HIDE DEF First
  <2> QED
    BY <1>1, <2>1
<1>7. ASSUME NEW k \in 1 .. m, k - 1 \in S PROVE k \in S
  <2>0. k \in 1 .. m + 1 /\ k \in Nat /\ k - 1 \in 0 .. m
    BY <1>1
  <2>1. f[k] = Append(f[k - 1], d[k]) /\ d[k] \in T
    BY <1>2, <1>4, <1>5, <2>0
  <2>2. f[k - 1] \in Seq(T) /\ Len(f[k - 1]) = k - 1 /\ \A j \in 1 .. k - 1 : f[k - 1][j] = d[j]
    BY <1>7
  <2> DEFINE s == f[k - 1]
  <2>3. Append(s, d[k]) \in Seq(T) /\ Len(Append(s, d[k])) = k
        /\ \A j \in 1 .. k : Append(s, d[k])[j] = IF j = k THEN d[k] ELSE s[j]
    <3>1. s \in Seq(T) /\ Len(s) = k - 1
      BY <2>2
    <3> HIDE DEF s
    <3> QED
      BY <2>1, <3>1
  <2>4. First(Append(s, d[k]), k)
    <3> HIDE DEF s
    <3>1. \A j \in 1 .. k : Append(s, d[k])[j] = d[j]
      <4> TAKE j \in 1 .. k
      <4>1. CASE j = k
        BY <2>3, <4>1
      <4>2. CASE j # k
        <5>1. j \in 1 .. k - 1
          BY <2>0, <4>2
        <5> QED
          BY <2>2, <2>3, <4>2, <5>1 DEF s
      <4> QED
        BY <4>1, <4>2
    <3> QED
      BY <2>3, <3>1
  <2>5. First(f[k], k)
    BY <2>1, <2>4
  <2> HIDE DEF First
  <2> QED
    BY <1>1, <2>5
<1>8. \A k \in 0 .. m : k \in S
  <2> HIDE DEF S
  <2> QED
    BY <1>1, <1>6, <1>7, Induct
<1>9. First(f[m], m)
  BY <1>1, <1>8
<1>10. f[m] = d
  <2> DEFINE s == f[m]
  <2>1. s \in Seq(T) /\ Len(s) = m /\ \A j \in 1 .. m : s[j] = d[j]
    BY <1>9
  <2>2. d \in Seq(T) /\ Len(d) = m
    BY DEF T, m
  <2> HIDE DEF s, T
  <2> QED
    BY <1>1, <2>1, <2>2, SeqEqual DEF s
<1>11. f[m + 1] = f[m]
  <2>1. list[m + 1].id = def
    BY <1>1 DEF Entry
  <2> QED
    BY <1>1, <1>4, <2>1
<1> QED
  BY <1>3, <1>10, <1>11 DEF list

(* The inverse of MakeDefinition, write by write on the structure.          *)
LEMMA UndefineMirrors ==
  ASSUME NEW s, IsDocument(s), NEW t \in DOMAIN s.arena, NEW c, NEW def, NEW ids,
         NEW inverse, inverse.node = t, inverse.prior = c, inverse.def = def, inverse.body = ids
  PROVE  Mirrors(UndoMakeDefinition(s, inverse), Undefined(Structure(s), t, c, def, ids))
<1> DEFINE y == Structure(s)
           v == [s EXCEPT !.arena[t].content = c]
           d == WithoutDef(y.definitions, def)
           x == [v EXCEPT !.definitions = d]
<1>1. Mirrors(s, y) /\ s.definitions = y.definitions
  BY DocumentHas, SceneHas
<1>2. Mirrors(v, PutIn(y, t, c))
  BY <1>1, MirrorPuts
<1>3. UndoMakeDefinition(s, inverse) = Drop([v EXCEPT !.definitions = WithoutDef(v.definitions, def)], ids)
  BY DEF UndoMakeDefinition
<1> HIDE DEF y, v
<1>4. v.definitions = y.definitions
  BY <1>2, MirrorsIs DEF PutIn, Filled, Make
<1>5. UndoMakeDefinition(s, inverse) = Drop(x, ids)
  BY <1>3, <1>4
<1> HIDE DEF d
<1>6. Mirrors(x, Defining(PutIn(y, t, c), d))
  BY <1>2, MirrorWrites
<1> HIDE DEF x
<1>7. Mirrors(Drop(x, ids), TakenOut(Defining(PutIn(y, t, c), d), ids))
  BY <1>6, MirrorWrites
<1> QED
  BY <1>5, <1>7 DEF Undefined, d, y

(* y came of z by moving the content c of t away: it is put back.          *)
LEMMA UndefinedBack ==
  ASSUME NEW z, IsBuilt(z), NEW t \in DOMAIN z.arena, NEW y, NEW row \in Seq(Nat), NEW ids,
         y.roots = z.roots, y.points = z.points, y.density = z.density,
         y.definitions = Append(z.definitions, Entry(NextDefId(z), row)),
         DOMAIN y.arena = DOMAIN z.arena \cup ids, ids \cap DOMAIN z.arena = {},
         \A id \in DOMAIN z.arena : id # t => y.arena[id] = z.arena[id]
  PROVE  Matches(Undefined(y, t, z.arena[t], NextDefId(z), ids), z)
<1> DEFINE c == z.arena[t]
           def == NextDefId(z)
           v == PutIn(y, t, c)
           d == WithoutDef(y.definitions, def)
           w == TakenOut(Defining(v, d), ids)
<1>1. z.definitions \in Seq([id : Nat, children : Seq(Nat)]) /\ z.arena = [id \in DOMAIN z.arena |-> z.arena[id]]
  BY DEF IsBuilt
<1>2. def \in Nat /\ Unused(z.definitions, def)
  BY <1>1, NextDefIs DEF Unused
<1>3. d = z.definitions
  <2> HIDE DEF def
  <2>1. y.definitions = Append(z.definitions, Entry(def, row))
    BY DEF def
  <2> QED
    BY <1>1, <1>2, <2>1, ListShrinks
<1>4. t \in DOMAIN y.arena
  OBVIOUS
<1> HIDE DEF d, c
<1>5. /\ v.roots = y.roots /\ v.points = y.points /\ v.density = y.density
      /\ DOMAIN v.arena = DOMAIN y.arena /\ v.arena[t] = c
      /\ \A id \in DOMAIN y.arena : id # t => v.arena[id] = y.arena[id]
  BY <1>4, PutInHas
<1> HIDE DEF v
<1> DEFINE x == Defining(v, d)
<1>6. /\ x.roots = v.roots /\ x.points = v.points /\ x.density = v.density /\ x.definitions = d
      /\ x.arena = v.arena
  BY DEF Defining, Make
<1> HIDE DEF x
<1>7. /\ IsMade(w) /\ w.arena = Without(x.arena, ids)
      /\ w.roots = x.roots /\ w.definitions = x.definitions
      /\ w.points = x.points
      /\ w.density = x.density
      /\ DOMAIN w.arena = DOMAIN x.arena \ ids
      /\ \A id \in DOMAIN x.arena \ ids : w.arena[id] = x.arena[id]
  <2>1. w = TakenOut(x, ids)
    BY DEF x
  <2> HIDE DEF w
  <2> QED
    BY <2>1, TakenHas
<1> HIDE DEF w
<1>8. w.arena = [id \in DOMAIN w.arena |-> w.arena[id]]
  BY <1>7 DEF Without
<1>9. DOMAIN w.arena = DOMAIN z.arena
  BY <1>4, <1>5, <1>6, <1>7
<1>10. \A id \in DOMAIN z.arena : w.arena[id] = z.arena[id]
  BY <1>4, <1>5, <1>6, <1>7, <1>9 DEF c
<1>11. w.arena = z.arena
  BY <1>1, <1>8, <1>9, <1>10
<1>12. Matches(w, z)
  BY <1>3, <1>5, <1>6, <1>7, <1>11 DEF Matches
<1> QED
  BY <1>12 DEF Undefined, w, x, v, d, c, def

(* UndoMakeDefinition undoes MakeDefinition, of a group and of any other    *)
(* body.                                                                    *)
LEMMA DefinitionReturns ==
  ASSUME NEW u, IsDocument(u), NEW i, i.kind = "MakeDefinition"
  PROVE  Returns(u, i)
<1> DEFINE z == Structure(u)
           t == i.target
           c == z.arena[t]
           def == NextDefId(z)
           ids == IF c.kind = "group" THEN {} ELSE {z.next}
           inverse == [kind |-> "UndoMakeDefinition", node |-> t, prior |-> c, def |-> def, body |-> ids]
           y == Edited(z, i)
<1>1. /\ IsOutline(z) /\ IsBuilt(z) /\ u.next = z.next /\ u.definitions = z.definitions
      /\ (t \in DOMAIN u.arena <=> t \in DOMAIN z.arena)
      /\ (t \in DOMAIN u.arena => c = u.arena[t].content)
  BY SceneHas, DocumentHas
<1>2. CaptureInverse(u, i) = CaptureMakeDefinition(u, t)
  BY CaptureIs
<1>3. Edited(z, i) = IF t \notin DOMAIN z.arena THEN z
                     ELSE IF z.arena[t].kind = "group" THEN Donated(z, t) ELSE Bodied(z, t)
  BY EditedIs
<1> HIDE DEF t
<1>4. CASE t \in DOMAIN z.arena
  <2>1. NextDefId(u) = def
    BY <1>1 DEF NextDefId
  <2> HIDE DEF def
  <2>2. CaptureMakeDefinition(u, t) = inverse
    BY <1>1, <1>4, <2>1 DEF CaptureMakeDefinition
  <2> HIDE DEF z
  <2>3. /\ y.roots = z.roots /\ y.points = z.points /\ y.density = z.density
        /\ \E row \in Seq(Nat) : y.definitions = Append(z.definitions, Entry(def, row))
        /\ DOMAIN y.arena = DOMAIN z.arena \cup ids /\ ids \cap DOMAIN z.arena = {}
        /\ \A id \in DOMAIN z.arena : id # t => y.arena[id] = z.arena[id]
    <3>1. CASE c.kind = "group"
      <4> DEFINE row == z.arena[t].children
                 g == Donated(z, t)
      <4>1. row \in Seq(Nat)
        BY <1>1, <1>4, <3>1, GroupIs DEF IsBuilt
      <4>2. y = g /\ ids = {}
        BY <1>3, <1>4, <3>1
      <4> HIDE DEF y, ids
      <4>3. /\ g.roots = z.roots /\ g.points = z.points /\ g.density = z.density
            /\ g.definitions = Append(z.definitions, Entry(def, row))
            /\ DOMAIN g.arena = DOMAIN z.arena
            /\ \A id \in DOMAIN z.arena : id # t => g.arena[id] = z.arena[id]
        BY <1>1, <1>4, <3>1, DonatedHas DEF def
      <4> HIDE DEF g, row
      <4> QED
        BY <4>1, <4>2, <4>3
    <3>2. CASE c.kind # "group"
      <4> DEFINE row == Sole(z.next)
                 g == Bodied(z, t)
      <4>1. row \in Seq(Nat)
        <5>1. z.next \in Nat
          BY <1>1, BuiltFacts
        <5> QED
          BY <5>1 DEF Sole
      <4>2. y = g /\ ids = {z.next}
        BY <1>3, <1>4, <3>2
      <4> HIDE DEF y, ids
      <4>3. /\ g.roots = z.roots /\ g.points = z.points /\ g.density = z.density
            /\ g.definitions = Append(z.definitions, Entry(def, row))
            /\ DOMAIN g.arena = DOMAIN z.arena \cup {z.next}
            /\ z.next \notin DOMAIN z.arena
            /\ \A id \in DOMAIN z.arena : id # t => g.arena[id] = z.arena[id]
        BY <1>1, <1>4, <3>2, BodiedHas DEF def
      <4> HIDE DEF g, row
      <4> QED
        BY <4>1, <4>2, <4>3
    <3> QED
      BY <3>1, <3>2
  <2> HIDE DEF y, ids
  <2>4. Matches(Undefined(y, t, c, def, ids), z)
    <3>1. PICK row \in Seq(Nat) : y.definitions = Append(z.definitions, Entry(NextDefId(z), row))
      BY <2>3 DEF def
    <3> QED
      BY <1>1, <1>4, <2>3, <3>1, UndefinedBack DEF def
  <2>5. inverse.node = t /\ inverse.prior = c /\ inverse.def = def /\ inverse.body = ids
        /\ inverse.kind = "UndoMakeDefinition"
    OBVIOUS
  <2> HIDE DEF inverse, c
  <2>6. ASSUME NEW s, IsDocument(s), Structure(s) = y
        PROVE Mirrors(ReverseCommand(s, Command(u, i)), z)
    <3>1. t \in DOMAIN s.arena
      <4>1. t \in DOMAIN y.arena
        BY <1>4, <2>3
      <4> QED
        BY <2>6, <4>1, DocumentHas
    <3>2. Mirrors(UndoMakeDefinition(s, inverse), Undefined(y, t, c, def, ids))
      BY <2>5, <2>6, <3>1, UndefineMirrors
    <3>3. ApplyInverse(s, inverse) = UndoMakeDefinition(s, inverse)
      BY <2>5 DEF ApplyInverse
    <3>4. Mirrors(ApplyInverse(s, CaptureInverse(u, i)), Undefined(y, t, c, def, ids))
      BY <1>2, <2>2, <3>2, <3>3
    <3> QED
      BY <2>4, <3>4, Rewound1 DEF z
  <2> QED
    BY <2>6 DEF Returns, y, z
<1>5. CASE t \notin DOMAIN z.arena
  <2>1. CaptureInverse(u, i) = NoOp
    BY <1>1, <1>2, <1>5 DEF CaptureMakeDefinition
  <2> QED
    BY <1>3, <1>5, <2>1, NoOpReturns
<1> QED
  BY <1>4, <1>5

(* A field written, and written back.                                      *)
LEMMA PaintedBack ==
  ASSUME NEW z, IsOutline(z), NEW t, NEW m
  PROVE  /\ IsKind(z, t, {"tool", "sketch"}) =>
              Matches(Repainted(Repainted(z, t, m), t, z.arena[t].material), z)
         /\ IsKind(z, t, {"sketch"}) =>
              Matches(Resketched(Resketched(z, t, m), t, z.arena[t].producer), z)
<1> DEFINE c == z.arena[t]
<1>1. z.arena = [id \in DOMAIN z.arena |-> z.arena[id]] /\ \A id \in DOMAIN z.arena : IsContent(z.arena[id])
  BY DEF IsOutline, IsBuilt
<1>2. ASSUME NEW d, t \in DOMAIN z.arena PROVE Matches(PutIn(PutIn(z, t, d), t, c), z)
  <2> DEFINE y == PutIn(z, t, d)
             w == PutIn(y, t, c)
  <2>1. /\ y.roots = z.roots /\ y.definitions = z.definitions
        /\ y.points = z.points /\ y.density = z.density
        /\ DOMAIN y.arena = DOMAIN z.arena
        /\ \A id \in DOMAIN z.arena : id # t => y.arena[id] = z.arena[id]
    BY <1>2, PutInHas
  <2> HIDE DEF y
  <2>2. t \in DOMAIN y.arena
    BY <1>2, <2>1
  <2> HIDE DEF c
  <2>3. /\ IsMade(w) /\ w.arena = With(y.arena, t, c)
        /\ w.roots = y.roots /\ w.definitions = y.definitions
        /\ w.points = y.points /\ w.density = y.density
        /\ DOMAIN w.arena = DOMAIN y.arena /\ w.arena[t] = c
        /\ \A id \in DOMAIN y.arena : id # t => w.arena[id] = y.arena[id]
    BY <2>2, PutInHas
  <2> HIDE DEF w
  <2>4. w.arena = [id \in DOMAIN w.arena |-> w.arena[id]]
    BY <2>3 DEF With
  <2>5. w.arena = z.arena
    BY <1>1, <2>1, <2>3, <2>4 DEF c
  <2> QED
    BY <2>1, <2>3, <2>5 DEF Matches, w, y
<1>3. ASSUME IsKind(z, t, {"tool", "sketch"})
      PROVE Matches(Repainted(Repainted(z, t, m), t, c.material), z)
  <2> DEFINE d == [c EXCEPT !.material = m]
  <2>1. t \in DOMAIN z.arena /\ c.kind \in {"tool", "sketch"} /\ IsContent(c)
    BY <1>1, <1>3 DEF IsKind
  <2>2. [d EXCEPT !.material = c.material] = c
    BY <2>1, PaintedContent
  <2>3. Repainted(z, t, m) = PutIn(z, t, d)
    BY DEF Repainted
  <2> HIDE DEF d
  <2>4. PutIn(z, t, d).arena[t] = d
    BY <2>1, PutInHas
  <2>5. Repainted(PutIn(z, t, d), t, c.material) = PutIn(PutIn(z, t, d), t, c)
    BY <2>2, <2>4 DEF Repainted
  <2> QED
    BY <1>2, <2>1, <2>3, <2>5
<1>4. ASSUME IsKind(z, t, {"sketch"})
      PROVE Matches(Resketched(Resketched(z, t, m), t, c.producer), z)
  <2> DEFINE d == [c EXCEPT !.producer = m]
  <2>1. t \in DOMAIN z.arena /\ c.kind = "sketch" /\ IsContent(c)
    BY <1>1, <1>4 DEF IsKind
  <2>2. [d EXCEPT !.producer = c.producer] = c
    BY <2>1, PaintedContent
  <2>3. Resketched(z, t, m) = PutIn(z, t, d)
    BY DEF Resketched
  <2> HIDE DEF d
  <2>4. PutIn(z, t, d).arena[t] = d
    BY <2>1, PutInHas
  <2>5. Resketched(PutIn(z, t, d), t, c.producer) = PutIn(PutIn(z, t, d), t, c)
    BY <2>2, <2>4 DEF Resketched
  <2> QED
    BY <1>2, <2>1, <2>3, <2>5
<1> QED
  BY <1>3, <1>4

(* What a field inverse lands, as any intent does.                         *)
LEMMA FieldReturns ==
  ASSUME NEW u, IsDocument(u), NEW i, NEW j,
         CaptureInverse(u, i) = Field(j), IsIntent(j),
         Matches(Edited(Edited(Structure(u), i), j), Structure(u))
  PROVE  Returns(u, i)
<1>1. \A t : ApplyInverse(t, Field(j)) = Dispatch(t, j)
  BY DEF ApplyInverse, Field
<1>2. ASSUME NEW t, IsDocument(t), Structure(t) = Edited(Structure(u), i)
      PROVE Mirrors(ReverseCommand(t, Command(u, i)), Structure(u))
  <2>1. Mirrors(Dispatch(t, j), Edited(Structure(t), j))
    BY <1>2, IntentLands DEF Lands
  <2>2. Mirrors(ApplyInverse(t, CaptureInverse(u, i)), Edited(Edited(Structure(u), i), j))
    BY <1>1, <1>2, <2>1
  <2> QED
    BY <2>2, Rewound1
<1> QED
  BY <1>2 DEF Returns

(* Writing the prior value back undoes SetMaterial, SetSketch and           *)
(* SetOffset.                                                               *)
LEMMA FieldsReturn ==
  ASSUME NEW u, IsDocument(u), NEW i, IsIntent(i), i.kind \in FieldWrites
  PROVE  Returns(u, i)
<1> DEFINE z == Structure(u)
           t == i.target
           c == u.arena[t].content
           j == PriorField(u, i)
<1>1. /\ IsOutline(z) /\ (t \in DOMAIN u.arena <=> t \in DOMAIN z.arena)
      /\ (t \in DOMAIN u.arena => z.arena[t] = c)
  BY DocumentHas
<1>2. CaptureInverse(u, i) = IF Writable(u, i) THEN Field(j) ELSE NoOp
  BY CaptureIs
<1>3. CASE i.kind = "SetMaterial"
  <2>1. i = [kind |-> "SetMaterial", target |-> t, material |-> i.material]
    BY <1>3 DEF IsIntent
  <2>2. Writable(u, i) <=> IsKind(z, t, {"tool", "sketch"})
    BY <1>3, WritableIs
  <2>3. Edited(z, i) = IF IsKind(z, t, {"tool", "sketch"}) THEN Repainted(z, t, i.material) ELSE z
    BY <1>3, FieldEdited
  <2> DEFINE b == i.material
             a == c.material
             y == Repainted(z, t, b)
  <2>4. CASE IsKind(z, t, {"tool", "sketch"})
    <3>1. j = [i EXCEPT !.material = a]
      BY <1>3 DEF PriorField
    <3>2. j = [kind |-> "SetMaterial", target |-> t, material |-> a]
      BY <2>1, <3>1
    <3> HIDE DEF j, a, t
    <3>3. j.kind = "SetMaterial" /\ j.target = t /\ j.material = a
      BY <3>2
    <3>4. IsIntent(j)
      BY <3>2, <3>3 DEF IsIntent
    <3>5. IsKind(y, t, {"tool", "sketch"})
      BY <1>1, <2>4, RepaintedOutline
    <3>6. Edited(z, i) = y
      BY <2>3, <2>4
    <3> HIDE DEF y
    <3>7. Edited(y, j) = Repainted(y, t, a)
      BY <3>3, <3>5, FieldEdited
    <3>8. z.arena[t] = c
      BY <1>1, <2>4 DEF IsKind
    <3>9. Matches(Repainted(y, t, a), z)
      BY <1>1, <2>4, <3>8, PaintedBack DEF y, a
    <3>10. CaptureInverse(u, i) = Field(j)
      BY <1>2, <2>2, <2>4
    <3>11. Matches(Edited(Edited(z, i), j), z)
      BY <3>6, <3>7, <3>9
    <3> QED
      BY <3>4, <3>10, <3>11, FieldReturns
  <2>5. CASE ~IsKind(z, t, {"tool", "sketch"})
    BY <1>2, <2>2, <2>3, <2>5, NoOpReturns
  <2> QED
    BY <2>4, <2>5
<1>4. CASE i.kind = "SetSketch"
  <2>1. i = [kind |-> "SetSketch", target |-> t, producer |-> i.producer]
    BY <1>4 DEF IsIntent
  <2>2. Writable(u, i) <=> IsKind(z, t, {"sketch"})
    BY <1>4, WritableIs
  <2>3. Edited(z, i) = IF IsKind(z, t, {"sketch"}) THEN Resketched(z, t, i.producer) ELSE z
    BY <1>4, FieldEdited
  <2> DEFINE b == i.producer
             a == c.producer
             y == Resketched(z, t, b)
  <2>4. CASE IsKind(z, t, {"sketch"})
    <3>1. j = [i EXCEPT !.producer = a]
      BY <1>4 DEF PriorField
    <3>2. j = [kind |-> "SetSketch", target |-> t, producer |-> a]
      BY <2>1, <3>1
    <3> HIDE DEF j, a, t
    <3>3. j.kind = "SetSketch" /\ j.target = t /\ j.producer = a
      BY <3>2
    <3>4. IsIntent(j)
      BY <3>2, <3>3 DEF IsIntent
    <3>5. IsKind(y, t, {"sketch"})
      BY <1>1, <2>4, RepaintedOutline
    <3>6. Edited(z, i) = y
      BY <2>3, <2>4
    <3> HIDE DEF y
    <3>7. Edited(y, j) = Resketched(y, t, a)
      BY <3>3, <3>5, FieldEdited
    <3>8. z.arena[t] = c
      BY <1>1, <2>4 DEF IsKind
    <3>9. Matches(Resketched(y, t, a), z)
      BY <1>1, <2>4, <3>8, PaintedBack DEF y, a
    <3>10. CaptureInverse(u, i) = Field(j)
      BY <1>2, <2>2, <2>4
    <3>11. Matches(Edited(Edited(z, i), j), z)
      BY <3>6, <3>7, <3>9
    <3> QED
      BY <3>4, <3>10, <3>11, FieldReturns
  <2>5. CASE ~IsKind(z, t, {"sketch"})
    BY <1>2, <2>2, <2>3, <2>5, NoOpReturns
  <2> QED
    BY <2>4, <2>5
<1>5. CASE i.kind = "SetOffset"
  <2>1. i = [kind |-> "SetOffset", target |-> t, measure |-> i.measure]
    BY <1>5 DEF IsIntent
  <2>2. Edited(z, i) = z
    BY <1>5, FieldEdited
  <2>3. CASE Writable(u, i)
    <3> DEFINE a == MeasureOf(u.arena[t].at)
    <3>1. j = [i EXCEPT !.measure = a]
      BY <1>5 DEF PriorField
    <3> HIDE DEF a, j
    <3>2. j = [kind |-> "SetOffset", target |-> t, measure |-> a]
      BY <2>1, <3>1
    <3>3. j.kind = "SetOffset" /\ j.target = t /\ j.measure = a
      BY <3>2
    <3>4. IsIntent(j)
      BY <3>2, <3>3 DEF IsIntent
    <3>5. Edited(z, j) = z
      BY <3>3, FieldEdited
    <3>6. Matches(z, z)
      BY SceneHas DEF Matches
    <3>7. CaptureInverse(u, i) = Field(j)
      BY <1>2, <2>3
    <3>8. Matches(Edited(Edited(z, i), j), z)
      BY <2>2, <3>5, <3>6
    <3> QED
      BY <3>4, <3>7, <3>8, FieldReturns
  <2>4. CASE ~Writable(u, i)
    BY <1>2, <2>2, <2>4, NoOpReturns
  <2> QED
    BY <2>3, <2>4
<1> QED
  BY <1>3, <1>4, <1>5 DEF FieldWrites

(* The captured density, RemoveAddedPoint and InsertPoint undo SetDensity,  *)
(* AddPoint and RemovePoint.                                                *)
LEMMA PointsReturn ==
  ASSUME NEW u, IsDocument(u), NEW i, IsIntent(i), i.kind \in {"SetDensity", "AddPoint", "RemovePoint"}
  PROVE  Returns(u, i)
<1> DEFINE z == Structure(u)
           p == z.points
<1>1. /\ IsOutline(z) /\ IsMade(z) /\ u.next = z.next /\ u.points = p /\ u.density = z.density
  BY SceneHas
<1>2. p \in Seq([id : Nat, origin : BOOLEAN]) /\ z.next \in Nat
  BY <1>1 DEF IsOutline, IsBuilt
<1> HIDE DEF z, p
<1>3. CASE i.kind = "SetDensity"
  <2> DEFINE v == z.density
             j == [i EXCEPT !.density = u.density]
  <2>1. i = [kind |-> "SetDensity", density |-> i.density]
    BY <1>3 DEF IsIntent
  <2>2. CaptureInverse(u, i) = Field(j)
    BY <1>3, CaptureIs
  <2>3. j = [kind |-> "SetDensity", density |-> v]
    BY <1>1, <2>1
  <2> HIDE DEF j
  <2>4. j.kind = "SetDensity" /\ j.density = v
    BY <2>3
  <2>5. IsIntent(j)
    BY <2>3, <2>4 DEF IsIntent
  <2>6. Edited(z, i) = Dense(z, i.density)
    BY <1>3, FieldEdited
  <2>7. Edited(Dense(z, i.density), j) = Dense(Dense(z, i.density), v)
    BY <2>4, FieldEdited
  <2>8. Matches(Dense(Dense(z, i.density), v), z)
    BY DEF Dense, Make, Matches, IsMade
  <2> QED
    BY <2>2, <2>5, <2>6, <2>7, <2>8, FieldReturns DEF z
<1>4. CASE i.kind = "AddPoint"
  <2> DEFINE n == Len(p) + 1
             inverse == [kind |-> "RemoveAddedPoint", index |-> n]
             y == Pinned(z)
  <2>1. CaptureInverse(u, i) = inverse
    BY <1>1, <1>4, CaptureIs
  <2>2. Edited(z, i) = y
    BY <1>4, FieldEdited
  <2>3. \A s : ApplyInverse(s, inverse) = [s EXCEPT !.points = RemoveAt(s.points, n)]
    BY DEF ApplyInverse
  <2>4. Point(z.next) \in [id : Nat, origin : BOOLEAN]
    BY <1>2 DEF Point
  <2>5. RemoveAt(Append(p, Point(z.next)), n) = p
    BY <1>2, <2>4, RemoveAppended
  <2>6. y.points = Append(p, Point(z.next))
    BY DEF Pinned, Numbered, Pointing, Make, p
  <2>7. Matches(Pointing(y, p), z)
    BY DEF Pinned, Numbered, Pointing, Make, Matches, IsMade, p
  <2> HIDE DEF inverse, y, n
  <2>8. ASSUME NEW s, IsDocument(s), Structure(s) = y
        PROVE Mirrors(ReverseCommand(s, Command(u, i)), z)
    <3>1. Mirrors(s, y) /\ s.points = y.points
      BY <2>8, DocumentHas, SceneHas
    <3>2. Mirrors([s EXCEPT !.points = p], Pointing(y, p))
      BY <3>1, MirrorWrites
    <3>a. s.points = Append(p, Point(z.next))
      BY <2>6, <3>1
    <3>b. RemoveAt(s.points, n) = p
      BY <2>5, <3>a
    <3>3. ApplyInverse(s, inverse) = [s EXCEPT !.points = p]
      BY <2>3, <3>b
    <3>4. Mirrors(ApplyInverse(s, CaptureInverse(u, i)), Pointing(y, p))
      BY <2>1, <3>2, <3>3
    <3> QED
      BY <2>7, <3>4, Rewound1 DEF z
  <2> QED
    BY <2>2, <2>8 DEF Returns, z
<1>5. CASE i.kind = "RemovePoint"
  <2> DEFINE n == i.index
             inverse == [kind |-> "InsertPoint", index |-> n, point |-> p[n]]
             y == Unpinned(z, n)
  <2>1. CaptureInverse(u, i) = IF Deletable(u, n) THEN inverse ELSE NoOp
    BY <1>1, <1>5, CaptureIs
  <2>2. Edited(z, i) = IF n \in DOMAIN p /\ ~p[n].origin THEN y ELSE z
    BY <1>5, FieldEdited DEF p
  <2>3. Deletable(u, n) <=> n \in DOMAIN p /\ ~p[n].origin
    BY <1>1 DEF Deletable
  <2>4. \A s : ApplyInverse(s, inverse) = [s EXCEPT !.points = InsertAt(s.points, n, p[n])]
    BY DEF ApplyInverse
  <2>5. CASE Deletable(u, n)
    <3>0. n \in 1 .. Len(p)
      BY <1>2, <2>3, <2>5
    <3>1. InsertAt(RemoveAt(p, n), n, p[n]) = p
      BY <1>2, <3>0, InsertRemoved
    <3>2. y.points = RemoveAt(p, n)
      BY DEF Unpinned, Pointing, Make, p
    <3>3. Matches(Pointing(y, p), z)
      BY DEF Unpinned, Pointing, Make, Matches, IsMade, p
    <3>4. Edited(z, i) = y /\ CaptureInverse(u, i) = inverse
      BY <2>1, <2>2, <2>3, <2>5
    <3> HIDE DEF inverse, y, n
    <3>5. ASSUME NEW s, IsDocument(s), Structure(s) = y
          PROVE Mirrors(ReverseCommand(s, Command(u, i)), z)
      <4>1. Mirrors(s, y) /\ s.points = y.points
        BY <3>5, DocumentHas, SceneHas
      <4>2. Mirrors([s EXCEPT !.points = p], Pointing(y, p))
        BY <4>1, MirrorWrites
      <4>3. ApplyInverse(s, inverse) = [s EXCEPT !.points = p]
        BY <2>4, <3>1, <3>2, <4>1
      <4>4. Mirrors(ApplyInverse(s, CaptureInverse(u, i)), Pointing(y, p))
        BY <3>4, <4>2, <4>3
      <4> QED
        BY <3>3, <4>4, Rewound1 DEF z
    <3> QED
      BY <3>4, <3>5 DEF Returns, z
  <2>6. CASE ~Deletable(u, n)
    BY <2>1, <2>2, <2>3, <2>6, NoOpReturns DEF z
  <2> QED
    BY <2>5, <2>6
<1> QED
  BY <1>3, <1>4, <1>5

(* Reversing the command of an intent, over any document with the          *)
(* structure it made, gives the structure it found.                        *)
LEMMA CommandReturns ==
  ASSUME NEW u, IsDocument(u), NEW i, IsIntent(i), NEW t, IsDocument(t),
         Structure(t) = Edited(Structure(u), i)
  PROVE  /\ IsDocument(ReverseCommand(t, Command(u, i)))
         /\ Structure(ReverseCommand(t, Command(u, i))) = Structure(u)
<1>1. Returns(u, i)
  <2>1. i.kind \in {"PlaceNode", "AddChild", "AddInstance", "GroupNode", "RemoveNode", "MakeDefinition",
                    "SetDensity", "AddPoint", "RemovePoint"} \cup FieldWrites
    BY DEF IsIntent, FieldWrites
  <2> QED
    BY <2>1, AddsReturn, GroupReturns, RemoveReturns, DefinitionReturns, FieldsReturn, PointsReturn
<1>2. Mirrors(ReverseCommand(t, Command(u, i)), Structure(u)) /\ IsOutline(Structure(u))
  BY <1>1, DocumentHas DEF Returns
<1> QED
  BY <1>2 DEF Mirrors, IsDocument

(*********** Where the nodes stand ***********)

(* One such change after another.                                           *)
LEMMA PlacesJoin ==
  ASSUME NEW s, NEW u, NEW t, NEW at
  PROVE  /\ Stays(s, u) /\ Stays(u, t) => Stays(s, t)
         /\ Stays(s, u) /\ Leaves(u, t) => Leaves(s, t)
         /\ Stays(s, u) /\ Brings(u, t, at) => Brings(s, t, at)
         /\ Leaves(s, u) /\ Stays(u, t) => Leaves(s, t)
         /\ Brings(s, u, at) /\ Stays(u, t) => Brings(s, t, at)
         /\ Stays(s, t) => Leaves(s, t)
         /\ Leaves(s, t) => Brings(s, t, at)
BY DEF Stays, Leaves, Brings

(* And what comes of it is made of nodes.                                    *)
LEMMA PlacesFrame ==
  ASSUME NEW s, NEW t
  PROVE  /\ Stays(s, t) => IsFrame(t)
         /\ Leaves(s, t) => IsFrame(t)
         /\ \A at : Brings(s, t, at) => IsFrame(t)
BY DEF Stays, Leaves, Brings

(* A scene whose arena alone was rewritten.                                 *)
LEMMA FilledHas ==
  ASSUME NEW s, IsFrame(s), NEW A, AreNodes(A)
  PROVE  IsFrame(Filled(s, A)) /\ Filled(s, A).arena = A /\ Filled(s, A).density = s.density
<1>1. IsFrame(Filled(s, A))
  BY FilledFrame DEF Mirrors
<1> QED
  BY <1>1 DEF Filled, Make

(* A scene is where it is.                                                  *)
LEMMA SameStays ==
  ASSUME NEW s, IsFrame(s)
  PROVE  Stays(s, s)
BY DEF Stays

(* Writing one content moves nothing.                                       *)
LEMMA PaintStays ==
  ASSUME NEW s, IsFrame(s), NEW g \in DOMAIN s.arena, NEW c
  PROVE  Stays(s, [s EXCEPT !.arena[g].content = c])
<1> DEFINE A == [s.arena EXCEPT ![g].content = c]
<1>1. IsMade(s) /\ AreNodes(s.arena)
  BY FrameHas
<1>2. [s EXCEPT !.arena[g].content = c] = Filled(s, A)
  BY <1>1 DEF IsMade, Make, Filled
<1>3. AreNodes(A)
  BY <1>1, ArenaPainted
<1>4. DOMAIN A = DOMAIN s.arena /\ \A id \in DOMAIN s.arena : A[id].at = s.arena[id].at
  <2>1. A = [id \in DOMAIN s.arena |-> IF id = g THEN [s.arena[g] EXCEPT !.content = c] ELSE s.arena[id]]
    BY <1>1 DEF AreNodes
  <2>2. s.arena[g] = Node(s.arena[g].content, s.arena[g].at)
    BY <1>1 DEF AreNodes
  <2>3. [s.arena[g] EXCEPT !.content = c].at = s.arena[g].at
    BY <2>2 DEF Node
  <2> QED
    BY <2>1, <2>3
<1> HIDE DEF A
<1> QED
  BY <1>2, <1>3, <1>4, FilledHas DEF Stays

(* Neither does writing roots, definitions, points or the counter.          *)
LEMMA FieldStays ==
  ASSUME NEW s, IsFrame(s), NEW x
  PROVE  /\ Stays(s, [s EXCEPT !.roots = x])
         /\ Stays(s, [s EXCEPT !.definitions = x])
         /\ Stays(s, [s EXCEPT !.points = x])
         /\ Stays(s, [s EXCEPT !.next = x])
<1>1. IsMade(s)
  BY FrameHas
<1>2. /\ IsFrame([s EXCEPT !.roots = x]) /\ IsFrame([s EXCEPT !.definitions = x])
      /\ IsFrame([s EXCEPT !.points = x]) /\ IsFrame([s EXCEPT !.next = x])
  BY FieldFrame DEF Mirrors
<1>3. \A t \in {[s EXCEPT !.roots = x], [s EXCEPT !.definitions = x], [s EXCEPT !.points = x], [s EXCEPT !.next = x]} :
        t.arena = s.arena /\ t.density = s.density
  BY <1>1 DEF IsMade, Make
<1> QED
  BY <1>2, <1>3 DEF Stays

(* Nor rewriting a row.                                                     *)
LEMMA RespunStays ==
  ASSUME NEW s, IsFrame(s), NEW parent, NEW row
  PROVE  Stays(s, Respun(s, parent, row))
<1>1. CASE parent = {}
  BY <1>1, FieldStays DEF Respun
<1>2. CASE parent # {}
  <2> DEFINE g == CHOOSE g \in parent : TRUE
  <2>1. Respun(s, parent, row) = IF IsGroup(s, g) THEN [s EXCEPT !.arena[g].content = Group(row)] ELSE s
    BY <1>2 DEF Respun
  <2> HIDE DEF g
  <2>2. IsGroup(s, g) => g \in DOMAIN s.arena
    BY DEF IsGroup
  <2> QED
    BY <2>1, <2>2, PaintStays, SameStays
<1> QED
  BY <1>1, <1>2

(* Dropping nodes leaves the others where they are.                         *)
LEMMA DropLeaves ==
  ASSUME NEW s, IsFrame(s), NEW ids
  PROVE  Leaves(s, Drop(s, ids))
<1> DEFINE A == [x \in DOMAIN s.arena \ ids |-> s.arena[x]]
<1>1. IsMade(s) /\ AreNodes(A)
  BY FrameHas, ArenaWithout
<1>2. Drop(s, ids) = Filled(s, A)
  <2>1. Drop(s, ids) = [s EXCEPT !.arena = A]
    BY DEF Drop
  <2> HIDE DEF A
  <2> QED
    BY <1>1, <2>1, PutArena
<1>3. DOMAIN A \subseteq DOMAIN s.arena /\ \A id \in DOMAIN A : A[id] = s.arena[id]
  OBVIOUS
<1> HIDE DEF A
<1> QED
  BY <1>1, <1>2, <1>3, FilledHas DEF Leaves

(* Storing a new node brings it in at its placement.                        *)
LEMMA StoreBrings ==
  ASSUME NEW s, IsFrame(s), NEW id, id \notin DOMAIN s.arena, NEW c, NEW at
  PROVE  Brings(s, Store(s, id, Node(c, at)), at)
<1> DEFINE A == NodeOver(s.arena, id, c, at)
<1>1. IsMade(s) /\ AreNodes(s.arena)
  BY FrameHas
<1>2. AreNodes(A)
  BY <1>1, ArenaWith
<1>3. Store(s, id, Node(c, at)) = Filled(s, A)
  <2>1. Store(s, id, Node(c, at)) = [s EXCEPT !.arena = A]
    BY DEF Store, NodeOver
  <2> HIDE DEF A
  <2> QED
    BY <1>1, <2>1, PutArena
<1>4. DOMAIN A = DOMAIN s.arena \cup {id} /\ A[id].at = at /\ \A x \in DOMAIN s.arena : A[x] = s.arena[x]
  BY DEF NodeOver, Over, Node
<1> HIDE DEF A
<1> QED
  BY <1>2, <1>3, <1>4, FilledHas DEF Brings

(* The next id is no node's.                                                *)
LEMMA NextIsNew ==
  ASSUME NEW s, IsDocument(s)
  PROVE  s.next \notin DOMAIN s.arena /\ IsFrame(s) /\ IsMade(s)
<1>1. IsBuilt(Structure(s)) /\ IsFrame(s) /\ IsMade(s)
  BY DocumentHas
<1>2. DOMAIN Structure(s).arena = DOMAIN s.arena /\ Structure(s).next = s.next
  BY <1>1, FrameHas
<1>3. \A id \in DOMAIN s.arena : id \in Nat /\ id < s.next
  BY <1>1, <1>2, BuiltFacts
<1>4. s.next \in Nat
  BY <1>1, <1>2, BuiltFacts
<1> QED
  BY <1>1, <1>3, <1>4

(* add_node brings in the node alone.                                       *)
LEMMA AddNodeBrings ==
  ASSUME NEW s, IsDocument(s), NEW c, NEW at
  PROVE  Brings(s, AddNode(s, Node(c, at)), at)
<1> DEFINE t == Store(s, s.next, Node(c, at))
           u == [t EXCEPT !.roots = Append(t.roots, s.next)]
           n == s.next + 1
<1>1. Brings(s, t, at)
  BY NextIsNew, StoreBrings
<1>2. AddNode(s, Node(c, at)) = [u EXCEPT !.next = n]
  <2>1. IsMade(t)
    BY <1>1, FrameHas DEF Brings
  <2>2. AddNode(s, Node(c, at)) = [t EXCEPT !.roots = Append(@, s.next), !.next = s.next + 1]
    BY DEF AddNode
  <2> HIDE DEF t
  <2> QED
    BY <2>1, <2>2, WriteRoots
<1> HIDE DEF t
<1>3. Stays(t, u)
  BY <1>1, FieldStays DEF Brings
<1> HIDE DEF u, n
<1>4. Stays(u, [u EXCEPT !.next = n])
  BY <1>3, PlacesFrame, FieldStays
<1> QED
  BY <1>1, <1>2, <1>3, <1>4, PlacesJoin

(* add_child_to_group brings in the child alone.                            *)
LEMMA AddChildBrings ==
  ASSUME NEW s, IsDocument(s), NEW g, IsGroup(s, g), NEW c, NEW at
  PROVE  Brings(s, AddChildToGroup(s, g, Node(c, at)), at)
<1> DEFINE t == Store(s, s.next, Node(c, at))
           n == s.next + 1
           u == [t EXCEPT !.next = n]
           row == Append(u.arena[g].content.children, s.next)
           d == [u.arena[g].content EXCEPT !.children = row]
<1>1. Brings(s, t, at)
  BY NextIsNew, StoreBrings
<1>2. g \in DOMAIN t.arena
  BY DEF IsGroup, Store, Over
<1>a. AddChildToGroup(s, g, Node(c, at)) = [u EXCEPT !.arena[g].content.children = Append(@, s.next)]
  BY DEF AddChildToGroup
<1> HIDE DEF t
<1>3. Stays(t, u)
  BY <1>1, FieldStays DEF Brings
<1> HIDE DEF n, u
<1>4. IsFrame(u) /\ IsMade(u) /\ AreNodes(u.arena) /\ g \in DOMAIN u.arena
  BY <1>2, <1>3, FrameHas DEF Stays
<1>5. [u EXCEPT !.arena[g].content.children = Append(@, s.next)] = [u EXCEPT !.arena[g].content = d]
  <2>1. u.arena[g] = Node(u.arena[g].content, u.arena[g].at)
    BY <1>4 DEF AreNodes
  <2> QED
    BY <1>4, <2>1 DEF IsMade, Make, Node
<1> HIDE DEF d
<1>6. Stays(u, [u EXCEPT !.arena[g].content = d])
  BY <1>4, PaintStays
<1> QED
  BY <1>1, <1>3, <1>5, <1>6, <1>a, PlacesJoin

(* wrap_in_group brings in the group, where groups begin.                   *)
LEMMA WrapBrings ==
  ASSUME NEW s, IsDocument(s), NEW id
  PROVE  Brings(s, WrapInGroup(s, id), Upright)
<1> DEFINE parent == ParentOf(s, id)
           row == ReplaceAll(Siblings(s, parent), id, s.next)
           n == s.next
           u == Respun(s, parent, row)
           v == [u EXCEPT !.next = n + 1]
           c == Group(<<id>>)
<1>1. IsFrame(s) /\ n \notin DOMAIN s.arena
  BY NextIsNew
<1>2. WrapInGroup(s, id) = IF id \notin Tree(s) THEN s ELSE Store(v, n, Node(c, Upright))
  BY DEF WrapInGroup
<1> HIDE DEF parent, row, c
<1>3. Stays(s, u)
  BY <1>1, RespunStays
<1> HIDE DEF u
<1>4. Stays(u, v)
  BY <1>3, PlacesFrame, FieldStays
<1> HIDE DEF v, n
<1>5. Stays(s, v)
  BY <1>3, <1>4, PlacesJoin
<1>6. Brings(v, Store(v, n, Node(c, Upright)), Upright)
  BY <1>1, <1>5, StoreBrings DEF Stays
<1> QED
  BY <1>1, <1>2, <1>5, <1>6, SameStays, PlacesJoin

(* detach_and_purge and the inverse of a grouping leave the rest in place.  *)
LEMMA DetachLeaves ==
  ASSUME NEW s, IsFrame(s), NEW id
  PROVE  Leaves(s, DetachAndPurge(s, id)) /\ \A t : Leaves(s, Ungroup(s, id, t))
<1> DEFINE parent == ParentOf(s, id)
           spine == Siblings(s, parent)
<1>0. Leaves(s, s)
  BY SameStays, PlacesJoin
<1>a. \A row, ids : Leaves(s, Drop(Respun(s, parent, row), ids))
  <2> TAKE row, ids
  <2> DEFINE u == Respun(s, parent, row)
  <2>1. Stays(s, u)
    BY RespunStays
  <2> HIDE DEF u
  <2>2. Leaves(u, Drop(u, ids))
    BY <2>1, DropLeaves DEF Stays
  <2> QED
    BY <2>1, <2>2, PlacesJoin DEF u
<1>1. DetachAndPurge(s, id) = IF id \notin Tree(s) THEN s
        ELSE Drop(Respun(s, parent, RemoveAt(spine, Position(spine, id))), Under(s.arena, {id}))
  BY DEF DetachAndPurge
<1>2. \A t : Ungroup(s, id, t) = IF id \notin Tree(s) THEN s
        ELSE Drop(Respun(s, parent, ReplaceAll(spine, id, t)), {id})
  BY DEF Ungroup
<1> HIDE DEF parent, spine
<1>3. Leaves(s, DetachAndPurge(s, id))
  BY <1>0, <1>a, <1>1
<1>4. \A t : Leaves(s, Ungroup(s, id, t))
  BY <1>0, <1>a, <1>2
<1> QED
  BY <1>3, <1>4

(* make_definition_from brings in a body, where bodies begin.               *)
LEMMA DefinitionBrings ==
  ASSUME NEW s, IsDocument(s), NEW id
  PROVE  Brings(s, MakeDefinitionFrom(s, id), Upright)
<1> DEFINE def == NextDefId(s)
           c == s.arena[id].content
           n == s.next
           u == [s EXCEPT !.arena[id].content = Placed(def)]
           w == Store(u, n, Node(c, Upright))
           v == [w EXCEPT !.next = n + 1]
           dg == [id |-> def, children |-> c.children]
           db == [id |-> def, children |-> <<n>>]
<1>1. IsFrame(s) /\ n \notin DOMAIN s.arena
  BY NextIsNew
<1>2. CASE id \notin DOMAIN s.arena
  BY <1>1, <1>2, SameStays, PlacesJoin DEF MakeDefinitionFrom
<1>3. CASE id \in DOMAIN s.arena
  <2>1. MakeDefinitionFrom(s, id)
          = IF c.kind = "group" THEN [u EXCEPT !.definitions = Append(@, dg)]
            ELSE [v EXCEPT !.definitions = Append(@, db)]
    BY <1>3 DEF MakeDefinitionFrom
  <2> HIDE DEF def, c, dg, db
  <2>2. Stays(s, u)
    BY <1>1, <1>3, PaintStays
  <2> HIDE DEF u
  <2>3. Brings(u, w, Upright)
    BY <1>1, <2>2, StoreBrings DEF Stays
  <2> HIDE DEF w
  <2>4. Stays(w, v)
    BY <2>3, FieldStays DEF Brings
  <2> HIDE DEF v
  <2>5. ASSUME NEW x, IsFrame(x), NEW d PROVE Stays(x, [x EXCEPT !.definitions = Append(@, d)])
    <3>1. IsMade(x)
      BY <2>5, FrameHas
    <3>2. [x EXCEPT !.definitions = Append(@, d)] = [x EXCEPT !.definitions = Append(x.definitions, d)]
      BY <3>1 DEF IsMade, Make
    <3> QED
      BY <2>5, <3>2, FieldStays
  <2>6. Brings(s, v, Upright)
    BY <2>2, <2>3, <2>4, PlacesJoin
  <2>7. Stays(u, [u EXCEPT !.definitions = Append(@, dg)]) /\ Stays(v, [v EXCEPT !.definitions = Append(@, db)])
    BY <2>2, <2>5, <2>6, PlacesFrame
  <2> DEFINE x == [u EXCEPT !.definitions = Append(@, dg)]
             y == [v EXCEPT !.definitions = Append(@, db)]
  <2>a. Stays(u, x) /\ Stays(v, y)
    BY <2>7
  <2> HIDE DEF x, y
  <2>8. Brings(s, x, Upright)
    BY <2>2, <2>a, PlacesJoin
  <2>9. Brings(s, y, Upright)
    BY <2>6, <2>a, PlacesJoin
  <2> QED
    BY <2>1, <2>8, <2>9 DEF x, y
<1> QED
  BY <1>2, <1>3

(* Its inverse leaves the rest in place.                                    *)
LEMMA UndefinedLeaves ==
  ASSUME NEW s, IsFrame(s), NEW inverse
  PROVE  Leaves(s, UndoMakeDefinition(s, inverse))
<1> DEFINE u == IF inverse.node \in DOMAIN s.arena
                THEN [s EXCEPT !.arena[inverse.node].content = inverse.prior] ELSE s
           d == WithoutDef(u.definitions, inverse.def)
           v == [u EXCEPT !.definitions = d]
<1>1. Stays(s, u)
  BY PaintStays, SameStays
<1>2. UndoMakeDefinition(s, inverse) = Drop(v, inverse.body)
  <2>1. UndoMakeDefinition(s, inverse)
          = Drop([u EXCEPT !.definitions = WithoutDef(@, inverse.def)], inverse.body)
    BY DEF UndoMakeDefinition
  <2>2. IsMade(u)
    BY <1>1, FrameHas DEF Stays
  <2> HIDE DEF u
  <2>3. [u EXCEPT !.definitions = WithoutDef(@, inverse.def)] = v
    BY <2>2 DEF IsMade, Make
  <2> QED
    BY <2>1, <2>3
<1> HIDE DEF u, d
<1>3. Stays(u, v)
  BY <1>1, PlacesFrame, FieldStays
<1> HIDE DEF v
<1>4. Leaves(v, Drop(v, inverse.body))
  BY <1>3, DropLeaves DEF Stays
<1> QED
  BY <1>1, <1>2, <1>3, <1>4, PlacesJoin

(* Points stand for themselves.                                             *)
LEMMA PointsStay ==
  ASSUME NEW s, IsFrame(s)
  PROVE  /\ Stays(s, AddPoint(s)) /\ \A k : Stays(s, RemovePoint(s, k))
         /\ \A k : Stays(s, [s EXCEPT !.points = RemoveAt(@, k)])
         /\ \A k, x : Stays(s, [s EXCEPT !.points = InsertAt(@, k, x)])
<1>1. IsMade(s)
  BY FrameHas
<1>2. Stays(s, AddPoint(s))
  <2> DEFINE p == [id |-> s.next, origin |-> FALSE]
             u == [s EXCEPT !.points = Append(s.points, p)]
             n == s.next + 1
  <2>1. AddPoint(s) = [u EXCEPT !.next = n]
    BY <1>1, WritePoints DEF AddPoint
  <2>2. Stays(s, u)
    BY FieldStays
  <2> HIDE DEF u, n
  <2>3. Stays(u, [u EXCEPT !.next = n])
    BY <2>2, PlacesFrame, FieldStays
  <2> QED
    BY <2>1, <2>2, <2>3, PlacesJoin
<1>3. \A k : Stays(s, [s EXCEPT !.points = RemoveAt(@, k)])
  BY <1>1, FieldStays
<1>4. \A k, x : Stays(s, [s EXCEPT !.points = InsertAt(@, k, x)])
  BY <1>1, FieldStays
<1>5. \A k : Stays(s, RemovePoint(s, k))
  BY <1>3, SameStays DEF RemovePoint
<1> QED
  BY <1>2, <1>3, <1>4, <1>5

(* A measurement of whole blocks is kept, so it can be told again.          *)
LEMMA MeasureTold ==
  ASSUME NEW m, m.blocks # 0, NEW v
  PROVE  FromMeasure(m, v).kept # {} /\ MeasureOf(FromMeasure(m, v)) = m
         /\ \A w : Retells(FromMeasure(m, w), w)
<1>1. \A w : FromMeasure(m, w).kept = {m}
  BY DEF FromMeasure
<1>2. \A at : at.kept = {m} => at.kept # {} /\ MeasureOf(at) = m
  BY OnlyOne DEF MeasureOf
<1>3. \A w : MeasureOf(FromMeasure(m, w)) = m
  BY <1>1, <1>2
<1> QED
  BY <1>1, <1>2, <1>3 DEF Retells

(* A count of voxels is its own measurement.                                *)
LEMMA VoxelsMeasured ==
  ASSUME NEW n \in Int, NEW v \in Int, NEW m, m.blocks = 0, m.voxels = n
  PROVE  FromMeasure(m, v) = FromVoxels(n, FALSE)
<1>1. m.blocks * v + m.voxels = n
  <2>1. 0 * v + n = n
    OBVIOUS
  <2> QED
    BY <2>1
<1> QED
  BY <1>1 DEF FromMeasure, FromVoxels

(* And so it is told again, at any density.                                 *)
LEMMA VoxelsTold ==
  ASSUME NEW n \in Int, NEW v \in Int
  PROVE  Retells(FromVoxels(n, FALSE), v)
<1> DEFINE m == [blocks |-> 0, voxels |-> n]
<1>1. MeasureOf(FromVoxels(n, FALSE)) = m
  BY DEF MeasureOf, FromVoxels
<1>2. m.blocks = 0 /\ m.voxels = n
  OBVIOUS
<1> HIDE DEF m
<1>3. FromMeasure(m, v) = FromVoxels(n, FALSE)
  BY <1>2, VoxelsMeasured
<1> QED
  BY <1>1, <1>3 DEF Retells

(* The placements the edits write are sure.                                 *)
LEMMA WrittenSure ==
  ASSUME NEW verbs, NEW v \in Nat \ {0}
  PROVE  /\ Sure(verbs, Upright, v)
         /\ \A m : m.blocks # 0 => Sure(verbs, FromMeasure(m, v), v)
         /\ \A i : Fits(verbs, i) /\ i.kind = "PlaceNode" => Sure(verbs, FromVoxels(i.voxels, i.tilted), v)
         /\ \A i : Fits(verbs, i) /\ i.kind = "SetOffset" => Sure(verbs, FromMeasure(i.measure, v), v)
<1>0. \A n : FromVoxels(n, FALSE).tilted = FALSE
  BY DEF FromVoxels
<1>a. v \in Int
  OBVIOUS
<1>1. Sure(verbs, Upright, v)
  <2> DEFINE n == 0
  <2>1. n \in Int /\ n = 0
    OBVIOUS
  <2> HIDE DEF n
  <2>2. Retells(FromVoxels(n, FALSE), v)
    BY <1>a, <2>1, VoxelsTold
  <2> QED
    BY <1>0, <2>1, <2>2 DEF Sure, Upright
<1>2. \A m : m.blocks # 0 => Sure(verbs, FromMeasure(m, v), v)
  BY MeasureTold DEF Sure
<1>3. ASSUME NEW i, Fits(verbs, i), i.kind = "PlaceNode" PROVE Sure(verbs, FromVoxels(i.voxels, i.tilted), v)
  <2>1. i.voxels \in Int /\ ("SetOffset" \in verbs => i.tilted = FALSE) /\ ("SetDensity" \in verbs => i.voxels = 0)
    BY <1>3 DEF Fits
  <2>2. FromVoxels(i.voxels, i.tilted).tilted = i.tilted
    BY DEF FromVoxels
  <2>3. Retells(FromVoxels(i.voxels, FALSE), v)
    BY <1>a, <2>1, VoxelsTold
  <2> QED
    BY <2>1, <2>2, <2>3 DEF Sure
<1>4. ASSUME NEW i, Fits(verbs, i), i.kind = "SetOffset" PROVE Sure(verbs, FromMeasure(i.measure, v), v)
  <2> DEFINE m == i.measure
  <2>1. m.voxels \in Int /\ ("SetDensity" \in verbs => m.blocks # 0 \/ m.voxels = 0)
    BY <1>4 DEF Fits
  <2> HIDE DEF m
  <2>2. CASE m.blocks # 0
    BY <1>2, <2>2 DEF m
  <2>3. CASE m.blocks = 0
    <3> DEFINE n == m.voxels
    <3>1. FromMeasure(m, v) = FromVoxels(n, FALSE) /\ Retells(FromVoxels(n, FALSE), v)
      BY <1>a, <2>1, <2>3, VoxelsTold, VoxelsMeasured
    <3>2. "SetDensity" \in verbs => n = 0
      BY <2>1, <2>3
    <3> HIDE DEF n
    <3>3. Sure(verbs, FromVoxels(n, FALSE), v)
      BY <1>0, <3>1, <3>2 DEF Sure
    <3> QED
      BY <3>1, <3>3 DEF m
  <2> QED
    BY <2>2, <2>3
<1> QED
  BY <1>1, <1>2, <1>3, <1>4

(* A sure placement rescaled is sure, and comes back rescaled back.         *)
LEMMA Rescaled ==
  ASSUME NEW verbs, "SetDensity" \in verbs, NEW v \in Nat \ {0}, NEW w \in Nat \ {0}, NEW at, Sure(verbs, at, v)
  PROVE  /\ Sure(verbs, Retargeted(at, v, w), w)
         /\ Retargeted(Retargeted(at, v, w), w, v) = at
<1>1. CASE at.kept # {} /\ Retells(at, v)
  <2> DEFINE m == MeasureOf(at)
  <2>1. at = FromMeasure(m, v)
    BY <1>1 DEF Retells
  <2>2. Retargeted(at, v, w) = FromMeasure(m, w)
    BY <1>1 DEF Retargeted
  <2> HIDE DEF m
  <2>3. m.blocks # 0
    BY <1>1, <2>1 DEF FromMeasure
  <2>4. Sure(verbs, FromMeasure(m, w), w)
    BY <2>3, WrittenSure
  <2>5. FromMeasure(m, w).kept # {} /\ MeasureOf(FromMeasure(m, w)) = m
    BY <2>3, MeasureTold
  <2>6. Retargeted(FromMeasure(m, w), w, v) = FromMeasure(m, v)
    BY <2>5 DEF Retargeted
  <2> QED
    BY <2>1, <2>2, <2>4, <2>6
<1>2. CASE at = FromVoxels(0, at.tilted)
  <2> DEFINE b == at.tilted
  <2>1. \A x, y \in Nat \ {0} : Retargeted(FromVoxels(0, b), x, y) = FromVoxels(0, b)
    <3> TAKE x, y \in Nat \ {0}
    <3> DEFINE o == FromVoxels(0, b)
    <3>1. o = [voxels |-> 0, kept |-> {}, tilted |-> b]
      BY DEF FromVoxels
    <3> HIDE DEF o, b
    <3>2. o.kept = {} /\ o.voxels = 0
      BY <3>1
    <3>3. Retargeted(o, x, y) = [o EXCEPT !.voxels = (0 * y) \div x]
      BY <3>1, <3>2 DEF Retargeted
    <3>4. (0 * y) \div x = 0
      OBVIOUS
    <3>5. [o EXCEPT !.voxels = 0] = o
      BY <3>1
    <3> QED
      BY <3>3, <3>4, <3>5 DEF o
  <2> HIDE DEF b
  <2>2. at = FromVoxels(0, b)
    BY <1>2 DEF b
  <2>3. Retargeted(at, v, w) = at /\ Retargeted(at, w, v) = at
    BY <2>1, <2>2
  <2>4. ASSUME "SetOffset" \in verbs PROVE Retells(at, w)
    <3>1. Retells(at, v)
      BY <2>4 DEF Sure
    <3>2. b = FALSE
      BY <3>1 DEF Retells, FromMeasure, b
    <3> DEFINE n == 0
    <3>3. n \in Int /\ n = 0 /\ w \in Int
      OBVIOUS
    <3> HIDE DEF n
    <3>4. Retells(FromVoxels(n, FALSE), w)
      BY <3>3, VoxelsTold
    <3> QED
      BY <2>2, <3>2, <3>3, <3>4
  <2>5. Sure(verbs, at, w)
    BY <1>2, <2>4 DEF Sure
  <2> QED
    BY <2>3, <2>5
<1> QED
  BY <1>1, <1>2 DEF Sure

(* Writing one placement moves one node (SetOffset).                        *)
LEMMA OffsetPuts ==
  ASSUME NEW s, IsFrame(s), NEW g \in DOMAIN s.arena, NEW x
  PROVE  Puts(s, [s EXCEPT !.arena[g].at = x], g, x)
<1> DEFINE A == [s.arena EXCEPT ![g].at = x]
<1>1. IsMade(s) /\ AreNodes(s.arena)
  BY FrameHas
<1>2. [s EXCEPT !.arena[g].at = x] = Filled(s, A)
  BY <1>1 DEF IsMade, Make, Filled
<1>3. AreNodes(A)
  BY <1>1, ArenaReplaced
<1>4. DOMAIN A = DOMAIN s.arena /\ \A id \in DOMAIN s.arena : A[id].at = IF id = g THEN x ELSE s.arena[id].at
  <2>1. A = [id \in DOMAIN s.arena |-> IF id = g THEN [s.arena[g] EXCEPT !.at = x] ELSE s.arena[id]]
    BY <1>1 DEF AreNodes
  <2>2. s.arena[g] = Node(s.arena[g].content, s.arena[g].at)
    BY <1>1 DEF AreNodes
  <2>3. [s.arena[g] EXCEPT !.at = x].at = x
    BY <2>2 DEF Node
  <2> QED
    BY <2>1, <2>3
<1> HIDE DEF A
<1> QED
  BY <1>2, <1>3, <1>4, FilledHas DEF Puts

(* A density rescales every placement (SetDensity).                         *)
LEMMA DensityRescales ==
  ASSUME NEW s, IsFrame(s), NEW v
  PROVE  Rescales(s, SetDensity(s, v), v)
<1> DEFINE at(id) == Retargeted(s.arena[id].at, s.density, v)
           B == [id \in DOMAIN s.arena |-> Node(s.arena[id].content, at(id))]
           u == [s EXCEPT !.density = v]
<1>1. IsMade(s)
  BY FrameHas
<1>2. u.arena = s.arena /\ IsMade(u) /\ u.roots = s.roots /\ u.definitions = s.definitions
      /\ u.points = s.points /\ u.next = s.next /\ u.density = v
  BY <1>1 DEF IsMade, Make
<1>3. SetDensity(s, v)
        = [u EXCEPT !.arena = [id \in DOMAIN u.arena |->
              Node(u.arena[id].content, Retargeted(u.arena[id].at, s.density, v))]]
  BY DEF SetDensity
<1>4. [id \in DOMAIN u.arena |-> Node(u.arena[id].content, Retargeted(u.arena[id].at, s.density, v))] = B
  BY <1>2
<1> HIDE DEF at
<1>5. AreNodes(B) /\ DOMAIN B = DOMAIN s.arena /\ \A id \in DOMAIN s.arena : B[id].at = at(id)
  BY DEF AreNodes, Node
<1> HIDE DEF B, u
<1>6. SetDensity(s, v) = Make(B, s.roots, s.definitions, s.points, s.next, v)
  BY <1>2, <1>3, <1>4 DEF IsMade, Make
<1>7. /\ IsFrame(Make(B, s.roots, s.definitions, s.points, s.next, v))
      /\ Make(B, s.roots, s.definitions, s.points, s.next, v).arena = B
      /\ Make(B, s.roots, s.definitions, s.points, s.next, v).density = v
  BY <1>5, FrameMade, MakeHas
<1> QED
  BY <1>5, <1>6, <1>7 DEF Rescales, at

(* Writing a field of a content moves nothing.                              *)
LEMMA WrittenStays ==
  ASSUME NEW s, IsFrame(s), NEW g \in DOMAIN s.arena, NEW x
  PROVE  /\ Stays(s, [s EXCEPT !.arena[g].content.material = x])
         /\ Stays(s, [s EXCEPT !.arena[g].content.producer = x])
<1> DEFINE c == s.arena[g].content
           d == [c EXCEPT !.material = x]
           e == [c EXCEPT !.producer = x]
<1>1. IsMade(s) /\ AreNodes(s.arena)
  BY FrameHas
<1>2. s.arena[g] = Node(s.arena[g].content, s.arena[g].at)
  BY <1>1 DEF AreNodes
<1>3. [s EXCEPT !.arena[g].content.material = x] = [s EXCEPT !.arena[g].content = d]
  BY <1>1, <1>2 DEF IsMade, Make, Node
<1>4. [s EXCEPT !.arena[g].content.producer = x] = [s EXCEPT !.arena[g].content = e]
  BY <1>1, <1>2 DEF IsMade, Make, Node
<1> HIDE DEF d, e
<1> QED
  BY <1>3, <1>4, PaintStays

(* Every field write but SetOffset moves nothing, and SetOffset what it     *)
(* names.                                                                   *)
LEMMA FieldPuts ==
  ASSUME NEW s, IsFrame(s), NEW i, i.kind \in FieldWrites
  PROVE  /\ i.kind # "SetOffset" => Stays(s, Dispatch(s, i))
         /\ i.kind = "SetOffset" =>
              IF i.target \in DOMAIN s.arena
              THEN Puts(s, Dispatch(s, i), i.target, FromMeasure(i.measure, s.density))
              ELSE Dispatch(s, i) = s
<1> DEFINE g == i.target
           x == FromMeasure(i.measure, s.density)
<1>1. Dispatch(s, i) = IF Writable(s, i) THEN Written(s, i) ELSE s
  BY DispatchIs
<1>2. Writable(s, i) => g \in DOMAIN s.arena
  BY DEF Writable
<1>3. i.kind = "SetMaterial" => Written(s, i) = [s EXCEPT !.arena[g].content.material = i.material]
  BY DEF Written
<1>4. i.kind = "SetSketch" => Written(s, i) = [s EXCEPT !.arena[g].content.producer = i.producer]
  BY DEF Written
<1>5. i.kind = "SetOffset" => Written(s, i) = [s EXCEPT !.arena[g].at = x] /\ (Writable(s, i) <=> g \in DOMAIN s.arena)
  BY DEF Written, Writable
<1>6. i.kind \in {"SetMaterial", "SetSketch", "SetOffset"}
  BY DEF FieldWrites
<1> HIDE DEF g, x
<1>7. g \in DOMAIN s.arena => Puts(s, [s EXCEPT !.arena[g].at = x], g, x)
  BY OffsetPuts
<1>8. i.kind # "SetOffset" /\ Writable(s, i) => Stays(s, Written(s, i))
  <2>1. ASSUME g \in DOMAIN s.arena
        PROVE  /\ Stays(s, [s EXCEPT !.arena[g].content.material = i.material])
               /\ Stays(s, [s EXCEPT !.arena[g].content.producer = i.producer])
    BY <2>1, WrittenStays
  <2> QED
    BY <1>2, <1>3, <1>4, <1>6, <2>1
<1> QED
  BY <1>1, <1>5, <1>7, <1>8, SameStays DEF g, x

(* The instances of a definition among the roots are finitely many, so the  *)
(* next one is placed at one block or more.                                 *)
LEMMA SpacedBlocks ==
  ASSUME NEW s, s.roots \in Seq(Nat), NEW def
  PROVE  Cardinality({k \in DOMAIN s.roots : s.arena[s.roots[k]].content = Placed(def)}) + 1 # 0
<1> DEFINE P == {k \in DOMAIN s.roots : s.arena[s.roots[k]].content = Placed(def)}
<1>1. DOMAIN s.roots = 1 .. Len(s.roots) /\ Len(s.roots) \in Nat
  OBVIOUS
<1>2. IsFiniteSet(1 .. Len(s.roots))
  BY <1>1, FS_Interval
<1>3. P \subseteq 1 .. Len(s.roots)
  BY <1>1
<1> HIDE DEF P
<1>4. Cardinality(P) \in Nat
  BY <1>2, <1>3, FS_Subset, FS_CardinalityType
<1> QED
  BY <1>4 DEF P

(* An intent that adds brings in at most a node at a sure placement.        *)
LEMMA GrowingBrings ==
  ASSUME NEW verbs, NEW s, IsDocument(s), s.density \in Nat \ {0}, NEW i, i.kind \in Growing, Fits(verbs, i)
  PROVE  \E at : Sure(verbs, at, s.density) /\ Brings(s, Dispatch(s, i), at)
<1>1. IsFrame(s) /\ Sure(verbs, Upright, s.density)
  BY DocumentHas, WrittenSure
<1>2. \A t, at : Stays(s, t) => Brings(s, t, at)
  BY PlacesJoin
<1>3. Brings(s, s, Upright)
  BY <1>1, <1>2, SameStays
<1>4. CASE i.kind = "PlaceNode"
  <2> DEFINE at == FromVoxels(i.voxels, i.tilted)
  <2>1. Sure(verbs, at, s.density)
    BY <1>4, WrittenSure
  <2>2. Dispatch(s, i) = AddNode(s, Node(i.content, at))
    BY <1>4, DispatchIs
  <2> HIDE DEF at
  <2> QED
    BY <2>1, <2>2, AddNodeBrings
<1>5. CASE i.kind = "AddChild"
  <2>1. Dispatch(s, i) = IF Mints(s, i) THEN AddChildToGroup(s, i.group, Node(i.content, Upright)) ELSE s
    BY <1>5, DispatchIs
  <2>2. Mints(s, i) => IsGroup(s, i.group)
    BY <1>5 DEF Mints
  <2>3. Brings(s, Dispatch(s, i), Upright)
    BY <1>3, <2>1, <2>2, AddChildBrings
  <2> QED
    BY <1>1, <2>3
<1>6. CASE i.kind = "AddInstance"
  <2> DEFINE b == Cardinality({k \in DOMAIN s.roots : s.arena[s.roots[k]].content = Placed(i.def)}) + 1
             m == [blocks |-> b, voxels |-> 0]
             at == FromMeasure(m, s.density)
  <2>1. Dispatch(s, i) = IF Mints(s, i) THEN AddNode(s, Node(Placed(i.def), at)) ELSE s
    BY <1>6, DispatchIs DEF AddInstance
  <2>2. s.roots \in Seq(Nat)
    <3>1. IsBuilt(Structure(s)) /\ Structure(s).roots = s.roots
      BY <1>1, DocumentHas, FrameHas
    <3> QED
      BY <3>1 DEF IsBuilt
  <2>3. b # 0
    BY <2>2, SpacedBlocks
  <2> HIDE DEF b
  <2>4. m.blocks # 0
    BY <2>3
  <2> HIDE DEF m
  <2>5. Sure(verbs, at, s.density)
    BY <2>4, WrittenSure
  <2> HIDE DEF at
  <2>6. Brings(s, AddNode(s, Node(Placed(i.def), at)), at)
    BY AddNodeBrings
  <2>7. CASE Mints(s, i)
    BY <2>1, <2>5, <2>6, <2>7
  <2>8. CASE ~Mints(s, i)
    BY <1>1, <1>3, <2>1, <2>8
  <2> QED
    BY <2>7, <2>8
<1>7. CASE i.kind = "GroupNode"
  BY <1>1, <1>7, DispatchIs, WrapBrings
<1>8. CASE i.kind = "MakeDefinition"
  BY <1>1, <1>8, DispatchIs, DefinitionBrings
<1>9. CASE i.kind \in {"AddPoint", "RemovePoint"}
  <2>1. Stays(s, Dispatch(s, i))
    BY <1>1, <1>9, DispatchIs, PointsStay
  <2> QED
    BY <1>1, <1>2, <2>1
<1> QED
  BY <1>4, <1>5, <1>6, <1>7, <1>8, <1>9 DEF Growing

(* What is captured for it takes nodes out or leaves them.                  *)
LEMMA GrowingCaptured ==
  ASSUME NEW s, NEW i, i.kind \in Growing
  PROVE  CaptureInverse(s, i).kind \in Shrinking
<1>1. NoOp.kind \in Shrinking /\ RemoveAdded(s, i).kind \in Shrinking /\ CaptureMakeDefinition(s, i.target).kind \in Shrinking
  BY DEF NoOp, RemoveAdded, CaptureMakeDefinition, Shrinking
<1>2. CASE i.kind \in {"PlaceNode", "AddChild", "AddInstance", "MakeDefinition"}
  BY <1>1, <1>2, CaptureIs
<1>3. CASE i.kind \in {"GroupNode", "AddPoint", "RemovePoint"}
  <2>1. \A t, g : [kind |-> "UngroupNode", target |-> t, group |-> g].kind \in Shrinking
    BY DEF Shrinking
  <2>2. \A k : [kind |-> "RemoveAddedPoint", index |-> k].kind \in Shrinking
    BY DEF Shrinking
  <2>3. \A k, p : [kind |-> "InsertPoint", index |-> k, point |-> p].kind \in Shrinking
    BY DEF Shrinking
  <2> QED
    BY <1>1, <1>3, <2>1, <2>2, <2>3, CaptureIs
<1> QED
  BY <1>2, <1>3 DEF Growing

(* And so it does when it is applied.                                       *)
LEMMA ShrinkingLeaves ==
  ASSUME NEW t, IsFrame(t), NEW inverse, inverse.kind \in Shrinking
  PROVE  Leaves(t, ApplyInverse(t, inverse))
<1>1. \A v : Stays(t, v) => Leaves(t, v)
  BY PlacesJoin
<1>2. CASE inverse.kind = "NoOp"
  BY <1>1, <1>2, SameStays DEF ApplyInverse
<1>3. CASE inverse.kind = "RemoveAdded"
  BY <1>3, DetachLeaves DEF ApplyInverse
<1>4. CASE inverse.kind = "UngroupNode"
  BY <1>4, DetachLeaves DEF ApplyInverse
<1>5. CASE inverse.kind = "UndoMakeDefinition"
  BY <1>5, UndefinedLeaves DEF ApplyInverse
<1>6. CASE inverse.kind = "RemoveAddedPoint"
  <2>1. ApplyInverse(t, inverse) = [t EXCEPT !.points = RemoveAt(@, inverse.index)]
    BY <1>6 DEF ApplyInverse
  <2> QED
    BY <1>1, <2>1, PointsStay
<1>7. CASE inverse.kind = "InsertPoint"
  <2>1. ApplyInverse(t, inverse) = [t EXCEPT !.points = InsertAt(@, inverse.index, inverse.point)]
    BY <1>7 DEF ApplyInverse
  <2> QED
    BY <1>1, <2>1, PointsStay
<1> QED
  BY <1>2, <1>3, <1>4, <1>5, <1>6, <1>7 DEF Shrinking

(* Sure placements stay sure where nothing moves and what comes is sure.    *)
LEMMA SureStays ==
  ASSUME NEW verbs, NEW s, AllSure(verbs, s), NEW t
  PROVE  /\ Stays(s, t) \/ Leaves(s, t) => AllSure(verbs, t)
         /\ \A at : Sure(verbs, at, s.density) /\ Brings(s, t, at) => AllSure(verbs, t)
         /\ \A g, x : Sure(verbs, x, s.density) /\ Puts(s, t, g, x) => AllSure(verbs, t)
BY DEF AllSure, Stays, Leaves, Brings, Puts

(* Every intent that fits leaves every placement sure.                      *)
LEMMA SureLands ==
  ASSUME NEW verbs, NEW s, IsDocument(s), AllSure(verbs, s), NEW i, IsIntent(i), Fits(verbs, i)
  PROVE  AllSure(verbs, Dispatch(s, i))
<1>1. IsFrame(s) /\ s.density \in Nat \ {0}
  BY DocumentHas DEF AllSure
<1>2. CASE i.kind \in Growing
  <2>1. \E at : Sure(verbs, at, s.density) /\ Brings(s, Dispatch(s, i), at)
    BY <1>1, <1>2, GrowingBrings
  <2> QED
    BY <2>1, SureStays
<1>3. CASE i.kind = "RemoveNode"
  BY <1>1, <1>3, DispatchIs, DetachLeaves, SureStays
<1>4. CASE i.kind \in FieldWrites
  <2> DEFINE x == FromMeasure(i.measure, s.density)
             t == Dispatch(s, i)
  <2>1. /\ i.kind # "SetOffset" => Stays(s, t)
        /\ i.kind = "SetOffset" => Puts(s, t, i.target, x) \/ t = s
    BY <1>1, <1>4, FieldPuts
  <2>2. i.kind = "SetOffset" => Sure(verbs, x, s.density)
    BY <1>1, WrittenSure
  <2> HIDE DEF x, t
  <2>3. AllSure(verbs, t)
    BY <2>1, <2>2, SureStays
  <2> QED
    BY <2>3 DEF t
<1>5. CASE i.kind = "SetDensity"
  <2> DEFINE v == s.density
             w == i.density
             t == Dispatch(s, i)
  <2>1. Rescales(s, t, w)
    BY <1>1, <1>5, DispatchIs, DensityRescales
  <2>2. "SetDensity" \in verbs /\ w \in Nat \ {0} /\ v \in Nat \ {0}
    BY <1>1, <1>5 DEF Fits
  <2> HIDE DEF w, t
  <2>3. ASSUME NEW id \in DOMAIN t.arena PROVE Sure(verbs, t.arena[id].at, t.density)
    <3> DEFINE at == s.arena[id].at
    <3>1. t.density = w /\ t.arena[id].at = Retargeted(at, v, w) /\ id \in DOMAIN s.arena
      BY <2>1, <2>3 DEF Rescales
    <3>2. Sure(verbs, at, v)
      BY <3>1 DEF AllSure
    <3> HIDE DEF at, v
    <3>3. Sure(verbs, Retargeted(at, v, w), w)
      BY <2>2, <3>2, Rescaled
    <3> QED
      BY <3>1, <3>3
  <2>4. t.density = w
    BY <2>1 DEF Rescales
  <2> QED
    BY <2>2, <2>3, <2>4 DEF AllSure, t
<1> QED
  BY <1>2, <1>3, <1>4, <1>5 DEF IsIntent, Growing, FieldWrites

(* Two scenes with one structure and the same places are one scene.         *)
LEMMA SameAgain ==
  ASSUME NEW a, IsFrame(a), NEW b, IsFrame(b), Structure(a) = Structure(b), SamePlaces(a, b)
  PROVE  a = b
<1>1. /\ IsMade(a) /\ AreNodes(a.arena) /\ DOMAIN a.arena = DOMAIN Structure(a).arena
      /\ \A id \in DOMAIN a.arena : a.arena[id].content = Structure(a).arena[id]
      /\ a.roots = Structure(a).roots /\ a.definitions = Structure(a).definitions
      /\ a.points = Structure(a).points /\ a.next = Structure(a).next /\ a.density = Structure(a).density
  BY FrameHas
<1>2. /\ IsMade(b) /\ AreNodes(b.arena) /\ DOMAIN b.arena = DOMAIN Structure(a).arena
      /\ \A id \in DOMAIN b.arena : b.arena[id].content = Structure(a).arena[id]
      /\ b.roots = Structure(a).roots /\ b.definitions = Structure(a).definitions
      /\ b.points = Structure(a).points /\ b.next = Structure(a).next /\ b.density = Structure(a).density
  BY FrameHas
<1>3. \A id \in DOMAIN a.arena : a.arena[id] = b.arena[id]
  <2> TAKE id \in DOMAIN a.arena
  <2>1. id \in DOMAIN b.arena /\ b.arena[id].at = a.arena[id].at /\ b.arena[id].content = a.arena[id].content
    BY <1>1, <1>2 DEF SamePlaces
  <2>2. a.arena[id] = Node(a.arena[id].content, a.arena[id].at) /\ b.arena[id] = Node(b.arena[id].content, b.arena[id].at)
    BY <1>1, <1>2, <2>1 DEF AreNodes
  <2> QED
    BY <2>1, <2>2
<1>4. a.arena = b.arena
  <2>1. a.arena = [id \in DOMAIN a.arena |-> a.arena[id]] /\ b.arena = [id \in DOMAIN b.arena |-> b.arena[id]]
    BY <1>1, <1>2 DEF AreNodes
  <2> QED
    BY <1>1, <1>2, <1>3, <2>1
<1> QED
  BY <1>1, <1>2, <1>4 DEF IsMade

(* Bringing nodes in and taking nodes out leaves the others in place.       *)
LEMMA PlacesBack ==
  ASSUME NEW s, NEW t, NEW at, Brings(s, t, at), NEW v, Leaves(t, v)
  PROVE  SamePlaces(s, v)
BY DEF Brings, Leaves, SamePlaces

(* The inverse of an added node leaves the nodes that were there.           *)
LEMMA GrowingBack ==
  ASSUME NEW verbs, NEW u, IsDocument(u), u.density \in Nat \ {0}, NEW i, i.kind \in Growing, Fits(verbs, i)
  PROVE  PutsBack(u, i)
<1> DEFINE t == Dispatch(u, i)
           inverse == CaptureInverse(u, i)
<1>1. PICK at : Brings(u, t, at)
  BY GrowingBrings
<1>2. inverse.kind \in Shrinking
  BY GrowingCaptured
<1> HIDE DEF t, inverse
<1>3. Leaves(t, ApplyInverse(t, inverse))
  BY <1>1, <1>2, PlacesFrame, ShrinkingLeaves
<1> QED
  BY <1>1, <1>3, PlacesBack DEF PutsBack, t, inverse

(* A subtree comes back with the placements it was taken out with.          *)
LEMMA RemovedBack ==
  ASSUME NEW u, IsDocument(u), NEW i, i.kind = "RemoveNode"
  PROVE  PutsBack(u, i)
<1> DEFINE g == i.target
           t == Dispatch(u, i)
           G == Under(u.arena, {g})
           parent == ParentOf(u, g)
           k == Position(Siblings(u, parent), g)
           nodes == Captured(u.arena, G)
           inverse == [kind |-> "InsertSubtree", parent |-> parent, index |-> k, root |-> g, nodes |-> nodes]
<1>1. t = DetachAndPurge(u, g) /\ CaptureInverse(u, i) = CaptureRemove(u, g)
  BY DispatchIs, CaptureIs
<1>2. IsFrame(u) /\ IsOutline(Structure(u)) /\ Tree(u) = TreeOf(Structure(u)) /\ AreNodes(u.arena)
      /\ DOMAIN Structure(u).arena = DOMAIN u.arena
  BY DocumentHas, FrameHas
<1>3. Leaves(u, t)
  BY <1>1, <1>2, DetachLeaves
<1>4. CASE g \notin Tree(u)
  <2>1. CaptureInverse(u, i) = NoOp
    BY <1>1, <1>4 DEF CaptureRemove
  <2>2. ApplyInverse(t, NoOp) = t
    BY DEF ApplyInverse, NoOp
  <2> HIDE DEF t
  <2> QED
    BY <1>3, <2>1, <2>2 DEF PutsBack, SamePlaces, Leaves, t
<1>5. CASE g \in Tree(u)
  <2>1. CaptureInverse(u, i) = inverse
    BY <1>1, <1>5 DEF CaptureRemove, Captured
  <2>2. G \subseteq DOMAIN u.arena
    <3>1. g \in DOMAIN Structure(u).arena
      BY <1>2, <1>5, TreeInArena
    <3>2. G = Gone(Structure(u), g)
      BY SceneBelow DEF Gone
    <3> QED
      BY <1>2, <3>1, <3>2, GoneIs
  <2> DEFINE R == Restocked(t.arena, u.arena, G)
             stored == Filled(t, R)
             row == InsertAt(Siblings(stored, parent), k, g)
  <2>3. IsFrame(t) /\ IsMade(t) /\ AreNodes(t.arena)
    BY <1>3, PlacesFrame, FrameHas
  <2>4. ApplyInverse(t, inverse) = Reinsert(t, parent, k, g, nodes)
    BY DEF ApplyInverse
  <2> HIDE DEF t, G, k, parent, g
  <2>5. Restocks(R, t.arena, u.arena, G)
    <3> DEFINE A == u.arena
               B == t.arena
    <3>1. AreNodes(A) /\ AreNodes(B) /\ G \subseteq DOMAIN A
      BY <1>2, <2>2, <2>3
    <3> HIDE DEF A, B
    <3>2. Restocks(Restocked(B, A, G), B, A, G)
      BY <3>1, RestockedHas
    <3> QED
      BY <3>2 DEF A, B
  <2>6. Reinsert(t, parent, k, g, nodes) = Respun(stored, parent, row)
    <3>1. Reinsert(t, parent, k, g, nodes)
            = LET st == [t EXCEPT !.arena = R] IN Respun(st, parent, InsertAt(Siblings(st, parent), k, g))
      <4>1. [t EXCEPT !.arena = Over(nodes, @)] = [t EXCEPT !.arena = R]
        BY <2>3 DEF Restocked
      <4> QED
        BY <4>1 DEF Reinsert
    <3> HIDE DEF R
    <3>2. [t EXCEPT !.arena = R] = stored
      BY <2>3, PutArena
    <3> QED
      BY <3>1, <3>2
  <2> HIDE DEF nodes, R, row, inverse
  <2>7. IsFrame(stored) /\ stored.arena = R
    BY <2>3, <2>5, FilledHas DEF Restocks
  <2> HIDE DEF stored
  <2>8. Stays(stored, Respun(stored, parent, row))
    BY <2>7, RespunStays
  <2>9. \A id \in DOMAIN R : id \in DOMAIN u.arena /\ R[id].at = u.arena[id].at
    BY <1>3, <2>2, <2>5 DEF Restocks, Leaves
  <2>10. SamePlaces(u, Respun(stored, parent, row))
    BY <2>7, <2>8, <2>9 DEF SamePlaces, Stays
  <2> QED
    BY <2>1, <2>4, <2>6, <2>10 DEF PutsBack, t
<1> QED
  BY <1>4, <1>5

(* The prior value, written back, puts the node back.                       *)
LEMMA FieldsBack ==
  ASSUME NEW verbs, NEW u, IsDocument(u), AllSure(verbs, u), NEW i, IsIntent(i), i.kind \in FieldWrites, Fits(verbs, i)
  PROVE  PutsBack(u, i)
<1> DEFINE t == Dispatch(u, i)
           g == i.target
           j == PriorField(u, i)
           at == u.arena[g].at
<1>1. IsFrame(u)
  BY DocumentHas
<1>2. CaptureInverse(u, i) = IF Writable(u, i) THEN Field(j) ELSE NoOp
  BY CaptureIs
<1>3. \A x : ApplyInverse(t, Field(x)) = Dispatch(t, x)
  BY DEF ApplyInverse, Field
<1>4. ApplyInverse(t, NoOp) = t
  BY DEF ApplyInverse, NoOp
<1>5. t = IF Writable(u, i) THEN Written(u, i) ELSE u
  BY DispatchIs
<1>6. SamePlaces(u, u)
  BY <1>1 DEF SamePlaces
<1>7. CASE ~Writable(u, i)
  <2> HIDE DEF t
  <2> QED
    BY <1>2, <1>4, <1>5, <1>6, <1>7 DEF PutsBack, t
<1>8. CASE Writable(u, i)
  <2>1. g \in DOMAIN u.arena
    BY <1>8 DEF Writable
  <2>2. CASE i.kind \in {"SetMaterial", "SetSketch"}
    <3>1. j.kind = i.kind
      <4>1. CASE i.kind = "SetMaterial"
        <5>1. i = [kind |-> "SetMaterial", target |-> i.target, material |-> i.material]
          BY <4>1 DEF IsIntent
        <5>2. j = [i EXCEPT !.material = u.arena[g].content.material]
          BY <4>1 DEF PriorField
        <5> QED
          BY <5>1, <5>2
      <4>2. CASE i.kind = "SetSketch"
        <5>1. i = [kind |-> "SetSketch", target |-> i.target, producer |-> i.producer]
          BY <4>2 DEF IsIntent
        <5>2. j = [i EXCEPT !.producer = u.arena[g].content.producer]
          BY <4>2 DEF PriorField
        <5> QED
          BY <5>1, <5>2
      <4> QED
        BY <2>2, <4>1, <4>2
    <3>2. Stays(u, t)
      BY <1>1, <2>2, FieldPuts
    <3> HIDE DEF t, j
    <3>3. IsFrame(t)
      BY <3>2, PlacesFrame
    <3>4. Stays(t, Dispatch(t, j))
      BY <2>2, <3>1, <3>3, FieldPuts DEF FieldWrites
    <3>5. ApplyInverse(t, CaptureInverse(u, i)) = Dispatch(t, j)
      BY <1>2, <1>3, <1>8
    <3> QED
      BY <3>2, <3>4, <3>5 DEF PutsBack, SamePlaces, Stays, t
  <2>3. CASE i.kind = "SetOffset"
    <3> DEFINE m == MeasureOf(at)
               x == FromMeasure(i.measure, u.density)
    <3>1. i = [kind |-> "SetOffset", target |-> g, measure |-> i.measure]
      BY <2>3 DEF IsIntent
    <3>2. j = [i EXCEPT !.measure = m]
      BY <2>3 DEF PriorField
    <3>3. j.kind = "SetOffset" /\ j.target = g /\ j.measure = m
      BY <3>1, <3>2
    <3>4. at = FromMeasure(m, u.density)
      BY <2>1, <2>3 DEF AllSure, Sure, Retells, Fits
    <3>5. Puts(u, t, g, x)
      BY <1>1, <2>1, <2>3, FieldPuts
    <3> HIDE DEF t, j, g, m, x
    <3>6. IsFrame(t) /\ t.density = u.density /\ g \in DOMAIN t.arena
      BY <2>1, <3>5 DEF Puts
    <3> DEFINE y == FromMeasure(j.measure, t.density)
    <3>7. Puts(t, Dispatch(t, j), j.target, y)
      BY <2>1, <3>3, <3>6, FieldPuts DEF FieldWrites
    <3>8. y = at
      BY <3>3, <3>4, <3>6
    <3> HIDE DEF y
    <3>9. ApplyInverse(t, CaptureInverse(u, i)) = Dispatch(t, j)
      BY <1>2, <1>3, <1>8
    <3> QED
      BY <3>3, <3>5, <3>7, <3>8, <3>9 DEF PutsBack, SamePlaces, Puts, t
  <2> QED
    BY <2>2, <2>3 DEF FieldWrites
<1> QED
  BY <1>7, <1>8

(* The prior density, set again, rescales every placement back.             *)
LEMMA DensityBack ==
  ASSUME NEW verbs, NEW u, IsDocument(u), AllSure(verbs, u), NEW i, IsIntent(i), i.kind = "SetDensity", Fits(verbs, i)
  PROVE  PutsBack(u, i)
<1> DEFINE t == Dispatch(u, i)
           v == u.density
           w == i.density
           j == [i EXCEPT !.density = v]
           r == Dispatch(t, j)
<1>1. IsFrame(u) /\ v \in Nat \ {0} /\ w \in Nat \ {0} /\ "SetDensity" \in verbs
  BY DocumentHas DEF AllSure, Fits
<1>2. i = [kind |-> "SetDensity", density |-> i.density]
  BY DEF IsIntent
<1>3. j.kind = "SetDensity" /\ j.density = v
  BY <1>2
<1>4. CaptureInverse(u, i) = Field(j)
  BY CaptureIs
<1>5. \A x : ApplyInverse(t, Field(x)) = Dispatch(t, x)
  BY DEF ApplyInverse, Field
<1>6. Rescales(u, t, w)
  BY <1>1, DispatchIs, DensityRescales
<1> HIDE DEF t, j
<1>7. IsFrame(t) /\ t.density = w
  BY <1>6 DEF Rescales
<1>8. Rescales(t, r, v)
  BY <1>3, <1>7, DispatchIs, DensityRescales
<1> HIDE DEF r
<1>9. ASSUME NEW id \in DOMAIN r.arena PROVE r.arena[id].at = u.arena[id].at
  <2> DEFINE at == u.arena[id].at
  <2>1. id \in DOMAIN t.arena /\ id \in DOMAIN u.arena
    BY <1>6, <1>8, <1>9 DEF Rescales
  <2>2. t.arena[id].at = Retargeted(at, v, w)
    BY <1>6, <2>1 DEF Rescales
  <2>3. r.arena[id].at = Retargeted(t.arena[id].at, w, v)
    BY <1>7, <1>8, <2>1 DEF Rescales
  <2>4. Sure(verbs, at, v)
    BY <2>1 DEF AllSure
  <2> HIDE DEF at, v, w
  <2>5. Retargeted(Retargeted(at, v, w), w, v) = at
    BY <1>1, <2>4, Rescaled
  <2> QED
    BY <2>2, <2>3, <2>5 DEF at
<1>10. SamePlaces(u, r)
  BY <1>8, <1>9 DEF SamePlaces, Rescales
<1> QED
  BY <1>4, <1>5, <1>10 DEF PutsBack, t, r

(* Reversing the command of an intent that fits gives back the document it  *)
(* found, placements and all.                                               *)
LEMMA CommandBack ==
  ASSUME NEW verbs, NEW u, IsDocument(u), AllSure(verbs, u), NEW i, IsIntent(i), Fits(verbs, i)
  PROVE  ReverseCommand(Dispatch(u, i), Command(u, i)) = u
<1> DEFINE t == Dispatch(u, i)
           v == ApplyInverse(t, CaptureInverse(u, i))
           r == ReverseCommand(t, Command(u, i))
<1>1. i.kind \in Growing \/ i.kind = "RemoveNode" \/ i.kind \in FieldWrites \/ i.kind = "SetDensity"
  BY DEF IsIntent, Growing, FieldWrites
<1>2. SamePlaces(u, v)
  <2>1. PutsBack(u, i)
    <3>1. u.density \in Nat \ {0}
      BY DEF AllSure
    <3> QED
      BY <1>1, <3>1, GrowingBack, RemovedBack, FieldsBack, DensityBack
  <2> QED
    BY <2>1 DEF PutsBack
<1>3. r = [v EXCEPT !.next = u.next]
  BY DEF ReverseCommand, Command
<1>4. IsDocument(t) /\ Structure(t) = Edited(Structure(u), i)
  BY IntentLands
<1>5. IsDocument(r) /\ Structure(r) = Structure(u)
  BY <1>4, CommandReturns
<1> HIDE DEF t, v, r
<1>6. Stays(v, r)
  BY <1>2, <1>3, FieldStays DEF SamePlaces
<1>7. SamePlaces(u, r)
  BY <1>2, <1>6 DEF SamePlaces, Stays
<1>8. IsFrame(u) /\ IsFrame(r)
  BY <1>5, DocumentHas
<1>9. u = r
  BY <1>5, <1>7, <1>8, SameAgain
<1> QED
  BY <1>9 DEF r, t

(* What a batch records, intent by intent.                                  *)
LEMMA RecordWalk ==
  ASSUME NEW core, NEW given, Len(given) \in Nat
  PROVE  \E f : /\ IsWalk("record", given, [core |-> core, commands |-> <<>>], Len(given), f)
                /\ RecordAll(core, given) = f[Len(given)]
<1> DEFINE n == Len(given)
           start == [core |-> core, commands |-> <<>>]
           Go(before, k) == IF ExceedsCoordinateLimit(before.core.scene, given[k]) THEN before
                            ELSE [core |-> Recorded(before.core, given[k]),
                                  commands |-> Append(before.commands,
                                                      Command(before.core.scene, given[k]))]
           P(f) == f = [k \in 0 .. n |->
                     IF k = 0 THEN start
                     ELSE CHOOSE after \in {Go(before, k) : before \in {f[k - 1]}} : TRUE]
           at == CHOOSE f : P(f)
<1>1. RecordAll(core, given) = at[n]
  BY DEF RecordAll, Walk
<1>2. \A f : IsWalk("record", given, start, n, f) <=> P(f)
  <2> TAKE f
  <2>1. ASSUME NEW k \in 0 .. n
        PROVE (CHOOSE after \in {Go(before, k) : before \in {f[k - 1]}} : TRUE) = Take("record", given, f[k - 1], k)
    <3>1. {Go(before, k) : before \in {f[k - 1]}} = {Go(f[k - 1], k)}
      OBVIOUS
    <3>2. Take("record", given, f[k - 1], k) = Go(f[k - 1], k)
      BY DEF Take
    <3> HIDE DEF Go
    <3> QED
      BY <3>1, <3>2, OnlyOne
  <2> HIDE DEF Go, start
  <2> QED
    BY <2>1, Zenon DEF IsWalk
<1>3. \E f : P(f)
  <2> HIDE DEF P, start
  <2> QED
    BY <1>2, WalkExists, Zenon DEF CanWalk
<1> HIDE DEF P
<1>4. P(at)
  BY <1>3, Zenon
<1> QED
  BY <1>1, <1>2, <1>4

(* What a transaction leaves taken back, command by command.                *)
LEMMA BackWalk ==
  ASSUME NEW core, NEW given, Len(given) \in Nat
  PROVE  \E f : /\ IsWalk("back", given, core, Len(given), f)
                /\ ReverseAll(core, given) = f[Len(given)]
<1> DEFINE n == Len(given)
           start == core
           Go(before, k) == ReverseOne(before, given[n + 1 - k])
           P(f) == f = [k \in 0 .. n |->
                     IF k = 0 THEN start
                     ELSE CHOOSE after \in {Go(before, k) : before \in {f[k - 1]}} : TRUE]
           at == CHOOSE f : P(f)
<1>1. ReverseAll(core, given) = at[n]
  BY DEF ReverseAll, Walk
<1>2. \A f : IsWalk("back", given, start, n, f) <=> P(f)
  <2> TAKE f
  <2>1. ASSUME NEW k \in 0 .. n
        PROVE (CHOOSE after \in {Go(before, k) : before \in {f[k - 1]}} : TRUE) = Take("back", given, f[k - 1], k)
    <3>1. {Go(before, k) : before \in {f[k - 1]}} = {Go(f[k - 1], k)}
      OBVIOUS
    <3>2. Take("back", given, f[k - 1], k) = Go(f[k - 1], k)
      BY DEF Take
    <3> HIDE DEF Go
    <3> QED
      BY <3>1, <3>2, OnlyOne
  <2> HIDE DEF Go, start
  <2> QED
    BY <2>1, Zenon DEF IsWalk
<1>3. \E f : P(f)
  <2> HIDE DEF P, start
  <2> QED
    BY <1>2, WalkExists, Zenon DEF CanWalk
<1> HIDE DEF P
<1>4. P(at)
  BY <1>3, Zenon
<1> QED
  BY <1>1, <1>2, <1>4

(* What it makes again.                                                     *)
LEMMA ForthWalk ==
  ASSUME NEW core, NEW given, Len(given) \in Nat
  PROVE  \E f : /\ IsWalk("forth", given, core, Len(given), f)
                /\ ReplayAll(core, given) = f[Len(given)]
<1> DEFINE n == Len(given)
           start == core
           Go(before, k) == ReplayOne(before, given[k])
           P(f) == f = [k \in 0 .. n |->
                     IF k = 0 THEN start
                     ELSE CHOOSE after \in {Go(before, k) : before \in {f[k - 1]}} : TRUE]
           at == CHOOSE f : P(f)
<1>1. ReplayAll(core, given) = at[n]
  BY DEF ReplayAll, Walk
<1>2. \A f : IsWalk("forth", given, start, n, f) <=> P(f)
  <2> TAKE f
  <2>1. ASSUME NEW k \in 0 .. n
        PROVE (CHOOSE after \in {Go(before, k) : before \in {f[k - 1]}} : TRUE) = Take("forth", given, f[k - 1], k)
    <3>1. {Go(before, k) : before \in {f[k - 1]}} = {Go(f[k - 1], k)}
      OBVIOUS
    <3>2. Take("forth", given, f[k - 1], k) = Go(f[k - 1], k)
      BY DEF Take
    <3> HIDE DEF Go
    <3> QED
      BY <3>1, <3>2, OnlyOne
  <2> HIDE DEF Go, start
  <2> QED
    BY <2>1, Zenon DEF IsWalk
<1>3. \E f : P(f)
  <2> HIDE DEF P, start
  <2> QED
    BY <1>2, WalkExists, Zenon DEF CanWalk
<1> HIDE DEF P
<1>4. P(at)
  BY <1>3, Zenon
<1> QED
  BY <1>1, <1>2, <1>4

(* The same for the document alone.                                         *)
LEMMA ReverseWalk ==
  ASSUME NEW s, NEW given, Len(given) \in Nat
  PROVE  \E f : /\ IsWalk("reverse", given, s, Len(given), f)
                /\ Reversed(s, given) = f[Len(given)]
<1> DEFINE n == Len(given)
           start == s
           Go(before, k) == ReverseCommand(before, given[n + 1 - k])
           P(f) == f = [k \in 0 .. n |->
                     IF k = 0 THEN start
                     ELSE CHOOSE after \in {Go(before, k) : before \in {f[k - 1]}} : TRUE]
           at == CHOOSE f : P(f)
<1>1. Reversed(s, given) = at[n]
  BY DEF Reversed, Walk
<1>2. \A f : IsWalk("reverse", given, start, n, f) <=> P(f)
  <2> TAKE f
  <2>1. ASSUME NEW k \in 0 .. n
        PROVE (CHOOSE after \in {Go(before, k) : before \in {f[k - 1]}} : TRUE) = Take("reverse", given, f[k - 1], k)
    <3>1. {Go(before, k) : before \in {f[k - 1]}} = {Go(f[k - 1], k)}
      OBVIOUS
    <3>2. Take("reverse", given, f[k - 1], k) = Go(f[k - 1], k)
      BY DEF Take
    <3> HIDE DEF Go
    <3> QED
      BY <3>1, <3>2, OnlyOne
  <2> HIDE DEF Go, start
  <2> QED
    BY <2>1, Zenon DEF IsWalk
<1>3. \E f : P(f)
  <2> HIDE DEF P, start
  <2> QED
    BY <1>2, WalkExists, Zenon DEF CanWalk
<1> HIDE DEF P
<1>4. P(at)
  BY <1>3, Zenon
<1> QED
  BY <1>1, <1>2, <1>4

(* The document alone, made again.                                          *)
LEMMA ReplayWalk ==
  ASSUME NEW s, NEW given, Len(given) \in Nat
  PROVE  \E f : /\ IsWalk("replay", given, s, Len(given), f)
                /\ Replayed(s, given) = f[Len(given)]
<1> DEFINE n == Len(given)
           start == s
           Go(before, k) == ReplayCommand(before, given[k])
           P(f) == f = [k \in 0 .. n |->
                     IF k = 0 THEN start
                     ELSE CHOOSE after \in {Go(before, k) : before \in {f[k - 1]}} : TRUE]
           at == CHOOSE f : P(f)
<1>1. Replayed(s, given) = at[n]
  BY DEF Replayed, Walk
<1>2. \A f : IsWalk("replay", given, start, n, f) <=> P(f)
  <2> TAKE f
  <2>1. ASSUME NEW k \in 0 .. n
        PROVE (CHOOSE after \in {Go(before, k) : before \in {f[k - 1]}} : TRUE) = Take("replay", given, f[k - 1], k)
    <3>1. {Go(before, k) : before \in {f[k - 1]}} = {Go(f[k - 1], k)}
      OBVIOUS
    <3>2. Take("replay", given, f[k - 1], k) = Go(f[k - 1], k)
      BY DEF Take
    <3> HIDE DEF Go
    <3> QED
      BY <3>1, <3>2, OnlyOne
  <2> HIDE DEF Go, start
  <2> QED
    BY <2>1, Zenon DEF IsWalk
<1>3. \E f : P(f)
  <2> HIDE DEF P, start
  <2> QED
    BY <1>2, WalkExists, Zenon DEF CanWalk
<1> HIDE DEF P
<1>4. P(at)
  BY <1>3, Zenon
<1> QED
  BY <1>1, <1>2, <1>4

(* The documents behind, one transaction after the other.                   *)
LEMMA UnwindWalk ==
  ASSUME NEW s, NEW given, Len(given) \in Nat
  PROVE  \E f : /\ IsWalk("unwind", given, s, Len(given), f)
                /\ Unwound(s, given) = Turned(f, Len(given))
<1> DEFINE n == Len(given)
           start == s
           Go(before, k) == Reversed(before, given[n + 1 - k])
           P(f) == f = [k \in 0 .. n |->
                     IF k = 0 THEN start
                     ELSE CHOOSE after \in {Go(before, k) : before \in {f[k - 1]}} : TRUE]
           at == CHOOSE f : P(f)
<1>1. Unwound(s, given) = Turned(at, n)
  BY DEF Unwound, Turned, Walk
<1>2. \A f : IsWalk("unwind", given, start, n, f) <=> P(f)
  <2> TAKE f
  <2>1. ASSUME NEW k \in 0 .. n
        PROVE (CHOOSE after \in {Go(before, k) : before \in {f[k - 1]}} : TRUE) = Take("unwind", given, f[k - 1], k)
    <3>1. {Go(before, k) : before \in {f[k - 1]}} = {Go(f[k - 1], k)}
      OBVIOUS
    <3>2. Take("unwind", given, f[k - 1], k) = Go(f[k - 1], k)
      BY DEF Take
    <3> HIDE DEF Go
    <3> QED
      BY <3>1, <3>2, OnlyOne
  <2> HIDE DEF Go, start
  <2> QED
    BY <2>1, Zenon DEF IsWalk
<1>3. \E f : P(f)
  <2> HIDE DEF P, start
  <2> QED
    BY <1>2, WalkExists, Zenon DEF CanWalk
<1> HIDE DEF P
<1>4. P(at)
  BY <1>3, Zenon
<1> QED
  BY <1>1, <1>2, <1>4

(* The documents ahead.                                                     *)
LEMMA RewindWalk ==
  ASSUME NEW s, NEW given, Len(given) \in Nat
  PROVE  \E f : /\ IsWalk("rewind", given, s, Len(given), f)
                /\ Rewound(s, given) = Turned(f, Len(given))
<1> DEFINE n == Len(given)
           start == s
           Go(before, k) == Replayed(before, given[n + 1 - k])
           P(f) == f = [k \in 0 .. n |->
                     IF k = 0 THEN start
                     ELSE CHOOSE after \in {Go(before, k) : before \in {f[k - 1]}} : TRUE]
           at == CHOOSE f : P(f)
<1>1. Rewound(s, given) = Turned(at, n)
  BY DEF Rewound, Turned, Walk
<1>2. \A f : IsWalk("rewind", given, start, n, f) <=> P(f)
  <2> TAKE f
  <2>1. ASSUME NEW k \in 0 .. n
        PROVE (CHOOSE after \in {Go(before, k) : before \in {f[k - 1]}} : TRUE) = Take("rewind", given, f[k - 1], k)
    <3>1. {Go(before, k) : before \in {f[k - 1]}} = {Go(f[k - 1], k)}
      OBVIOUS
    <3>2. Take("rewind", given, f[k - 1], k) = Go(f[k - 1], k)
      BY DEF Take
    <3> HIDE DEF Go
    <3> QED
      BY <3>1, <3>2, OnlyOne
  <2> HIDE DEF Go, start
  <2> QED
    BY <2>1, Zenon DEF IsWalk
<1>3. \E f : P(f)
  <2> HIDE DEF P, start
  <2> QED
    BY <1>2, WalkExists, Zenon DEF CanWalk
<1> HIDE DEF P
<1>4. P(at)
  BY <1>3, Zenon
<1> QED
  BY <1>1, <1>2, <1>4

(*********** Lists ***********)

(* A list of commands as a function on its places.                          *)
LEMMA ListHas ==
  ASSUME NEW s, IsList(s)
  PROVE  /\ Len(s) \in Nat /\ DOMAIN s = 1 .. Len(s)
         /\ s = [k \in 1 .. Len(s) |-> s[k]]
         /\ s = <<>> <=> Len(s) = 0
<1>1. PICK T : s \in Seq(T)
  BY DEF IsList
<1> QED
  BY <1>1

(* The places of a list after an Append.                                    *)
LEMMA ListGrown ==
  ASSUME NEW s, IsList(s), NEW x
  PROVE  /\ IsList(Append(s, x)) /\ Len(Append(s, x)) = Len(s) + 1 /\ Append(s, x) # <<>>
         /\ \A k \in 1 .. Len(s) : Append(s, x)[k] = s[k]
         /\ Append(s, x)[Len(s) + 1] = x
<1>1. PICK S : s \in Seq(S)
  BY DEF IsList
<1> DEFINE T == S \cup {x}
<1>2. s \in Seq(T) /\ x \in T
  <2>1. S \subseteq T
    OBVIOUS
  <2> HIDE DEF T
  <2>2. s \in Seq(T)
    BY <1>1, <2>1, SeqMonotonic
  <2> QED
    BY <2>2 DEF T
<1> HIDE DEF T
<1> QED
  BY <1>2, AppendProperties DEF IsList

(* Front and Last of a list that is not empty.                              *)
LEMMA ListEnds ==
  ASSUME NEW s, IsList(s), s # <<>>
  PROVE  /\ Len(s) \in Nat /\ Len(s) >= 1
         /\ IsList(Front(s)) /\ Len(Front(s)) = Len(s) - 1 /\ Last(s) = s[Len(s)]
         /\ \A k \in 1 .. Len(s) - 1 : Front(s)[k] = s[k]
<1>1. PICK T : s \in Seq(T)
  BY DEF IsList
<1>2. Len(s) \in Nat /\ Len(s) >= 1
  BY <1>1
<1>3. Front(s) = SubSeq(s, 1, Len(s) - 1)
  BY DEF Front
<1>4. \A k \in 1 .. Len(s) - 1 : s[k] \in T
  BY <1>1, <1>2
<1> DEFINE n == Len(s) - 1
<1>a. n \in Nat
  BY <1>2
<1>5. SubSeq(s, 1, n) \in Seq(T) /\ Len(SubSeq(s, 1, n)) = n
      /\ \A k \in 1 .. n : SubSeq(s, 1, n)[k] = s[k]
  <2>1. \A k \in 1 .. n : s[k] \in T
    BY <1>4
  <2> HIDE DEF n
  <2>2. SubSeq(s, 1, n) \in Seq(T) /\ Len(SubSeq(s, 1, n)) = (IF 1 <= n THEN n - 1 + 1 ELSE 0)
        /\ \A k \in 1 .. n - 1 + 1 : SubSeq(s, 1, n)[k] = s[1 + k - 1]
    BY <1>a, <2>1, SubSeqProperties
  <2> QED
    BY <1>a, <2>2
<1> QED
  BY <1>2, <1>3, <1>5 DEF Last, IsList

(* The places of two lists joined.                                          *)
LEMMA ListsJoin ==
  ASSUME NEW s, IsList(s), NEW t, IsList(t)
  PROVE  /\ IsList(s \o t) /\ Len(s \o t) = Len(s) + Len(t)
         /\ \A k \in 1 .. Len(s) + Len(t) :
              (s \o t)[k] = IF k <= Len(s) THEN s[k] ELSE t[k - Len(s)]
<1>1. PICK S, R : s \in Seq(S) /\ t \in Seq(R)
  BY DEF IsList
<1> DEFINE T == S \cup R
<1>2. s \in Seq(T) /\ t \in Seq(T)
  <2>1. S \subseteq T /\ R \subseteq T
    OBVIOUS
  <2> HIDE DEF T
  <2> QED
    BY <1>1, <2>1, SeqMonotonic
<1> HIDE DEF T
<1> QED
  BY <1>2, ConcatProperties DEF IsList

(* The empty list.                                                          *)
LEMMA EmptyList == IsList(<<>>) /\ Len(<<>>) = 0
<1>1. <<>> \in Seq({})
  OBVIOUS
<1> QED
  BY <1>1 DEF IsList
(***************************************************************************)
(* The documents a session starts from, and what they look like.           *)
(***************************************************************************)

(* The spines of a document are the rows of its structure.                 *)
LEMMA SpinesAre ==
  ASSUME NEW s, IsFrame(s), IsBuilt(Structure(s))
  PROVE  /\ Owners(s) = Rows(Structure(s))
         /\ \A o \in Owners(s) : Spine(s, o) = Row(Structure(s), o) /\ Spine(s, o) \in Seq(Nat)
         /\ \A o \in Owners(s) : \A i : i \in DOMAIN Spine(s, o) =>
              Named(Structure(s), o, i, Spine(s, o)[i])
<1> DEFINE z == Structure(s)
<1>1. IsMade(s)
  BY DEF IsFrame
<1>2. /\ DOMAIN z.arena = DOMAIN s.arena /\ z.roots = s.roots /\ z.definitions = s.definitions
      /\ \A id \in DOMAIN s.arena : z.arena[id] = s.arena[id].content
  BY <1>1, StructureHas, ContentsHas
<1>3. Owners(s) = Rows(z)
  <2> DEFINE A == {g \in DOMAIN s.arena : IsGroup(s, g)}
             B == {g \in DOMAIN z.arena : z.arena[g].kind = "group"}
  <2>1. A = B
    BY <1>2 DEF IsGroup
  <2>2. Owners(s) = {1} \cup A \cup {-i : i \in DOMAIN s.definitions}
    BY DEF Owners, RootNode
  <2>3. Rows(z) = {1} \cup B \cup {-i : i \in DOMAIN s.definitions}
    BY <1>2 DEF Rows
  <2> HIDE DEF A, B
  <2> QED
    BY <2>1, <2>2, <2>3
<1>4. ASSUME NEW o \in Owners(s) PROVE Spine(s, o) = Row(z, o) /\ Row(z, o) \in Seq(Nat)
  <2>1. o \in Rows(z) /\ IsBuilt(z)
    BY <1>3
  <2> HIDE DEF z
  <2>2. o \in Int /\ Row(z, o) \in Seq(Nat) /\ (o > 1 => o \in DOMAIN z.arena) /\ (o < 1 => o < 0)
    BY <2>1, RowTyped
  <2>3. CASE o = 1
    BY <1>2, <2>2, <2>3 DEF Spine, Row, RootNode
  <2>4. CASE o > 1
    BY <1>2, <2>2, <2>4 DEF Spine, Row, RootNode
  <2>5. CASE o < 1
    BY <1>2, <2>2, <2>5 DEF Spine, Row, RootNode
  <2> QED
    BY <2>2, <2>3, <2>4, <2>5
<1>5. ASSUME NEW o \in Owners(s), NEW i, i \in DOMAIN Spine(s, o) PROVE Named(z, o, i, Spine(s, o)[i])
  BY <1>3, <1>4, <1>5 DEF Named
<1> QED
  BY <1>3, <1>4, <1>5

(* A document is a well-formed scene.                                       *)
LEMMA DocumentIsWellFormed ==
  ASSUME NEW s, IsDocument(s)
  PROVE  WellFormed(s)
<1> DEFINE z == Structure(s)
<1>1. IsFrame(s) /\ IsOutline(z) /\ IsBuilt(z) /\ IsSpun(z) /\ IsStocked(z) /\ IsPointed(z)
  BY DEF IsDocument, IsOutline
<1>2. /\ DOMAIN z.arena = DOMAIN s.arena /\ z.definitions = s.definitions
      /\ z.points = s.points /\ z.next = s.next
      /\ \A id \in DOMAIN s.arena : z.arena[id] = s.arena[id].content
  BY SceneHas
<1>3. /\ Owners(s) = Rows(z)
      /\ \A o \in Owners(s) : Spine(s, o) = Row(z, o) /\ Spine(s, o) \in Seq(Nat)
      /\ \A o \in Owners(s) : \A i : i \in DOMAIN Spine(s, o) => Named(z, o, i, Spine(s, o)[i])
  BY <1>1, SpinesAre
<1>a. \A id \in DOMAIN z.arena : id \in 2 .. z.next - 1
  BY <1>1 DEF IsBuilt
<1> HIDE DEF z
<1>4. UNION {Range(Spine(s, o)) : o \in Owners(s)} = DOMAIN s.arena
  <2>1. ASSUME NEW id \in DOMAIN s.arena PROVE \E o \in Owners(s) : id \in Range(Spine(s, o))
    <3>1. PICK o, i : Named(z, o, i, id)
      BY <1>1, <1>2 DEF IsSpun
    <3>2. o \in Owners(s) /\ i \in DOMAIN Spine(s, o) /\ Spine(s, o)[i] = id
      BY <1>3, <3>1 DEF Named
    <3> QED
      BY <3>2 DEF Range
  <2>2. ASSUME NEW o \in Owners(s), NEW id \in Range(Spine(s, o)) PROVE id \in DOMAIN s.arena
    <3>1. PICK i \in DOMAIN Spine(s, o) : Spine(s, o)[i] = id
      BY DEF Range
    <3>2. Named(z, o, i, id)
      BY <1>3, <3>1
    <3> QED
      BY <1>1, <1>2, <3>2 DEF IsSpun
  <2> QED
    BY <2>1, <2>2
<1>5. ASSUME NEW o \in Owners(s), NEW p \in Owners(s),
             NEW i \in DOMAIN Spine(s, o), NEW j \in DOMAIN Spine(s, p), Spine(s, o)[i] = Spine(s, p)[j]
      PROVE  o = p /\ i = j
  <2> DEFINE id == Spine(s, o)[i]
  <2>1. Named(z, o, i, id) /\ Named(z, p, j, id)
    BY <1>3, <1>5
  <2> HIDE DEF id
  <2> QED
    BY <1>1, <2>1 DEF IsSpun
<1>6. ASSUME NEW id \in DOMAIN s.arena, s.arena[id].content.kind = "instance"
      PROVE  HasDef(s, s.arena[id].content.def)
  BY <1>1, <1>2, <1>6 DEF IsStocked, HasDefinition, HasDef
<1>7. \A i, j \in DOMAIN s.points : s.points[i].id = s.points[j].id => i = j
  BY <1>1, <1>2 DEF IsPointed
<1>8. \A x \in PointIds(s) : x \notin DOMAIN s.arena /\ x \in 2 .. s.next - 1
  BY <1>1, <1>2 DEF IsPointed, PointIds
<1>9. DOMAIN s.arena \cup PointIds(s) \subseteq MintedIds(s)
  BY <1>2, <1>8, <1>a DEF MintedIds, FirstId
<1> QED
  BY <1>4, <1>5, <1>6, <1>7, <1>8, <1>9 DEF WellFormed

(* A well-formed scene of the right types is a document.                    *)
LEMMA SeedIsDocument ==
  ASSUME NEW s, IsScene(s), WellFormed(s)
  PROVE  IsDocument(s)
<1> DEFINE z == Structure(s)
<1>1. IsFrame(s) /\ IsMade(s)
  BY DEF IsFrame, IsMade, Make, IsScene
<1>2. /\ IsMade(z) /\ z.arena = Contents(s.arena) /\ z.roots = s.roots
      /\ z.definitions = s.definitions /\ z.points = s.points /\ z.next = s.next
  BY <1>1, StructureHas
<1>3. /\ DOMAIN z.arena = DOMAIN s.arena /\ \A id \in DOMAIN s.arena : z.arena[id] = s.arena[id].content
      /\ z.arena = [id \in DOMAIN z.arena |-> z.arena[id]]
  <2>1. DOMAIN z.arena = DOMAIN s.arena /\ \A id \in DOMAIN s.arena : z.arena[id] = s.arena[id].content
    BY <1>2, ContentsHas
  <2>2. z.arena = [id \in DOMAIN s.arena |-> s.arena[id].content]
    BY <1>2 DEF Contents
  <2> HIDE DEF z
  <2> QED
    BY <2>1, <2>2
<1> HIDE DEF z
<1>a. DOMAIN s.arena \cup PointIds(s) \subseteq 2 .. s.next - 1
  BY DEF WellFormed, MintedIds, FirstId
<1>4. IsBuilt(z)
  BY <1>2, <1>3, <1>a DEF IsScene, IsBuilt, FirstId
<1>5. /\ Owners(s) = Rows(z)
      /\ \A o \in Owners(s) : Spine(s, o) = Row(z, o)
  BY <1>1, <1>4, SpinesAre DEF z
<1>6. UNION {Range(Spine(s, o)) : o \in Owners(s)} = DOMAIN s.arena
  BY DEF WellFormed
<1>7. \A o, i, id : Named(z, o, i, id) =>
        o \in Owners(s) /\ i \in DOMAIN Spine(s, o) /\ Spine(s, o)[i] = id
  BY <1>5 DEF Named
<1>8. IsSpun(z)
  <2>1. ASSUME NEW o, NEW i, NEW id, Named(z, o, i, id) PROVE id \in DOMAIN z.arena
    <3>1. o \in Owners(s) /\ id \in Range(Spine(s, o))
      BY <1>7, <2>1 DEF Range
    <3> QED
      BY <1>3, <1>6, <3>1
  <2>2. ASSUME NEW id \in DOMAIN z.arena PROVE \E o, i : Named(z, o, i, id)
    <3>1. PICK o \in Owners(s) : id \in Range(Spine(s, o))
      BY <1>3, <1>6
    <3>2. PICK i \in DOMAIN Spine(s, o) : Spine(s, o)[i] = id
      BY <3>1 DEF Range
    <3>3. Named(z, o, i, id)
      BY <1>5, <3>2 DEF Named
    <3> QED
      BY <3>3
  <2>3. ASSUME NEW o, NEW p, NEW i, NEW j, NEW id, Named(z, o, i, id), Named(z, p, j, id)
        PROVE  o = p /\ i = j
    <3>1. /\ o \in Owners(s) /\ i \in DOMAIN Spine(s, o) /\ Spine(s, o)[i] = id
          /\ p \in Owners(s) /\ j \in DOMAIN Spine(s, p) /\ Spine(s, p)[j] = id
      BY <1>7, <2>3
    <3>2. \A o1, p1 \in Owners(s) : \A i1 \in DOMAIN Spine(s, o1), j1 \in DOMAIN Spine(s, p1) :
            Spine(s, o1)[i1] = Spine(s, p1)[j1] => o1 = p1 /\ i1 = j1
      BY DEF WellFormed
    <3> QED
      BY <3>1, <3>2
  <2> QED
    BY <2>1, <2>2, <2>3 DEF IsSpun
<1>9. IsStocked(z)
  BY <1>2, <1>3 DEF IsStocked, WellFormed, HasDef, HasDefinition
<1>10. IsPointed(z)
  <2>1. \A i \in DOMAIN s.points : s.points[i].id \in PointIds(s)
    BY DEF PointIds
  <2>2. DOMAIN s.arena \cap PointIds(s) = {}
        /\ \A i, j \in DOMAIN s.points : s.points[i].id = s.points[j].id => i = j
    BY DEF WellFormed
  <2> QED
    BY <1>2, <1>3, <1>a, <2>1, <2>2 DEF IsPointed
<1> QED
  BY <1>1, <1>4, <1>8, <1>9, <1>10 DEF IsDocument, IsOutline, z

(* What a session offers are intents.                                      *)
LEMMA SpecsAre == \A c \in Specs : IsSpec(c)
<1> TAKE c \in Specs
<1>1. CASE \E m : c = Tool(m)
  BY <1>1 DEF Tool, IsSpec, IsBlank, IsContent
<1>2. CASE c = Group(<<>>)
  <2> DEFINE none == <<>>
  <2>1. none \in Seq(Nat)
    OBVIOUS
  <2> HIDE DEF none
  <2>2. c = Group(none)
    BY <1>2 DEF none
  <2>3. c.kind = "group" /\ c.children = none
    BY <2>2 DEF Group
  <2>4. IsContent(c)
    BY <2>1, <2>2, <2>3 DEF IsContent
  <2> QED
    BY <2>3, <2>4 DEF IsSpec, IsBlank, none
<1>3. CASE \E p, m : c = Sketch(p, m)
  BY <1>3 DEF Sketch, IsSpec, IsBlank, IsContent
<1> QED
  BY <1>1, <1>2, <1>3 DEF Specs

(* The intents the palette offers are intents.                              *)
LEMMA OfferedAre ==
  ASSUME NEW s, NEW verbs, NEW i \in Intents(s, verbs)
  PROVE  IsIntent(i)
<1> DEFINE ids == MintedIds(s) \ {s.points[k].id : k \in DOMAIN s.points}
<1>1. \/ i \in [kind : {"PlaceNode"}, content : Specs, voxels : Placements, tilted : Tilts]
      \/ i \in [kind : {"AddChild"}, group : ids, content : Specs]
      \/ i \in [kind : {"GroupNode", "MakeDefinition", "RemoveNode"}, target : ids]
      \/ i \in [kind : {"AddInstance"}, def : 1..Len(s.definitions)]
      \/ i \in [kind : {"SetMaterial"}, target : ids, material : Materials]
      \/ i \in [kind : {"SetSketch"}, target : ids, producer : Producers]
      \/ i \in [kind : {"SetOffset"}, target : ids, measure : Measures]
      \/ i \in [kind : {"SetDensity"}, density : Densities \ {s.density}]
      \/ i \in [kind : {"AddPoint"}]
      \/ i \in [kind : {"RemovePoint"}, index : 1..Len(s.points)]
  BY DEF Intents
<1> HIDE DEF ids
<1>2. CASE i \in [kind : {"PlaceNode"}, content : Specs, voxels : Placements, tilted : Tilts]
  BY <1>2, SpecsAre DEF IsIntent
<1>3. CASE i \in [kind : {"AddChild"}, group : ids, content : Specs]
  BY <1>3, SpecsAre DEF IsIntent
<1>4. CASE i \in [kind : {"SetMaterial"}, target : ids, material : Materials]
  BY <1>4 DEF IsIntent
<1>5. CASE i \in [kind : {"SetSketch"}, target : ids, producer : Producers]
  BY <1>5 DEF IsIntent
<1>6. CASE i \in [kind : {"SetOffset"}, target : ids, measure : Measures]
  BY <1>6 DEF IsIntent
<1>7. CASE i \in [kind : {"SetDensity"}, density : Densities \ {s.density}]
  BY <1>7 DEF IsIntent
<1>8. CASE \/ i \in [kind : {"GroupNode", "MakeDefinition", "RemoveNode"}, target : ids]
           \/ i \in [kind : {"AddInstance"}, def : 1..Len(s.definitions)]
           \/ i \in [kind : {"AddPoint"}]
           \/ i \in [kind : {"RemovePoint"}, index : 1..Len(s.points)]
  <2>1. i.kind \in {"AddInstance", "GroupNode", "MakeDefinition", "RemoveNode", "AddPoint", "RemovePoint"}
    BY <1>8
  <2> QED
    BY <2>1 DEF IsIntent
<1> QED
  BY <1>1, <1>2, <1>3, <1>4, <1>5, <1>6, <1>7, <1>8

(*********** Commands and transactions ***********)

(* A recorded command keeps the intent it replays.                          *)
LEMMA CommandHas ==
  ASSUME NEW u, NEW i
  PROVE  Command(u, i).intent = i
BY DEF Command

(* An intent lands on a document, and what it makes of it depends only on   *)
(* what is seen of it.                                                      *)
LEMMA IntentSeen ==
  ASSUME NEW how, NEW i, IsTold(how, i), NEW u, NEW z, Is(how, u, z)
  PROVE  /\ Is(how, Dispatch(u, i), See(how, Dispatch(u, i)))
         /\ \A t : Is(how, t, z) => See(how, Dispatch(t, i)) = See(how, Dispatch(u, i))
<1>1. IsIntent(i) /\ IsDocument(u) /\ IsSure(how, u)
  BY DEF IsTold, Is
<1>2. IsDocument(Dispatch(u, i))
  BY <1>1, IntentLands
<1>3. IsSure(how, Dispatch(u, i))
  <2> SUFFICES ASSUME how.exact PROVE AllSure(how.verbs, Dispatch(u, i))
    BY DEF IsSure
  <2> DEFINE verbs == how.verbs
  <2>1. Fits(verbs, i) /\ AllSure(verbs, u)
    BY <1>1 DEF IsTold, IsSure
  <2> HIDE DEF verbs
  <2>2. AllSure(verbs, Dispatch(u, i))
    BY <1>1, <2>1, SureLands
  <2> QED
    BY <2>2 DEF verbs
<1>4. ASSUME NEW t, Is(how, t, z) PROVE See(how, Dispatch(t, i)) = See(how, Dispatch(u, i))
  <2>1. IsDocument(t) /\ See(how, t) = See(how, u)
    BY <1>4 DEF Is
  <2>2. CASE how.exact
    BY <2>1, <2>2 DEF See
  <2>3. CASE ~how.exact
    <3>1. Structure(t) = Structure(u)
      BY <2>1, <2>3 DEF See
    <3>2. Structure(Dispatch(t, i)) = Edited(Structure(t), i)
      BY <1>1, <2>1, IntentLands
    <3>3. Structure(Dispatch(u, i)) = Edited(Structure(u), i)
      BY <1>1, IntentLands
    <3> QED
      BY <2>3, <3>1, <3>2, <3>3 DEF See
  <2> QED
    BY <2>2, <2>3
<1> QED
  BY <1>2, <1>3, <1>4 DEF Is

(* Reversing a command takes a document seen as its result back to one seen *)
(* as the document it was recorded on.                                      *)
LEMMA LeadsBack ==
  ASSUME NEW how, NEW a, NEW c, NEW b, Leads(how, a, c, b), NEW t, Is(how, t, b)
  PROVE  Is(how, ReverseCommand(t, c), a)
<1>1. PICK u : Is(how, u, a) /\ c = Command(u, c.intent) /\ b = See(how, Dispatch(u, c.intent))
  BY DEF Leads
<1> DEFINE i == c.intent
<1>2. c = Command(u, i) /\ See(how, t) = See(how, Dispatch(u, i)) /\ IsTold(how, i)
  BY <1>1 DEF Leads, Is
<1>3. IsIntent(i) /\ IsDocument(u) /\ IsSure(how, u) /\ IsDocument(t)
  BY <1>1, <1>2 DEF Is, IsTold
<1> HIDE DEF i
<1>4. CASE how.exact
  <2> DEFINE verbs == how.verbs
  <2>1. t = Dispatch(u, i) /\ Fits(verbs, i) /\ AllSure(verbs, u)
    BY <1>2, <1>3, <1>4 DEF See, IsTold, IsSure
  <2> HIDE DEF verbs
  <2>2. ReverseCommand(Dispatch(u, i), Command(u, i)) = u
    BY <1>3, <2>1, CommandBack
  <2> QED
    BY <1>1, <1>2, <2>1, <2>2
<1>5. CASE ~how.exact
  <2>1. Structure(t) = Structure(Dispatch(u, i)) /\ Structure(u) = a
    BY <1>1, <1>2, <1>5 DEF See, Is
  <2>2. Structure(Dispatch(u, i)) = Edited(Structure(u), i)
    BY <1>3, IntentLands
  <2>3. IsDocument(ReverseCommand(t, c)) /\ Structure(ReverseCommand(t, c)) = Structure(u)
    BY <1>2, <1>3, <2>1, <2>2, CommandReturns
  <2> QED
    BY <1>5, <2>1, <2>3 DEF Is, See, IsSure
<1> QED
  BY <1>4, <1>5

(* Replaying a command takes a document seen as the one it was recorded on  *)
(* to one seen as its result.                                               *)
LEMMA LeadsForth ==
  ASSUME NEW how, NEW a, NEW c, NEW b, Leads(how, a, c, b), NEW t, Is(how, t, a)
  PROVE  Is(how, ReplayCommand(t, c), b)
<1>1. PICK u : Is(how, u, a) /\ c = Command(u, c.intent) /\ b = See(how, Dispatch(u, c.intent))
  BY DEF Leads
<1>2. IsTold(how, c.intent)
  BY DEF Leads
<1>3. Is(how, Dispatch(t, c.intent), See(how, Dispatch(t, c.intent)))
  BY <1>2, IntentSeen
<1>4. See(how, Dispatch(t, c.intent)) = b
  BY <1>1, <1>2, IntentSeen
<1> QED
  BY <1>3, <1>4 DEF ReplayCommand

(* A command recorded on a document leads from it to the edited one.       *)
LEMMA LeadsFirst ==
  ASSUME NEW how, NEW s, NEW z, Is(how, s, z), NEW i, IsTold(how, i)
  PROVE  /\ Leads(how, z, Command(s, i), See(how, Dispatch(s, i)))
         /\ Is(how, Dispatch(s, i), See(how, Dispatch(s, i)))
<1> DEFINE c == Command(s, i)
<1>1. c.intent = i
  BY CommandHas
<1>2. c = Command(s, c.intent)
  BY <1>1
<1> HIDE DEF c
<1>3. Leads(how, z, c, See(how, Dispatch(s, i)))
  BY <1>1, <1>2 DEF Leads
<1> QED
  BY <1>3, IntentSeen DEF c

(* Nothing done leads nowhere.                                             *)
LEMMA SpansNothing ==
  ASSUME NEW how, NEW a, NEW b
  PROVE  Spans(how, a, <<>>, b) <=> a = b
<1>1. IsList(<<>>) /\ Len(<<>>) = 0
  BY EmptyList
<1>2. ASSUME a = b PROVE Spans(how, a, <<>>, b)
  <2> DEFINE m == [k \in {0} |-> a]
  <2>1. Marks(how, m, a, <<>>, b)
    BY <1>1, <1>2 DEF Marks
  <2> QED
    BY <1>1, <2>1 DEF Spans
<1>3. ASSUME Spans(how, a, <<>>, b) PROVE a = b
  BY <1>1, <1>3 DEF Spans, Marks
<1> QED
  BY <1>2, <1>3

(* One transaction after another.                                          *)
LEMMA SpansJoin ==
  ASSUME NEW how, NEW a, NEW s, NEW b, NEW t, NEW c, Spans(how, a, s, b), Spans(how, b, t, c)
  PROVE  Spans(how, a, s \o t, c)
<1>1. PICK m : Marks(how, m, a, s, b)
  BY DEF Spans
<1>2. PICK n : Marks(how, n, b, t, c)
  BY DEF Spans
<1> DEFINE p == Len(s)
           q == Len(t)
           r == s \o t
           h == [k \in 0 .. p + q |-> IF k <= p THEN m[k] ELSE n[k - p]]
<1>3. p \in Nat /\ q \in Nat /\ IsList(s) /\ IsList(t)
  BY ListHas DEF Spans
<1>4. IsList(r) /\ Len(r) = p + q
      /\ \A k \in 1 .. p + q : r[k] = IF k <= p THEN s[k] ELSE t[k - p]
  BY <1>3, ListsJoin
<1>5. m[0] = a /\ m[p] = b /\ n[0] = b /\ n[q] = c
      /\ (\A k \in 1 .. p : Leads(how, m[k - 1], s[k], m[k]))
      /\ (\A k \in 1 .. q : Leads(how, n[k - 1], t[k], n[k]))
  BY <1>1, <1>2 DEF Marks
<1>6. \A k \in 0 .. p + q : h[k] = IF k <= p THEN m[k] ELSE n[k - p]
  OBVIOUS
<1> HIDE DEF h, p, q, r
<1>7. h[0] = a /\ h[p + q] = c
  <2>1. q = 0 => h[p + q] = c
    BY <1>3, <1>5, <1>6
  <2>2. q # 0 => h[p + q] = n[q]
    <3> SUFFICES ASSUME q # 0 PROVE h[p + q] = n[q]
      OBVIOUS
    <3>1. p + q \in 0 .. p + q /\ ~(p + q <= p) /\ (p + q) - p = q
      BY <1>3
    <3> QED
      BY <1>6, <3>1
  <2> QED
    BY <1>3, <1>5, <1>6, <2>1, <2>2
<1>8. ASSUME NEW k \in 1 .. p + q PROVE Leads(how, h[k - 1], r[k], h[k])
  <2>1. CASE k <= p
    BY <1>3, <1>4, <1>5, <1>6, <2>1
  <2>2. CASE k = p + 1
    <3>1. h[k - 1] = n[0] /\ h[k] = n[1] /\ r[k] = t[1] /\ 1 \in 1 .. q
      <4>1. k - 1 = p /\ k - p = 1 /\ k - 1 \in 0 .. p + q /\ k \in 0 .. p + q /\ 1 \in 1 .. q
        BY <1>3, <2>2
      <4> QED
        BY <1>3, <1>4, <1>5, <1>6, <2>2, <4>1
    <3>2. Leads(how, n[1 - 1], t[1], n[1])
      BY <1>5, <3>1
    <3> QED
      BY <3>1, <3>2
  <2>3. CASE k > p + 1
    <3> DEFINE j == k - p
    <3>1. j \in 1 .. q /\ k \in 0 .. p + q /\ k - 1 \in 0 .. p + q /\ ~(k <= p) /\ ~(k - 1 <= p)
          /\ (k - 1) - p = j - 1
      BY <1>3, <2>3
    <3>2. h[k] = n[j] /\ h[k - 1] = n[j - 1] /\ r[k] = t[j]
      BY <1>4, <1>6, <3>1
    <3> HIDE DEF j
    <3>3. Leads(how, n[j - 1], t[j], n[j])
      BY <1>5, <3>1
    <3> QED
      BY <3>2, <3>3
  <2> QED
    BY <1>3, <2>1, <2>2, <2>3
<1>9. Marks(how, h, a, r, c)
  BY <1>4, <1>7, <1>8 DEF Marks
<1> QED
  BY <1>4, <1>9 DEF Spans, r

(* One command more.                                                       *)
LEMMA SpansMore ==
  ASSUME NEW how, NEW a, NEW s, NEW b, NEW x, NEW c, Spans(how, a, s, b), Leads(how, b, x, c)
  PROVE  Spans(how, a, Append(s, x), c)
<1> DEFINE one == <<x>>
           m == [k \in 0 .. 1 |-> IF k = 0 THEN b ELSE c]
<1>1. IsList(one) /\ Len(one) = 1 /\ one[1] = x
  <2>1. one \in Seq({x})
    OBVIOUS
  <2> QED
    BY <2>1 DEF IsList
<1>2. m[0] = b /\ m[1] = c
  OBVIOUS
<1> HIDE DEF m
<1>3. Marks(how, m, b, one, c)
  BY <1>1, <1>2 DEF Marks
<1>4. Append(s, x) = s \o one
  <2>1. PICK S : s \in Seq(S)
    BY DEF Spans, IsList
  <2> DEFINE T == S \cup {x}
  <2>2. S \subseteq T /\ x \in T
    OBVIOUS
  <2> HIDE DEF T
  <2>3. s \in Seq(T)
    BY <2>1, <2>2, SeqMonotonic
  <2> QED
    BY <2>2, <2>3, AppendIsConcat DEF one
<1> HIDE DEF one
<1>5. Spans(how, b, one, c)
  BY <1>1, <1>3 DEF Spans
<1> QED
  BY <1>4, <1>5, SpansJoin

(* A transaction taken back from a document with the structure it led to.  *)
LEMMA ReversedIs ==
  ASSUME NEW how, NEW a, NEW t, NEW b, Spans(how, a, t, b), NEW s, Is(how, s, b)
  PROVE  Is(how, Reversed(s, t), a)
<1> DEFINE n == Len(t)
<1>1. n \in Nat
  BY ListHas DEF Spans
<1>2. PICK m : Marks(how, m, a, t, b)
  BY DEF Spans
<1>3. PICK f : IsWalk("reverse", t, s, n, f) /\ Reversed(s, t) = f[n]
  BY <1>1, ReverseWalk
<1>4. f[0] = s /\ \A k \in 1 .. n : f[k] = ReverseCommand(f[k - 1], t[n + 1 - k])
  <2>1. \A x, k : Take("reverse", t, x, k) = ReverseCommand(x, t[n + 1 - k])
    BY DEF Take
  <2> HIDE DEF n
  <2>2. f[0] = s /\ \A k \in 1 .. n : f[k] = Take("reverse", t, f[k - 1], k)
    BY <1>1, <1>3 DEF IsWalk
  <2> QED
    BY <2>1, <2>2
<1>5. m[0] = a /\ m[n] = b /\ \A k \in 1 .. n : Leads(how, m[k - 1], t[k], m[k])
  BY <1>2 DEF Marks
<1> DEFINE S == {k \in 0 .. n : Is(how, f[k], m[n - k])}
<1> HIDE DEF n
<1>6. 0 \in S
  BY <1>1, <1>4, <1>5
<1>7. ASSUME NEW k \in 1 .. n, k - 1 \in S PROVE k \in S
  <2> DEFINE j == n + 1 - k
  <2>1. j \in 1 .. n /\ j - 1 = n - k /\ n - (k - 1) = j /\ k \in 0 .. n
    BY <1>1
  <2>2. Is(how, f[k - 1], m[j])
    BY <1>7, <2>1
  <2>3. Leads(how, m[j - 1], t[j], m[j])
    BY <1>5, <2>1
  <2>4. f[k] = ReverseCommand(f[k - 1], t[j])
    BY <1>4
  <2> HIDE DEF j
  <2>5. Is(how, f[k], m[j - 1])
    BY <2>2, <2>3, <2>4, LeadsBack
  <2> QED
    BY <2>1, <2>5
<1>8. \A k \in 0 .. n : k \in S
  <2> HIDE DEF S
  <2> QED
    BY <1>1, <1>6, <1>7, Induct
<1>9. n \in S /\ n - n = 0
  BY <1>1, <1>8
<1> QED
  BY <1>3, <1>5, <1>9

(* And made again from one with the structure it led from.                 *)
LEMMA ReplayedIs ==
  ASSUME NEW how, NEW a, NEW t, NEW b, Spans(how, a, t, b), NEW s, Is(how, s, a)
  PROVE  Is(how, Replayed(s, t), b)
<1> DEFINE n == Len(t)
<1>1. n \in Nat
  BY ListHas DEF Spans
<1>2. PICK m : Marks(how, m, a, t, b)
  BY DEF Spans
<1>3. PICK f : IsWalk("replay", t, s, n, f) /\ Replayed(s, t) = f[n]
  BY <1>1, ReplayWalk
<1>4. f[0] = s /\ \A k \in 1 .. n : f[k] = ReplayCommand(f[k - 1], t[k])
  <2>1. \A x, k : Take("replay", t, x, k) = ReplayCommand(x, t[k])
    BY DEF Take
  <2> HIDE DEF n
  <2>2. f[0] = s /\ \A k \in 1 .. n : f[k] = Take("replay", t, f[k - 1], k)
    BY <1>1, <1>3 DEF IsWalk
  <2> QED
    BY <2>1, <2>2
<1>5. m[0] = a /\ m[n] = b /\ \A k \in 1 .. n : Leads(how, m[k - 1], t[k], m[k])
  BY <1>2 DEF Marks
<1> DEFINE S == {k \in 0 .. n : Is(how, f[k], m[k])}
<1> HIDE DEF n
<1>6. 0 \in S
  BY <1>1, <1>4, <1>5
<1>7. ASSUME NEW k \in 1 .. n, k - 1 \in S PROVE k \in S
  <2>1. Is(how, f[k - 1], m[k - 1]) /\ k \in 0 .. n
    BY <1>7
  <2>2. Leads(how, m[k - 1], t[k], m[k]) /\ f[k] = ReplayCommand(f[k - 1], t[k])
    BY <1>4, <1>5
  <2>3. Is(how, f[k], m[k])
    BY <2>1, <2>2, LeadsForth
  <2> QED
    BY <2>1, <2>3
<1>8. \A k \in 0 .. n : k \in S
  <2> HIDE DEF S
  <2> QED
    BY <1>1, <1>6, <1>7, Induct
<1> QED
  BY <1>1, <1>3, <1>5, <1>8

(* A document with a selection made live is a core at rest.                 *)
LEMMA CoreMade ==
  ASSUME NEW how, NEW s, NEW sel, NEW st, NEW z, Is(how, s, z)
  PROVE  IsCore(how, Core(s, Live(s, sel), st), z, st)
BY DEF IsCore, Core, Live

(* The fields of a core.                                                    *)
LEMMA CoreParts ==
  ASSUME NEW s, NEW sel, NEW st
  PROVE  Core(s, sel, st).scene = s /\ Core(s, sel, st).selection = sel /\ Core(s, sel, st).stack = st
BY DEF Core

(* A core at rest, with another stack.                                      *)
LEMMA CoreHas ==
  ASSUME NEW how, NEW core, NEW z, NEW st, IsCore(how, core, z, st)
  PROVE  /\ Is(how, core.scene, z) /\ core.stack = st
         /\ core = Core(core.scene, core.selection, st)
         /\ \A x : [core EXCEPT !.stack = x] = Core(core.scene, core.selection, x)
         /\ \A x : IsCore(how, Core(core.scene, core.selection, x), z, x)
<1> DEFINE s == core.scene
           sel == core.selection
<1>1. Is(how, s, z) /\ core = Core(s, sel, st) /\ sel = Live(s, sel)
  BY DEF IsCore
<1> HIDE DEF s, sel
<1>2. core.stack = st
  BY <1>1, CoreParts
<1>3. \A x : [core EXCEPT !.stack = x] = Core(s, sel, x)
  BY <1>1 DEF Core
<1>4. ASSUME NEW x PROVE IsCore(how, Core(s, sel, x), z, x)
  BY <1>1, CoreParts DEF IsCore
<1> QED
  BY <1>1, <1>2, <1>3, <1>4 DEF s, sel

(* Writing scene and selection of a core keeps its stack.                   *)
LEMMA CoreWritten ==
  ASSUME NEW how, NEW core, NEW z, NEW st, IsCore(how, core, z, st), NEW s, NEW sel
  PROVE  Renewed(core, s, sel) = Core(s, sel, st)
<1>1. \A p, q : Renewed(Core(p, q, st), s, sel) = Core(s, sel, st)
  <2> TAKE p, q
  <2> DEFINE d == Core(p, q, st)
             e == [d EXCEPT !.scene = s]
  <2>1. e = Core(s, q, st)
    BY DEF Core
  <2>2. Renewed(d, s, sel) = [e EXCEPT !.selection = sel]
    BY DEF Renewed, Core
  <2> HIDE DEF d, e
  <2>3. [e EXCEPT !.selection = sel] = Core(s, sel, st)
    BY <2>1 DEF Core
  <2> QED
    BY <2>2, <2>3 DEF d
<1>2. core = Core(core.scene, core.selection, st)
  BY DEF IsCore
<1> QED
  BY <1>1, <1>2

(* AppCore's reversal of one command lands on the structure before it, its  *)
(* selection made live.                                                     *)
LEMMA ReverseOneIs ==
  ASSUME NEW how, NEW a, NEW c, NEW b, Leads(how, a, c, b), NEW core, NEW st, IsCore(how, core, b, st)
  PROVE  IsCore(how, ReverseOne(core, c), a, st)
<1> DEFINE before == ReverseCommand(core.scene, c)
<1>1. Is(how, before, a)
  BY CoreHas, LeadsBack
<1>2. ReverseOne(core, c) = Core(before, Live(before, core.selection), st)
  <2> DEFINE w == Live(before, core.selection)
  <2>1. ReverseOne(core, c) = Renewed(core, before, w)
    BY DEF ReverseOne, Renewed
  <2> HIDE DEF before, w
  <2>2. Renewed(core, before, w) = Core(before, w, st)
    BY CoreWritten
  <2> QED
    BY <2>1, <2>2 DEF w
<1> HIDE DEF before
<1> QED
  BY <1>1, <1>2, CoreMade

(* AppCore's replay of one command lands on the structure after it, its     *)
(* selection made live.                                                     *)
LEMMA ReplayOneIs ==
  ASSUME NEW how, NEW a, NEW c, NEW b, Leads(how, a, c, b), NEW core, NEW st, IsCore(how, core, a, st)
  PROVE  IsCore(how, ReplayOne(core, c), b, st)
<1> DEFINE after == ReplayCommand(core.scene, c)
           sel == Steered(core.scene, after, c.intent, core.selection)
<1>1. Is(how, after, b)
  BY CoreHas, LeadsForth
<1>2. ReplayOne(core, c) = Core(after, Live(after, sel), st)
  <2> DEFINE w == Live(after, sel)
  <2>1. ReplayOne(core, c) = Renewed(core, after, w)
    BY DEF ReplayOne, Renewed
  <2> HIDE DEF after, sel, w
  <2>2. Renewed(core, after, w) = Core(after, w, st)
    BY CoreWritten
  <2> QED
    BY <2>1, <2>2 DEF w
<1> HIDE DEF after, sel
<1> QED
  BY <1>1, <1>2, CoreMade

(* Recording one intent lands on the edited structure, and the command      *)
(* leads there.                                                             *)
LEMMA RecordedIs ==
  ASSUME NEW how, NEW core, NEW z, NEW st, IsCore(how, core, z, st), NEW i, IsTold(how, i)
  PROVE  /\ IsCore(how, Recorded(core, i), See(how, Dispatch(core.scene, i)), st)
         /\ Leads(how, z, Command(core.scene, i), See(how, Dispatch(core.scene, i)))
<1> DEFINE after == Dispatch(core.scene, i)
           sel == Steered(core.scene, after, i, core.selection)
<1>1. Is(how, core.scene, z)
  BY CoreHas
<1>2. Is(how, after, See(how, after)) /\ Leads(how, z, Command(core.scene, i), See(how, after))
  BY <1>1, LeadsFirst
<1>3. Recorded(core, i) = Core(after, Live(after, sel), st)
  <2> DEFINE w == Live(after, sel)
  <2>1. Recorded(core, i) = Renewed(core, after, w)
    BY DEF Recorded, Renewed
  <2> HIDE DEF after, sel, w
  <2>2. Renewed(core, after, w) = Core(after, w, st)
    BY CoreWritten
  <2> QED
    BY <2>1, <2>2 DEF w
<1> HIDE DEF after, sel
<1>4. IsCore(how, Recorded(core, i), See(how, after), st)
  BY <1>2, <1>3, CoreMade
<1> QED
  BY <1>2, <1>4 DEF after

(* Reversing a transaction from its last command to its first lands where   *)
(* it began.                                                                *)
LEMMA ReverseAllIs ==
  ASSUME NEW how, NEW a, NEW t, NEW b, Spans(how, a, t, b), NEW core, NEW st, IsCore(how, core, b, st)
  PROVE  IsCore(how, ReverseAll(core, t), a, st)
<1> DEFINE n == Len(t)
<1>1. n \in Nat
  BY ListHas DEF Spans
<1>2. PICK m : Marks(how, m, a, t, b)
  BY DEF Spans
<1>3. PICK f : IsWalk("back", t, core, n, f) /\ ReverseAll(core, t) = f[n]
  BY <1>1, BackWalk
<1>4. f[0] = core /\ \A k \in 1 .. n : f[k] = ReverseOne(f[k - 1], t[n + 1 - k])
  <2>1. \A x, k : Take("back", t, x, k) = ReverseOne(x, t[n + 1 - k])
    BY DEF Take
  <2> HIDE DEF n
  <2>2. f[0] = core /\ \A k \in 1 .. n : f[k] = Take("back", t, f[k - 1], k)
    BY <1>1, <1>3 DEF IsWalk
  <2> QED
    BY <2>1, <2>2
<1>5. m[0] = a /\ m[n] = b /\ \A k \in 1 .. n : Leads(how, m[k - 1], t[k], m[k])
  BY <1>2 DEF Marks
<1> DEFINE S == {k \in 0 .. n : IsCore(how, f[k], m[n - k], st)}
<1> HIDE DEF n
<1>6. 0 \in S
  BY <1>1, <1>4, <1>5
<1>7. ASSUME NEW k \in 1 .. n, k - 1 \in S PROVE k \in S
  <2> DEFINE j == n + 1 - k
  <2>1. j \in 1 .. n /\ j - 1 = n - k /\ n - (k - 1) = j /\ k \in 0 .. n
    BY <1>1
  <2>2. IsCore(how, f[k - 1], m[j], st)
    BY <1>7, <2>1
  <2>3. Leads(how, m[j - 1], t[j], m[j])
    BY <1>5, <2>1
  <2>4. f[k] = ReverseOne(f[k - 1], t[j])
    BY <1>4
  <2> HIDE DEF j
  <2>5. IsCore(how, f[k], m[j - 1], st)
    BY <2>2, <2>3, <2>4, ReverseOneIs
  <2> QED
    BY <2>1, <2>5
<1>8. \A k \in 0 .. n : k \in S
  <2> HIDE DEF S
  <2> QED
    BY <1>1, <1>6, <1>7, Induct
<1>9. n \in S /\ n - n = 0
  BY <1>1, <1>8
<1> QED
  BY <1>3, <1>5, <1>9

(* Replaying a transaction from first to last lands where it ended.         *)
LEMMA ReplayAllIs ==
  ASSUME NEW how, NEW a, NEW t, NEW b, Spans(how, a, t, b), NEW core, NEW st, IsCore(how, core, a, st)
  PROVE  IsCore(how, ReplayAll(core, t), b, st)
<1> DEFINE n == Len(t)
<1>1. n \in Nat
  BY ListHas DEF Spans
<1>2. PICK m : Marks(how, m, a, t, b)
  BY DEF Spans
<1>3. PICK f : IsWalk("forth", t, core, n, f) /\ ReplayAll(core, t) = f[n]
  BY <1>1, ForthWalk
<1>4. f[0] = core /\ \A k \in 1 .. n : f[k] = ReplayOne(f[k - 1], t[k])
  <2>1. \A x, k : Take("forth", t, x, k) = ReplayOne(x, t[k])
    BY DEF Take
  <2> HIDE DEF n
  <2>2. f[0] = core /\ \A k \in 1 .. n : f[k] = Take("forth", t, f[k - 1], k)
    BY <1>1, <1>3 DEF IsWalk
  <2> QED
    BY <2>1, <2>2
<1>5. m[0] = a /\ m[n] = b /\ \A k \in 1 .. n : Leads(how, m[k - 1], t[k], m[k])
  BY <1>2 DEF Marks
<1> DEFINE S == {k \in 0 .. n : IsCore(how, f[k], m[k], st)}
<1> HIDE DEF n
<1>6. 0 \in S
  BY <1>1, <1>4, <1>5
<1>7. ASSUME NEW k \in 1 .. n, k - 1 \in S PROVE k \in S
  <2>1. IsCore(how, f[k - 1], m[k - 1], st) /\ k \in 0 .. n
    BY <1>7
  <2>2. Leads(how, m[k - 1], t[k], m[k]) /\ f[k] = ReplayOne(f[k - 1], t[k])
    BY <1>4, <1>5
  <2>3. IsCore(how, f[k], m[k], st)
    BY <2>1, <2>2, ReplayOneIs
  <2> QED
    BY <2>1, <2>3
<1>8. \A k \in 0 .. n : k \in S
  <2> HIDE DEF S
  <2> QED
    BY <1>1, <1>6, <1>7, Induct
<1> QED
  BY <1>1, <1>3, <1>5, <1>8

(* Recording a batch of intents gives a transaction that spans from where   *)
(* it began to where it landed.                                             *)
LEMMA RecordAllIs ==
  ASSUME NEW how, NEW core, NEW a, NEW st, IsCore(how, core, a, st), NEW intents, Len(intents) \in Nat,
         \A k \in 1 .. Len(intents) : IsTold(how, intents[k])
  PROVE  IsRun(how, RecordAll(core, intents), a, st)
<1> DEFINE n == Len(intents)
           first == [core |-> core, commands |-> <<>>]
           Go(run, k) == [core |-> Recorded(run.core, intents[k]),
                          commands |-> Append(run.commands, Command(run.core.scene, intents[k]))]
<1>1. PICK f : IsWalk("record", intents, first, n, f) /\ RecordAll(core, intents) = f[n]
  BY RecordWalk
<1>2. f[0] = first /\ \A k \in 1 .. n : f[k] = f[k - 1] \/ f[k] = Go(f[k - 1], k)
  <2>1. \A x, k : Take("record", intents, x, k) = x \/ Take("record", intents, x, k) = Go(x, k)
    BY DEF Take
  <2> HIDE DEF n, first, Go
  <2>2. f[0] = first /\ \A k \in 1 .. n : f[k] = Take("record", intents, f[k - 1], k)
    BY <1>1 DEF IsWalk, n
  <2> QED
    BY <2>1, <2>2
<1>3. IsRun(how, first, a, st)
  BY SpansNothing DEF IsRun
<1> DEFINE S == {k \in 0 .. n : IsRun(how, f[k], a, st)}
<1> HIDE DEF n, first
<1>4. ASSUME NEW k \in 1 .. n, k - 1 \in S PROVE k \in S
  <2> DEFINE run == f[k - 1]
             i == intents[k]
             next == Recorded(run.core, i)
             c == Command(run.core.scene, i)
             y == See(how, Dispatch(run.core.scene, i))
  <2>1. IsRun(how, run, a, st) /\ IsTold(how, i) /\ k \in 0 .. n
    BY <1>4 DEF n
  <2>2. PICK z : IsCore(how, run.core, z, st) /\ Spans(how, a, run.commands, z)
    BY <2>1 DEF IsRun
  <2>3. f[k] = run \/ f[k] = [core |-> next, commands |-> Append(run.commands, c)]
    BY <1>2
  <2> HIDE DEF run, i
  <2>4. IsCore(how, next, y, st) /\ Leads(how, z, c, y)
    BY <2>1, <2>2, RecordedIs
  <2> HIDE DEF next, c, y
  <2>5. Spans(how, a, Append(run.commands, c), y)
    BY <2>2, <2>4, SpansMore
  <2>6. IsRun(how, [core |-> next, commands |-> Append(run.commands, c)], a, st)
    BY <2>4, <2>5 DEF IsRun
  <2>7. IsRun(how, f[k], a, st)
    BY <2>1, <2>3, <2>6
  <2> QED
    BY <2>1, <2>7
<1>5. 0 \in S /\ n \in Nat
  BY <1>2, <1>3 DEF n
<1>6. \A k \in 0 .. n : k \in S
  <2> HIDE DEF S
  <2> QED
    BY <1>4, <1>5, Induct
<1> QED
  BY <1>1, <1>5, <1>6

(*********** The lines of structures that the stacks stand for ***********)

(* Taking one transaction of a stack back, in the stack's direction, lands  *)
(* on the entry below it.                                                   *)
LEMMA TakenIs ==
  ASSUME NEW how, NEW way, NEW a, NEW t, NEW b, Joins(how, way, a, t, b), NEW s, Is(how, s, b)
  PROVE  Is(how, Taken(way, s, t), a)
BY ReversedIs, ReplayedIs DEF Joins, Taken

(* An empty stack files the empty line.                                     *)
LEMMA FiledNone == \A how, way, z : Filed(how, way, <<>>, <<>>, z)
<1>1. IsList(<<>>) /\ Len(<<>>) = 0
  BY EmptyList
<1> QED
  BY <1>1 DEF Filed

(* Pushing a transaction files one entry more.                              *)
LEMMA FiledGrown ==
  ASSUME NEW how, NEW way, NEW line, NEW filed, NEW z, Filed(how, way, line, filed, z), NEW t, NEW y,
         Joins(how, way, z, t, y)
  PROVE  Filed(how, way, Append(line, z), Append(filed, t), y)
<1> DEFINE l == Append(line, z)
           g == Append(filed, t)
           n == Len(filed)
<1>1. IsList(line) /\ IsList(filed) /\ Len(line) = n /\ n \in Nat
      /\ \A k \in 1 .. n : Joins(how, way, line[k], filed[k], Onward(line, z, k))
  BY ListHas DEF Filed
<1>2. IsList(l) /\ Len(l) = n + 1 /\ (\A k \in 1 .. n : l[k] = line[k]) /\ l[n + 1] = z
  BY <1>1, ListGrown
<1>3. IsList(g) /\ Len(g) = n + 1 /\ (\A k \in 1 .. n : g[k] = filed[k]) /\ g[n + 1] = t
  BY <1>1, ListGrown
<1> HIDE DEF l, g, n
<1>4. ASSUME NEW k \in 1 .. n + 1 PROVE Joins(how, way, l[k], g[k], Onward(l, y, k))
  <2>1. CASE k = n + 1
    BY <1>1, <1>2, <1>3, <2>1 DEF Onward
  <2>2. CASE k # n + 1
    <3>1. k \in 1 .. n
      BY <1>1, <2>2
    <3>2. Onward(l, y, k) = Onward(line, z, k)
      BY <1>1, <1>2, <3>1 DEF Onward
    <3> QED
      BY <1>1, <1>2, <1>3, <3>1, <3>2
  <2> QED
    BY <2>1, <2>2
<1>5. Filed(how, way, l, g, y)
  BY <1>2, <1>3, <1>4 DEF Filed
<1> QED
  BY <1>5 DEF l, g

(* Popping a transaction unfiles its entry, which it joins to the structure *)
(* above.                                                                   *)
LEMMA FiledShrunk ==
  ASSUME NEW how, NEW way, NEW line, NEW filed, NEW z, Filed(how, way, line, filed, z), filed # <<>>
  PROVE  /\ line # <<>>
         /\ Filed(how, way, Front(line), Front(filed), Last(line))
         /\ Joins(how, way, Last(line), Last(filed), z)
<1> DEFINE l == Front(line)
           g == Front(filed)
           n == Len(filed)
<1>1. IsList(line) /\ IsList(filed) /\ Len(line) = n /\ n \in Nat /\ n # 0
      /\ \A k \in 1 .. n : Joins(how, way, line[k], filed[k], Onward(line, z, k))
  BY ListHas DEF Filed
<1>a. line # <<>>
  BY <1>1, ListHas
<1>2. IsList(l) /\ Len(l) = n - 1 /\ (\A k \in 1 .. n - 1 : l[k] = line[k]) /\ Last(line) = line[n]
  BY <1>1, <1>a, ListEnds
<1>3. IsList(g) /\ Len(g) = n - 1 /\ (\A k \in 1 .. n - 1 : g[k] = filed[k]) /\ Last(filed) = filed[n]
  BY <1>1, ListEnds
<1> HIDE DEF l, g, n
<1>4. ASSUME NEW k \in 1 .. n - 1 PROVE Joins(how, way, l[k], g[k], Onward(l, Last(line), k))
  <2>1. k \in 1 .. n /\ k < n
    BY <1>1
  <2>2. Onward(l, Last(line), k) = Onward(line, z, k)
    <3>1. CASE k = n - 1
      BY <1>1, <1>2, <2>1, <3>1 DEF Onward
    <3>2. CASE k # n - 1
      BY <1>1, <1>2, <2>1, <3>2 DEF Onward
    <3> QED
      BY <3>1, <3>2
  <2> QED
    BY <1>1, <1>2, <1>3, <2>1, <2>2
<1>5. Filed(how, way, l, g, Last(line))
  BY <1>2, <1>3, <1>4 DEF Filed
<1>6. Joins(how, way, line[n], filed[n], z)
  <2>1. n \in 1 .. n /\ Onward(line, z, n) = z
    BY <1>1 DEF Onward
  <2> QED
    BY <1>1, <2>1
<1> QED
  BY <1>2, <1>3, <1>5, <1>6, <1>a DEF l, g

(* The walk along a stack passes the structures of its line.               *)
LEMMA FiledWalk ==
  ASSUME NEW how, NEW way, NEW line, NEW filed, NEW z, Filed(how, way, line, filed, z), NEW s, Is(how, s, z), NEW f,
         f[0] = s, \A k \in 1 .. Len(filed) : f[k] = Taken(way, f[k - 1], filed[Len(filed) + 1 - k])
  PROVE  /\ Views(how, Turned(f, Len(filed))) = line
         /\ \A k \in 1 .. Len(filed) : Is(how, f[Len(filed) + 1 - k], line[k])
<1> DEFINE n == Len(filed)
           At(k) == IF k = 0 THEN z ELSE line[n + 1 - k]
           S == {k \in 0 .. n : Is(how, f[k], At(k))}
<1>1. IsList(line) /\ IsList(filed) /\ Len(line) = n /\ n \in Nat
      /\ \A k \in 1 .. n : Joins(how, way, line[k], filed[k], Onward(line, z, k))
  BY ListHas DEF Filed
<1>2. \A k \in 1 .. n : f[k] = Taken(way, f[k - 1], filed[n + 1 - k])
  OBVIOUS
<1> HIDE DEF n
<1>3. 0 \in S
  BY <1>1
<1>4. ASSUME NEW k \in 1 .. n, k - 1 \in S PROVE k \in S
  <2> DEFINE j == n + 1 - k
  <2>1. j \in 1 .. n /\ k \in 0 .. n /\ k # 0
    BY <1>1
  <2>2. Onward(line, z, j) = At(k - 1)
    <3>1. CASE k = 1
      BY <1>1, <3>1 DEF Onward
    <3>2. CASE k # 1
      <4>1. j < n /\ n + 1 - (k - 1) = j + 1 /\ k - 1 # 0
        BY <1>1, <3>2
      <4> QED
        BY <1>1, <4>1 DEF Onward
    <3> QED
      BY <3>1, <3>2
  <2>3. At(k) = line[j]
    BY <2>1
  <2>4. f[k] = Taken(way, f[k - 1], filed[j])
    BY <1>2
  <2> HIDE DEF j
  <2>5. Is(how, f[k - 1], At(k - 1))
    BY <1>4
  <2> HIDE DEF At
  <2>6. Joins(how, way, line[j], filed[j], At(k - 1))
    BY <1>1, <2>1, <2>2
  <2>7. Is(how, f[k], line[j])
    BY <2>4, <2>5, <2>6, TakenIs
  <2> QED
    BY <2>1, <2>3, <2>7
<1>5. \A k \in 0 .. n : k \in S
  <2> HIDE DEF S
  <2> QED
    BY <1>1, <1>3, <1>4, Induct
<1>6. \A k \in 1 .. n : Is(how, f[n + 1 - k], line[k])
  <2> TAKE k \in 1 .. n
  <2>1. n + 1 - k \in 0 .. n /\ n + 1 - k # 0 /\ n + 1 - (n + 1 - k) = k
    BY <1>1
  <2> QED
    BY <1>5, <2>1
<1>7. Views(how, Turned(f, n)) = line
  <2> DEFINE d == Turned(f, n)
  <2>1. DOMAIN d = 1 .. n /\ \A k \in 1 .. n : See(how, d[k]) = line[k]
    BY <1>6 DEF Is, Turned
  <2> HIDE DEF d
  <2>2. Views(how, d) = [k \in 1 .. n |-> line[k]]
    BY <2>1 DEF Views
  <2>3. line = [k \in 1 .. n |-> line[k]]
    BY <1>1, ListHas
  <2> QED
    BY <2>2, <2>3 DEF d
<1> QED
  BY <1>6, <1>7 DEF n

(* Undoing the whole stack visits exactly the structures the line holds.    *)
LEMMA UnwoundIs ==
  ASSUME NEW how, NEW past, NEW undo, NEW z, Filed(how, "undo", past, undo, z), NEW s, Is(how, s, z)
  PROVE  /\ Views(how, Unwound(s, undo)) = past
         /\ undo # <<>> => Is(how, Unwound(s, undo)[1], past[1])
<1> DEFINE n == Len(undo)
<1>1. n \in Nat /\ (undo # <<>> => n # 0)
  BY ListHas DEF Filed
<1>2. PICK f : IsWalk("unwind", undo, s, n, f) /\ Unwound(s, undo) = Turned(f, n)
  BY <1>1, UnwindWalk
<1>3. f[0] = s /\ \A k \in 1 .. n : f[k] = Taken("undo", f[k - 1], undo[n + 1 - k])
  <2>1. \A x, k : Take("unwind", undo, x, k) = Taken("undo", x, undo[n + 1 - k])
    BY DEF Take, Taken
  <2> HIDE DEF n
  <2>2. f[0] = s /\ \A k \in 1 .. n : f[k] = Take("unwind", undo, f[k - 1], k)
    BY <1>1, <1>2 DEF IsWalk
  <2> QED
    BY <2>1, <2>2
<1> DEFINE d == Turned(f, n)
<1>4. Views(how, d) = past /\ \A k \in 1 .. n : Is(how, f[n + 1 - k], past[k])
  BY <1>3, FiledWalk
<1> HIDE DEF n
<1>5. undo # <<>> => d[1] = f[n + 1 - 1] /\ 1 \in 1 .. n
  BY <1>1 DEF Turned
<1> QED
  BY <1>2, <1>4, <1>5

(* Redoing the whole stack visits exactly the structures the line holds.    *)
LEMMA RewoundIs ==
  ASSUME NEW how, NEW future, NEW redo, NEW z, Filed(how, "redo", future, redo, z), NEW s, Is(how, s, z)
  PROVE  Views(how, Rewound(s, redo)) = future
<1> DEFINE n == Len(redo)
<1>1. n \in Nat
  BY ListHas DEF Filed
<1>2. PICK f : IsWalk("rewind", redo, s, n, f) /\ Rewound(s, redo) = Turned(f, n)
  BY <1>1, RewindWalk
<1>3. f[0] = s /\ \A k \in 1 .. n : f[k] = Taken("redo", f[k - 1], redo[n + 1 - k])
  <2>1. \A x, k : Take("rewind", redo, x, k) = Taken("redo", x, redo[n + 1 - k])
    BY DEF Take, Taken
  <2> HIDE DEF n
  <2>2. f[0] = s /\ \A k \in 1 .. n : f[k] = Take("rewind", redo, f[k - 1], k)
    BY <1>1, <1>2 DEF IsWalk
  <2> QED
    BY <2>1, <2>2
<1>4. Views(how, Turned(f, n)) = future
  BY <1>3, FiledWalk
<1> QED
  BY <1>2, <1>4

(* What a sketch session files when it is finished.                        *)
LEMMA FlatSpans ==
  ASSUME NEW how, NEW past, NEW undo, NEW z, Filed(how, "undo", past, undo, z)
  PROVE  Spans(how, EntryOf(past, z), FlattenSeq(undo), z)
<1> DEFINE n == Len(undo)
<1>1. IsList(past) /\ IsList(undo) /\ Len(past) = n /\ n \in Nat /\ (undo = <<>> <=> n = 0)
      /\ (past = <<>> <=> n = 0)
  BY ListHas DEF Filed
<1>2. \A k \in 1 .. n : Spans(how, past[k], undo[k], Onward(past, z, k))
  BY DEF Filed, Joins
<1>3. CASE n = 0
  <2>1. FlattenSeq(undo) = <<>>
    BY <1>1, <1>3 DEF FlattenSeq
  <2> QED
    BY <1>1, <1>3, <2>1, SpansNothing DEF EntryOf
<1>4. CASE n # 0
  <2> DEFINE P(f) == f = [i \in 1 .. n |-> IF i = 1 THEN undo[i] ELSE f[i - 1] \o undo[i]]
             flatten == CHOOSE f : P(f)
  <2>1. FlattenSeq(undo) = flatten[n]
    BY <1>1, <1>4 DEF FlattenSeq
  <2> DEFINE none == <<>>
  <2>2. PICK g : IsWalk("flat", undo, none, n, g)
    <3> HIDE DEF none, n
    <3> QED
      BY <1>1, WalkExists DEF CanWalk
  <2>3. g[0] = none /\ \A k \in 1 .. n : g[k] = g[k - 1] \o undo[k]
    <3>1. \A x, k : Take("flat", undo, x, k) = x \o undo[k]
      BY DEF Take
    <3> HIDE DEF none, n
    <3>2. g[0] = none /\ \A k \in 1 .. n : g[k] = Take("flat", undo, g[k - 1], k)
      BY <1>1, <2>2 DEF IsWalk
    <3> QED
      BY <3>1, <3>2
  <2> DEFINE h == [i \in 1 .. n |-> g[i]]
  <2>4. g[1] = undo[1]
    <3>1. g[1] = none \o undo[1] /\ 1 \in 1 .. n
      <4>1. 1 \in 1 .. n /\ 1 - 1 = 0
        BY <1>1, <1>4
      <4> HIDE DEF none, n
      <4> QED
        BY <2>3, <4>1
    <3>2. IsList(undo[1])
      <4> HIDE DEF n
      <4> QED
        BY <1>2, <3>1 DEF Spans
    <3>3. PICK T : undo[1] \in Seq(T)
      BY <3>2 DEF IsList
    <3> QED
      BY <3>1, <3>3, ConcatEmptySeq
  <2> HIDE DEF n, none
  <2>5. P(h)
    <3>1. \A i \in 1 .. n : h[i] = g[i]
      OBVIOUS
    <3> HIDE DEF h
    <3>2. \A i \in 1 .. n : h[i] = IF i = 1 THEN undo[i] ELSE h[i - 1] \o undo[i]
      <4> TAKE i \in 1 .. n
      <4>1. i # 1 => i - 1 \in 1 .. n
        BY <1>1
      <4> QED
        BY <2>3, <2>4, <3>1, <4>1
    <3>3. h = [i \in 1 .. n |-> h[i]]
      BY <3>1 DEF h
    <3> QED
      BY <3>2, <3>3
  <2>6. P(flatten)
    <3> HIDE DEF P
    <3> QED
      BY <2>5, Zenon
  <2> HIDE DEF flatten
  <2>7. \A i \in 1 .. n : flatten[i] = IF i = 1 THEN undo[i] ELSE flatten[i - 1] \o undo[i]
    BY <2>6
  <2> HIDE DEF P
  <2> DEFINE S == {k \in 0 .. n : k = 0 \/ Spans(how, past[1], flatten[k], Onward(past, z, k))}
  <2>8. ASSUME NEW k \in 1 .. n, k - 1 \in S PROVE k \in S
    <3>1. Spans(how, past[k], undo[k], Onward(past, z, k)) /\ k \in 0 .. n
      BY <1>2 DEF n
    <3>2. CASE k = 1
      <4>1. flatten[k] = undo[k]
        BY <2>7, <3>2
      <4> QED
        BY <3>1, <3>2, <4>1
    <3>3. CASE k # 1
      <4>1. flatten[k] = flatten[k - 1] \o undo[k]
        BY <2>7, <3>3
      <4>2. Onward(past, z, k - 1) = past[k]
        <5>1. k - 1 < Len(past) /\ (k - 1) + 1 = k
          BY <1>1 DEF n
        <5> QED
          BY <5>1 DEF Onward
      <4>3. k - 1 # 0
        BY <1>1, <3>3
      <4>4. Spans(how, past[1], flatten[k - 1], past[k])
        BY <2>8, <4>2, <4>3
      <4>5. Spans(how, past[1], flatten[k - 1] \o undo[k], Onward(past, z, k))
        BY <3>1, <4>4, SpansJoin
      <4> QED
        BY <3>1, <4>1, <4>5
    <3> QED
      BY <3>2, <3>3
  <2>9. \A k \in 0 .. n : k \in S
    <3>1. 0 \in S
      BY <1>1 DEF n
    <3> HIDE DEF S
    <3> QED
      BY <1>1, <2>8, <3>1, Induct DEF n
  <2>10. n \in S /\ Onward(past, z, n) = z
    BY <1>1, <2>9 DEF Onward, n
  <2>11. Spans(how, past[1], flatten[n], z)
    BY <1>4, <2>10 DEF n
  <2> QED
    BY <1>1, <1>4, <2>1, <2>11 DEF EntryOf, n
<1> QED
  BY <1>3, <1>4

(*********** What the stacks tell ***********)

(* The fields of a command stack.                                           *)
LEMMA StackHas ==
  ASSUME NEW u, NEW r, NEW o
  PROVE  Stack(u, r, o).undo = u /\ Stack(u, r, o).redo = r /\ Stack(u, r, o).open_group = o
BY DEF Stack

(* The fields of a line and of a pair of stacks.                            *)
LEMMA LineHas ==
  ASSUME NEW p, NEW f
  PROVE  /\ LineAt(p, f).past = p /\ LineAt(p, f).future = f
         /\ Lines(p, f).undo = p /\ Lines(p, f).redo = f
BY DEF LineAt, Lines

(* Stacks filed on both sides make a shut history.                          *)
LEMMA ShutMade ==
  ASSUME NEW how, NEW past, NEW future, NEW u, NEW r, NEW z, Both(how, past, future, u, r, z)
  PROVE  Shut(how, Stack(u, r, {}), z, past, future)
<1> DEFINE none == {}
           st == Stack(u, r, none)
<1>1. st.undo = u /\ st.redo = r
  BY StackHas
<1> HIDE DEF st, none
<1>2. st = Stack(st.undo, st.redo, none)
  BY <1>1 DEF st
<1> QED
  BY <1>1, <1>2 DEF Shut, st, none

(* Stacks filed on both sides, and a session's filed above its entry, make  *)
(* an open history.                                                         *)
LEMMA AjarMade ==
  ASSUME NEW how, NEW past, NEW future, NEW U, NEW R, NEW u, NEW r, NEW p, NEW f, NEW z,
         Both(how, p, f, u, r, z), Both(how, past, future, U, R, EntryOf(p, z))
  PROVE  Ajar(how, Stack(U, R, Alone(Lines(u, r))), z, past, future, Lines(u, r), LineAt(p, f))
<1> DEFINE lines == Lines(u, r)
           line == LineAt(p, f)
           group == Alone(lines)
           st == Stack(U, R, group)
<1>1. st.undo = U /\ st.redo = R
  BY StackHas
<1>2. lines.undo = u /\ lines.redo = r /\ line.past = p /\ line.future = f
  BY LineHas
<1>3. line = LineAt(line.past, line.future)
  BY <1>2
<1> HIDE DEF st, group, lines, line
<1>4. st = Stack(st.undo, st.redo, group)
  BY <1>1 DEF st
<1>5. Ajar(how, st, z, past, future, lines, line)
  BY <1>1, <1>2, <1>3, <1>4 DEF Ajar, group
<1> QED
  BY <1>5 DEF st, group, lines, line

(* The stacks an edit works on, and how they are put back.                 *)
LEMMA ShutWorks ==
  ASSUME NEW how, NEW st, NEW z, NEW past, NEW future, Shut(how, st, z, past, future)
  PROVE  /\ ~Open(st) /\ st.open_group = {}
         /\ Working(st).undo = st.undo /\ Working(st).redo = st.redo
         /\ \A u, r : Reworked(st, Lines(u, r)) = Stack(u, r, {})
<1>1. st = Stack(st.undo, st.redo, {})
  BY DEF Shut
<1>2. st.open_group = {} /\ ~Open(st)
  BY <1>1 DEF Stack, Open, NoGroup
<1>3. Working(st).undo = st.undo /\ Working(st).redo = st.redo
  BY <1>2 DEF Working
<1>4. ASSUME NEW u, NEW r PROVE Reworked(st, Lines(u, r)) = Stack(u, r, {})
  <2> DEFINE a == [st EXCEPT !.undo = u]
             b == [a EXCEPT !.redo = r]
  <2>1. Reworked(st, Lines(u, r)) = b
    BY <1>1, <1>2, LineHas DEF Reworked, Stack
  <2>2. a = Stack(u, st.redo, {})
    BY <1>1 DEF Stack
  <2> HIDE DEF a
  <2>3. b = Stack(u, r, {})
    BY <2>2 DEF Stack
  <2> QED
    BY <2>1, <2>3
<1> QED
  BY <1>2, <1>3, <1>4

(* While a sketch group is open, the working stacks are the session's       *)
(* (CommandStack::undo and record, command.rs).                             *)
LEMMA AjarWorks ==
  ASSUME NEW how, NEW st, NEW z, NEW past, NEW future, NEW lines, NEW line, Ajar(how, st, z, past, future, lines, line)
  PROVE  /\ Open(st) /\ Session(st) = lines /\ Working(st) = lines /\ st.open_group = Alone(lines)
         /\ \A u, r : Reworked(st, Lines(u, r)) = Stack(st.undo, st.redo, Alone(Lines(u, r)))
<1>1. st = Stack(st.undo, st.redo, Alone(lines))
  BY DEF Ajar
<1>2. st.open_group = {lines} /\ st.open_group = Alone(lines)
  BY <1>1 DEF Stack, Alone
<1>3. Open(st)
  BY <1>2 DEF Open, NoGroup
<1>4. Session(st) = lines
  BY <1>2, OnlyOne DEF Session
<1>5. Working(st) = lines
  BY <1>3, <1>4 DEF Working
<1>6. ASSUME NEW u, NEW r PROVE Reworked(st, Lines(u, r)) = Stack(st.undo, st.redo, Alone(Lines(u, r)))
  <2> DEFINE l == Lines(u, r)
  <2> HIDE DEF l
  <2>1. Reworked(st, l) = [st EXCEPT !.open_group = {l}]
    BY <1>3 DEF Reworked
  <2>2. [st EXCEPT !.open_group = {l}] = Stack(st.undo, st.redo, Alone(l))
    BY <1>1 DEF Stack, Alone
  <2> QED
    BY <2>1, <2>2 DEF l
<1> QED
  BY <1>2, <1>3, <1>4, <1>5, <1>6

(* A core at rest with another stack is at rest.                            *)
LEMMA RestackedIs ==
  ASSUME NEW how, NEW core, NEW z, NEW st, IsCore(how, core, z, st), NEW x
  PROVE  IsCore(how, Restacked(core, x), z, x) /\ Restacked(core, x).stack = x
<1>1. Restacked(core, x) = Core(core.scene, core.selection, x)
  BY CoreHas DEF Restacked
<1>2. IsCore(how, Core(core.scene, core.selection, x), z, x)
  BY CoreHas
<1> QED
  BY <1>1, <1>2, CoreParts

(* A core over stacks that tell a line tells it.                           *)
LEMMA TellsShut ==
  ASSUME NEW how, NEW core, NEW z, NEW st, IsCore(how, core, z, st), NEW u, NEW r, NEW past, NEW future,
         Both(how, past, future, u, r, z)
  PROVE  Tells(how, Restacked(core, Stack(u, r, {})), z, past, future, {})
<1> DEFINE none == {}
           x == Stack(u, r, none)
<1>1. Shut(how, x, z, past, future)
  BY ShutMade
<1> HIDE DEF x, none
<1>2. IsCore(how, Restacked(core, x), z, x) /\ Restacked(core, x).stack = x
  BY RestackedIs
<1>3. Tells(how, Restacked(core, x), z, past, future, none)
  BY <1>1, <1>2 DEF Tells, none
<1> QED
  BY <1>3 DEF x, none

(* A core at rest with a session's stacks filed above its entry tells an    *)
(* open history.                                                            *)
LEMMA TellsAjar ==
  ASSUME NEW how, NEW core, NEW z, NEW st, IsCore(how, core, z, st), NEW U, NEW R, NEW u, NEW r, NEW past, NEW future,
         NEW p, NEW f, Both(how, p, f, u, r, z), Both(how, past, future, U, R, EntryOf(p, z))
  PROVE  Tells(how, Restacked(core, Stack(U, R, Alone(Lines(u, r)))), z, past, future, Alone(LineAt(p, f)))
<1> DEFINE lines == Lines(u, r)
           line == LineAt(p, f)
           group == Alone(lines)
           own == Alone(line)
           x == Stack(U, R, group)
<1>1. Ajar(how, x, z, past, future, lines, line)
  BY AjarMade
<1> HIDE DEF x, group, lines, line
<1>2. IsCore(how, Restacked(core, x), z, x) /\ Restacked(core, x).stack = x
  BY RestackedIs
<1>3. Tells(how, Restacked(core, x), z, past, future, Alone(line))
  BY <1>1, <1>2 DEF Tells
<1> QED
  BY <1>3 DEF x, group, lines, line

(* A session's entry stays put while its line is walked.                   *)
LEMMA EntryStays ==
  ASSUME NEW p, IsList(p), NEW z, NEW y
  PROVE  /\ EntryOf(Append(p, z), y) = EntryOf(p, z)
         /\ p # <<>> => EntryOf(Front(p), Last(p)) = EntryOf(p, z)
         /\ EntryOf(<<>>, z) = z
<1>1. Len(p) \in Nat /\ (p = <<>> <=> Len(p) = 0)
  BY ListHas
<1>2. EntryOf(Append(p, z), y) = EntryOf(p, z)
  <2> DEFINE g == Append(p, z)
             n == Len(p)
  <2>1. g # <<>> /\ (\A k \in 1 .. n : g[k] = p[k]) /\ g[n + 1] = z
    BY ListGrown
  <2> HIDE DEF g, n
  <2>2. CASE n = 0
    BY <1>1, <2>1, <2>2 DEF EntryOf, g, n
  <2>3. CASE n # 0
    <3>1. 1 \in 1 .. n
      BY <1>1, <2>3 DEF n
    <3>2. g[1] = p[1]
      BY <2>1, <3>1
    <3> QED
      BY <1>1, <2>1, <2>3, <3>2 DEF EntryOf, g, n
  <2> QED
    BY <2>2, <2>3
<1>3. ASSUME p # <<>> PROVE EntryOf(Front(p), Last(p)) = EntryOf(p, z)
  <2> DEFINE g == Front(p)
             n == Len(p)
  <2>1. IsList(g) /\ Len(g) = n - 1 /\ (\A k \in 1 .. n - 1 : g[k] = p[k]) /\ Last(p) = p[n]
        /\ n \in Nat /\ n >= 1
    BY <1>3, ListEnds
  <2>2. g = <<>> <=> n - 1 = 0
    BY <2>1, ListHas
  <2> HIDE DEF g, n
  <2>3. CASE n = 1
    BY <1>3, <2>1, <2>2, <2>3 DEF EntryOf, g, n
  <2>4. CASE n # 1
    <3>1. 1 \in 1 .. n - 1 /\ n - 1 # 0
      BY <2>1, <2>4
    <3>2. g[1] = p[1]
      BY <2>1, <3>1
    <3> QED
      BY <1>3, <2>2, <3>1, <3>2 DEF EntryOf, g, n
  <2> QED
    BY <2>3, <2>4
<1> QED
  BY <1>2, <1>3 DEF EntryOf

(* How a line changes under an edit, an undo and a redo.                   *)
LEMMA BothEdited ==
  ASSUME NEW how, NEW past, NEW future, NEW u, NEW r, NEW z, Both(how, past, future, u, r, z), NEW t, NEW y, Spans(how, z, t, y)
  PROVE  Both(how, Append(past, z), <<>>, Append(u, t), <<>>, y)
BY FiledGrown, FiledNone DEF Both, Joins

(* Moving the last undo transaction to redo moves one entry from past to    *)
(* future.                                                                  *)
LEMMA BothUndone ==
  ASSUME NEW how, NEW past, NEW future, NEW u, NEW r, NEW z, Both(how, past, future, u, r, z), u # <<>>
  PROVE  /\ past # <<>> /\ Spans(how, Last(past), Last(u), z)
         /\ Both(how, Front(past), Append(future, z), Front(u), Append(r, Last(u)), Last(past))
<1>1. past # <<>> /\ Filed(how, "undo", Front(past), Front(u), Last(past)) /\ Joins(how, "undo", Last(past), Last(u), z)
  BY FiledShrunk DEF Both
<1>2. Spans(how, Last(past), Last(u), z)
  BY <1>1 DEF Joins
<1>3. Joins(how, "redo", z, Last(u), Last(past))
  BY <1>2 DEF Joins
<1>4. Filed(how, "redo", Append(future, z), Append(r, Last(u)), Last(past))
  BY <1>3, FiledGrown DEF Both
<1> QED
  BY <1>1, <1>2, <1>4 DEF Both

(* Moving the last redo transaction to undo moves one entry from future to  *)
(* past.                                                                    *)
LEMMA BothRedone ==
  ASSUME NEW how, NEW past, NEW future, NEW u, NEW r, NEW z, Both(how, past, future, u, r, z), r # <<>>
  PROVE  /\ future # <<>> /\ Spans(how, z, Last(r), Last(future))
         /\ Both(how, Append(past, z), Front(future), Append(u, Last(r)), Front(r), Last(future))
<1>1. future # <<>> /\ Filed(how, "redo", Front(future), Front(r), Last(future)) /\ Joins(how, "redo", Last(future), Last(r), z)
  BY FiledShrunk DEF Both
<1>2. Spans(how, z, Last(r), Last(future))
  BY <1>1 DEF Joins
<1>3. Joins(how, "undo", z, Last(r), Last(future))
  BY <1>2 DEF Joins
<1>4. Filed(how, "undo", Append(past, z), Append(u, Last(r)), Last(future))
  BY <1>3, FiledGrown DEF Both
<1> QED
  BY <1>1, <1>2, <1>4 DEF Both

(* The two ways a core can tell its line.                                  *)
LEMMA TellsClosed ==
  ASSUME NEW how, NEW core, NEW z, NEW past, NEW future, Tells(how, core, z, past, future, {})
  PROVE  IsCore(how, core, z, core.stack) /\ Shut(how, core.stack, z, past, future)
BY DEF Tells, Alone

(* A core that tells an open session has the stacks of one.                 *)
LEMMA TellsOpen ==
  ASSUME NEW how, NEW core, NEW z, NEW past, NEW future, NEW line, Tells(how, core, z, past, future, Alone(line))
  PROVE  IsCore(how, core, z, core.stack)
         /\ \E lines : Ajar(how, core.stack, z, past, future, lines, line)
BY DEF Tells, Alone

(* An edit, or a batch of them.                                            *)
LEMMA EditTells ==
  ASSUME NEW how, NEW core, NEW z, NEW past, NEW future, NEW intents, Len(intents) \in Nat,
         \A k \in 1 .. Len(intents) : IsTold(how, intents[k])
  PROVE  /\ Tells(how, core, z, past, future, {}) =>
              \/ ApplyTransaction(core, intents) = core
              \/ \E y : Tells(how, ApplyTransaction(core, intents), y, Append(past, z), <<>>, {})
         /\ \A line : Tells(how, core, z, past, future, Alone(line)) =>
              \/ ApplyTransaction(core, intents) = core
              \/ \E y : Tells(how, ApplyTransaction(core, intents), y, past, future,
                              Alone(LineAt(Append(line.past, z), <<>>)))
<1> DEFINE run == RecordAll(core, intents)
           st == core.stack
           new == ApplyTransaction(core, intents)
           t == run.commands
           u == Append(Working(st).undo, t)
<1>1. ASSUME IsCore(how, core, z, st), new # core
      PROVE  /\ \E y : IsCore(how, run.core, y, st) /\ Spans(how, z, t, y)
             /\ new = Restacked(run.core, Reworked(st, Lines(u, <<>>)))
  <2>1. IsRun(how, run, z, st)
    BY <1>1, RecordAllIs
  <2>2. PICK y : IsCore(how, run.core, y, st) /\ Spans(how, z, t, y)
    BY <2>1 DEF IsRun
  <2>3. run.core.stack = st
    BY <2>2, CoreHas
  <2>4. new = Restacked(run.core, Pushed(run.core.stack, t))
    BY <1>1 DEF ApplyTransaction, Restacked
  <2>5. Pushed(st, t) = Reworked(st, Lines(u, <<>>))
    BY DEF Pushed, Lines
  <2> QED
    BY <2>2, <2>3, <2>4, <2>5
<1> HIDE DEF run, new
<1>2. ASSUME Tells(how, core, z, past, future, {}), new # core
      PROVE  \E y : Tells(how, new, y, Append(past, z), <<>>, {})
  <2> DEFINE p == Append(past, z)
             none == <<>>
             v == Append(st.undo, t)
  <2>1. IsCore(how, core, z, st) /\ Shut(how, st, z, past, future)
    BY <1>2, TellsClosed
  <2>2. PICK y : IsCore(how, run.core, y, st) /\ Spans(how, z, t, y)
    BY <1>1, <1>2, <2>1
  <2>3. Working(st).undo = st.undo /\ Reworked(st, Lines(v, none)) = Stack(v, none, {})
    BY <2>1, ShutWorks
  <2>4. new = Restacked(run.core, Stack(v, none, {}))
    BY <1>1, <1>2, <2>1, <2>3
  <2>5. Both(how, p, none, v, none, y)
    BY <2>1, <2>2, BothEdited DEF Shut
  <2> HIDE DEF p, v, none
  <2>6. Tells(how, new, y, p, none, {})
    BY <2>2, <2>4, <2>5, TellsShut
  <2> QED
    BY <2>6 DEF p, none
<1>3. ASSUME NEW line, Tells(how, core, z, past, future, Alone(line)), new # core
      PROVE  \E y : Tells(how, new, y, past, future, Alone(LineAt(Append(line.past, z), <<>>)))
  <2>1. IsCore(how, core, z, st)
    BY <1>3, TellsOpen
  <2>2. PICK lines : Ajar(how, st, z, past, future, lines, line)
    BY <1>3, TellsOpen
  <2> DEFINE p == Append(line.past, z)
             none == <<>>
             v == Append(lines.undo, t)
             entry == EntryOf(line.past, z)
  <2>3. PICK y : IsCore(how, run.core, y, st) /\ Spans(how, z, t, y)
    BY <1>1, <1>3, <2>1
  <2>4. Working(st) = lines /\ Reworked(st, Lines(v, none)) = Stack(st.undo, st.redo, Alone(Lines(v, none)))
    BY <2>2, AjarWorks
  <2>5. new = Restacked(run.core, Stack(st.undo, st.redo, Alone(Lines(v, none))))
    BY <1>1, <1>3, <2>1, <2>4
  <2>6. Both(how, p, none, v, none, y)
    BY <2>2, <2>3, BothEdited DEF Ajar
  <2>7. EntryOf(p, y) = entry
    BY <2>2, EntryStays DEF Ajar, Both, Filed
  <2>8. Both(how, past, future, st.undo, st.redo, EntryOf(p, y))
    BY <2>2, <2>7 DEF Ajar
  <2> HIDE DEF p, v, none
  <2>9. Tells(how, new, y, past, future, Alone(LineAt(p, none)))
    BY <2>3, <2>5, <2>6, <2>8, TellsAjar
  <2> QED
    BY <2>9 DEF p, none
<1> QED
  BY <1>2, <1>3 DEF new

(* An undo.                                                                *)
LEMMA UndoTells ==
  ASSUME NEW how, NEW core, NEW z, NEW past, NEW future, Working(core.stack).undo # <<>>
  PROVE  /\ Tells(how, core, z, past, future, {}) =>
              /\ past # <<>>
              /\ Tells(how, UndoOn(core), Last(past), Front(past), Append(future, z), {})
         /\ \A line : Tells(how, core, z, past, future, Alone(line)) =>
              /\ line.past # <<>>
              /\ Tells(how, UndoOn(core), Last(line.past), past, future,
                       Alone(LineAt(Front(line.past), Append(line.future, z))))
<1> DEFINE st == core.stack
           w == Working(st)
           t == Last(w.undo)
           u == Front(w.undo)
           r == Append(w.redo, t)
           back == ReverseAll(core, t)
           new == UndoOn(core)
<1>1. new = Restacked(back, Reworked(back.stack, Lines(u, r)))
  BY DEF UndoOn, Restacked, Lines
<1>a. ASSUME NEW a, IsCore(how, core, z, st), Spans(how, a, t, z)
      PROVE IsCore(how, back, a, st) /\ back.stack = st
  <2>1. IsCore(how, back, a, st)
    BY <1>a, ReverseAllIs
  <2> QED
    BY <2>1, CoreHas
<1> HIDE DEF new, back
<1>2. ASSUME Tells(how, core, z, past, future, {})
      PROVE  past # <<>> /\ Tells(how, new, Last(past), Front(past), Append(future, z), {})
  <2> DEFINE a == Last(past)
             p == Front(past)
             f == Append(future, z)
  <2>1. IsCore(how, core, z, st) /\ Shut(how, st, z, past, future)
    BY <1>2, TellsClosed
  <2>2. w.undo = st.undo /\ w.redo = st.redo /\ Reworked(st, Lines(u, r)) = Stack(u, r, {})
    BY <2>1, ShutWorks
  <2>3. Both(how, past, future, w.undo, w.redo, z)
    BY <2>1, <2>2 DEF Shut
  <2>4. past # <<>> /\ Spans(how, a, t, z) /\ Both(how, p, f, u, r, a)
    BY <2>3, BothUndone
  <2> HIDE DEF a, p, f, t, u, r, w
  <2>5. IsCore(how, back, a, st) /\ back.stack = st
    BY <1>a, <2>1, <2>4
  <2>6. new = Restacked(back, Stack(u, r, {}))
    BY <1>1, <2>2, <2>5
  <2>7. Tells(how, new, a, p, f, {})
    BY <2>4, <2>5, <2>6, TellsShut
  <2> QED
    BY <2>4, <2>7 DEF a, p, f
<1>3. ASSUME NEW line, Tells(how, core, z, past, future, Alone(line))
      PROVE  /\ line.past # <<>>
             /\ Tells(how, new, Last(line.past), past, future,
                      Alone(LineAt(Front(line.past), Append(line.future, z))))
  <2> DEFINE a == Last(line.past)
             p == Front(line.past)
             f == Append(line.future, z)
  <2>1. IsCore(how, core, z, st)
    BY <1>3, TellsOpen
  <2>2. PICK lines : Ajar(how, st, z, past, future, lines, line)
    BY <1>3, TellsOpen
  <2>3. w = lines /\ Reworked(st, Lines(u, r)) = Stack(st.undo, st.redo, Alone(Lines(u, r)))
    BY <2>2, AjarWorks
  <2>4. Both(how, line.past, line.future, w.undo, w.redo, z)
    BY <2>2, <2>3 DEF Ajar
  <2>5. line.past # <<>> /\ Spans(how, a, t, z) /\ Both(how, p, f, u, r, a)
    BY <2>4, BothUndone
  <2>6. EntryOf(p, a) = EntryOf(line.past, z)
    BY <2>4, <2>5, EntryStays DEF Both, Filed
  <2>7. Both(how, past, future, st.undo, st.redo, EntryOf(p, a))
    BY <2>2, <2>6 DEF Ajar
  <2> HIDE DEF a, p, f, t, u, r, w
  <2>8. IsCore(how, back, a, st) /\ back.stack = st
    BY <1>a, <2>1, <2>5
  <2>9. new = Restacked(back, Stack(st.undo, st.redo, Alone(Lines(u, r))))
    BY <1>1, <2>3, <2>8
  <2>10. Tells(how, new, a, past, future, Alone(LineAt(p, f)))
    BY <2>5, <2>7, <2>8, <2>9, TellsAjar
  <2> QED
    BY <2>5, <2>10 DEF a, p, f
<1> QED
  BY <1>2, <1>3 DEF new

(* A redo.                                                                 *)
LEMMA RedoTells ==
  ASSUME NEW how, NEW core, NEW z, NEW past, NEW future, Working(core.stack).redo # <<>>
  PROVE  /\ Tells(how, core, z, past, future, {}) =>
              /\ future # <<>>
              /\ Tells(how, RedoOn(core), Last(future), Append(past, z), Front(future), {})
         /\ \A line : Tells(how, core, z, past, future, Alone(line)) =>
              /\ line.future # <<>>
              /\ Tells(how, RedoOn(core), Last(line.future), past, future,
                       Alone(LineAt(Append(line.past, z), Front(line.future))))
<1> DEFINE st == core.stack
           w == Working(st)
           t == Last(w.redo)
           u == Append(w.undo, t)
           r == Front(w.redo)
           forth == ReplayAll(core, t)
           new == RedoOn(core)
<1>1. new = Restacked(forth, Reworked(forth.stack, Lines(u, r)))
  BY DEF RedoOn, Restacked, Lines
<1>a. ASSUME NEW a, IsCore(how, core, z, st), Spans(how, z, t, a)
      PROVE IsCore(how, forth, a, st) /\ forth.stack = st
  <2>1. IsCore(how, forth, a, st)
    BY <1>a, ReplayAllIs
  <2> QED
    BY <2>1, CoreHas
<1> HIDE DEF new, forth
<1>2. ASSUME Tells(how, core, z, past, future, {})
      PROVE  future # <<>> /\ Tells(how, new, Last(future), Append(past, z), Front(future), {})
  <2> DEFINE a == Last(future)
             p == Append(past, z)
             f == Front(future)
  <2>1. IsCore(how, core, z, st) /\ Shut(how, st, z, past, future)
    BY <1>2, TellsClosed
  <2>2. w.undo = st.undo /\ w.redo = st.redo /\ Reworked(st, Lines(u, r)) = Stack(u, r, {})
    BY <2>1, ShutWorks
  <2>3. Both(how, past, future, w.undo, w.redo, z)
    BY <2>1, <2>2 DEF Shut
  <2>4. future # <<>> /\ Spans(how, z, t, a) /\ Both(how, p, f, u, r, a)
    BY <2>3, BothRedone
  <2> HIDE DEF a, p, f, t, u, r, w
  <2>5. IsCore(how, forth, a, st) /\ forth.stack = st
    BY <1>a, <2>1, <2>4
  <2>6. new = Restacked(forth, Stack(u, r, {}))
    BY <1>1, <2>2, <2>5
  <2>7. Tells(how, new, a, p, f, {})
    BY <2>4, <2>5, <2>6, TellsShut
  <2> QED
    BY <2>4, <2>7 DEF a, p, f
<1>3. ASSUME NEW line, Tells(how, core, z, past, future, Alone(line))
      PROVE  /\ line.future # <<>>
             /\ Tells(how, new, Last(line.future), past, future,
                      Alone(LineAt(Append(line.past, z), Front(line.future))))
  <2> DEFINE a == Last(line.future)
             p == Append(line.past, z)
             f == Front(line.future)
  <2>1. IsCore(how, core, z, st)
    BY <1>3, TellsOpen
  <2>2. PICK lines : Ajar(how, st, z, past, future, lines, line)
    BY <1>3, TellsOpen
  <2>3. w = lines /\ Reworked(st, Lines(u, r)) = Stack(st.undo, st.redo, Alone(Lines(u, r)))
    BY <2>2, AjarWorks
  <2>4. Both(how, line.past, line.future, w.undo, w.redo, z)
    BY <2>2, <2>3 DEF Ajar
  <2>5. line.future # <<>> /\ Spans(how, z, t, a) /\ Both(how, p, f, u, r, a)
    BY <2>4, BothRedone
  <2>6. EntryOf(p, a) = EntryOf(line.past, z)
    BY <2>4, EntryStays DEF Both, Filed
  <2>7. Both(how, past, future, st.undo, st.redo, EntryOf(p, a))
    BY <2>2, <2>6 DEF Ajar
  <2> HIDE DEF a, p, f, t, u, r, w
  <2>8. IsCore(how, forth, a, st) /\ forth.stack = st
    BY <1>a, <2>1, <2>5
  <2>9. new = Restacked(forth, Stack(st.undo, st.redo, Alone(Lines(u, r))))
    BY <1>1, <2>3, <2>8
  <2>10. Tells(how, new, a, past, future, Alone(LineAt(p, f)))
    BY <2>5, <2>7, <2>8, <2>9, TellsAjar
  <2> QED
    BY <2>5, <2>10 DEF a, p, f
<1> QED
  BY <1>2, <1>3 DEF new

(* A sketch session: entered, finished and cancelled.                      *)
LEMMA BeginTells ==
  ASSUME NEW how, NEW core, NEW z, NEW past, NEW future, Tells(how, core, z, past, future, {})
  PROVE  Tells(how, BeginOn(core), z, past, future, Alone(LineAt(<<>>, <<>>)))
<1> DEFINE st == core.stack
           none == <<>>
           x == Stack(st.undo, st.redo, Alone(Lines(none, none)))
<1>1. IsCore(how, core, z, st) /\ Shut(how, st, z, past, future)
  BY TellsClosed
<1>2. ~Open(st)
  BY <1>1, ShutWorks
<1>3. BeginOn(core) = Restacked(core, x)
  <2>1. core = Core(core.scene, core.selection, st) /\ st = Stack(st.undo, st.redo, {})
    BY <1>1, CoreHas DEF Shut
  <2>2. Restacked(core, x) = Core(core.scene, core.selection, x)
    BY <1>1, CoreHas DEF Restacked
  <2>3. BeginOn(core) = Restacked(core, [st EXCEPT !.open_group = {EmptyGroup}])
    BY <1>2, <2>1 DEF BeginOn, Restacked, Core
  <2>4. [st EXCEPT !.open_group = {EmptyGroup}] = x
    <3>1. \A u, r, y : [Stack(u, r, {}) EXCEPT !.open_group = y] = Stack(u, r, y)
      BY DEF Stack
    <3>2. {EmptyGroup} = Alone(Lines(none, none))
      BY DEF Alone, EmptyGroup, Lines
    <3> DEFINE y == {EmptyGroup}
    <3> HIDE DEF y, st, none
    <3>3. [st EXCEPT !.open_group = y] = Stack(st.undo, st.redo, y)
      BY <2>1, <3>1
    <3> QED
      BY <3>2, <3>3 DEF y
  <2> QED
    BY <2>3, <2>4
<1>4. Both(how, none, none, none, none, z)
  BY FiledNone DEF Both
<1>5. Both(how, past, future, st.undo, st.redo, EntryOf(none, z))
  BY <1>1 DEF Shut, EntryOf
<1> HIDE DEF none, st
<1>6. Tells(how, Restacked(core, x), z, past, future, Alone(LineAt(none, none)))
  BY <1>1, <1>4, <1>5, TellsAjar
<1> QED
  BY <1>3, <1>6 DEF none, st

(* finish_sketch_group: an empty session leaves the history alone, any      *)
(* other adds its entry as one step.                                        *)
LEMMA FinishTells ==
  ASSUME NEW how, NEW core, NEW z, NEW past, NEW future, NEW line, Tells(how, core, z, past, future, Alone(line))
  PROVE  IF line.past = <<>> THEN Tells(how, FinishOn(core), z, past, future, {})
         ELSE Tells(how, FinishOn(core), z, Append(past, EntryOf(line.past, z)), <<>>, {})
<1> DEFINE st == core.stack
           entry == EntryOf(line.past, z)
           off == Stack(st.undo, st.redo, {})
           closed == Restacked(core, off)
<1>1. IsCore(how, core, z, st)
  BY TellsOpen
<1>2. PICK lines : Ajar(how, st, z, past, future, lines, line)
  BY TellsOpen
<1>3. Open(st) /\ Session(st) = lines /\ st.open_group = Alone(lines)
  BY <1>2, AjarWorks
<1>4. Both(how, line.past, line.future, lines.undo, lines.redo, z) /\ Both(how, past, future, st.undo, st.redo, entry)
  BY <1>2 DEF Ajar
<1>5. line.past = <<>> <=> lines.undo = <<>>
  BY <1>4, ListHas DEF Both, Filed
<1> DEFINE t == FlattenSeq(lines.undo)
<1>6. [core EXCEPT !.stack.open_group = NoGroup] = closed
  <2>1. core = Core(core.scene, core.selection, st) /\ st = Stack(st.undo, st.redo, Alone(lines))
    BY <1>1, <1>2, CoreHas DEF Ajar
  <2>2. [core EXCEPT !.stack.open_group = NoGroup] = Restacked(core, [st EXCEPT !.open_group = NoGroup])
    BY <2>1 DEF Restacked, Core
  <2>3. [st EXCEPT !.open_group = NoGroup] = off
    BY <2>1 DEF Stack, NoGroup
  <2> QED
    BY <2>2, <2>3
<1>7. IsCore(how, closed, z, off) /\ closed.stack = off
  BY <1>1, RestackedIs
<1>8. CASE line.past = <<>>
  <2>1. entry = z
    BY <1>8 DEF EntryOf
  <2>2. FinishOn(core) = closed
    BY <1>3, <1>5, <1>6, <1>8 DEF FinishOn
  <2>3. Tells(how, closed, z, past, future, {})
    BY <1>1, <1>4, <2>1, TellsShut
  <2> QED
    BY <1>8, <2>2, <2>3
<1>9. CASE line.past # <<>>
  <2> DEFINE none == <<>>
             u == Append(st.undo, t)
             p == Append(past, entry)
             full == Stack(u, none, {})
  <2>1. FinishOn(core) = Restacked(closed, Pushed(closed.stack, t))
    <3> HIDE DEF closed, t
    <3> QED
      BY <1>3, <1>5, <1>6, <1>9 DEF FinishOn, Restacked, t
  <2>2. Spans(how, entry, t, z)
    BY <1>4, FlatSpans DEF Both
  <2>3. Both(how, p, none, u, none, z)
    BY <1>4, <2>2, BothEdited
  <2>4. off.undo = st.undo /\ off.open_group = {}
    BY StackHas
  <2>5. Pushed(off, t) = full
    <3>1. Shut(how, off, entry, past, future)
      BY <1>4, ShutMade
    <3> HIDE DEF off, t, u
    <3>2. Working(off).undo = st.undo /\ Reworked(off, Lines(u, none)) = Stack(u, none, {})
      BY <2>4, <3>1, ShutWorks
    <3> QED
      BY <3>2 DEF Pushed, Lines, u
  <2> HIDE DEF closed, off, none, u, p
  <2>6. Tells(how, Restacked(closed, full), z, p, none, {})
    BY <1>7, <2>3, TellsShut
  <2>7. Tells(how, FinishOn(core), z, p, none, {})
    BY <1>7, <2>1, <2>5, <2>6
  <2> QED
    BY <1>9, <2>7 DEF p, none
<1> QED
  BY <1>8, <1>9

(* cancel_sketch_group: the scene returns to the session's entry and the    *)
(* outer history is untouched.                                              *)
LEMMA CancelTells ==
  ASSUME NEW how, NEW core, NEW z, NEW past, NEW future, NEW line, Tells(how, core, z, past, future, Alone(line))
  PROVE  Tells(how, CancelOn(core), EntryOf(line.past, z), past, future, {})
<1> DEFINE st == core.stack
           entry == EntryOf(line.past, z)
           off == Stack(st.undo, st.redo, {})
<1>1. IsCore(how, core, z, st)
  BY TellsOpen
<1>2. PICK lines : Ajar(how, st, z, past, future, lines, line)
  BY TellsOpen
<1>3. Open(st) /\ Session(st) = lines
  BY <1>2, AjarWorks
<1>4. Both(how, line.past, line.future, lines.undo, lines.redo, z) /\ Both(how, past, future, st.undo, st.redo, entry)
  BY <1>2 DEF Ajar
<1> DEFINE t == FlattenSeq(lines.undo)
           back == ReverseAll(core, t)
<1>5. Spans(how, entry, t, z)
  BY <1>4, FlatSpans DEF Both
<1>6. IsCore(how, back, entry, st)
  <2> HIDE DEF t, entry
  <2> QED
    BY <1>1, <1>5, ReverseAllIs
<1>7. CancelOn(core) = [back EXCEPT !.stack.open_group = NoGroup]
  BY <1>3 DEF CancelOn
<1> HIDE DEF back, entry
<1>8. [back EXCEPT !.stack.open_group = NoGroup] = Restacked(back, off)
  <2>1. back = Core(back.scene, back.selection, st) /\ st = Stack(st.undo, st.redo, Alone(lines))
    BY <1>2, <1>6, CoreHas DEF Ajar
  <2>2. [back EXCEPT !.stack.open_group = NoGroup] = Restacked(back, [st EXCEPT !.open_group = NoGroup])
    BY <2>1 DEF Restacked, Core
  <2>3. [st EXCEPT !.open_group = NoGroup] = off
    BY <2>1 DEF Stack, NoGroup
  <2> QED
    BY <2>2, <2>3
<1>9. Tells(how, Restacked(back, off), entry, past, future, {})
  BY <1>4, <1>6, TellsShut
<1> QED
  BY <1>7, <1>8, <1>9 DEF entry

(*********** The stacks as the refinement sees them ***********)

(* A shut history is seen as its line and no session.                       *)
LEMMA ShutSeen ==
  ASSUME NEW how, NEW s, NEW st, NEW z, Is(how, s, z), NEW past, NEW future, Shut(how, st, z, past, future)
  PROVE  PastOf(how, s, st) = past /\ FutureOf(how, s, st) = future /\ OwnOf(how, s, st) = {}
<1>1. ~Open(st) /\ st.open_group = {}
  BY ShutWorks
<1>2. EnteredOf(s, st) = s
  BY <1>1 DEF EnteredOf
<1>3. Filed(how, "undo", past, st.undo, z) /\ Filed(how, "redo", future, st.redo, z)
  BY DEF Shut, Both
<1>4. PastOf(how, s, st) = past
  BY <1>2, <1>3, UnwoundIs DEF PastOf
<1>5. FutureOf(how, s, st) = future
  BY <1>2, <1>3, RewoundIs DEF FutureOf
<1>6. OwnOf(how, s, st) = {}
  BY <1>1 DEF OwnOf
<1> QED
  BY <1>4, <1>5, <1>6

(* An open history is seen as its outer line and its session's.             *)
LEMMA AjarSeen ==
  ASSUME NEW how, NEW s, NEW st, NEW z, Is(how, s, z), NEW past, NEW future, NEW lines, NEW line,
         Ajar(how, st, z, past, future, lines, line)
  PROVE  PastOf(how, s, st) = past /\ FutureOf(how, s, st) = future /\ OwnOf(how, s, st) = Alone(line)
<1> DEFINE e == EnteredOf(s, st)
           entry == EntryOf(line.past, z)
<1>1. Open(st) /\ Session(st) = lines /\ st.open_group = Alone(lines)
  BY AjarWorks
<1>2. /\ Filed(how, "undo", line.past, lines.undo, z) /\ Filed(how, "redo", line.future, lines.redo, z)
      /\ Filed(how, "undo", past, st.undo, entry) /\ Filed(how, "redo", future, st.redo, entry)
      /\ line = LineAt(line.past, line.future)
  BY DEF Ajar, Both
<1>3. line.past = <<>> <=> lines.undo = <<>>
  BY <1>2, ListHas DEF Filed
<1>4. Is(how, e, entry)
  <2>1. CASE lines.undo = <<>>
    <3>1. e = s
      BY <1>1, <2>1 DEF EnteredOf
    <3>2. entry = z
      BY <1>3, <2>1 DEF EntryOf
    <3> QED
      BY <3>1, <3>2
  <2>2. CASE lines.undo # <<>>
    <3>1. e = Unwound(s, lines.undo)[1]
      BY <1>1, <2>2 DEF EnteredOf
    <3>2. entry = line.past[1]
      BY <1>3, <2>2 DEF EntryOf
    <3>3. Is(how, Unwound(s, lines.undo)[1], line.past[1])
      BY <1>2, <2>2, UnwoundIs
    <3> QED
      BY <3>1, <3>2, <3>3
  <2> QED
    BY <2>1, <2>2
<1> HIDE DEF e, entry
<1>5. Views(how, Unwound(e, st.undo)) = past
  BY <1>2, <1>4, UnwoundIs
<1>6. Views(how, Rewound(e, st.redo)) = future
  BY <1>2, <1>4, RewoundIs
<1>7. OwnOf(how, s, st) = Alone(line)
  <2>1. Views(how, Unwound(s, lines.undo)) = line.past
    BY <1>2, UnwoundIs
  <2>2. Views(how, Rewound(s, lines.redo)) = line.future
    BY <1>2, RewoundIs
  <2>3. LineSeen(how, s, lines) = line
    BY <1>2, <2>1, <2>2 DEF LineSeen
  <2>4. OwnOf(how, s, st) = {LineSeen(how, s, x) : x \in {lines}}
    BY <1>1 DEF OwnOf, Alone
  <2> QED
    BY <2>3, <2>4 DEF Alone
<1> QED
  BY <1>5, <1>6, <1>7 DEF PastOf, FutureOf, e

(* A core that tells a history is seen as that history.                     *)
LEMMA TellsSeen ==
  ASSUME NEW how, NEW core, NEW z, NEW past, NEW future, NEW own, Tells(how, core, z, past, future, own)
  PROVE  /\ See(how, core.scene) = z /\ IsDocument(core.scene)
         /\ core.selection = Live(core.scene, core.selection)
         /\ PastOf(how, core.scene, core.stack) = past /\ FutureOf(how, core.scene, core.stack) = future
         /\ OwnOf(how, core.scene, core.stack) = own
<1>1. IsCore(how, core, z, core.stack)
  BY DEF Tells
<1>2. Is(how, core.scene, z) /\ core.selection = Live(core.scene, core.selection)
  BY <1>1 DEF IsCore
<1>3. CASE own = {} /\ Shut(how, core.stack, z, past, future)
  BY <1>2, <1>3, ShutSeen DEF Is
<1>4. CASE \E lines, line : own = Alone(line) /\ Ajar(how, core.stack, z, past, future, lines, line)
  <2>1. PICK lines, line : own = Alone(line) /\ Ajar(how, core.stack, z, past, future, lines, line)
    BY <1>4
  <2> QED
    BY <1>2, <2>1, AjarSeen DEF Is
<1> QED
  BY <1>3, <1>4 DEF Tells

(*********** What an author is shown, and how it moves ***********)

(* What a core tells is what it shows.                                      *)
LEMMA ToldShown ==
  ASSUME NEW how, NEW core, NEW z, NEW past, NEW future, NEW own, Tells(how, core, z, past, future, own)
  PROVE  Told(how, core) /\ Shown(how, core) = Moment(z, past, future, own)
BY TellsSeen DEF Told, Shown

(* The fields of a moment.                                                  *)
LEMMA MomentHas ==
  ASSUME NEW z, NEW past, NEW future, NEW own
  PROVE  /\ Moment(z, past, future, own).doc = z /\ Moment(z, past, future, own).past = past
         /\ Moment(z, past, future, own).future = future /\ Moment(z, past, future, own).session = own
BY DEF Moment

(* The history told is that of a closed session or of an open one.          *)
LEMMA ToldWhich ==
  ASSUME NEW how, NEW core, Told(how, core)
  PROVE  \E z, past, future :
           \/ ~Open(core.stack) /\ Tells(how, core, z, past, future, {})
           \/ Open(core.stack) /\ \E line : Tells(how, core, z, past, future, Alone(line)) /\ IsList(line.past)
<1>1. PICK z, past, future, own : Tells(how, core, z, past, future, own)
  BY DEF Told
<1>2. CASE own = {} /\ Shut(how, core.stack, z, past, future)
  BY <1>1, <1>2, ShutWorks
<1>3. CASE \E lines, line : own = Alone(line) /\ Ajar(how, core.stack, z, past, future, lines, line)
  <2>1. PICK lines, line : own = Alone(line) /\ Ajar(how, core.stack, z, past, future, lines, line)
    BY <1>3
  <2>2. Open(core.stack) /\ IsList(line.past)
    BY <2>1, AjarWorks DEF Ajar, Both, Filed
  <2> QED
    BY <1>1, <2>1, <2>2
<1> QED
  BY <1>1, <1>2, <1>3 DEF Tells

(* A batch of intents is an edit of the history, or leaves the core as it   *)
(* is when every intent is refused (apply_transaction, intent.rs).          *)
LEMMA EditAdvances ==
  ASSUME NEW how, NEW core, Told(how, core), NEW intents, Len(intents) \in Nat,
         \A k \in 1 .. Len(intents) : IsTold(how, intents[k])
  PROVE  /\ Told(how, ApplyTransaction(core, intents))
         /\ Advances(Shown(how, core), Shown(how, ApplyTransaction(core, intents)))
<1> DEFINE new == ApplyTransaction(core, intents)
           none == <<>>
<1>1. PICK z, past, future :
        \/ ~Open(core.stack) /\ Tells(how, core, z, past, future, {})
        \/ Open(core.stack) /\ \E line : Tells(how, core, z, past, future, Alone(line)) /\ IsList(line.past)
  BY ToldWhich
<1>2. CASE new = core
  BY <1>2 DEF Advances
<1>3. CASE new # core /\ Tells(how, core, z, past, future, {})
  <2> DEFINE p == Append(past, z)
  <2>1. PICK y : Tells(how, new, y, p, none, {})
    BY <1>3, EditTells
  <2>2. Steps(z, past, future, y, p, none)
    BY DEF Steps
  <2> HIDE DEF new, p, none
  <2>3. Told(how, new) /\ Shown(how, new) = Moment(y, p, none, {})
        /\ Shown(how, core) = Moment(z, past, future, {})
    BY <1>3, <2>1, ToldShown
  <2> QED
    BY <2>2, <2>3 DEF Advances, MovesOuter, new
<1>4. ASSUME NEW line, new # core, Tells(how, core, z, past, future, Alone(line))
      PROVE  Told(how, new) /\ Advances(Shown(how, core), Shown(how, new))
  <2> DEFINE p == Append(line.past, z)
  <2>1. PICK y : Tells(how, new, y, past, future, Alone(LineAt(p, none)))
    BY <1>4, EditTells
  <2>2. Steps(z, line.past, line.future, y, p, none)
    BY DEF Steps
  <2> HIDE DEF new, p, none
  <2>3. Told(how, new) /\ Shown(how, new) = Moment(y, past, future, Alone(LineAt(p, none)))
        /\ Shown(how, core) = Moment(z, past, future, Alone(line))
    BY <1>4, <2>1, ToldShown
  <2> QED
    BY <2>2, <2>3 DEF Advances, MovesInner
<1> QED
  BY <1>1, <1>2, <1>3, <1>4

(* AppCore::undo moves the history one entry back.                          *)
LEMMA UndoAdvances ==
  ASSUME NEW how, NEW core, Told(how, core), Working(core.stack).undo # <<>>
  PROVE  Told(how, UndoOn(core)) /\ Advances(Shown(how, core), Shown(how, UndoOn(core)))
<1> DEFINE new == UndoOn(core)
<1>1. PICK z, past, future :
        \/ ~Open(core.stack) /\ Tells(how, core, z, past, future, {})
        \/ Open(core.stack) /\ \E line : Tells(how, core, z, past, future, Alone(line)) /\ IsList(line.past)
  BY ToldWhich
<1>2. CASE Tells(how, core, z, past, future, {})
  <2> DEFINE y == Last(past)
             p == Front(past)
             f == Append(future, z)
  <2>1. past # <<>> /\ Tells(how, new, y, p, f, {})
    BY <1>2, UndoTells
  <2>2. Steps(z, past, future, y, p, f)
    BY <2>1 DEF Steps
  <2> HIDE DEF new, y, p, f
  <2>3. Told(how, new) /\ Shown(how, new) = Moment(y, p, f, {})
        /\ Shown(how, core) = Moment(z, past, future, {})
    BY <1>2, <2>1, ToldShown
  <2> QED
    BY <2>2, <2>3 DEF Advances, MovesOuter, new
<1>3. ASSUME NEW line, Tells(how, core, z, past, future, Alone(line))
      PROVE  Told(how, new) /\ Advances(Shown(how, core), Shown(how, new))
  <2> DEFINE y == Last(line.past)
             p == Front(line.past)
             f == Append(line.future, z)
  <2>1. line.past # <<>> /\ Tells(how, new, y, past, future, Alone(LineAt(p, f)))
    BY <1>3, UndoTells
  <2>2. Steps(z, line.past, line.future, y, p, f)
    BY <2>1 DEF Steps
  <2> HIDE DEF new, y, p, f
  <2>3. Told(how, new) /\ Shown(how, new) = Moment(y, past, future, Alone(LineAt(p, f)))
        /\ Shown(how, core) = Moment(z, past, future, Alone(line))
    BY <1>3, <2>1, ToldShown
  <2> QED
    BY <2>2, <2>3 DEF Advances, MovesInner
<1> QED
  BY <1>1, <1>2, <1>3

(* AppCore::redo moves the history one entry on.                            *)
LEMMA RedoAdvances ==
  ASSUME NEW how, NEW core, Told(how, core), Working(core.stack).redo # <<>>
  PROVE  Told(how, RedoOn(core)) /\ Advances(Shown(how, core), Shown(how, RedoOn(core)))
<1> DEFINE new == RedoOn(core)
<1>1. PICK z, past, future :
        \/ ~Open(core.stack) /\ Tells(how, core, z, past, future, {})
        \/ Open(core.stack) /\ \E line : Tells(how, core, z, past, future, Alone(line)) /\ IsList(line.past)
  BY ToldWhich
<1>2. CASE Tells(how, core, z, past, future, {})
  <2> DEFINE y == Last(future)
             p == Append(past, z)
             f == Front(future)
  <2>1. future # <<>> /\ Tells(how, new, y, p, f, {})
    BY <1>2, RedoTells
  <2>2. Steps(z, past, future, y, p, f)
    BY <2>1 DEF Steps
  <2> HIDE DEF new, y, p, f
  <2>3. Told(how, new) /\ Shown(how, new) = Moment(y, p, f, {})
        /\ Shown(how, core) = Moment(z, past, future, {})
    BY <1>2, <2>1, ToldShown
  <2> QED
    BY <2>2, <2>3 DEF Advances, MovesOuter, new
<1>3. ASSUME NEW line, Tells(how, core, z, past, future, Alone(line))
      PROVE  Told(how, new) /\ Advances(Shown(how, core), Shown(how, new))
  <2> DEFINE y == Last(line.future)
             p == Append(line.past, z)
             f == Front(line.future)
  <2>1. line.future # <<>> /\ Tells(how, new, y, past, future, Alone(LineAt(p, f)))
    BY <1>3, RedoTells
  <2>2. Steps(z, line.past, line.future, y, p, f)
    BY <2>1 DEF Steps
  <2> HIDE DEF new, y, p, f
  <2>3. Told(how, new) /\ Shown(how, new) = Moment(y, past, future, Alone(LineAt(p, f)))
        /\ Shown(how, core) = Moment(z, past, future, Alone(line))
    BY <1>3, <2>1, ToldShown
  <2> QED
    BY <2>2, <2>3 DEF Advances, MovesInner
<1> QED
  BY <1>1, <1>2, <1>3

(* begin_sketch_group opens an empty line where the document stands.        *)
LEMMA BeginAdvances ==
  ASSUME NEW how, NEW core, Told(how, core), ~Open(core.stack)
  PROVE  Told(how, BeginOn(core)) /\ Advances(Shown(how, core), Shown(how, BeginOn(core)))
<1> DEFINE new == BeginOn(core)
           own == Alone(LineAt(<<>>, <<>>))
<1>1. PICK z, past, future : Tells(how, core, z, past, future, {})
  BY ToldWhich
<1>2. Tells(how, new, z, past, future, own)
  BY <1>1, BeginTells
<1> HIDE DEF new, own
<1>3. Told(how, new) /\ Shown(how, new) = Moment(z, past, future, own)
      /\ Shown(how, core) = Moment(z, past, future, {})
  BY <1>1, <1>2, ToldShown
<1>4. Opens(Shown(how, core), Shown(how, new))
  BY <1>3 DEF Opens, own
<1> QED
  BY <1>3, <1>4 DEF Advances, new

(* finish_sketch_group folds the sketch's line into one outer step.         *)
LEMMA FinishAdvances ==
  ASSUME NEW how, NEW core, Told(how, core), Open(core.stack)
  PROVE  Told(how, FinishOn(core)) /\ Advances(Shown(how, core), Shown(how, FinishOn(core)))
<1> DEFINE new == FinishOn(core)
<1>1. PICK z, past, future, line : Tells(how, core, z, past, future, Alone(line)) /\ IsList(line.past)
  BY ToldWhich
<1> DEFINE p == Append(past, EntryOf(line.past, z))
           none == <<>>
           after == IF line.past = none THEN Moment(z, past, future, {}) ELSE Moment(z, p, none, {})
<1>2. IF line.past = none THEN Tells(how, new, z, past, future, {}) ELSE Tells(how, new, z, p, none, {})
  BY <1>1, FinishTells
<1> HIDE DEF new, p, none
<1>3. Told(how, new) /\ Shown(how, new) = after /\ Shown(how, core) = Moment(z, past, future, Alone(line))
  BY <1>1, <1>2, ToldShown
<1>4. Finishes(Shown(how, core), Shown(how, new))
  <2> HIDE DEF after
  <2>1. Finishes(Moment(z, past, future, Alone(line)), after)
    BY <1>1 DEF Finishes, after, p, none
  <2> QED
    BY <1>3, <2>1
<1> QED
  BY <1>3, <1>4 DEF Advances, new

(* cancel_sketch_group goes back to where the sketch was entered.           *)
LEMMA CancelAdvances ==
  ASSUME NEW how, NEW core, Told(how, core), Open(core.stack)
  PROVE  Told(how, CancelOn(core)) /\ Advances(Shown(how, core), Shown(how, CancelOn(core)))
<1> DEFINE new == CancelOn(core)
<1>1. PICK z, past, future, line : Tells(how, core, z, past, future, Alone(line)) /\ IsList(line.past)
  BY ToldWhich
<1> DEFINE entry == EntryOf(line.past, z)
<1>2. Tells(how, new, entry, past, future, {})
  BY <1>1, CancelTells
<1> HIDE DEF new, entry
<1>3. Told(how, new) /\ Shown(how, new) = Moment(entry, past, future, {})
      /\ Shown(how, core) = Moment(z, past, future, Alone(line))
  BY <1>1, <1>2, ToldShown
<1>4. Cancels(Shown(how, core), Shown(how, new))
  BY <1>1, <1>3 DEF Cancels, entry
<1> QED
  BY <1>3, <1>4 DEF Advances, new

(* A click on a row leaves the history.                                     *)
LEMMA PickKeeps ==
  ASSUME NEW how, NEW core, Told(how, core), NEW id \in Tree(core.scene)
  PROVE  /\ Told(how, Core(core.scene, [nodes |-> {id}, points |-> {}], core.stack))
         /\ Shown(how, Core(core.scene, [nodes |-> {id}, points |-> {}], core.stack)) = Shown(how, core)
<1> DEFINE sel == [nodes |-> {id}, points |-> {}]
           new == Core(core.scene, sel, core.stack)
           st == core.stack
<1>1. PICK z, past, future, own : Tells(how, core, z, past, future, own)
  BY DEF Told
<1>2. Is(how, core.scene, z)
  BY <1>1 DEF Tells, IsCore
<1>3. sel = Live(core.scene, sel)
  <2> DEFINE s == core.scene
             y == Structure(s)
  <2>1. IsDocument(s)
    BY <1>2 DEF Is
  <2>2. IsOutline(y) /\ Tree(s) = TreeOf(y) /\ DOMAIN y.arena = DOMAIN s.arena /\ id \in Tree(s)
    BY <2>1, SceneHas, SceneTree
  <2> HIDE DEF y, s
  <2>3. Range(y.roots) \subseteq DOMAIN y.arena
    BY <2>2, OutlineClosed
  <2>4. Below(y.arena, Range(y.roots)) \subseteq DOMAIN y.arena
    BY <2>2, <2>3, BelowFacts
  <2>5. id \in DOMAIN s.arena
    BY <2>2, <2>4 DEF TreeOf
  <2> QED
    BY <2>5 DEF Live, s
<1>4. new.scene = core.scene /\ new.selection = sel /\ new.stack = st
  BY CoreParts
<1> HIDE DEF sel
<1>5. IsCore(how, new, z, st)
  BY <1>2, <1>3, <1>4 DEF IsCore
<1>6. Tells(how, new, z, past, future, own)
  <2> HIDE DEF new
  <2> QED
    BY <1>1, <1>4, <1>5 DEF Tells
<1> HIDE DEF new
<1> QED
  BY <1>1, <1>6, ToldShown DEF new, sel

(***************************************************************************)
(* The steps of LinearHistory.                                             *)
(***************************************************************************)

(* The first entry of a line.                                               *)
LEMMA HeadIs ==
  ASSUME NEW line, IsList(line), line # <<>>
  PROVE  Head(line) = line[1]
<1>1. PICK T : line \in Seq(T)
  BY DEF IsList
<1> QED
  BY <1>1

(* An open session is the inner line of LinearHistory, on structures.       *)
LEMMA StructureInnerIs ==
  ASSUME NEW line, SessionSeen = Alone(line)
  PROVE  PromiseOfStructure!Open /\ PromiseOfStructure!Inner = line
<1>1. PromiseOfStructure!Open
  BY DEF PromiseOfStructure!Open, Alone
<1>2. PromiseOfStructure!Inner = line
  BY OnlyOne DEF PromiseOfStructure!Inner, Alone
<1> QED
  BY <1>1, <1>2

(* An advance of the history shown is a step of LinearHistory, on structures.*)
LEMMA StructureAdvances ==
  ASSUME Advances(Moment(Structure(scene), OuterSeen.past, OuterSeen.future, SessionSeen),
                  Moment(Structure(scene)', (OuterSeen.past)', (OuterSeen.future)', SessionSeen'))
  PROVE  [PromiseOfStructure!Next]_Seeing
<1> DEFINE a == Moment(Structure(scene), OuterSeen.past, OuterSeen.future, SessionSeen)
           b == Moment(Structure(scene)', (OuterSeen.past)', (OuterSeen.future)', SessionSeen')
<1>1. /\ a.doc = Structure(scene) /\ a.past = OuterSeen.past /\ a.future = OuterSeen.future /\ a.session = SessionSeen
      /\ b.doc = Structure(scene)' /\ b.past = (OuterSeen.past)' /\ b.future = (OuterSeen.future)' /\ b.session = SessionSeen'
  BY MomentHas
<1>a. a = b \/ MovesOuter(a, b) \/ MovesInner(a, b) \/ Opens(a, b) \/ Finishes(a, b) \/ Cancels(a, b)
  BY DEF Advances
<1> HIDE DEF a, b
<1>2. CASE a = b
  BY <1>1, <1>2 DEF Seeing
<1>3. CASE MovesOuter(a, b)
  <2>1. PICK z, past, future, y, p, f : /\ a = Moment(z, past, future, {}) /\ b = Moment(y, p, f, {})
                                        /\ Steps(z, past, future, y, p, f)
    BY <1>3 DEF MovesOuter
  <2>2. /\ z = Structure(scene) /\ past = OuterSeen.past /\ future = OuterSeen.future /\ {} = SessionSeen
        /\ y = Structure(scene)' /\ p = (OuterSeen.past)' /\ f = (OuterSeen.future)' /\ {} = SessionSeen'
    BY <1>1, <2>1, MomentHas
  <2>3. ~PromiseOfStructure!Open
    BY <2>2 DEF PromiseOfStructure!Open
  <2>4. CASE p = Append(past, z) /\ f = <<>>
    BY <2>2, <2>3, <2>4 DEF PromiseOfStructure!Next, PromiseOfStructure!Edit
  <2>5. CASE past # <<>> /\ y = Last(past) /\ p = Front(past) /\ f = Append(future, z)
    BY <2>2, <2>3, <2>5 DEF PromiseOfStructure!Next, PromiseOfStructure!UndoOuter, Last, Front, PromiseOfStructure!Last, PromiseOfStructure!Front
  <2>6. CASE future # <<>> /\ y = Last(future) /\ p = Append(past, z) /\ f = Front(future)
    BY <2>2, <2>3, <2>6 DEF PromiseOfStructure!Next, PromiseOfStructure!RedoOuter, Last, Front, PromiseOfStructure!Last, PromiseOfStructure!Front
  <2> QED
    BY <2>1, <2>4, <2>5, <2>6 DEF Steps
<1>4. CASE MovesInner(a, b)
  <2>1. PICK z, past, future, line, y, p, f :
          /\ a = Moment(z, past, future, Alone(line)) /\ b = Moment(y, past, future, Alone(LineAt(p, f)))
          /\ Steps(z, line.past, line.future, y, p, f)
    BY <1>4 DEF MovesInner
  <2>2. /\ z = Structure(scene) /\ past = OuterSeen.past /\ future = OuterSeen.future /\ Alone(line) = SessionSeen
        /\ y = Structure(scene)' /\ past = (OuterSeen.past)' /\ future = (OuterSeen.future)' /\ Alone(LineAt(p, f)) = SessionSeen'
    BY <1>1, <2>1, MomentHas
  <2>3. PromiseOfStructure!Open /\ PromiseOfStructure!Inner = line
    BY <2>2, StructureInnerIs
  <2>4. CASE p = Append(line.past, z) /\ f = <<>>
    BY <2>2, <2>3, <2>4 DEF PromiseOfStructure!Next, PromiseOfStructure!Edit, LineAt, Alone
  <2>5. CASE line.past # <<>> /\ y = Last(line.past) /\ p = Front(line.past) /\ f = Append(line.future, z)
    BY <2>2, <2>3, <2>5
       DEF PromiseOfStructure!Next, PromiseOfStructure!UndoInner, LineAt, Alone, Last, Front, PromiseOfStructure!Last, PromiseOfStructure!Front
  <2>6. CASE line.future # <<>> /\ y = Last(line.future) /\ p = Append(line.past, z) /\ f = Front(line.future)
    BY <2>2, <2>3, <2>6
       DEF PromiseOfStructure!Next, PromiseOfStructure!RedoInner, LineAt, Alone, Last, Front, PromiseOfStructure!Last, PromiseOfStructure!Front
  <2> QED
    BY <2>1, <2>4, <2>5, <2>6 DEF Steps
<1>5. CASE Opens(a, b)
  <2>1. PICK z, past, future : /\ a = Moment(z, past, future, {})
                               /\ b = Moment(z, past, future, Alone(LineAt(<<>>, <<>>)))
    BY <1>5 DEF Opens
  <2>2. /\ z = Structure(scene) /\ past = OuterSeen.past /\ future = OuterSeen.future /\ {} = SessionSeen
        /\ z = Structure(scene)' /\ past = (OuterSeen.past)' /\ future = (OuterSeen.future)' /\ Alone(LineAt(<<>>, <<>>)) = SessionSeen'
    BY <1>1, <2>1, MomentHas
  <2>3. ~PromiseOfStructure!Open
    BY <2>2 DEF PromiseOfStructure!Open
  <2> QED
    BY <2>2, <2>3 DEF PromiseOfStructure!Next, PromiseOfStructure!Begin, LineAt, Alone
<1>6. CASE Finishes(a, b)
  <2>1. PICK z, past, future, line :
          /\ a = Moment(z, past, future, Alone(line)) /\ IsList(line.past)
          /\ b = IF line.past = <<>> THEN Moment(z, past, future, {})
                 ELSE Moment(z, Append(past, EntryOf(line.past, z)), <<>>, {})
    BY <1>6 DEF Finishes
  <2>2. z = Structure(scene) /\ past = OuterSeen.past /\ future = OuterSeen.future /\ Alone(line) = SessionSeen
    BY <1>1, <2>1, MomentHas
  <2>3. PromiseOfStructure!Open /\ PromiseOfStructure!Inner = line
    BY <2>2, StructureInnerIs
  <2>4. CASE line.past = <<>>
    <3>1. z = Structure(scene)' /\ past = (OuterSeen.past)' /\ future = (OuterSeen.future)' /\ {} = SessionSeen'
      BY <1>1, <2>1, <2>4, MomentHas
    <3> QED
      BY <2>2, <2>3, <2>4, <3>1 DEF PromiseOfStructure!Next, PromiseOfStructure!Finish
  <2>5. CASE line.past # <<>>
    <3> DEFINE p == Append(past, EntryOf(line.past, z))
               none == <<>>
    <3>1. b = Moment(z, p, none, {})
      BY <2>1, <2>5
    <3>2. PromiseOfStructure!Entered = EntryOf(line.past, z)
      BY <2>1, <2>3, <2>5, HeadIs DEF PromiseOfStructure!Entered, EntryOf
    <3> HIDE DEF p, none
    <3>3. z = Structure(scene)' /\ p = (OuterSeen.past)' /\ none = (OuterSeen.future)' /\ {} = SessionSeen'
      BY <1>1, <3>1, MomentHas
    <3> QED
      BY <2>2, <2>3, <2>5, <3>2, <3>3 DEF PromiseOfStructure!Next, PromiseOfStructure!Finish, p, none
  <2> QED
    BY <2>4, <2>5
<1>7. CASE Cancels(a, b)
  <2>1. PICK z, past, future, line :
          /\ a = Moment(z, past, future, Alone(line)) /\ IsList(line.past)
          /\ b = Moment(EntryOf(line.past, z), past, future, {})
    BY <1>7 DEF Cancels
  <2> DEFINE entry == EntryOf(line.past, z)
  <2>2. PromiseOfStructure!Open /\ PromiseOfStructure!Inner = line /\ z = Structure(scene)
    BY <1>1, <2>1, MomentHas, StructureInnerIs
  <2>3. PromiseOfStructure!Entered = entry
    BY <2>1, <2>2, HeadIs DEF PromiseOfStructure!Entered, EntryOf
  <2> HIDE DEF entry
  <2>4. /\ past = OuterSeen.past /\ future = OuterSeen.future
        /\ entry = Structure(scene)' /\ past = (OuterSeen.past)' /\ future = (OuterSeen.future)' /\ {} = SessionSeen'
    BY <1>1, <2>1, MomentHas DEF entry
  <2> QED
    BY <2>2, <2>3, <2>4 DEF PromiseOfStructure!Next, PromiseOfStructure!Cancel
<1> QED
  BY <1>a, <1>2, <1>3, <1>4, <1>5, <1>6, <1>7

(* An open session is the inner line of LinearHistory, on documents.        *)
LEMMA DocumentInnerIs ==
  ASSUME NEW line, SessionOf(scene, stack) = Alone(line)
  PROVE  Promise!Open /\ Promise!Inner = line
<1>1. Promise!Open
  BY DEF Promise!Open, Alone, SessionOf
<1>2. Promise!Inner = line
  BY OnlyOne DEF Promise!Inner, Alone, SessionOf
<1> QED
  BY <1>1, <1>2

(* An advance of the history shown is a step of LinearHistory, on documents.*)
LEMMA DocumentAdvances ==
  ASSUME Advances(Moment(scene, Outer.past, Outer.future, SessionOf(scene, stack)),
                  Moment(scene', (Outer.past)', (Outer.future)', SessionOf(scene, stack)'))
  PROVE  [Promise!Next]_Showing
<1> DEFINE a == Moment(scene, Outer.past, Outer.future, SessionOf(scene, stack))
           b == Moment(scene', (Outer.past)', (Outer.future)', SessionOf(scene, stack)')
<1>1. /\ a.doc = scene /\ a.past = Outer.past /\ a.future = Outer.future /\ a.session = SessionOf(scene, stack)
      /\ b.doc = scene' /\ b.past = (Outer.past)' /\ b.future = (Outer.future)' /\ b.session = SessionOf(scene, stack)'
  BY MomentHas
<1>a. a = b \/ MovesOuter(a, b) \/ MovesInner(a, b) \/ Opens(a, b) \/ Finishes(a, b) \/ Cancels(a, b)
  BY DEF Advances
<1> HIDE DEF a, b
<1>2. CASE a = b
  BY <1>1, <1>2 DEF Showing
<1>3. CASE MovesOuter(a, b)
  <2>1. PICK z, past, future, y, p, f : /\ a = Moment(z, past, future, {}) /\ b = Moment(y, p, f, {})
                                        /\ Steps(z, past, future, y, p, f)
    BY <1>3 DEF MovesOuter
  <2>2. /\ z = scene /\ past = Outer.past /\ future = Outer.future /\ {} = SessionOf(scene, stack)
        /\ y = scene' /\ p = (Outer.past)' /\ f = (Outer.future)' /\ {} = SessionOf(scene, stack)'
    BY <1>1, <2>1, MomentHas
  <2>3. ~Promise!Open
    BY <2>2 DEF Promise!Open, SessionOf
  <2>4. CASE p = Append(past, z) /\ f = <<>>
    BY <2>2, <2>3, <2>4 DEF Promise!Next, Promise!Edit, SessionOf
  <2>5. CASE past # <<>> /\ y = Last(past) /\ p = Front(past) /\ f = Append(future, z)
    BY <2>2, <2>3, <2>5 DEF Promise!Next, Promise!UndoOuter, Last, Front, Promise!Last, Promise!Front, SessionOf
  <2>6. CASE future # <<>> /\ y = Last(future) /\ p = Append(past, z) /\ f = Front(future)
    BY <2>2, <2>3, <2>6 DEF Promise!Next, Promise!RedoOuter, Last, Front, Promise!Last, Promise!Front, SessionOf
  <2> QED
    BY <2>1, <2>4, <2>5, <2>6 DEF Steps
<1>4. CASE MovesInner(a, b)
  <2>1. PICK z, past, future, line, y, p, f :
          /\ a = Moment(z, past, future, Alone(line)) /\ b = Moment(y, past, future, Alone(LineAt(p, f)))
          /\ Steps(z, line.past, line.future, y, p, f)
    BY <1>4 DEF MovesInner
  <2>2. /\ z = scene /\ past = Outer.past /\ future = Outer.future /\ Alone(line) = SessionOf(scene, stack)
        /\ y = scene' /\ past = (Outer.past)' /\ future = (Outer.future)' /\ Alone(LineAt(p, f)) = SessionOf(scene, stack)'
    BY <1>1, <2>1, MomentHas
  <2>3. Promise!Open /\ Promise!Inner = line
    BY <2>2, DocumentInnerIs
  <2>4. CASE p = Append(line.past, z) /\ f = <<>>
    BY <2>2, <2>3, <2>4 DEF Promise!Next, Promise!Edit, LineAt, Alone, SessionOf
  <2>5. CASE line.past # <<>> /\ y = Last(line.past) /\ p = Front(line.past) /\ f = Append(line.future, z)
    BY <2>2, <2>3, <2>5
       DEF Promise!Next, Promise!UndoInner, LineAt, Alone, Last, Front, Promise!Last, Promise!Front, SessionOf
  <2>6. CASE line.future # <<>> /\ y = Last(line.future) /\ p = Append(line.past, z) /\ f = Front(line.future)
    BY <2>2, <2>3, <2>6
       DEF Promise!Next, Promise!RedoInner, LineAt, Alone, Last, Front, Promise!Last, Promise!Front, SessionOf
  <2> QED
    BY <2>1, <2>4, <2>5, <2>6 DEF Steps
<1>5. CASE Opens(a, b)
  <2>1. PICK z, past, future : /\ a = Moment(z, past, future, {})
                               /\ b = Moment(z, past, future, Alone(LineAt(<<>>, <<>>)))
    BY <1>5 DEF Opens
  <2>2. /\ z = scene /\ past = Outer.past /\ future = Outer.future /\ {} = SessionOf(scene, stack)
        /\ z = scene' /\ past = (Outer.past)' /\ future = (Outer.future)' /\ Alone(LineAt(<<>>, <<>>)) = SessionOf(scene, stack)'
    BY <1>1, <2>1, MomentHas
  <2>3. ~Promise!Open
    BY <2>2 DEF Promise!Open, SessionOf
  <2> QED
    BY <2>2, <2>3 DEF Promise!Next, Promise!Begin, LineAt, Alone, SessionOf
<1>6. CASE Finishes(a, b)
  <2>1. PICK z, past, future, line :
          /\ a = Moment(z, past, future, Alone(line)) /\ IsList(line.past)
          /\ b = IF line.past = <<>> THEN Moment(z, past, future, {})
                 ELSE Moment(z, Append(past, EntryOf(line.past, z)), <<>>, {})
    BY <1>6 DEF Finishes
  <2>2. z = scene /\ past = Outer.past /\ future = Outer.future /\ Alone(line) = SessionOf(scene, stack)
    BY <1>1, <2>1, MomentHas
  <2>3. Promise!Open /\ Promise!Inner = line
    BY <2>2, DocumentInnerIs
  <2>4. CASE line.past = <<>>
    <3>1. z = scene' /\ past = (Outer.past)' /\ future = (Outer.future)' /\ {} = SessionOf(scene, stack)'
      BY <1>1, <2>1, <2>4, MomentHas
    <3> QED
      BY <2>2, <2>3, <2>4, <3>1 DEF Promise!Next, Promise!Finish, SessionOf
  <2>5. CASE line.past # <<>>
    <3> DEFINE p == Append(past, EntryOf(line.past, z))
               none == <<>>
    <3>1. b = Moment(z, p, none, {})
      BY <2>1, <2>5
    <3>2. Promise!Entered = EntryOf(line.past, z)
      BY <2>1, <2>3, <2>5, HeadIs DEF Promise!Entered, EntryOf
    <3> HIDE DEF p, none
    <3>3. z = scene' /\ p = (Outer.past)' /\ none = (Outer.future)' /\ {} = SessionOf(scene, stack)'
      BY <1>1, <3>1, MomentHas
    <3> QED
      BY <2>2, <2>3, <2>5, <3>2, <3>3 DEF Promise!Next, Promise!Finish, p, none, SessionOf
  <2> QED
    BY <2>4, <2>5
<1>7. CASE Cancels(a, b)
  <2>1. PICK z, past, future, line :
          /\ a = Moment(z, past, future, Alone(line)) /\ IsList(line.past)
          /\ b = Moment(EntryOf(line.past, z), past, future, {})
    BY <1>7 DEF Cancels
  <2> DEFINE entry == EntryOf(line.past, z)
  <2>2. Promise!Open /\ Promise!Inner = line /\ z = scene
    BY <1>1, <2>1, MomentHas, DocumentInnerIs
  <2>3. Promise!Entered = entry
    BY <2>1, <2>2, HeadIs DEF Promise!Entered, EntryOf
  <2> HIDE DEF entry
  <2>4. /\ past = Outer.past /\ future = Outer.future
        /\ entry = scene' /\ past = (Outer.past)' /\ future = (Outer.future)' /\ {} = SessionOf(scene, stack)'
    BY <1>1, <2>1, MomentHas DEF entry
  <2> QED
    BY <2>2, <2>3, <2>4 DEF Promise!Next, Promise!Cancel, SessionOf
<1> QED
  BY <1>a, <1>2, <1>3, <1>4, <1>5, <1>6, <1>7

(*********** When documents come back exactly ***********)

(* Then every intent a session offers fits its palette.                     *)
LEMMA OfferedFit ==
  ASSUME PlacementsComeBack, NEW p \in Palettes, NEW s, NEW i \in Intents(s, p.verbs)
  PROVE  Fits(p.verbs, i)
<1> DEFINE ids == MintedIds(s) \ {s.points[k].id : k \in DOMAIN s.points}
           verbs == p.verbs
<1>1. /\ i.kind \in verbs
      /\ \/ i \in [kind : {"PlaceNode"}, content : Specs, voxels : Placements, tilted : Tilts]
         \/ i \in [kind : {"AddChild"}, group : ids, content : Specs]
         \/ i \in [kind : {"GroupNode", "MakeDefinition", "RemoveNode"}, target : ids]
         \/ i \in [kind : {"AddInstance"}, def : 1..Len(s.definitions)]
         \/ i \in [kind : {"SetMaterial"}, target : ids, material : Materials]
         \/ i \in [kind : {"SetSketch"}, target : ids, producer : Producers]
         \/ i \in [kind : {"SetOffset"}, target : ids, measure : Measures]
         \/ i \in [kind : {"SetDensity"}, density : Densities \ {s.density}]
         \/ i \in [kind : {"AddPoint"}]
         \/ i \in [kind : {"RemovePoint"}, index : 1..Len(s.points)]
  BY DEF Intents
<1>2. /\ Placements \subseteq Int /\ \A m \in Measures : m.voxels \in Int
      /\ "SetOffset" \in verbs /\ "PlaceNode" \in verbs => Tilts \subseteq {FALSE}
      /\ "SetDensity" \in verbs /\ "PlaceNode" \in verbs => Placements \subseteq {0}
      /\ "SetDensity" \in verbs /\ "SetOffset" \in verbs =>
           \A m \in Measures : m.blocks # 0 \/ m.voxels = 0
  BY DEF PlacementsComeBack
<1> HIDE DEF ids, verbs
<1>3. CASE i \in [kind : {"PlaceNode"}, content : Specs, voxels : Placements, tilted : Tilts]
  <2>1. i.kind = "PlaceNode" /\ i.voxels \in Placements /\ i.tilted \in Tilts
    BY <1>3
  <2> QED
    BY <1>1, <1>2, <2>1 DEF Fits, verbs
<1>4. CASE i \in [kind : {"SetOffset"}, target : ids, measure : Measures]
  <2>1. i.kind = "SetOffset" /\ i.measure \in Measures
    BY <1>4
  <2> QED
    BY <1>1, <1>2, <2>1 DEF Fits, verbs
<1>5. CASE i \in [kind : {"SetDensity"}, density : Densities \ {s.density}]
  <2>1. i.kind = "SetDensity" /\ i.density \in Nat \ {0}
    BY <1>5, DensitiesArePositive
  <2> QED
    BY <1>1, <2>1 DEF Fits, verbs
<1>6. CASE i.kind \notin {"PlaceNode", "SetOffset", "SetDensity"}
  BY <1>1, <1>6 DEF Fits, verbs
<1>7. CASE i.kind \in {"PlaceNode", "SetOffset", "SetDensity"}
  <2>1. \/ i \in [kind : {"PlaceNode"}, content : Specs, voxels : Placements, tilted : Tilts]
        \/ i \in [kind : {"SetOffset"}, target : ids, measure : Measures]
        \/ i \in [kind : {"SetDensity"}, density : Densities \ {s.density}]
    BY <1>1, <1>7
  <2> QED
    BY <1>3, <1>4, <1>5, <2>1
<1> QED
  BY <1>6, <1>7

(*********** The inductive invariant, and the theorems ***********)

(* The parts of the current core.                                           *)
LEMMA HereHas == Here.scene = scene /\ Here.selection = selection /\ Here.stack = stack
BY DEF Here, Core

(* What the offered intents are.                                            *)
LEMMA OfferedTold ==
  ASSUME NEW how, Kept(how), NEW i \in Offered
  PROVE  IsTold(how, i)
<1> DEFINE verbs == palette.verbs
<1>1. i \in Intents(scene, verbs)
  BY DEF Offered
<1>2. IsIntent(i)
  BY <1>1, OfferedAre
<1>3. ASSUME how.exact PROVE Fits(how.verbs, i)
  BY <1>1, <1>3, OfferedFit DEF Kept
<1> QED
  BY <1>2, <1>3 DEF IsTold

(* The initial scene is a document with empty stacks, which tells the       *)
(* empty history.                                                           *)
LEMMA HistoryInit ==
  ASSUME NEW how, Init, how.exact => PlacementsComeBack /\ how.verbs = palette.verbs
  PROVE  Kept(how) /\ Shown(how, Here) = Moment(See(how, scene), <<>>, <<>>, {})
<1> DEFINE none == {}
           empty == <<>>
           z == See(how, scene)
<1>1. IsDocument(scene) /\ palette \in Palettes
  BY InitialScenesAreDocuments, SeedIsDocument DEF Init
<1>2. selection = Live(scene, selection)
  BY DEF Init, Nothing, Live
<1>3. stack = Stack(empty, empty, none)
  BY DEF Init, Stack, NoGroup
<1>4. IsSure(how, scene)
  BY <1>1 DEF IsSure, PlacementsComeBack, Init
<1>5. Here.scene = scene /\ Here.stack = stack /\ IsCore(how, Here, z, stack)
  BY <1>1, <1>2, <1>4 DEF Here, Core, IsCore, Is
<1> HIDE DEF z
<1>6. Both(how, empty, empty, empty, empty, z)
  BY FiledNone DEF Both
<1> HIDE DEF empty
<1>7. Shut(how, stack, z, empty, empty)
  BY <1>3, <1>6, ShutMade DEF none
<1>8. Tells(how, Here, z, empty, empty, none)
  BY <1>5, <1>7 DEF Tells, none
<1> HIDE DEF none
<1>9. Told(how, Here) /\ Shown(how, Here) = Moment(z, empty, empty, none)
  BY <1>8, ToldShown
<1> QED
  BY <1>1, <1>9 DEF Kept, z, empty, none

(* A step to a core that tells a history one step on.                       *)
LEMMA Arrives ==
  ASSUME NEW how, Kept(how), NEW new, Become(new), Told(how, new), Advances(Shown(how, Here), Shown(how, new))
  PROVE  Kept(how)' /\ Advances(Shown(how, Here), Shown(how, Here)')
<1>1. scene' = new.scene /\ selection' = new.selection /\ stack' = new.stack /\ palette' = palette
  BY DEF Become
<1>2. new = Core(new.scene, new.selection, new.stack)
  BY DEF Told, Tells, IsCore
<1>3. Here' = new
  BY <1>1, <1>2 DEF Here
<1>4. Told(how, Here') /\ Advances(Shown(how, Here), Shown(how, Here'))
  BY <1>3
<1>5. Told(how, Here)' /\ Advances(Shown(how, Here), Shown(how, Here)')
  BY <1>4
<1> QED
  BY <1>1, <1>5 DEF Kept

(* Every step keeps the history told and moves what is shown as             *)
(* LinearHistory may.                                                       *)
LEMMA HistoryNext ==
  ASSUME NEW how, Kept(how), [Next]_vars
  PROVE  Kept(how)' /\ Advances(Shown(how, Here), Shown(how, Here)')
<1>0. Told(how, Here)
  BY DEF Kept
<1>1. ASSUME NEW intents, Len(intents) \in Nat, \A k \in 1 .. Len(intents) : intents[k] \in Offered,
             Become(ApplyTransaction(Here, intents))
      PROVE  Kept(how)' /\ Advances(Shown(how, Here), Shown(how, Here)')
  <2> DEFINE new == ApplyTransaction(Here, intents)
  <2>1. \A k \in 1 .. Len(intents) : IsTold(how, intents[k])
    BY <1>1, OfferedTold
  <2>2. Told(how, new) /\ Advances(Shown(how, Here), Shown(how, new))
    BY <1>0, <1>1, <2>1, EditAdvances
  <2>3. Become(new)
    BY <1>1
  <2> HIDE DEF new
  <2> QED
    BY <2>2, <2>3, Arrives
<1>2. ASSUME NEW intent \in Offered, ApplyIntent(intent)
      PROVE  Kept(how)' /\ Advances(Shown(how, Here), Shown(how, Here)')
  <2> DEFINE intents == <<intent>>
  <2>1. Len(intents) \in Nat /\ \A k \in 1 .. Len(intents) : intents[k] \in Offered
    OBVIOUS
  <2>2. Become(ApplyTransaction(Here, intents))
    BY <1>2 DEF ApplyIntent
  <2> HIDE DEF intents
  <2> QED
    BY <1>1, <2>1, <2>2
<1>3. ASSUME NEW intents \in Batches, ApplyBatch(intents)
      PROVE  Kept(how)' /\ Advances(Shown(how, Here), Shown(how, Here)')
  <2>1. palette.batch \in Nat
    BY BatchesAreBounded DEF Kept
  <2>2. PICK n \in 2 .. palette.batch : intents \in [1 .. n -> Offered]
    BY DEF Batches
  <2>3. n \in Nat
    BY <2>1, <2>2
  <2>4. intents \in Seq(Offered)
    BY <2>2, <2>3, SeqDef
  <2>5. Len(intents) \in Nat /\ \A k \in 1 .. Len(intents) : intents[k] \in Offered
    BY <2>4, ElementOfSeq
  <2>6. Become(ApplyTransaction(Here, intents))
    BY <1>3 DEF ApplyBatch
  <2> QED
    BY <1>1, <2>5, <2>6
<1>4. CASE Undo
  <2> DEFINE new == UndoOn(Here)
  <2>1. Told(how, new) /\ Advances(Shown(how, Here), Shown(how, new)) /\ Become(new)
    BY <1>0, <1>4, UndoAdvances, HereHas DEF Undo
  <2> HIDE DEF new
  <2> QED
    BY <2>1, Arrives
<1>5. CASE Redo
  <2> DEFINE new == RedoOn(Here)
  <2>1. Told(how, new) /\ Advances(Shown(how, Here), Shown(how, new)) /\ Become(new)
    BY <1>0, <1>5, RedoAdvances, HereHas DEF Redo
  <2> HIDE DEF new
  <2> QED
    BY <2>1, Arrives
<1>6. CASE BeginSketchGroup
  <2> DEFINE new == BeginOn(Here)
  <2>1. Told(how, new) /\ Advances(Shown(how, Here), Shown(how, new)) /\ Become(new)
    BY <1>0, <1>6, BeginAdvances, HereHas DEF BeginSketchGroup
  <2> HIDE DEF new
  <2> QED
    BY <2>1, Arrives
<1>7. CASE FinishSketchGroup
  <2> DEFINE new == FinishOn(Here)
  <2>1. Told(how, new) /\ Advances(Shown(how, Here), Shown(how, new)) /\ Become(new)
    BY <1>0, <1>7, FinishAdvances, HereHas DEF FinishSketchGroup
  <2> HIDE DEF new
  <2> QED
    BY <2>1, Arrives
<1>8. CASE CancelSketchGroup
  <2> DEFINE new == CancelOn(Here)
  <2>1. Told(how, new) /\ Advances(Shown(how, Here), Shown(how, new)) /\ Become(new)
    BY <1>0, <1>8, CancelAdvances, HereHas DEF CancelSketchGroup
  <2> HIDE DEF new
  <2> QED
    BY <2>1, Arrives
<1>9. ASSUME NEW id \in palette.rows \cap Tree(scene), Pick(id)
      PROVE  Kept(how)' /\ Advances(Shown(how, Here), Shown(how, Here)')
  <2> DEFINE new == Core(Here.scene, [nodes |-> {id}, points |-> {}], Here.stack)
  <2>1. id \in Tree(Here.scene)
    BY HereHas
  <2>2. Told(how, new) /\ Shown(how, new) = Shown(how, Here)
    BY <1>0, <2>1, PickKeeps
  <2>3. Become(new)
    BY <1>9, CoreParts, HereHas DEF Become, Pick
  <2> HIDE DEF new
  <2> QED
    BY <2>2, <2>3, Arrives DEF Advances
<1>10. CASE UNCHANGED vars
  <2>1. Here' = Here /\ palette' = palette
    BY <1>10 DEF vars, Here
  <2>2. Told(how, Here)' /\ Shown(how, Here)' = Shown(how, Here)
    BY <1>0, <2>1
  <2> QED
    BY <2>1, <2>2 DEF Kept, Advances
<1> QED
  BY <1>2, <1>3, <1>4, <1>5, <1>6, <1>7, <1>8, <1>9, <1>10 DEF Next

(* Moments are the same in their parts.                                     *)
LEMMA MomentSame ==
  ASSUME NEW z, NEW past, NEW future, NEW own, NEW y, NEW p, NEW f, NEW o,
         Moment(z, past, future, own) = Moment(y, p, f, o)
  PROVE  z = y /\ past = p /\ future = f /\ own = o
BY MomentHas

(* What is shown of structures is what the refinement sees.                 *)
LEMMA StructuresShown ==
  Shown(Structurally, Here) = Moment(Structure(scene), OuterSeen.past, OuterSeen.future, SessionSeen)
<1> DEFINE how == Structurally
           e == EnteredOf(scene, stack)
           lines == [undo |-> stack.undo, redo |-> stack.redo]
<1>1. \A s : See(how, s) = Structure(s)
  BY DEF See, Structurally
<1>2. \A d : Views(how, d) = Outline(d)
  BY <1>1 DEF Views, Outline
<1> HIDE DEF how
<1>3. \A s, l : OutlineOf(Line(s, l)) = LineSeen(how, s, l)
  BY <1>2 DEF OutlineOf, Line, LineSeen, LineAt
<1>4. EnteredWith = e
  BY DEF EnteredWith, EnteredOf
<1>5. OuterSeen = LineAt(PastOf(how, scene, stack), FutureOf(how, scene, stack))
  <2>1. OuterSeen = LineSeen(how, e, lines)
    BY <1>3, <1>4 DEF OuterSeen, Outer
  <2>2. lines.undo = stack.undo /\ lines.redo = stack.redo
    OBVIOUS
  <2> HIDE DEF lines
  <2> QED
    BY <2>1, <2>2 DEF LineSeen, PastOf, FutureOf
<1>6. SessionSeen = OwnOf(how, scene, stack)
  BY <1>3 DEF SessionSeen, OwnOf
<1>7. OuterSeen.past = PastOf(how, scene, stack) /\ OuterSeen.future = FutureOf(how, scene, stack)
  BY <1>5, LineHas
<1> QED
  BY <1>1, <1>6, <1>7, HereHas DEF Shown, how

(* What is shown of documents is the documents the stacks stand for.        *)
LEMMA DocumentsShown ==
  ASSUME NEW verbs
  PROVE  Shown(Exactly(verbs), Here) = Moment(scene, Outer.past, Outer.future, SessionOf(scene, stack))
<1> DEFINE how == Exactly(verbs)
           e == EnteredOf(scene, stack)
           lines == [undo |-> stack.undo, redo |-> stack.redo]
<1>1. \A s : See(how, s) = s
  BY DEF See, Exactly
<1>2. \A d : Views(how, d) = [k \in DOMAIN d |-> d[k]]
  BY <1>1 DEF Views
<1> HIDE DEF how
<1>a. \A s, t : Views(how, Unwound(s, t)) = Unwound(s, t)
  BY <1>2 DEF Unwound
<1>b. \A s, t : Views(how, Rewound(s, t)) = Rewound(s, t)
  BY <1>2 DEF Rewound
<1>3. \A s, l : Line(s, l) = LineSeen(how, s, l)
  BY <1>a, <1>b DEF Line, LineSeen, LineAt
<1>4. EnteredWith = e
  BY DEF EnteredWith, EnteredOf
<1>5. Outer = LineAt(PastOf(how, scene, stack), FutureOf(how, scene, stack))
  <2>1. Outer = LineSeen(how, e, lines)
    BY <1>3, <1>4 DEF Outer
  <2>2. lines.undo = stack.undo /\ lines.redo = stack.redo
    OBVIOUS
  <2> HIDE DEF lines
  <2> QED
    BY <2>1, <2>2 DEF LineSeen, PastOf, FutureOf
<1>6. SessionOf(scene, stack) = OwnOf(how, scene, stack)
  BY <1>3 DEF SessionOf, OwnOf
<1>7. Outer.past = PastOf(how, scene, stack) /\ Outer.future = FutureOf(how, scene, stack)
  BY <1>5, LineHas
<1> QED
  BY <1>1, <1>6, <1>7, HereHas DEF Shown, how

(* The structures shown in the next state.                                  *)
LEMMA StructuresShownNext ==
  Shown(Structurally, Here)'
    = Moment(Structure(scene)', (OuterSeen.past)', (OuterSeen.future)', SessionSeen')
<1>1. Shown(Structurally, Here) = Moment(Structure(scene), OuterSeen.past, OuterSeen.future, SessionSeen)
  BY StructuresShown
<1>2. (Shown(Structurally, Here) = Moment(Structure(scene), OuterSeen.past, OuterSeen.future, SessionSeen))'
  BY StructuresShown, PTL
<1> QED
  BY <1>2

(* HistoryInv in every reachable state: whatever the order of edits, undos, *)
(* redos and sketch sessions, the stacks lead transaction by transaction    *)
(* from each structure of the line the author saw to the next (intent.rs).  *)
THEOREM HistoryIsALine == Spec => []HistoryInv
<1> DEFINE how == Structurally
<1>1. ~how.exact
  BY DEF Structurally
<1> HIDE DEF how
<1>2. Init => Kept(how)
  BY <1>1, HistoryInit
<1>3. Kept(how) /\ [Next]_vars => Kept(how)'
  BY HistoryNext
<1>4. HistoryInv <=> Kept(how)
  BY DEF HistoryInv, how
<1> QED
  BY <1>2, <1>3, <1>4, PTL DEF Spec

(* What an author is shown follows from the history told.                   *)
LEMMA ToldHas ==
  ASSUME NEW how, Kept(how)
  PROVE  IsDocument(scene) /\ selection = Live(scene, selection)
<1>1. PICK z, past, future, own : Tells(how, Here, z, past, future, own)
  BY DEF Kept, Told
<1> QED
  BY <1>1, TellsSeen, HereHas

(* SceneIsWellFormed in every reachable state: no edit, undo, redo,
   Finish or Cancel leaves an orphan in the arena, a row naming a node twice
   or naming one that is gone, an instance of a definition that is gone, or a
   counter behind an id in use (command.rs, the counter rule).                *)
THEOREM DocumentsStayWellFormed == Spec => []SceneIsWellFormed
<1>1. HistoryInv => SceneIsWellFormed
  BY ToldHas, DocumentIsWellFormed DEF HistoryInv, SceneIsWellFormed
<1> QED
  BY <1>1, HistoryIsALine, PTL

(* SelectionIsLive in every reachable state: after a remove, an undo of an add
   or a cancelled session, no id of the selection names a dropped node
   (the selection is pruned at the end of each transition of intent.rs).      *)
THEOREM SelectionStaysLive == Spec => []SelectionIsLive
<1>1. HistoryInv => SelectionIsLive
  BY ToldHas DEF HistoryInv, SelectionIsLive
<1> QED
  BY <1>1, HistoryIsALine, PTL

(* On structures the code keeps the promise of LinearHistory: an undo shows
   exactly the structure before the transaction, a redo exactly the one after
   it, an edit clears the redo line, a finished sketch group is one step and a
   cancelled one is none (intent.rs undo, redo and the *_sketch_group calls). *)
THEOREM HistoryIsLinear == Spec => ImplementsHistoryOfStructure
<1>1. Init => PromiseOfStructure!Init
  <2> SUFFICES ASSUME Init PROVE PromiseOfStructure!Init
    OBVIOUS
  <2> DEFINE how == Structurally
             none == {}
             empty == <<>>
  <2>1. ~how.exact
    BY DEF Structurally
  <2> HIDE DEF how, none, empty
  <2>2. Shown(how, Here) = Moment(See(how, scene), empty, empty, none)
    BY <2>1, HistoryInit DEF none, empty
  <2>3. OuterSeen.past = empty /\ OuterSeen.future = empty /\ SessionSeen = none
    <3> DEFINE z == Structure(scene)
               past == OuterSeen.past
               future == OuterSeen.future
               own == SessionSeen
               y == See(how, scene)
    <3>1. Moment(z, past, future, own) = Moment(y, empty, empty, none)
      BY <2>2, StructuresShown DEF how
    <3> HIDE DEF z, past, future, own, y
    <3>2. past = empty /\ future = empty /\ own = none
      BY <3>1, MomentSame
    <3> QED
      BY <3>2 DEF past, future, own
  <2> QED
    BY <2>3 DEF PromiseOfStructure!Init, none, empty
<1>2. HistoryInv /\ [Next]_vars => [PromiseOfStructure!Next]_Seeing
  <2> SUFFICES ASSUME HistoryInv, [Next]_vars PROVE [PromiseOfStructure!Next]_Seeing
    OBVIOUS
  <2>1. Advances(Shown(Structurally, Here), Shown(Structurally, Here)')
    BY HistoryNext DEF HistoryInv
  <2>2. Advances(Moment(Structure(scene), OuterSeen.past, OuterSeen.future, SessionSeen),
                 Moment(Structure(scene)', (OuterSeen.past)', (OuterSeen.future)', SessionSeen'))
    BY <2>1, StructuresShown, StructuresShownNext
  <2> QED
    BY <2>2, StructureAdvances
<1>3. Seeing = PromiseOfStructure!vars
  BY DEF Seeing, PromiseOfStructure!vars
<1> QED
  BY <1>1, <1>2, <1>3, HistoryIsALine, PTL
     DEF Spec, Seeing, ImplementsHistoryOfStructure, PromiseOfStructure!Spec, PromiseOfStructure!vars

(* The exact history is kept by every step.                                 *)
LEMMA ExactNext ==
  ASSUME ExactHistoryInv, [Next]_vars
  PROVE  /\ ExactHistoryInv'
         /\ Advances(Moment(scene, Outer.past, Outer.future, SessionOf(scene, stack)),
                     Moment(scene', (Outer.past)', (Outer.future)', SessionOf(scene, stack)'))
<1>1. PICK verbs : verbs = palette.verbs
  OBVIOUS
<1> DEFINE how == Exactly(verbs)
<1>2. Kept(how)
  BY <1>1 DEF ExactHistoryInv
<1>3. Kept(how)' /\ Advances(Shown(how, Here), Shown(how, Here)')
  <2> HIDE DEF how
  <2> QED
    BY <1>2, HistoryNext
<1>4. palette'.verbs = verbs
  BY <1>3 DEF Kept, Exactly
<1>5. ExactHistoryInv'
  BY <1>3, <1>4 DEF ExactHistoryInv
<1>6. Shown(how, Here) = Moment(scene, Outer.past, Outer.future, SessionOf(scene, stack))
  BY DocumentsShown
<1>7. Shown(how, Here)' = Moment(scene', (Outer.past)', (Outer.future)', SessionOf(scene, stack)')
  <2>1. (Shown(Exactly(verbs), Here) = Moment(scene, Outer.past, Outer.future, SessionOf(scene, stack)))'
    BY DocumentsShown, PTL
  <2> QED
    BY <2>1
<1> QED
  BY <1>3, <1>5, <1>6, <1>7

(* Where placements come back, the code keeps the promise of LinearHistory on
   whole documents: undo restores the scene exactly, redo makes the very same
   one again, a fresh edit drops the redo line, Finish is one step and Cancel
   none (command.rs, the byte-equal invariant; intent.rs, undo to
   cancel_sketch_group).                                                      *)
THEOREM HistoryIsExact == PlacementsComeBack => (Spec => ImplementsLinearHistory)
<1>1. PlacementsComeBack /\ Init => ExactHistoryInv /\ Promise!Init
  <2> SUFFICES ASSUME PlacementsComeBack, Init PROVE ExactHistoryInv /\ Promise!Init
    OBVIOUS
  <2>1. PICK verbs : verbs = palette.verbs
    OBVIOUS
  <2> DEFINE how == Exactly(verbs)
             none == {}
             empty == <<>>
  <2>2. how.verbs = palette.verbs
    BY <2>1 DEF Exactly
  <2>3. Shown(how, Here) = Moment(scene, Outer.past, Outer.future, SessionOf(scene, stack))
    BY DocumentsShown
  <2> HIDE DEF how, none, empty
  <2>4. Kept(how) /\ Shown(how, Here) = Moment(See(how, scene), empty, empty, none)
    BY <2>2, HistoryInit DEF none, empty
  <2>5. Outer.past = empty /\ Outer.future = empty /\ SessionOf(scene, stack) = none
    <3> DEFINE past == Outer.past
               future == Outer.future
               own == SessionOf(scene, stack)
               y == See(how, scene)
    <3>1. Moment(scene, past, future, own) = Moment(y, empty, empty, none)
      BY <2>3, <2>4
    <3> HIDE DEF past, future, own, y
    <3>2. past = empty /\ future = empty /\ own = none
      BY <3>1, MomentSame
    <3> QED
      BY <3>2 DEF past, future, own
  <2>6. ExactHistoryInv
    BY <2>1, <2>4 DEF ExactHistoryInv, how
  <2> QED
    BY <2>5, <2>6 DEF Promise!Init, none, empty, SessionOf
<1>2. ExactHistoryInv /\ [Next]_vars => ExactHistoryInv' /\ [Promise!Next]_Promise!vars
  <2> SUFFICES ASSUME ExactHistoryInv, [Next]_vars
               PROVE  ExactHistoryInv' /\ [Promise!Next]_Promise!vars
    OBVIOUS
  <2>1. ExactHistoryInv' /\ [Promise!Next]_Showing
    BY ExactNext, DocumentAdvances
  <2>2. CASE Promise!Next
    BY <2>1, <2>2
  <2>3. CASE Showing' = Showing
    <3>1. (Promise!vars)' = Promise!vars
      BY <2>3 DEF Showing, Promise!vars, SessionOf
    <3> QED
      BY <2>1, <3>1
  <2> QED
    BY <2>1, <2>2, <2>3
<1> QED
  BY <1>1, <1>2, PTL DEF Spec, ImplementsLinearHistory, Promise!Spec

=============================================================================
