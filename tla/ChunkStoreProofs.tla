-------------------------- MODULE ChunkStoreProofs --------------------------
(***************************************************************************)
(* Proofs about the capped chunk store, for every set of chunks, contents, *)
(* frames and regions, every cap and every number of process ends, with    *)
(* and without failing files.                                              *)
(*                                                                         *)
(* A tier is sound for a truth - the chunk each key resolves to - when     *)
(* whatever it holds is that chunk.  Each operation of the spill store and *)
(* of the cache over it has one lemma, which says what every outcome of it *)
(* keeps; a step of the store is then a matter of which scene and which    *)
(* frame the truth is about.                                               *)
(***************************************************************************)
EXTENDS ChunkStore, FiniteSetTheorems, TLAPS

(***************************************************************************)
(* Maps, orders of use, and counting.                                      *)
(***************************************************************************)

(* What is left of a map without some keys, and a map with one more.       *)
LEMMA MapWithout ==
  ASSUME NEW map \in Tier, NEW gone
  PROVE  /\ Without(map, gone) \in Tier
         /\ DOMAIN Without(map, gone) = DOMAIN map \ gone
         /\ \A k \in DOMAIN map \ gone : Without(map, gone)[k] = map[k]
<1>1. PICK keys \in SUBSET Keys : map \in [keys -> Chunk]
  BY DEF Tier
<1>2. /\ Without(map, gone) \in [keys \ gone -> Chunk]
      /\ DOMAIN Without(map, gone) = DOMAIN map \ gone
      /\ \A k \in DOMAIN map \ gone : Without(map, gone)[k] = map[k]
  BY <1>1 DEF Without
<1> QED
  BY <1>1, <1>2 DEF Tier

(* A map with one more is a map.                                           *)
LEMMA MapWith ==
  ASSUME NEW map \in Tier, NEW key \in Keys, NEW chunk \in Chunk
  PROVE  /\ With(map, key, chunk) \in Tier
         /\ DOMAIN With(map, key, chunk) = DOMAIN map \cup {key}
         /\ With(map, key, chunk)[key] = chunk
         /\ \A k \in DOMAIN map \ {key} : With(map, key, chunk)[k] = map[k]
<1>1. PICK keys \in SUBSET Keys : map \in [keys -> Chunk]
  BY DEF Tier
<1>2. With(map, key, chunk) \in [keys \cup {key} -> Chunk]
  BY <1>1 DEF With
<1>3. With(map, key, chunk) \in Tier
  BY <1>1, <1>2 DEF Tier
<1> QED
  BY <1>1, <1>3 DEF With

(* A tier is a finite map: it has a size, nothing in it has size 0, and a  *)
(* key more or less changes the size by one at most.                       *)
LEMMA TierSize ==
  ASSUME NEW map \in Tier
  PROVE  /\ DOMAIN map \subseteq Keys /\ IsFiniteSet(DOMAIN map)
         /\ Cardinality(DOMAIN map) \in Nat
         /\ Cardinality(DOMAIN map) = 0 <=> DOMAIN map = {}
<1>1. DOMAIN map \subseteq Keys
  BY DEF Tier
<1>2. IsFiniteSet(DOMAIN map)
  BY <1>1, KeysAreFinite, FS_Subset
<1> QED
  BY <1>1, <1>2, FS_CardinalityType, FS_EmptySet

(* One key less, one less in size.                                         *)
LEMMA OneLess ==
  ASSUME NEW keys, IsFiniteSet(keys), NEW victim \in keys
  PROVE  Cardinality(keys \ {victim}) = Cardinality(keys) - 1
BY FS_RemoveElement

(* One key more, at most one more in size.                                *)
LEMMA OneMore ==
  ASSUME NEW keys, IsFiniteSet(keys), NEW key,
         (key \in keys /\ Cardinality(keys) <= Capacity) \/ Cardinality(keys) < Capacity
  PROVE  Cardinality(keys \cup {key}) <= Capacity
<1>1. key \in keys => keys \cup {key} = keys
  OBVIOUS
<1>2. Cardinality(keys) \in Nat
  BY FS_CardinalityType
<1>3. key \notin keys => Cardinality(keys \cup {key}) = Cardinality(keys) + 1
  BY FS_AddElement
<1> QED
  BY <1>1, <1>2, <1>3, CapacityAssumption

(* An order of use stays one when keys go and when a key is used.          *)
LEMMA OrderWithout ==
  ASSUME NEW order, NEW keys, Orders(order, keys), NEW gone
  PROVE  Orders(Dropped(order, gone), keys \ gone)
<1>1. \A a, b : <<a, b>> \in Dropped(order, gone) <=>
                  <<a, b>> \in order /\ a \notin gone /\ b \notin gone
  BY DEF Dropped
<1>2. Dropped(order, gone) \subseteq (keys \ gone) \X (keys \ gone)
  BY DEF Dropped, Orders
<1> QED
  BY <1>1, <1>2 DEF Orders

(* The key used goes last, the others keep their places.                   *)
LEMMA OrderTouched ==
  ASSUME NEW order, NEW keys, Orders(order, keys), NEW key, NEW map,
         DOMAIN map \ {key} = keys \ {key}
  PROVE  /\ Orders(Touched(order, map, key), keys \cup {key})
         /\ \A a \in keys, b \in keys : a # key /\ b # key /\ <<a, b>> \in order =>
              <<a, b>> \in Touched(order, map, key)
         /\ \A a \in keys \ {key} : <<a, key>> \in Touched(order, map, key)
<1> DEFINE touched == Touched(order, map, key)
<1>1. \A a, b : <<a, b>> \in touched <=>
                  \/ <<a, b>> \in order /\ a # key /\ b # key
                  \/ a \in keys \ {key} /\ b = key
  BY DEF Touched, Dropped
<1>2. touched \subseteq (keys \cup {key}) \X (keys \cup {key})
  BY DEF Touched, Dropped, Orders
<1> HIDE DEF touched
<1>3. Orders(touched, keys \cup {key})
  <2>1. ASSUME NEW a \in keys \cup {key}, NEW b \in keys \cup {key}
        PROVE  <<a, b>> \in touched <=> a # b /\ <<b, a>> \notin touched
    BY <1>1 DEF Orders
  <2>2. ASSUME NEW a \in keys \cup {key}, NEW b \in keys \cup {key}, NEW c \in keys \cup {key},
               <<a, b>> \in touched, <<b, c>> \in touched
        PROVE  <<a, c>> \in touched
    BY <1>1, <2>2 DEF Orders
  <2> QED
    BY <1>2, <2>1, <2>2 DEF Orders
<1> QED
  BY <1>1, <1>3 DEF touched

(***************************************************************************)
(* The spill store.                                                        *)
(***************************************************************************)

Files == [Keys -> Chunk \cup {Nothing, Garbled}]
Disks ==
  [resident : Tier, recent : SUBSET (Keys \X Keys), on_disk : SUBSET Keys, files : Files]

(* Whatever the store holds, resident or in a listed file, is the truth.   *)
DiskSound(d, truth) ==
  /\ d \in Disks /\ Orders(d.recent, DOMAIN d.resident)
  /\ d.on_disk \cap DOMAIN d.resident = {}
  /\ Cardinality(DOMAIN d.resident) <= Capacity
  /\ \A k \in Held(d) : ChunkOf(d, k) = truth[k]

(* What an outcome leaves: files whatever happened, a sound store if the   *)
(* call worked.                                                            *)
OutcomeSound(o, truth) ==
  o.ok \in BOOLEAN /\ o.disk.files \in Files /\ (o.ok => DiskSound(o.disk, truth))

(* Failed has at most the one outcome, and it is not ok.                   *)
LEMMA FailedOutcome ==
  ASSUME NEW d, NEW o \in Failed(d)
  PROVE  o = Outcome(d, FALSE, Nothing)
BY DEF Failed

(* A file that no listed key has may be deleted, or not.                   *)
LEMMA RemoveFileIsSound ==
  ASSUME NEW truth, NEW d, DiskSound(d, truth), NEW key \in Keys, key \notin d.on_disk,
         NEW o \in RemoveFile(d, key)
  PROVE  /\ OutcomeSound(o, truth)
         /\ o.ok => /\ o.disk.resident = d.resident /\ o.disk.on_disk = d.on_disk
                    /\ o.chunk = Nothing
<1>1. d \in Disks
  BY DEF DiskSound
<1> DEFINE r == [d EXCEPT !.files[key] = Nothing]
<1>2. o = Outcome(r, TRUE, Nothing) \/ o = Outcome(d, FALSE, Nothing)
  BY FailedOutcome DEF RemoveFile, Done
<1>3. /\ r \in Disks /\ r.resident = d.resident /\ r.on_disk = d.on_disk /\ r.recent = d.recent
      /\ \A k \in Keys \ {key} : r.files[k] = d.files[k]
  BY <1>1 DEF Disks, Files
<1>4. DiskSound(r, truth)
  BY <1>1, <1>3 DEF DiskSound, Held, ChunkOf, Disks
<1>5. d.files \in Files /\ r.files \in Files
  BY <1>1, <1>3 DEF Disks
<1> HIDE DEF r
<1>6. CASE o = Outcome(r, TRUE, Nothing)
  <2>1. o.ok = TRUE /\ o.disk = r /\ o.chunk = Nothing
    BY <1>6 DEF Outcome
  <2> QED
    BY <1>3, <1>4, <1>5, <2>1 DEF OutcomeSound
<1>7. CASE o = Outcome(d, FALSE, Nothing)
  <2>1. o.ok = FALSE /\ o.disk = d
    BY <1>7 DEF Outcome
  <2> QED
    BY <1>5, <2>1 DEF OutcomeSound
<1> QED
  BY <1>2, <1>6, <1>7

(* A key may be taken off the list.                                        *)
LEMMA DelistedIsSound ==
  ASSUME NEW truth, NEW d, DiskSound(d, truth), NEW key
  PROVE  /\ DiskSound(Delisted(d, key), truth)
         /\ Delisted(d, key).resident = d.resident
         /\ Delisted(d, key).on_disk = d.on_disk \ {key}
         /\ Delisted(d, key).files = d.files
<1> DEFINE e == Delisted(d, key)
<1>1. d \in Disks
  BY DEF DiskSound
<1>2. /\ e \in Disks /\ e.resident = d.resident /\ e.on_disk = d.on_disk \ {key}
      /\ e.recent = d.recent /\ e.files = d.files
  BY <1>1 DEF Disks, Delisted
<1> HIDE DEF e
<1>3. DiskSound(e, truth)
  BY <1>2 DEF DiskSound, Held, ChunkOf
<1> QED
  BY <1>2, <1>3 DEF e

(* The victim moves from memory to a listed file, or the call fails.       *)
LEMMA EvictIsSound ==
  ASSUME NEW truth, NEW d, DiskSound(d, truth), DOMAIN d.resident # {},
         NEW o \in EvictLeastRecentlyUsed(d)
  PROVE  /\ OutcomeSound(o, truth)
         /\ o.ok => \E victim \in DOMAIN d.resident :
              /\ DOMAIN o.disk.resident = DOMAIN d.resident \ {victim}
              /\ o.disk.on_disk = d.on_disk \cup {victim}
              /\ \A k \in Keys \ {victim} : o.disk.files[k] = d.files[k]
<1>1. d \in Disks /\ d.resident \in Tier /\ d.files \in Files
  BY DEF DiskSound, Disks
<1>2. d.resident # << >>
  OBVIOUS
<1> DEFINE Evicted1(v) == [d EXCEPT !.resident = Without(@, {v}), !.recent = Dropped(@, {v})]
           Written(v) == WriteFile(Evicted1(v), v, d.resident[v])
<1>3. PICK v \in DOMAIN d.resident : \E w \in Written(v) :
        o = IF w.ok THEN [w EXCEPT !.disk.on_disk = @ \cup {v}] ELSE w
  BY <1>2 DEF EvictLeastRecentlyUsed, LeastRecent
<1>4. PICK w \in Written(v) : o = IF w.ok THEN [w EXCEPT !.disk.on_disk = @ \cup {v}] ELSE w
  BY <1>3
<1> DEFINE e == Evicted1(v)
           f == [e EXCEPT !.files[v] = d.resident[v]]
           g == [f EXCEPT !.on_disk = @ \cup {v}]
<1>5. /\ v \in Keys /\ d.resident[v] \in Chunk /\ IsFiniteSet(DOMAIN d.resident)
      /\ Cardinality(DOMAIN d.resident) \in Nat /\ DOMAIN d.resident \subseteq Keys
  BY <1>1, TierSize DEF Tier
<1>6. /\ e \in Disks /\ e.on_disk = d.on_disk /\ e.files = d.files
      /\ e.resident = Without(d.resident, {v}) /\ e.recent = Dropped(d.recent, {v})
  <2>1. Dropped(d.recent, {v}) \in SUBSET (Keys \X Keys)
    BY <1>1 DEF Dropped, Disks
  <2>2. Without(d.resident, {v}) \in Tier
    BY <1>1, MapWithout
  <2> QED
    BY <1>1, <2>1, <2>2 DEF Disks
<1> HIDE DEF e
<1>7. /\ \/ w = Outcome(f, TRUE, Nothing)
         \/ w = Outcome(e, FALSE, Nothing)
         \/ w = Outcome([e EXCEPT !.files[v] = Garbled], FALSE, Nothing)
  BY <1>4, FailedOutcome DEF WriteFile, Done, e
<1>8. /\ f.files \in Files /\ [e EXCEPT !.files[v] = Garbled].files \in Files /\ e.files \in Files
      /\ f.files[v] = d.resident[v] /\ \A k \in Keys \ {v} : f.files[k] = d.files[k]
      /\ f \in Disks /\ f.on_disk = e.on_disk /\ f.resident = e.resident /\ f.recent = e.recent
  BY <1>1, <1>5, <1>6 DEF Disks, Files
<1> HIDE DEF f
<1>9. /\ g \in Disks /\ g.on_disk = d.on_disk \cup {v} /\ g.resident = Without(d.resident, {v})
      /\ g.recent = Dropped(d.recent, {v}) /\ g.files = f.files
  BY <1>5, <1>6, <1>8 DEF Disks
<1> HIDE DEF g
<1>10. DiskSound(g, truth)
  <2>1. /\ DOMAIN g.resident = DOMAIN d.resident \ {v}
        /\ \A k \in DOMAIN d.resident \ {v} : g.resident[k] = d.resident[k]
    <3>1. /\ DOMAIN Without(d.resident, {v}) = DOMAIN d.resident \ {v}
          /\ \A k \in DOMAIN d.resident \ {v} : Without(d.resident, {v})[k] = d.resident[k]
      BY <1>1, MapWithout
    <3> QED
      BY <1>9, <3>1
  <2>2. Orders(g.recent, DOMAIN g.resident)
    BY <1>9, <2>1, OrderWithout DEF DiskSound
  <2>3. g.on_disk \cap DOMAIN g.resident = {}
    BY <1>9, <2>1 DEF DiskSound
  <2>4. Cardinality(DOMAIN g.resident) <= Capacity
    <3>1. Cardinality(DOMAIN g.resident) = Cardinality(DOMAIN d.resident) - 1
      BY <1>5, <2>1, OneLess
    <3> QED
      BY <1>5, <3>1, CapacityAssumption DEF DiskSound
  <2>5. ASSUME NEW k \in Held(g) PROVE ChunkOf(g, k) = truth[k]
    <3>1. k = v \/ (k \in Held(d) /\ k # v)
      BY <1>9, <2>1, <2>5 DEF Held
    <3>2. ASSUME NEW j \in Held(d) PROVE ChunkOf(d, j) = truth[j]
      BY DEF DiskSound
    <3>3. CASE k = v
      BY <1>8, <1>9, <2>1, <3>2, <3>3 DEF ChunkOf, Held
    <3>4. CASE k \in Held(d) /\ k # v
      <4>1. k \in Keys
        BY <1>1, <1>5, <3>4 DEF Held, Disks
      <4>2. ChunkOf(g, k) = ChunkOf(d, k)
        BY <1>8, <1>9, <2>1, <3>4, <4>1 DEF ChunkOf
      <4> QED
        BY <3>2, <3>4, <4>2
    <3> QED
      BY <3>1, <3>3, <3>4
  <2> QED
    BY <1>9, <2>2, <2>3, <2>4, <2>5 DEF DiskSound
<1>11. CASE w = Outcome(f, TRUE, Nothing)
  <2>1. o = Outcome(g, TRUE, Nothing)
    BY <1>4, <1>11 DEF Outcome, g
  <2>2. o.ok = TRUE /\ o.disk = g
    BY <2>1 DEF Outcome
  <2>3. g.files \in Files /\ \A k \in Keys \ {v} : g.files[k] = d.files[k]
    BY <1>8, <1>9
  <2>4. DOMAIN g.resident = DOMAIN d.resident \ {v}
    BY <1>1, <1>9, MapWithout
  <2> QED
    BY <1>9, <1>10, <2>2, <2>3, <2>4 DEF OutcomeSound
<1>12. CASE \/ w = Outcome(e, FALSE, Nothing)
            \/ w = Outcome([e EXCEPT !.files[v] = Garbled], FALSE, Nothing)
  <2>1. /\ w.ok = FALSE
        /\ w.disk = e \/ w.disk = [e EXCEPT !.files[v] = Garbled]
    BY <1>12 DEF Outcome
  <2>2. o = w /\ w.disk.files \in Files
    BY <1>4, <1>8, <2>1
  <2> QED
    BY <2>1, <2>2 DEF OutcomeSound
<1> QED
  BY <1>7, <1>11, <1>12

(* Room for one more is there, or made.                                    *)
LEMMA MadeRoomIsSound ==
  ASSUME NEW truth, NEW d, DiskSound(d, truth), NEW o \in MadeRoom(d)
  PROVE  /\ OutcomeSound(o, truth)
         /\ o.ok =>
              /\ Cardinality(DOMAIN o.disk.resident) < Capacity
              /\ DOMAIN o.disk.resident \subseteq DOMAIN d.resident
              /\ o.disk.on_disk \subseteq d.on_disk \cup DOMAIN d.resident
              /\ \A k \in Keys \ DOMAIN d.resident : o.disk.files[k] = d.files[k]
<1>1. d \in Disks /\ d.resident \in Tier /\ d.files \in Files
  BY DEF DiskSound, Disks
<1>2. /\ Cardinality(DOMAIN d.resident) \in Nat /\ IsFiniteSet(DOMAIN d.resident)
      /\ Cardinality(DOMAIN d.resident) = 0 <=> DOMAIN d.resident = {}
      /\ Cardinality(DOMAIN d.resident) <= Capacity
  BY <1>1, TierSize DEF DiskSound
<1>3. CASE Cardinality(DOMAIN d.resident) >= Capacity
  <2>1. DOMAIN d.resident # {} /\ o \in EvictLeastRecentlyUsed(d)
    BY <1>2, <1>3, CapacityAssumption DEF MadeRoom
  <2>2. OutcomeSound(o, truth)
    BY <2>1, EvictIsSound
  <2>3. ASSUME o.ok
        PROVE  /\ Cardinality(DOMAIN o.disk.resident) < Capacity
               /\ DOMAIN o.disk.resident \subseteq DOMAIN d.resident
               /\ o.disk.on_disk \subseteq d.on_disk \cup DOMAIN d.resident
               /\ \A k \in Keys \ DOMAIN d.resident : o.disk.files[k] = d.files[k]
    <3>1. PICK victim \in DOMAIN d.resident :
            /\ DOMAIN o.disk.resident = DOMAIN d.resident \ {victim}
            /\ o.disk.on_disk = d.on_disk \cup {victim}
            /\ \A k \in Keys \ {victim} : o.disk.files[k] = d.files[k]
      BY <2>1, <2>3, EvictIsSound
    <3>2. Cardinality(DOMAIN o.disk.resident) = Cardinality(DOMAIN d.resident) - 1
      BY <1>2, <3>1, OneLess
    <3>3. Cardinality(DOMAIN o.disk.resident) < Capacity
      BY <1>2, <3>2, CapacityAssumption
    <3> QED
      BY <3>1, <3>3
  <2> QED
    BY <2>2, <2>3
<1>4. CASE ~(Cardinality(DOMAIN d.resident) >= Capacity)
  <2>1. o.disk = d /\ o.ok = TRUE
    BY <1>4 DEF MadeRoom, Done, Outcome
  <2>2. Cardinality(DOMAIN d.resident) < Capacity
    BY <1>2, <1>4, CapacityAssumption
  <2> QED
    BY <1>1, <2>1, <2>2 DEF OutcomeSound
<1> QED
  BY <1>3, <1>4

(* Where there is room, a chunk that is the truth goes in.                 *)
LEMMA InsertedIsSound ==
  ASSUME NEW truth, NEW d, DiskSound(d, truth), NEW key \in Keys, NEW chunk \in Chunk,
         chunk = truth[key], key \notin d.on_disk,
         key \in DOMAIN d.resident \/ Cardinality(DOMAIN d.resident) < Capacity
  PROVE  /\ DiskSound(Inserted(d, key, chunk), truth)
         /\ Held(Inserted(d, key, chunk)) = Held(d) \cup {key}
<1> DEFINE e == Inserted(d, key, chunk)
           map == With(d.resident, key, chunk)
           order == Touched(d.recent, d.resident, key)
<1>1. d \in Disks /\ d.resident \in Tier /\ Orders(d.recent, DOMAIN d.resident)
  BY DEF DiskSound, Disks
<1>2. /\ map \in Tier /\ DOMAIN map = DOMAIN d.resident \cup {key} /\ map[key] = chunk
      /\ \A k \in DOMAIN d.resident \ {key} : map[k] = d.resident[k]
  BY <1>1, MapWith
<1>3. Orders(order, DOMAIN map)
  BY <1>1, <1>2, OrderTouched
<1>4. order \in SUBSET (Keys \X Keys)
  <2>1. DOMAIN map \subseteq Keys
    BY <1>2, TierSize
  <2> QED
    BY <1>3, <2>1 DEF Orders
<1> HIDE DEF map, order
<1>5. /\ e \in Disks /\ e.resident = map /\ e.recent = order /\ e.on_disk = d.on_disk
      /\ e.files = d.files
  BY <1>1, <1>2, <1>4 DEF Inserted, Disks, map, order
<1>6. Cardinality(DOMAIN map) <= Capacity
  BY <1>1, <1>2, OneMore, TierSize DEF DiskSound
<1> HIDE DEF e
<1>7. ASSUME NEW k \in Held(e) PROVE ChunkOf(e, k) = truth[k]
  <2>1. k = key \/ (k \in Held(d) /\ k # key)
    BY <1>2, <1>5, <1>7 DEF Held
  <2>2. CASE k = key
    BY <1>2, <1>5, <2>2 DEF ChunkOf
  <2>3. CASE k \in Held(d) /\ k # key
    <3>1. ChunkOf(e, k) = ChunkOf(d, k)
      BY <1>2, <1>5, <2>3 DEF ChunkOf
    <3> QED
      BY <2>3, <3>1 DEF DiskSound
  <2> QED
    BY <2>1, <2>2, <2>3
<1>8. e.on_disk \cap DOMAIN e.resident = {}
  BY <1>2, <1>5 DEF DiskSound
<1>9. DiskSound(e, truth)
  BY <1>3, <1>5, <1>6, <1>7, <1>8 DEF DiskSound
<1>10. Held(e) = Held(d) \cup {key}
  BY <1>2, <1>5 DEF Held
<1> QED
  BY <1>9, <1>10 DEF e

(* A key about to be put is in no listed file any more.                    *)
LEMMA ForgottenIsSound ==
  ASSUME NEW truth, NEW d, DiskSound(d, truth), NEW key \in Keys, NEW o \in Forgotten(d, key)
  PROVE  /\ OutcomeSound(o, truth)
         /\ o.ok => /\ o.disk.resident = d.resident /\ key \notin o.disk.on_disk
<1>1. CASE key \in d.on_disk
  <2>1. /\ DiskSound(Delisted(d, key), truth)
        /\ Delisted(d, key).resident = d.resident
        /\ key \notin Delisted(d, key).on_disk
        /\ o \in RemoveFile(Delisted(d, key), key)
    BY <1>1, DelistedIsSound DEF Forgotten
  <2> QED
    BY <2>1, RemoveFileIsSound
<1>2. CASE key \notin d.on_disk
  <2>1. o.disk = d /\ o.ok = TRUE
    BY <1>2 DEF Forgotten, Done, Outcome
  <2>2. d.files \in Files
    BY DEF DiskSound, Disks
  <2> QED
    BY <1>2, <2>1, <2>2 DEF OutcomeSound
<1> QED
  BY <1>1, <1>2

(* A put of a true chunk leaves nothing but the truth, whichever of its    *)
(* file operations fails (DiskChunkStore::put).                            *)
LEMMA PutIsSound ==
  ASSUME NEW truth, NEW d, DiskSound(d, truth), NEW key \in Keys, NEW chunk \in Chunk,
         chunk = truth[key], NEW o \in Put(d, key, chunk)
  PROVE  OutcomeSound(o, truth)
<1>1. PICK f \in Forgotten(d, key) :
        o \in IF ~f.ok THEN {f}
              ELSE { IF r.ok THEN Outcome(Inserted(r.disk, key, chunk), TRUE, chunk) ELSE r :
                       r \in IF key \in DOMAIN f.disk.resident THEN Done(f.disk)
                             ELSE MadeRoom(f.disk) }
  BY DEF Put
<1>2. /\ OutcomeSound(f, truth)
      /\ f.ok => f.disk.resident = d.resident /\ key \notin f.disk.on_disk
  BY ForgottenIsSound
<1>3. CASE ~f.ok
  BY <1>1, <1>2, <1>3
<1>4. CASE f.ok
  <2>1. PICK r \in IF key \in DOMAIN f.disk.resident THEN Done(f.disk) ELSE MadeRoom(f.disk) :
          o = IF r.ok THEN Outcome(Inserted(r.disk, key, chunk), TRUE, chunk) ELSE r
    BY <1>1, <1>4
  <2>2. DiskSound(f.disk, truth) /\ key \notin f.disk.on_disk /\ f.disk.files \in Files
    BY <1>2, <1>4 DEF OutcomeSound
  <2>3. /\ OutcomeSound(r, truth)
        /\ r.ok => /\ key \notin r.disk.on_disk
                   /\ \/ key \in DOMAIN r.disk.resident
                      \/ Cardinality(DOMAIN r.disk.resident) < Capacity
    <3>1. CASE key \in DOMAIN f.disk.resident
      <4>1. r.disk = f.disk /\ r.ok = TRUE
        BY <2>1, <3>1 DEF Done, Outcome
      <4> QED
        BY <2>2, <3>1, <4>1 DEF OutcomeSound
    <3>2. CASE key \notin DOMAIN f.disk.resident
      <4>1. r \in MadeRoom(f.disk)
        BY <2>1, <3>2
      <4>2. OutcomeSound(r, truth)
        BY <2>2, <4>1, MadeRoomIsSound
      <4>3. r.ok => /\ Cardinality(DOMAIN r.disk.resident) < Capacity
                    /\ r.disk.on_disk \subseteq f.disk.on_disk \cup DOMAIN f.disk.resident
        BY <2>2, <4>1, MadeRoomIsSound
      <4> QED
        BY <2>2, <3>2, <4>2, <4>3
    <3> QED
      BY <3>1, <3>2
  <2>4. CASE ~r.ok
    BY <2>1, <2>3, <2>4
  <2>5. CASE r.ok
    <3>1. DiskSound(r.disk, truth)
      BY <2>3, <2>5 DEF OutcomeSound
    <3>2. DiskSound(Inserted(r.disk, key, chunk), truth)
      BY <2>3, <2>5, <3>1, InsertedIsSound
    <3>3. Inserted(r.disk, key, chunk).files \in Files
      BY <3>2 DEF DiskSound, Disks
    <3>4. o.ok = TRUE /\ o.disk = Inserted(r.disk, key, chunk)
      BY <2>1, <2>5 DEF Outcome
    <3> QED
      BY <3>2, <3>3, <3>4 DEF OutcomeSound
  <2> QED
    BY <2>4, <2>5
<1> QED
  BY <1>3, <1>4

(* A chunk read back from its file is the one that was spilled, and a      *)
(* failed reload leaves nothing false (DiskChunkStore::get).               *)
LEMMA ReloadIsSound ==
  ASSUME NEW truth \in [Keys -> Chunk], NEW d, DiskSound(d, truth), NEW key \in d.on_disk,
         NEW o \in Reload(d, key)
  PROVE  OutcomeSound(o, truth) /\ (o.ok => o.chunk = truth[key])
<1>1. /\ d \in Disks /\ key \in Keys /\ key \notin DOMAIN d.resident
      /\ d.files[key] = truth[key] /\ truth[key] \in Chunk
  BY DEF DiskSound, Disks, Held, ChunkOf
<1>2. PICK r \in MadeRoom(d) :
        o \in IF ~r.ok THEN {r}
              ELSE { IF f.ok
                     THEN Outcome(Inserted(f.disk, key, d.files[key]), TRUE, d.files[key])
                     ELSE f : f \in RemoveFile(Delisted(r.disk, key), key) }
  BY DEF Reload
<1>3. OutcomeSound(r, truth)
  BY <1>2, MadeRoomIsSound
<1>4. CASE ~r.ok
  BY <1>2, <1>3, <1>4
<1>5. CASE r.ok
  <2>1. Cardinality(DOMAIN r.disk.resident) < Capacity /\ DiskSound(r.disk, truth)
    BY <1>2, <1>3, <1>5, MadeRoomIsSound DEF OutcomeSound
  <2> DEFINE e == Delisted(r.disk, key)
  <2>2. DiskSound(e, truth) /\ e.resident = r.disk.resident /\ key \notin e.on_disk
    BY <2>1, DelistedIsSound
  <2>3. PICK f \in RemoveFile(e, key) :
          o = IF f.ok THEN Outcome(Inserted(f.disk, key, d.files[key]), TRUE, d.files[key]) ELSE f
    BY <1>2, <1>5
  <2> HIDE DEF e
  <2>4. OutcomeSound(f, truth)
    BY <1>1, <2>2, <2>3, RemoveFileIsSound
  <2>5. f.ok => f.disk.resident = e.resident /\ f.disk.on_disk = e.on_disk
    BY <1>1, <2>2, <2>3, RemoveFileIsSound
  <2>6. CASE ~f.ok
    BY <2>3, <2>4, <2>6
  <2>7. CASE f.ok
    <3>1. DiskSound(f.disk, truth)
      BY <2>4, <2>7 DEF OutcomeSound
    <3>2. DiskSound(Inserted(f.disk, key, d.files[key]), truth)
      BY <1>1, <2>1, <2>2, <2>5, <2>7, <3>1, InsertedIsSound
    <3>3. Inserted(f.disk, key, d.files[key]).files \in Files
      BY <3>2 DEF DiskSound, Disks
    <3>4. o.ok = TRUE /\ o.disk = Inserted(f.disk, key, d.files[key]) /\ o.chunk = d.files[key]
      BY <2>3, <2>7 DEF Outcome
    <3> QED
      BY <1>1, <3>2, <3>3, <3>4 DEF OutcomeSound
  <2> QED
    BY <2>6, <2>7
<1> QED
  BY <1>4, <1>5

(* A get answers with the truth or with nothing.                           *)
LEMMA GetIsSound ==
  ASSUME NEW truth \in [Keys -> Chunk], NEW d, DiskSound(d, truth), NEW key \in Keys,
         NEW o \in Get(d, key)
  PROVE  OutcomeSound(o, truth) /\ (o.ok => o.chunk \in {truth[key], Nothing})
<1>1. d \in Disks /\ d.files \in Files /\ d.resident \in Tier /\ Orders(d.recent, DOMAIN d.resident)
  BY DEF DiskSound, Disks
<1>2. CASE key \in DOMAIN d.resident
  <2> DEFINE order == Touched(d.recent, d.resident, key)
             e == [d EXCEPT !.recent = order]
  <2>1. Orders(order, DOMAIN d.resident \cup {key}) /\ DOMAIN d.resident \cup {key} = DOMAIN d.resident
    BY <1>1, <1>2, OrderTouched
  <2>2. order \in SUBSET (Keys \X Keys)
    BY <1>1, <2>1, TierSize DEF Orders
  <2>3. o = Outcome(e, TRUE, d.resident[key])
    BY <1>2 DEF Get
  <2> HIDE DEF order
  <2>4. /\ e \in Disks /\ e.resident = d.resident /\ e.recent = order /\ e.on_disk = d.on_disk
        /\ e.files = d.files
    BY <1>1, <2>2 DEF Disks
  <2>5. o.ok = TRUE /\ o.disk = e /\ o.chunk = d.resident[key]
    BY <2>3 DEF Outcome
  <2> HIDE DEF e
  <2>6. DiskSound(e, truth)
    BY <2>1, <2>4 DEF DiskSound, Held, ChunkOf
  <2>7. d.resident[key] = truth[key]
    BY <1>2 DEF DiskSound, Held, ChunkOf
  <2> QED
    BY <1>1, <2>4, <2>5, <2>6, <2>7 DEF OutcomeSound
<1>3. CASE key \in d.on_disk \ DOMAIN d.resident
  <2>1. o \in Reload(d, key) \/ o = Outcome(d, FALSE, Nothing)
    BY <1>3, FailedOutcome DEF Get
  <2>2. CASE o \in Reload(d, key)
    BY <1>3, <2>2, ReloadIsSound
  <2>3. CASE o = Outcome(d, FALSE, Nothing)
    <3>1. o.ok = FALSE /\ o.disk = d
      BY <2>3 DEF Outcome
    <3> QED
      BY <1>1, <3>1 DEF OutcomeSound
  <2> QED
    BY <2>1, <2>2, <2>3
<1>4. CASE key \notin DOMAIN d.resident /\ key \notin d.on_disk
  <2>1. o = Outcome(d, TRUE, Nothing)
    BY <1>4 DEF Get, Done
  <2>2. o.ok = TRUE /\ o.disk = d /\ o.chunk = Nothing
    BY <2>1 DEF Outcome
  <2> QED
    BY <1>1, <2>2 DEF OutcomeSound
<1> QED
  BY <1>2, <1>3, <1>4

(* Once the keys an edit touched are gone, what is left is true of the     *)
(* edited scene too (Store::evict_coord_everywhere, Store::clear).         *)
LEMMA RemoveAllIsSound ==
  ASSUME NEW truth, NEW d, DiskSound(d, truth), NEW gone, NEW later,
         \A k \in Held(d) \ gone : later[k] = truth[k],
         NEW o \in RemoveAll(d, gone)
  PROVE  /\ OutcomeSound(o, later)
         /\ o.ok => Held(o.disk) = Held(d) \ gone
<1> DEFINE left == [d EXCEPT !.resident = Without(@, gone), !.recent = Dropped(@, gone),
                             !.on_disk = @ \ gone]
           Left(part) == [left EXCEPT !.files = FilesGone(@, part)]
<1>1. /\ d \in Disks /\ d.resident \in Tier /\ d.files \in Files
      /\ Orders(d.recent, DOMAIN d.resident)
      /\ d.on_disk \cap DOMAIN d.resident = {} /\ Cardinality(DOMAIN d.resident) <= Capacity
      /\ \A k \in Held(d) : ChunkOf(d, k) = truth[k]
  BY DEF DiskSound, Disks
<1>2. /\ Without(d.resident, gone) \in Tier
      /\ DOMAIN Without(d.resident, gone) = DOMAIN d.resident \ gone
      /\ \A k \in DOMAIN d.resident \ gone : Without(d.resident, gone)[k] = d.resident[k]
  BY <1>1, MapWithout
<1>3. Dropped(d.recent, gone) \in SUBSET (Keys \X Keys)
  BY <1>1 DEF Dropped, Disks
<1>4. /\ left \in Disks /\ left.resident = Without(d.resident, gone)
      /\ left.recent = Dropped(d.recent, gone) /\ left.on_disk = d.on_disk \ gone
      /\ left.files = d.files
  BY <1>1, <1>2, <1>3 DEF Disks
<1> HIDE DEF left
<1>5. ASSUME NEW part
      PROVE  /\ Left(part) \in Disks /\ Left(part).resident = left.resident
             /\ Left(part).recent = left.recent /\ Left(part).on_disk = left.on_disk
             /\ Left(part).files \in Files
             /\ \A k \in Keys \ part : Left(part).files[k] = d.files[k]
  <2>1. /\ FilesGone(d.files, part) \in Files
        /\ \A k \in Keys \ part : FilesGone(d.files, part)[k] = d.files[k]
    BY <1>1 DEF Files, FilesGone
  <2> QED
    BY <1>4, <2>1 DEF Disks
<1> DEFINE e == Left(d.on_disk \cap gone)
<1>6. \/ o = Outcome(e, TRUE, Nothing)
      \/ \E part : o = Outcome(Left(part), FALSE, Nothing)
  BY FailedOutcome DEF RemoveAll, Done, left
<1>7. CASE o = Outcome(e, TRUE, Nothing)
  <2>1. o.ok = TRUE /\ o.disk = e
    BY <1>7 DEF Outcome
  <2>2. /\ e \in Disks /\ e.resident = left.resident /\ e.recent = left.recent
        /\ e.on_disk = left.on_disk /\ e.files \in Files
        /\ \A k \in Keys \ gone : e.files[k] = d.files[k]
    BY <1>5
  <2> HIDE DEF e
  <2>3. /\ DOMAIN e.resident = DOMAIN d.resident \ gone /\ e.on_disk = d.on_disk \ gone
        /\ \A k \in DOMAIN e.resident : e.resident[k] = d.resident[k]
    BY <1>2, <1>4, <2>2
  <2>4. Orders(e.recent, DOMAIN e.resident)
    BY <1>1, <1>4, <2>2, <2>3, OrderWithout
  <2>5. Cardinality(DOMAIN e.resident) <= Capacity
    <3>1. /\ IsFiniteSet(DOMAIN d.resident) /\ Cardinality(DOMAIN d.resident) \in Nat
          /\ IsFiniteSet(DOMAIN e.resident) /\ Cardinality(DOMAIN e.resident) \in Nat
      BY <1>1, <1>2, <1>4, <2>2, TierSize
    <3>2. Cardinality(DOMAIN e.resident) <= Cardinality(DOMAIN d.resident)
      BY <2>3, <3>1, FS_Subset
    <3> QED
      BY <1>1, <3>1, <3>2, CapacityAssumption
  <2>6. Held(e) = Held(d) \ gone
    BY <2>3 DEF Held
  <2>7. ASSUME NEW k \in Held(e) PROVE ChunkOf(e, k) = later[k]
    <3>1. k \in Held(d) \ gone /\ k \in Keys
      BY <1>1, <2>6, <2>7, TierSize DEF Held, Disks
    <3>2. ChunkOf(e, k) = ChunkOf(d, k)
      BY <2>2, <2>3, <3>1 DEF ChunkOf
    <3> QED
      BY <1>1, <3>1, <3>2
  <2>8. DiskSound(e, later)
    BY <1>1, <2>2, <2>3, <2>4, <2>5, <2>7 DEF DiskSound
  <2> QED
    BY <2>1, <2>2, <2>6, <2>8 DEF OutcomeSound
<1>8. ASSUME NEW part, o = Outcome(Left(part), FALSE, Nothing)
      PROVE  /\ OutcomeSound(o, later)
             /\ o.ok => Held(o.disk) = Held(d) \ gone
  <2>1. o.ok = FALSE /\ o.disk = Left(part)
    BY <1>8 DEF Outcome
  <2> QED
    BY <1>5, <2>1 DEF OutcomeSound
<1> QED
  BY <1>6, <1>7, <1>8

(***************************************************************************)
(* The cache over the spill store.                                         *)
(***************************************************************************)

Caches ==
  [chunks : Tier, recent : SUBSET (Keys \X Keys), disk : Disks,
   bound : Frames \cup {NoFrame}, alive : BOOLEAN]

(* What a scene holds at every key, in a frame.                            *)
Truth(sc, frame) == [k \in Keys |-> Resolved(sc, k, frame)]

(* Everything either tier holds is the truth.                              *)
CacheSound(c, truth) ==
  /\ c \in Caches /\ Orders(c.recent, DOMAIN c.chunks)
  /\ Cardinality(DOMAIN c.chunks) <= Capacity
  /\ \A k \in DOMAIN c.chunks : c.chunks[k] = truth[k]
  /\ DiskSound(c.disk, truth)

(* A cache that is bound to no frame, and that of a new process, is empty. *)
Bare(c) == DOMAIN c.chunks = {} /\ Held(c.disk) = {}
Sound(c, sc) ==
  /\ CacheSound(c, Truth(sc, c.bound))
  /\ c.bound = NoFrame => Bare(c)
  /\ ~c.alive => c.bound = NoFrame

(* The keys are resident and none of the others was used after them.       *)
Newest(c, keys) ==
  /\ keys \subseteq DOMAIN c.chunks
  /\ \A k \in keys, other \in DOMAIN c.chunks \ keys : <<other, k>> \in c.recent

(* The truth of a scene in a frame is a chunk at every key.                *)
LEMMA TruthIsChunks ==
  ASSUME NEW sc \in Scenes, NEW frame \in Frames
  PROVE  Truth(sc, frame) \in [Keys -> Chunk]
BY DEF Truth, Scenes, Resolved, Chunk

(* What is empty is true of every scene.                                   *)
LEMMA BareIsSound ==
  ASSUME NEW truth, NEW c, CacheSound(c, truth), Bare(c), NEW later
  PROVE  CacheSound(c, later)
BY DEF CacheSound, Bare, DiskSound

(* The empty map is a tier, of size 0 and with an empty order of use.      *)
LEMMA EmptyTier ==
  /\ << >> \in Tier /\ DOMAIN << >> = {} /\ Orders({}, DOMAIN << >>)
  /\ Cardinality(DOMAIN << >>) <= Capacity
<1>1. DOMAIN << >> = {} /\ << >> \in [{} -> Chunk]
  OBVIOUS
<1>2. Cardinality(DOMAIN << >>) = 0
  BY <1>1, FS_EmptySet
<1>3. << >> \in Tier
  BY <1>1 DEF Tier
<1>4. Orders({}, DOMAIN << >>)
  BY <1>1 DEF Orders
<1> QED
  BY <1>1, <1>2, <1>3, <1>4, CapacityAssumption

(* A new process starts empty over whatever files are left.                *)
LEMMA FreshIsSound ==
  ASSUME NEW files \in Files, NEW sc
  PROVE  /\ Sound(Fresh(files), sc) /\ Bare(Fresh(files))
         /\ Fresh(files).alive = FALSE /\ Fresh(files).bound = NoFrame
<1> DEFINE d == OpenedOver(files)
           c == Fresh(files)
<1>1. /\ d \in Disks /\ d.resident = << >> /\ d.recent = {} /\ d.on_disk = {}
  BY EmptyTier DEF OpenedOver, Disks
<1>2. Held(d) = {}
  BY <1>1, EmptyTier DEF Held
<1>3. ASSUME NEW truth PROVE DiskSound(d, truth)
  BY <1>1, <1>2, EmptyTier DEF DiskSound
<1>4. /\ c.chunks = << >> /\ c.recent = {} /\ c.disk = d /\ c.bound = NoFrame
      /\ c.alive = FALSE
  BY DEF Fresh
<1>5. c \in Caches
  BY <1>1, EmptyTier DEF Fresh, Caches
<1> HIDE DEF c, d
<1>6. Bare(c)
  BY <1>2, <1>4, EmptyTier DEF Bare
<1>7. CacheSound(c, Truth(sc, c.bound))
  BY <1>3, <1>4, <1>5, EmptyTier DEF CacheSound
<1> QED
  BY <1>4, <1>6, <1>7 DEF Sound, c

(* After a call of the spill store the cache goes on with what the call    *)
(* left, or a new process does.                                            *)
LEMMA SurvivesIsSound ==
  ASSUME NEW sc, NEW truth, NEW c \in Caches, c.alive,
         Orders(c.recent, DOMAIN c.chunks), Cardinality(DOMAIN c.chunks) <= Capacity,
         \A k \in DOMAIN c.chunks : c.chunks[k] = truth[k],
         NEW o, OutcomeSound(o, truth)
  PROVE  LET s == Survives(o, c) IN
         /\ o.ok => /\ CacheSound(s, truth) /\ s.alive /\ s.bound = c.bound
                    /\ s.chunks = c.chunks /\ s.recent = c.recent /\ s.disk = o.disk
         /\ ~o.ok => s = Fresh(o.disk.files)
         /\ ~s.alive => Sound(s, sc) /\ Bare(s) /\ s.bound = NoFrame
         /\ s.alive = o.ok
<1>1. CASE o.ok
  <2> DEFINE s == [c EXCEPT !.disk = o.disk]
  <2>1. Survives(o, c) = s /\ DiskSound(o.disk, truth) /\ o.ok = TRUE
    BY <1>1 DEF Survives, OutcomeSound
  <2>2. /\ s \in Caches /\ s.chunks = c.chunks /\ s.recent = c.recent /\ s.disk = o.disk
        /\ s.bound = c.bound /\ s.alive = TRUE
    BY <2>1 DEF Caches, DiskSound
  <2> HIDE DEF s
  <2>3. CacheSound(s, truth)
    BY <2>1, <2>2 DEF CacheSound
  <2> QED
    BY <1>1, <2>1, <2>2, <2>3
<1>2. CASE ~o.ok
  <2>1. Survives(o, c) = Fresh(o.disk.files) /\ o.disk.files \in Files /\ o.ok = FALSE
    BY <1>2 DEF Survives, OutcomeSound
  <2> QED
    BY <2>1, FreshIsSound
<1> QED
  BY <1>1, <1>2

(* Keys gone from both tiers: what is left is true of a scene that changed *)
(* only there.                                                             *)
LEMMA EvictedIsSound ==
  ASSUME NEW truth, NEW c, CacheSound(c, truth), c.alive, NEW gone,
         NEW sc, \A k \in (DOMAIN c.chunks \cup Held(c.disk)) \ gone : Truth(sc, c.bound)[k] = truth[k],
         c.bound = NoFrame => Bare(c),
         NEW e \in Evicted(c, gone)
  PROVE  Sound(e, sc) /\ (e.alive => e.bound = c.bound)
<1> DEFINE left == [c EXCEPT !.chunks = Without(@, gone), !.recent = Dropped(@, gone)]
           later == Truth(sc, c.bound)
<1>1. /\ c \in Caches /\ c.chunks \in Tier /\ Orders(c.recent, DOMAIN c.chunks)
      /\ DiskSound(c.disk, truth) /\ Cardinality(DOMAIN c.chunks) <= Capacity
      /\ \A k \in DOMAIN c.chunks : c.chunks[k] = truth[k]
  BY DEF CacheSound, Caches
<1>2. PICK o \in RemoveAll(c.disk, gone) : e = Survives(o, left)
  BY DEF Evicted
<1>3. /\ OutcomeSound(o, later)
      /\ o.ok => Held(o.disk) = Held(c.disk) \ gone
  BY <1>1, RemoveAllIsSound
<1>4. /\ Without(c.chunks, gone) \in Tier
      /\ DOMAIN Without(c.chunks, gone) = DOMAIN c.chunks \ gone
      /\ \A k \in DOMAIN c.chunks \ gone : Without(c.chunks, gone)[k] = c.chunks[k]
  BY <1>1, MapWithout
<1>5. Dropped(c.recent, gone) \in SUBSET (Keys \X Keys)
  BY <1>1 DEF Dropped, Caches
<1>6. /\ left \in Caches /\ left.chunks = Without(c.chunks, gone)
      /\ left.recent = Dropped(c.recent, gone) /\ left.bound = c.bound /\ left.alive
  BY <1>1, <1>4, <1>5 DEF Caches
<1> HIDE DEF left
<1>7. Orders(left.recent, DOMAIN left.chunks)
  BY <1>1, <1>4, <1>6, OrderWithout
<1>8. Cardinality(DOMAIN left.chunks) <= Capacity
  <2>1. /\ IsFiniteSet(DOMAIN c.chunks) /\ Cardinality(DOMAIN c.chunks) \in Nat
        /\ Cardinality(DOMAIN left.chunks) \in Nat
    BY <1>1, <1>4, <1>6, TierSize
  <2>2. Cardinality(DOMAIN left.chunks) <= Cardinality(DOMAIN c.chunks)
    BY <1>4, <1>6, <2>1, FS_Subset
  <2> QED
    BY <1>1, <2>1, <2>2, CapacityAssumption
<1>9. \A k \in DOMAIN left.chunks : left.chunks[k] = later[k]
  BY <1>1, <1>4, <1>6
<1> HIDE DEF later
<1>10. /\ o.ok => /\ CacheSound(e, later) /\ e.alive /\ e.bound = c.bound
                  /\ e.chunks = left.chunks /\ e.disk = o.disk
       /\ ~e.alive => Sound(e, sc)
       /\ e.alive = o.ok
  BY <1>2, <1>3, <1>6, <1>7, <1>8, <1>9, SurvivesIsSound
<1>11. CASE o.ok
  <2>1. e.bound = NoFrame => Bare(e)
    BY <1>3, <1>4, <1>6, <1>10, <1>11 DEF Bare
  <2> QED
    BY <1>10, <1>11, <2>1 DEF Sound, later
<1>12. CASE ~o.ok
  BY <1>3, <1>10, <1>12 DEF OutcomeSound
<1> QED
  BY <1>11, <1>12

(* Everything thrown away together (rebind_if_changed, clear).             *)
LEMMA EmptiedIsSound ==
  ASSUME NEW truth, NEW c, CacheSound(c, truth), c.alive, NEW sc,
         NEW e \in Emptied(c)
  PROVE  /\ \A later : CacheSound(e, later)
         /\ Bare(e) /\ e.alive \in BOOLEAN
         /\ e.alive => e.bound = c.bound
         /\ ~e.alive => e.bound = NoFrame
<1> DEFINE left == [c EXCEPT !.chunks = << >>, !.recent = {}]
<1>1. c \in Caches /\ DiskSound(c.disk, truth)
  BY DEF CacheSound
<1>2. PICK o \in RemoveAll(c.disk, Held(c.disk)) : e = Survives(o, left)
  BY DEF Emptied, Clear
<1>3. /\ OutcomeSound(o, truth)
      /\ o.ok => Held(o.disk) = {}
  <2>1. o.ok => Held(o.disk) = Held(c.disk) \ Held(c.disk)
    BY <1>1, <1>2, RemoveAllIsSound
  <2>2. OutcomeSound(o, truth)
    BY <1>1, <1>2, RemoveAllIsSound
  <2> QED
    BY <2>1, <2>2
<1>4. /\ left \in Caches /\ left.chunks = << >> /\ left.recent = {} /\ left.bound = c.bound
      /\ left.alive
  BY <1>1, EmptyTier DEF Caches
<1> HIDE DEF left
<1>5. /\ Orders(left.recent, DOMAIN left.chunks) /\ Cardinality(DOMAIN left.chunks) <= Capacity
      /\ \A k \in DOMAIN left.chunks : left.chunks[k] = truth[k]
  BY <1>4, EmptyTier
<1>6. /\ o.ok => /\ CacheSound(e, truth) /\ e.alive /\ e.bound = c.bound
                 /\ e.chunks = left.chunks /\ e.disk = o.disk
      /\ ~e.alive => Sound(e, sc) /\ Bare(e) /\ e.bound = NoFrame
      /\ e.alive = o.ok
  <2>1. OutcomeSound(o, truth) /\ left \in Caches /\ left.alive /\ e = Survives(o, left)
    BY <1>2, <1>3, <1>4
  <2>2. /\ o.ok => /\ CacheSound(e, truth) /\ e.alive /\ e.bound = left.bound
                   /\ e.chunks = left.chunks /\ e.disk = o.disk
        /\ e.alive = o.ok
    BY <1>5, <2>1, SurvivesIsSound
  <2>3. ~e.alive => Sound(e, sc) /\ Bare(e) /\ e.bound = NoFrame
    BY <1>5, <2>1, SurvivesIsSound
  <2> QED
    BY <1>4, <2>2, <2>3
<1>7. Bare(e) /\ e.alive \in BOOLEAN /\ \E known : CacheSound(e, known)
  <2>1. CASE o.ok
    BY <1>3, <1>4, <1>6, <2>1, EmptyTier DEF Bare, OutcomeSound
  <2>2. CASE ~o.ok
    BY <1>3, <1>6, <2>2 DEF Sound, OutcomeSound
  <2> QED
    BY <2>1, <2>2
<1>8. \A later : CacheSound(e, later)
  BY <1>7, BareIsSound
<1> QED
  BY <1>3, <1>6, <1>7, <1>8 DEF OutcomeSound

(* A cache bound to another frame is emptied first, so that what it holds  *)
(* is true in the new one (rebind_if_changed).                             *)
LEMMA ReboundIsSound ==
  ASSUME NEW sc \in Scenes, NEW c, Sound(c, sc), c.alive, NEW frame \in Frames,
         NEW e \in Rebound(c, frame)
  PROVE  Sound(e, sc) /\ (e.alive => e.bound = frame) /\ e.alive \in BOOLEAN
<1>1. /\ c \in Caches /\ CacheSound(c, Truth(sc, c.bound)) /\ (c.bound = NoFrame => Bare(c))
      /\ frame # NoFrame
  BY SentinelsAreNoValues DEF Sound, CacheSound
<1>2. ASSUME NEW a, CacheSound(a, Truth(sc, frame)), a.alive, e = BoundTo(a, frame)
      PROVE  Sound(e, sc) /\ e.alive /\ e.bound = frame /\ e.alive \in BOOLEAN
  <2> DEFINE b == [a EXCEPT !.bound = frame]
  <2>1. e = b /\ a \in Caches
    BY <1>2 DEF BoundTo, CacheSound
  <2>2. /\ b \in Caches /\ b.chunks = a.chunks /\ b.recent = a.recent /\ b.disk = a.disk
        /\ b.bound = frame /\ b.alive /\ b.alive \in BOOLEAN
    BY <1>2, <2>1 DEF Caches
  <2> HIDE DEF b
  <2>3. CacheSound(b, Truth(sc, frame))
    BY <1>2, <2>2 DEF CacheSound
  <2> QED
    BY <1>1, <2>1, <2>2, <2>3 DEF Sound
<1>3. CASE c.bound \in {frame, NoFrame}
  <2>1. e = BoundTo(c, frame)
    BY <1>3 DEF Rebound
  <2>2. CacheSound(c, Truth(sc, frame))
    BY <1>1, <1>3, BareIsSound
  <2> QED
    BY <1>2, <2>1, <2>2
<1>4. CASE c.bound \notin {frame, NoFrame}
  <2>1. PICK a \in Emptied(c) : e = BoundTo(a, frame)
    BY <1>4 DEF Rebound
  <2>2. /\ \A later : CacheSound(a, later)
        /\ Bare(a) /\ a.alive \in BOOLEAN
        /\ ~a.alive => a.bound = NoFrame
    BY <1>1, <2>1, EmptiedIsSound
  <2>3. CASE a.alive
    BY <1>2, <2>1, <2>2, <2>3
  <2>4. CASE ~a.alive
    BY <2>1, <2>2, <2>4 DEF BoundTo, Sound
  <2> QED
    BY <2>3, <2>4
<1> QED
  BY <1>3, <1>4

(* A cleared cache is empty and bound to nothing.                          *)
LEMMA ClearedIsSound ==
  ASSUME NEW truth, NEW c, CacheSound(c, truth), c.alive, NEW sc, NEW e \in Cleared(c)
  PROVE  Sound(e, sc)
<1>1. PICK a \in Emptied(c) : e = [a EXCEPT !.bound = NoFrame]
  BY DEF Cleared
<1>2. /\ CacheSound(a, Truth(sc, NoFrame)) /\ Bare(a) /\ a \in Caches
  BY EmptiedIsSound DEF CacheSound
<1>3. /\ e \in Caches /\ e.chunks = a.chunks /\ e.recent = a.recent /\ e.disk = a.disk
      /\ e.bound = NoFrame
  BY <1>1, <1>2 DEF Caches
<1> QED
  BY <1>2, <1>3 DEF Sound, CacheSound, Bare

(* An invalidated region, at the density bound or at another one: either   *)
(* way what is left is true of the edited scene (Store::invalidate_aabb).  *)
LEMMA InvalidatedIsSound ==
  ASSUME NEW old, NEW c, Sound(c, old), c.alive, NEW gone, NEW sc, NEW density,
         \A k \in Keys \ gone : sc.contents[k] = old.contents[k],
         NEW e \in InvalidatedAabb(c, gone, density) \cup Evicted(c, gone)
  PROVE  Sound(e, sc)
<1>1. CacheSound(c, Truth(old, c.bound)) /\ (c.bound = NoFrame => Bare(c))
  BY DEF Sound
<1>2. (DOMAIN c.chunks \cup Held(c.disk)) \subseteq Keys
  BY <1>1, TierSize DEF CacheSound, Caches, Held, Disks, DiskSound
<1>3. \A k \in (DOMAIN c.chunks \cup Held(c.disk)) \ gone :
        Truth(sc, c.bound)[k] = Truth(old, c.bound)[k]
  BY <1>2 DEF Truth, Resolved
<1>4. CASE e \in Evicted(c, gone)
  BY <1>1, <1>3, <1>4, EvictedIsSound
<1>5. CASE e \in Cleared(c)
  BY <1>1, <1>5, ClearedIsSound
<1> QED
  BY <1>4, <1>5 DEF InvalidatedAabb

(* Room for one more: at most the least recently used chunk has gone to    *)
(* the spill store, which is none of the newest while there are fewer of   *)
(* them than the cap (spill_until_room_for_one).                           *)
LEMMA SpilledIsSound ==
  ASSUME NEW truth \in [Keys -> Chunk], NEW c, CacheSound(c, truth), c.alive, NEW sc,
         NEW s \in Spilled(c)
  PROVE  /\ s.alive \in BOOLEAN
         /\ ~s.alive => Sound(s, sc) /\ s.bound = NoFrame
         /\ s.alive => /\ CacheSound(s, truth) /\ s.bound = c.bound
                       /\ Cardinality(DOMAIN s.chunks) < Capacity
                       /\ DOMAIN s.chunks \subseteq DOMAIN c.chunks
         /\ s.alive => \A keys :
              IsFiniteSet(keys) /\ Cardinality(keys) < Capacity /\ Newest(c, keys) =>
                Newest(s, keys)
<1>1. /\ c \in Caches /\ c.chunks \in Tier /\ Orders(c.recent, DOMAIN c.chunks)
      /\ DiskSound(c.disk, truth) /\ Cardinality(DOMAIN c.chunks) <= Capacity
      /\ \A k \in DOMAIN c.chunks : c.chunks[k] = truth[k]
      /\ c.alive \in BOOLEAN
  BY DEF CacheSound, Caches
<1>2. /\ DOMAIN c.chunks \subseteq Keys /\ IsFiniteSet(DOMAIN c.chunks)
      /\ Cardinality(DOMAIN c.chunks) \in Nat
  BY <1>1, TierSize
<1>3. CASE Cardinality(DOMAIN c.chunks) < Capacity
  <2>1. s = c
    BY <1>3 DEF Spilled
  <2>2. \A keys : Newest(c, keys) => Newest(s, keys)
    BY <2>1
  <2>3. s.alive /\ s.alive \in BOOLEAN
    BY <1>1, <2>1
  <2>4. /\ CacheSound(s, truth) /\ s.bound = c.bound
        /\ Cardinality(DOMAIN s.chunks) < Capacity /\ DOMAIN s.chunks \subseteq DOMAIN c.chunks
    BY <1>3, <2>1
  <2> QED
    BY <2>2, <2>3, <2>4
<1>4. CASE ~(Cardinality(DOMAIN c.chunks) < Capacity)
  <2> DEFINE Left(v) == [c EXCEPT !.chunks = Without(@, {v}), !.recent = Dropped(@, {v})]
  <2>1. PICK v \in LeastRecent(c.recent, c.chunks) :
          s \in {Survives(o, Left(v)) : o \in Put(c.disk, v, c.chunks[v])}
    BY <1>4 DEF Spilled
  <2> DEFINE left == Left(v)
  <2>2. PICK o \in Put(c.disk, v, c.chunks[v]) : s = Survives(o, left)
    BY <2>1
  <2>3. v \in DOMAIN c.chunks /\ \A other \in DOMAIN c.chunks : <<other, v>> \notin c.recent
    BY <2>1 DEF LeastRecent
  <2>4. v \in Keys /\ c.chunks[v] = truth[v] /\ c.chunks[v] \in Chunk
    BY <1>1, <1>2, <2>3
  <2>5. OutcomeSound(o, truth)
    BY <1>1, <2>2, <2>4, PutIsSound
  <2>6. /\ Without(c.chunks, {v}) \in Tier
        /\ DOMAIN Without(c.chunks, {v}) = DOMAIN c.chunks \ {v}
        /\ \A k \in DOMAIN c.chunks \ {v} : Without(c.chunks, {v})[k] = c.chunks[k]
    BY <1>1, MapWithout
  <2>7. Dropped(c.recent, {v}) \in SUBSET (Keys \X Keys)
    BY <1>1 DEF Dropped, Caches
  <2>8. /\ left \in Caches /\ left.chunks = Without(c.chunks, {v})
        /\ left.recent = Dropped(c.recent, {v}) /\ left.bound = c.bound /\ left.alive
    BY <1>1, <2>6, <2>7 DEF Caches
  <2> HIDE DEF Left
  <2>9. /\ DOMAIN left.chunks = DOMAIN c.chunks \ {v}
        /\ Orders(left.recent, DOMAIN left.chunks)
        /\ \A k \in DOMAIN left.chunks : left.chunks[k] = truth[k]
    BY <1>1, <2>6, <2>8, OrderWithout
  <2>10. /\ Cardinality(DOMAIN left.chunks) = Cardinality(DOMAIN c.chunks) - 1
    BY <1>2, <2>3, <2>9, OneLess
  <2>11. Cardinality(DOMAIN left.chunks) < Capacity /\ Cardinality(DOMAIN left.chunks) <= Capacity
    BY <1>1, <1>2, <2>10, CapacityAssumption
  <2>12. /\ o.ok => /\ CacheSound(s, truth) /\ s.alive /\ s.bound = left.bound
                    /\ s.chunks = left.chunks /\ s.recent = left.recent
         /\ s.alive = o.ok
    BY <2>2, <2>5, <2>8, <2>9, <2>11, SurvivesIsSound
  <2>13. ~s.alive => Sound(s, sc) /\ s.bound = NoFrame
    BY <2>2, <2>5, <2>8, <2>9, <2>11, SurvivesIsSound
  <2>14. ASSUME NEW keys, IsFiniteSet(keys), Cardinality(keys) < Capacity, Newest(c, keys), o.ok
         PROVE  Newest(s, keys)
    <3>1. PICK other \in DOMAIN c.chunks : other \notin keys
      <4>1. DOMAIN c.chunks \subseteq keys => Cardinality(DOMAIN c.chunks) <= Cardinality(keys)
        BY <2>14, FS_Subset
      <4>2. Cardinality(keys) \in Nat
        BY <2>14, FS_CardinalityType
      <4>3. ~(DOMAIN c.chunks \subseteq keys)
        BY <1>2, <1>4, <2>14, <4>1, <4>2, CapacityAssumption
      <4> QED
        BY <4>3
    <3>2. v \notin keys
      BY <2>3, <2>14, <3>1 DEF Newest
    <3>3. \A a, b : <<a, b>> \in c.recent /\ a # v /\ b # v => <<a, b>> \in s.recent
      BY <2>8, <2>12, <2>14 DEF Dropped
    <3>4. DOMAIN s.chunks = DOMAIN c.chunks \ {v}
      BY <2>9, <2>12, <2>14
    <3> QED
      BY <2>14, <3>2, <3>3, <3>4 DEF Newest
  <2>15. o.ok \in BOOLEAN
    BY <2>5 DEF OutcomeSound
  <2>16. s.alive => \A keys :
           IsFiniteSet(keys) /\ Cardinality(keys) < Capacity /\ Newest(c, keys) =>
             Newest(s, keys)
    BY <2>12, <2>14
  <2>17. s.alive => /\ CacheSound(s, truth) /\ s.bound = c.bound
                    /\ Cardinality(DOMAIN s.chunks) < Capacity
                    /\ DOMAIN s.chunks \subseteq DOMAIN c.chunks
    <3>1. s.alive => s.chunks = left.chunks
      BY <2>12
    <3>2. s.alive => DOMAIN s.chunks = DOMAIN c.chunks \ {v}
      BY <2>9, <3>1
    <3>3. s.alive => Cardinality(DOMAIN s.chunks) < Capacity
      BY <2>11, <3>1
    <3> QED
      BY <2>8, <2>12, <3>2, <3>3
  <2> QED
    BY <2>12, <2>13, <2>15, <2>16, <2>17
<1> QED
  BY <1>3, <1>4

(* Using a resident chunk makes it the newest.                             *)
LEMMA TouchIsSound ==
  ASSUME NEW truth, NEW c, CacheSound(c, truth), NEW key \in DOMAIN c.chunks
  PROVE  LET e == TouchResident(c, key) IN
         /\ CacheSound(e, truth) /\ e.bound = c.bound /\ e.alive = c.alive
         /\ e.chunks = c.chunks
         /\ \A keys : Newest(c, keys) => Newest(e, keys \cup {key})
<1> DEFINE order == Touched(c.recent, c.chunks, key)
           e == TouchResident(c, key)
<1>1. c \in Caches /\ c.chunks \in Tier /\ Orders(c.recent, DOMAIN c.chunks)
  BY DEF CacheSound, Caches
<1>2. /\ Orders(order, DOMAIN c.chunks)
      /\ \A a \in DOMAIN c.chunks, b \in DOMAIN c.chunks :
           a # key /\ b # key /\ <<a, b>> \in c.recent => <<a, b>> \in order
      /\ \A a \in DOMAIN c.chunks \ {key} : <<a, key>> \in order
  <2>1. DOMAIN c.chunks \cup {key} = DOMAIN c.chunks
    OBVIOUS
  <2>2. Orders(order, DOMAIN c.chunks \cup {key})
    BY <1>1, OrderTouched
  <2>3. /\ \A a \in DOMAIN c.chunks, b \in DOMAIN c.chunks :
             a # key /\ b # key /\ <<a, b>> \in c.recent => <<a, b>> \in order
        /\ \A a \in DOMAIN c.chunks \ {key} : <<a, key>> \in order
    BY <1>1, OrderTouched
  <2> QED
    BY <2>1, <2>2, <2>3
<1>3. order \in SUBSET (Keys \X Keys)
  BY <1>1, <1>2, TierSize DEF Orders
<1> HIDE DEF order
<1>4. /\ e \in Caches /\ e.chunks = c.chunks /\ e.recent = order /\ e.disk = c.disk
      /\ e.bound = c.bound /\ e.alive = c.alive
  BY <1>1, <1>3 DEF TouchResident, Caches, order
<1> HIDE DEF e
<1>5. CacheSound(e, truth)
  BY <1>2, <1>4 DEF CacheSound
<1>6. \A keys : Newest(c, keys) => Newest(e, keys \cup {key})
  BY <1>2, <1>4 DEF Newest
<1> QED
  BY <1>4, <1>5, <1>6 DEF e

(* A chunk that is the truth goes in, newest of all, room made first       *)
(* (insert_resident).                                                      *)
LEMMA InsertResidentIsSound ==
  ASSUME NEW truth \in [Keys -> Chunk], NEW c, CacheSound(c, truth), c.alive, NEW sc,
         NEW key \in Keys, key \notin DOMAIN c.chunks,
         NEW e \in InsertResident(c, key, truth[key])
  PROVE  /\ e.alive \in BOOLEAN
         /\ ~e.alive => Sound(e, sc) /\ e.bound = NoFrame
         /\ e.alive => /\ CacheSound(e, truth) /\ e.bound = c.bound /\ key \in DOMAIN e.chunks
         /\ e.alive => \A keys :
              IsFiniteSet(keys) /\ Cardinality(keys) < Capacity /\ Newest(c, keys) =>
                Newest(e, keys \cup {key})
<1>1. PICK s \in Spilled(c) :
        e = IF s.alive THEN TouchResident([s EXCEPT !.chunks = With(@, key, truth[key])], key)
            ELSE s
  BY DEF InsertResident
<1>2. /\ s.alive \in BOOLEAN
      /\ ~s.alive => Sound(s, sc) /\ s.bound = NoFrame
      /\ s.alive => /\ CacheSound(s, truth) /\ s.bound = c.bound
                    /\ Cardinality(DOMAIN s.chunks) < Capacity
                    /\ DOMAIN s.chunks \subseteq DOMAIN c.chunks
  BY SpilledIsSound
<1>3. s.alive => \A keys :
        IsFiniteSet(keys) /\ Cardinality(keys) < Capacity /\ Newest(c, keys) => Newest(s, keys)
  BY SpilledIsSound
<1>4. CASE ~s.alive
  BY <1>1, <1>2, <1>4
<1>5. CASE s.alive
  <2> DEFINE map == With(s.chunks, key, truth[key])
             t == [s EXCEPT !.chunks = map]
             order == Touched(s.recent, map, key)
  <2>1. /\ s \in Caches /\ s.chunks \in Tier /\ Orders(s.recent, DOMAIN s.chunks)
        /\ key \notin DOMAIN s.chunks /\ s.bound = c.bound /\ DiskSound(s.disk, truth)
        /\ \A k \in DOMAIN s.chunks : s.chunks[k] = truth[k]
        /\ s.alive \in BOOLEAN
    BY <1>2, <1>5 DEF CacheSound, Caches
  <2>2. /\ map \in Tier /\ DOMAIN map = DOMAIN s.chunks \cup {key} /\ map[key] = truth[key]
        /\ \A k \in DOMAIN s.chunks \ {key} : map[k] = s.chunks[k]
    <3> DEFINE chunk == truth[key]
    <3>1. s.chunks \in Tier /\ chunk \in Chunk
      BY <2>1
    <3> HIDE DEF chunk
    <3>2. /\ With(s.chunks, key, chunk) \in Tier
          /\ DOMAIN With(s.chunks, key, chunk) = DOMAIN s.chunks \cup {key}
          /\ With(s.chunks, key, chunk)[key] = chunk
          /\ \A k \in DOMAIN s.chunks \ {key} : With(s.chunks, key, chunk)[k] = s.chunks[k]
      BY <3>1, MapWith
    <3> QED
      BY <3>2 DEF chunk
  <2>3. /\ Orders(order, DOMAIN map)
        /\ \A a \in DOMAIN s.chunks, b \in DOMAIN s.chunks :
             a # key /\ b # key /\ <<a, b>> \in s.recent => <<a, b>> \in order
        /\ \A a \in DOMAIN s.chunks \ {key} : <<a, key>> \in order
    <3>1. DOMAIN map \ {key} = DOMAIN s.chunks \ {key}
      BY <2>2
    <3>2. Orders(order, DOMAIN s.chunks \cup {key})
      BY <2>1, <3>1, OrderTouched
    <3>3. /\ \A a \in DOMAIN s.chunks, b \in DOMAIN s.chunks :
               a # key /\ b # key /\ <<a, b>> \in s.recent => <<a, b>> \in order
          /\ \A a \in DOMAIN s.chunks \ {key} : <<a, key>> \in order
      BY <2>1, <3>1, OrderTouched
    <3> QED
      BY <2>2, <3>2, <3>3
  <2> HIDE DEF map
  <2>4. order \in SUBSET (Keys \X Keys)
    BY <2>2, <2>3, TierSize DEF Orders
  <2>5. /\ t \in Caches /\ t.chunks = map /\ t.recent = s.recent
    BY <2>1, <2>2 DEF Caches
  <2>6. e = [t EXCEPT !.recent = Touched(t.recent, t.chunks, key)]
    BY <1>1, <1>5 DEF TouchResident, map
  <2>7. e = [t EXCEPT !.recent = order]
    BY <2>5, <2>6
  <2> HIDE DEF order
  <2>8. /\ e \in Caches /\ e.chunks = map /\ e.recent = order /\ e.disk = s.disk
        /\ e.bound = c.bound /\ e.alive = s.alive
    BY <2>1, <2>2, <2>4, <2>7 DEF Caches
  <2>9. Cardinality(DOMAIN map) <= Capacity
    BY <1>2, <1>5, <2>1, <2>2, TierSize, OneMore
  <2>10. \A k \in DOMAIN map : map[k] = truth[k]
    BY <2>1, <2>2
  <2>11. CacheSound(e, truth)
    BY <2>1, <2>3, <2>8, <2>9, <2>10 DEF CacheSound
  <2>12. ASSUME NEW keys, IsFiniteSet(keys), Cardinality(keys) < Capacity, Newest(c, keys)
         PROVE  Newest(e, keys \cup {key})
    <3>1. Newest(s, keys)
      BY <1>3, <1>5, <2>12
    <3> QED
      BY <2>1, <2>2, <2>3, <2>8, <3>1 DEF Newest
  <2> QED
    BY <1>5, <2>1, <2>2, <2>8, <2>11, <2>12
<1> QED
  BY <1>4, <1>5

(* Whatever it takes - a touch, a reload, a resolve - the chunk is         *)
(* resident afterwards and true, and newest of all (ensure_resident).      *)
LEMMA EnsureIsSound ==
  ASSUME scene \in Scenes, NEW c, CacheSound(c, Truth(scene, c.bound)), c.bound \in Frames,
         c.alive, NEW key \in Keys, NEW e \in EnsureResident(c, key)
  PROVE  /\ e.alive \in BOOLEAN /\ Sound(e, scene)
         /\ e.alive => /\ e.bound = c.bound /\ key \in DOMAIN e.chunks
                       /\ e.chunks[key] = Resolved(scene, key, c.bound)
         /\ e.alive => \A keys :
              IsFiniteSet(keys) /\ Cardinality(keys) < Capacity /\ Newest(c, keys) =>
                Newest(e, keys \cup {key})
<1> DEFINE truth == Truth(scene, c.bound)
<1>1. /\ c \in Caches /\ DiskSound(c.disk, truth) /\ truth \in [Keys -> Chunk]
      /\ c.alive \in BOOLEAN /\ c.bound # NoFrame
      /\ truth[key] = Resolved(scene, key, c.bound)
  BY TruthIsChunks, SentinelsAreNoValues DEF CacheSound, Caches, Truth
<1> HIDE DEF truth
<1>2. CacheSound(c, truth)
  BY DEF truth
<1>3. SUFFICES
        /\ e.alive \in BOOLEAN
        /\ ~e.alive => Sound(e, scene)
        /\ e.alive => /\ CacheSound(e, truth) /\ e.bound = c.bound /\ key \in DOMAIN e.chunks
        /\ e.alive => \A keys :
             IsFiniteSet(keys) /\ Cardinality(keys) < Capacity /\ Newest(c, keys) =>
               Newest(e, keys \cup {key})
  <2>1. e.alive => e.chunks[key] = truth[key]
    BY <1>3 DEF CacheSound
  <2>2. e.alive => Sound(e, scene)
    BY <1>1, <1>3 DEF Sound, truth
  <2> QED
    BY <1>1, <1>3, <2>1, <2>2
<1>4. CASE key \in DOMAIN c.chunks
  <2>1. e = TouchResident(c, key)
    BY <1>4 DEF EnsureResident
  <2>2. /\ CacheSound(e, truth) /\ e.bound = c.bound /\ e.alive = c.alive /\ e.chunks = c.chunks
        /\ \A keys : Newest(c, keys) => Newest(e, keys \cup {key})
    BY <1>2, <1>4, <2>1, TouchIsSound
  <2> QED
    BY <1>1, <1>4, <2>2
<1>5. CASE key \notin DOMAIN c.chunks
  <2>1. PICK o \in Get(c.disk, key) :
          e \in CASE ~o.ok -> {Fresh(o.disk.files)}
                  [] o.ok /\ o.chunk # Nothing ->
                       InsertResident([c EXCEPT !.disk = o.disk], key, o.chunk)
                  [] OTHER ->
                       InsertResident([c EXCEPT !.disk = o.disk], key,
                                      Resolved(scene, key, c.bound))
    BY <1>5 DEF EnsureResident
  <2>2. OutcomeSound(o, truth) /\ (o.ok => o.chunk \in {truth[key], Nothing})
    BY <1>1, <2>1, GetIsSound
  <2>3. CASE ~o.ok
    <3>1. e = Fresh(o.disk.files) /\ o.disk.files \in Files
      BY <2>1, <2>2, <2>3 DEF OutcomeSound
    <3> QED
      BY <3>1, FreshIsSound
  <2>4. CASE o.ok
    <3> DEFINE d == [c EXCEPT !.disk = o.disk]
    <3>1. e \in InsertResident(d, key, truth[key])
      <4>1. CASE o.chunk # Nothing
        BY <2>1, <2>2, <2>4, <4>1
      <4>2. CASE o.chunk = Nothing
        BY <1>1, <2>1, <2>4, <4>2
      <4> QED
        BY <4>1, <4>2
    <3>2. /\ d \in Caches /\ d.chunks = c.chunks /\ d.recent = c.recent /\ d.bound = c.bound
          /\ d.alive /\ d.disk = o.disk /\ DiskSound(o.disk, truth)
      BY <1>1, <2>2, <2>4 DEF Caches, OutcomeSound, DiskSound
    <3> HIDE DEF d
    <3>3. CacheSound(d, truth)
      BY <1>2, <3>2 DEF CacheSound
    <3>4. /\ e.alive \in BOOLEAN
          /\ ~e.alive => Sound(e, scene)
          /\ e.alive => /\ CacheSound(e, truth) /\ e.bound = d.bound /\ key \in DOMAIN e.chunks
      BY <1>1, <1>5, <3>1, <3>2, <3>3, InsertResidentIsSound
    <3>5. e.alive => \A keys :
            IsFiniteSet(keys) /\ Cardinality(keys) < Capacity /\ Newest(d, keys) =>
              Newest(e, keys \cup {key})
      BY <1>1, <1>5, <3>1, <3>2, <3>3, InsertResidentIsSound
    <3>6. \A keys : Newest(c, keys) => Newest(d, keys)
      BY <3>2 DEF Newest
    <3> QED
      BY <3>2, <3>4, <3>5, <3>6
  <2> QED
    BY <2>3, <2>4
<1> QED
  BY <1>4, <1>5

(***************************************************************************)
(* Every step.                                                             *)
(***************************************************************************)

(* Between two visits of a region read, the chunks already visited are the *)
(* newest of the resident ones, unless the region is over the cap.         *)
WalkIsNewest ==
  walk # NoWalk =>
    /\ bound # NoFrame /\ walk \subseteq scene.covering
    /\ Cardinality(scene.covering) <= Capacity => Newest(Cache, scene.covering \ walk)

(* A region read works in the frame its caller asked for, and has given    *)
(* nothing yet.                                                            *)
WalkIsAsked ==
  walk # NoWalk =>
    asked = [keys |-> scene.covering, frame |-> bound] /\ reply = NoReply

Asks == [keys : SUBSET Keys, frame : Frames]

StoreInv ==
  /\ scene \in Scenes /\ walk \in (SUBSET Keys) \cup {NoWalk}
  /\ Sound(Cache, scene) /\ WalkIsNewest
  /\ asked \in Asks \cup {NoAsk} /\ WalkIsAsked

(* A step that makes the cache e leaves what e held.                       *)
LEMMA BecomesIsSound ==
  ASSUME NEW e, Becomes(e), Sound(e, scene')
  PROVE  /\ Sound(Cache, scene)' /\ bound' = e.bound
         /\ \A keys : Newest(e, keys) => Newest(Cache', keys)
<1>1. /\ chunks' = e.chunks /\ recent' = e.recent /\ disk' = e.disk /\ bound' = e.bound
  BY DEF Becomes
<1> DEFINE c == Cache'
<1>2. /\ c.chunks = e.chunks /\ c.recent = e.recent /\ c.disk = e.disk /\ c.bound = e.bound
      /\ c.alive = TRUE
  BY <1>1 DEF Cache
<1>3. e \in Caches
  BY DEF Sound, CacheSound
<1>4. c \in Caches
  BY <1>1, <1>3 DEF Cache, Caches
<1> HIDE DEF c
<1>5. Sound(c, scene')
  BY <1>2, <1>4 DEF Sound, CacheSound, Bare
<1>6. \A keys : Newest(e, keys) => Newest(c, keys)
  BY <1>2 DEF Newest
<1> QED
  BY <1>1, <1>5, <1>6 DEF c

(* What the invariant says of the cache.                                   *)
LEMMA CacheFacts ==
  ASSUME StoreInv
  PROVE  /\ Cache \in Caches /\ Cache.alive /\ Cache.bound = bound /\ Cache.chunks = chunks
         /\ Cache.disk = disk /\ Sound(Cache, scene) /\ disk.files \in Files
         /\ bound \in Frames \cup {NoFrame}
         /\ CacheSound(Cache, Truth(scene, bound))
<1>1. /\ Cache.alive = TRUE /\ Cache.bound = bound /\ Cache.chunks = chunks
      /\ Cache.disk = disk
  BY DEF Cache
<1>2. Sound(Cache, scene) /\ Cache \in Caches /\ DiskSound(disk, Truth(scene, bound))
  BY <1>1 DEF StoreInv, Sound, CacheSound
<1>3. disk.files \in Files
  BY <1>2 DEF DiskSound, Disks
<1> QED
  BY <1>1, <1>2, <1>3 DEF Caches, Sound

(* A chunk read in the absolute frame.                                     *)
LEMMA ReadStep ==
  ASSUME StoreInv, NEW key \in Keys, NEW density \in Densities, ReadChunk(key, density)
  PROVE  StoreInv' /\ Promise!Next
<1> DEFINE frame == [density |-> density, origin |-> 0]
<1>1. frame \in Frames
  BY OriginAssumption DEF Frames
<1> HIDE DEF frame
<1>2. PICK c \in Rebound(Cache, frame) :
        \E e \in IF c.alive THEN EnsureResident(c, key) ELSE {c} :
          /\ Becomes(e)
          /\ asked' = IF e.alive THEN [keys |-> {key}, frame |-> frame] ELSE NoAsk
          /\ reply' = IF e.alive THEN [k \in {key} |-> e.chunks[k]] ELSE NoReply
  BY DEF ReadChunk, frame
<1>3. PICK e \in IF c.alive THEN EnsureResident(c, key) ELSE {c} :
          /\ Becomes(e)
          /\ asked' = IF e.alive THEN [keys |-> {key}, frame |-> frame] ELSE NoAsk
          /\ reply' = IF e.alive THEN [k \in {key} |-> e.chunks[k]] ELSE NoReply
  BY <1>2
<1>4. Idle /\ scene' = scene /\ walk' = walk /\ scene \in Scenes
  BY DEF ReadChunk, StoreInv
<1>5. Sound(c, scene) /\ (c.alive => c.bound = frame) /\ c.alive \in BOOLEAN
  BY <1>1, <1>2, <1>4, CacheFacts, ReboundIsSound
<1>6. c.alive => c.bound \in Frames /\ CacheSound(c, Truth(scene, c.bound))
  BY <1>1, <1>5 DEF Sound
<1>7. /\ Sound(e, scene)
      /\ e.alive => e.chunks[key] = Resolved(scene, key, frame)
  <2>1. CASE c.alive
    BY <1>3, <1>4, <1>5, <1>6, <2>1, EnsureIsSound
  <2>2. CASE ~c.alive
    BY <1>3, <1>5, <2>2
  <2> QED
    BY <2>1, <2>2
<1>8. Sound(Cache, scene)'
  BY <1>3, <1>4, <1>7, BecomesIsSound
<1>9. StoreInv'
  <2>1. [keys |-> {key}, frame |-> frame] \in Asks
    BY <1>1 DEF Asks
  <2>2. asked' \in Asks \cup {NoAsk}
    BY <1>3, <2>1
  <2> QED
    BY <1>4, <1>8, <2>2 DEF StoreInv, WalkIsNewest, WalkIsAsked, Idle
<1>10. Promise!Next
  <2>1. CASE e.alive
    <3>1. reply' = [k \in {key} |-> Resolved(scene, k, frame)]
      BY <1>3, <1>7, <2>1
    <3>2. asked' = [keys |-> {key}, frame |-> frame] /\ asked' \in Promise!Calls
      <4>1. asked' = [keys |-> {key}, frame |-> frame]
        BY <1>3, <2>1
      <4>2. asked' = Promise!OneChunk(key, density)
        BY <4>1 DEF Promise!OneChunk, frame
      <4> QED
        BY <4>1, <4>2 DEF Promise!Calls
    <3>3. asked'.keys = {key} /\ asked'.frame = frame
      BY <3>2
    <3>4. Promise!Given(asked', {key})
      BY <1>4, <3>1, <3>3 DEF Promise!Given
    <3> QED
      BY <1>4, <3>2, <3>4 DEF Promise!Next, Promise!Read
  <2>2. CASE ~e.alive
    BY <1>3, <1>4, <2>2 DEF Promise!Next, Promise!Forget
  <2> QED
    BY <2>1, <2>2
<1> QED
  BY <1>9, <1>10

(* A region read: the frame first, ...                                     *)
LEMMA BindStep ==
  ASSUME StoreInv, NEW density \in Densities, BindRegion(density)
  PROVE  StoreInv' /\ Promise!Next
<1> DEFINE frame == [density |-> density, origin |-> scene.recenter]
<1>1. scene \in Scenes /\ scene.covering \subseteq Keys /\ frame \in Frames
  BY RegionsAssumption DEF StoreInv, Scenes, Frames
<1> HIDE DEF frame
<1>2. PICK c \in Rebound(Cache, frame) :
        /\ Becomes(c) /\ walk' = IF c.alive THEN scene.covering ELSE NoWalk
        /\ asked' = IF c.alive THEN [keys |-> scene.covering, frame |-> frame] ELSE NoAsk
  BY DEF BindRegion, frame
<1>3. scene' = scene /\ reply' = NoReply
  BY DEF BindRegion
<1>4. Sound(c, scene) /\ (c.alive => c.bound = frame) /\ c.alive \in BOOLEAN
  BY <1>1, <1>2, CacheFacts, ReboundIsSound
<1>5. /\ Sound(Cache, scene)' /\ bound' = c.bound
      /\ \A keys : Newest(c, keys) => Newest(Cache', keys)
  BY <1>2, <1>3, <1>4, BecomesIsSound
<1>6. WalkIsNewest'
  <2>1. CASE c.alive
    <3>1. Newest(c, {})
      BY DEF Newest
    <3>2. walk' = scene.covering /\ bound' # NoFrame
      BY <1>1, <1>2, <1>4, <1>5, <2>1, SentinelsAreNoValues
    <3>3. scene'.covering \ walk' = {}
      BY <1>3, <3>2
    <3> QED
      BY <1>3, <1>5, <3>1, <3>2, <3>3 DEF WalkIsNewest
  <2>2. CASE ~c.alive
    BY <1>2, <2>2 DEF WalkIsNewest
  <2> QED
    BY <2>1, <2>2
<1>7. StoreInv'
  <2>1. scene' \in Scenes /\ walk' \in (SUBSET Keys) \cup {NoWalk}
    BY <1>1, <1>2, <1>3
  <2>2. [keys |-> scene.covering, frame |-> frame] \in Asks
    BY <1>1 DEF Asks
  <2>3. asked' \in Asks \cup {NoAsk}
    BY <1>2, <2>2
  <2>4. WalkIsAsked'
    BY <1>2, <1>3, <1>4, <1>5 DEF WalkIsAsked
  <2> QED
    BY <1>5, <1>6, <2>1, <2>3, <2>4 DEF StoreInv
<1>8. CASE c.alive
  <2>1. asked' = [keys |-> scene.covering, frame |-> frame]
    BY <1>2, <1>8
  <2>2. asked' \in Promise!Calls
    BY <2>1 DEF Promise!Calls, Promise!WholeRegion, frame
  <2> QED
    BY <1>3, <1>7, <2>2 DEF Promise!Next, Promise!Ask
<1>9. CASE ~c.alive
  BY <1>2, <1>3, <1>7, <1>9 DEF Promise!Next, Promise!Forget
<1> QED
  BY <1>8, <1>9

(* ... then each chunk of it, ...                                          *)
LEMMA VisitStep ==
  ASSUME StoreInv, VisitChunk
  PROVE  StoreInv' /\ [Promise!Next]_<<scene, asked, reply>>
<1>1. PICK key \in walk : \E e \in EnsureResident(Cache, key) :
        /\ Becomes(e) /\ walk' = IF e.alive THEN walk \ {key} ELSE NoWalk
        /\ asked' = IF e.alive THEN asked ELSE NoAsk
  BY DEF VisitChunk
<1>2. PICK e \in EnsureResident(Cache, key) :
        /\ Becomes(e) /\ walk' = IF e.alive THEN walk \ {key} ELSE NoWalk
        /\ asked' = IF e.alive THEN asked ELSE NoAsk
  BY <1>1
<1>3. /\ UNCHANGED <<scene, reply>> /\ scene \in Scenes /\ walk # NoWalk
      /\ walk \in SUBSET Keys /\ key \in Keys
  <2>1. UNCHANGED <<scene, reply>> /\ walk # NoWalk
    BY DEF VisitChunk, Idle
  <2>2. scene \in Scenes /\ walk \in (SUBSET Keys) \cup {NoWalk}
    BY DEF StoreInv
  <2> QED
    BY <1>1, <2>1, <2>2
<1>4. /\ bound # NoFrame /\ walk \subseteq scene.covering
      /\ Cardinality(scene.covering) <= Capacity => Newest(Cache, scene.covering \ walk)
  BY <1>3 DEF StoreInv, WalkIsNewest
<1>5. /\ Cache.alive /\ Cache.bound = bound /\ bound \in Frames
      /\ CacheSound(Cache, Truth(scene, bound))
  BY <1>4, CacheFacts
<1>6. /\ e.alive \in BOOLEAN /\ Sound(e, scene)
      /\ e.alive => e.bound = bound
  BY <1>2, <1>3, <1>5, EnsureIsSound
<1>7. e.alive => \A keys :
        IsFiniteSet(keys) /\ Cardinality(keys) < Capacity /\ Newest(Cache, keys) =>
          Newest(e, keys \cup {key})
  BY <1>2, <1>3, <1>5, EnsureIsSound
<1>8. /\ Sound(Cache, scene)' /\ bound' = e.bound
      /\ \A keys : Newest(e, keys) => Newest(Cache', keys)
  BY <1>2, <1>3, <1>6, BecomesIsSound
<1>9. WalkIsNewest'
  <2>1. CASE ~e.alive
    BY <1>2, <2>1 DEF WalkIsNewest
  <2>2. CASE e.alive
    <3> DEFINE visited == scene.covering \ walk
    <3>1. walk' = walk \ {key} /\ scene'.covering \ walk' = visited \cup {key}
      BY <1>1, <1>2, <1>3, <1>4, <2>2
    <3>2. IsFiniteSet(scene.covering)
      BY <1>3, RegionsAssumption, KeysAreFinite, FS_Subset DEF Scenes
    <3>3. /\ Cardinality(scene.covering) \in Nat
          /\ IsFiniteSet(visited) /\ Cardinality(visited) \in Nat
          /\ Cardinality(visited) <= Cardinality(scene.covering \ {key})
          /\ Cardinality(scene.covering \ {key}) = Cardinality(scene.covering) - 1
      <4>1. visited \subseteq scene.covering \ {key} /\ key \in scene.covering
        BY <1>1, <1>4
      <4>2. IsFiniteSet(scene.covering \ {key}) /\ IsFiniteSet(visited)
        BY <3>2, FS_Subset
      <4>3. /\ Cardinality(scene.covering \ {key}) = Cardinality(scene.covering) - 1
            /\ Cardinality(scene.covering) \in Nat /\ Cardinality(visited) \in Nat
        BY <3>2, <4>1, <4>2, OneLess, FS_CardinalityType
      <4>4. Cardinality(visited) <= Cardinality(scene.covering \ {key})
        BY <4>1, <4>2, FS_Subset
      <4> QED
        BY <4>2, <4>3, <4>4
    <3>4. Cardinality(scene.covering) <= Capacity => Cardinality(visited) < Capacity
      BY <3>3, CapacityAssumption
    <3> HIDE DEF visited
    <3>5. Cardinality(scene.covering) <= Capacity => Newest(Cache, visited)
      BY <1>4 DEF visited
    <3>6. Cardinality(scene.covering) <= Capacity => Newest(Cache', visited \cup {key})
      BY <1>7, <1>8, <2>2, <3>3, <3>4, <3>5
    <3>7. bound' # NoFrame /\ walk' \subseteq scene'.covering
      BY <1>3, <1>4, <1>6, <1>8, <2>2, <3>1
    <3>8. Cardinality(scene'.covering) <= Capacity => Newest(Cache', scene'.covering \ walk')
      BY <1>3, <3>1, <3>6 DEF visited
    <3> QED
      BY <3>7, <3>8 DEF WalkIsNewest
  <2> QED
    BY <2>1, <2>2
<1>10. walk' \in (SUBSET Keys) \cup {NoWalk}
  <2>1. walk' = walk \ {key} \/ walk' = NoWalk
    BY <1>2
  <2> QED
    BY <1>3, <2>1
<1>11. /\ asked \in Asks \cup {NoAsk} /\ reply = NoReply
       /\ asked = [keys |-> scene.covering, frame |-> bound]
  BY <1>3 DEF StoreInv, WalkIsAsked
<1>12. asked' \in Asks \cup {NoAsk} /\ WalkIsAsked'
  BY <1>2, <1>3, <1>6, <1>8, <1>11 DEF WalkIsAsked
<1>13. StoreInv'
  BY <1>3, <1>8, <1>9, <1>10, <1>12 DEF StoreInv
<1>14. CASE e.alive
  BY <1>2, <1>3, <1>13, <1>14
<1>15. CASE ~e.alive
  BY <1>2, <1>3, <1>11, <1>13, <1>15 DEF Promise!Next, Promise!Forget
<1> QED
  BY <1>14, <1>15

(* ... and at last what is resident of it.                                 *)
LEMMA GatherStep ==
  ASSUME StoreInv, GatherRegion
  PROVE  StoreInv' /\ Promise!Next
<1>1. /\ walk = {} /\ reply' = [k \in scene.covering \cap DOMAIN chunks |-> chunks[k]]
      /\ walk' = NoWalk /\ UNCHANGED <<scene, chunks, recent, disk, bound, asked>>
  BY DEF GatherRegion
<1>2. /\ bound \in Frames /\ scene.covering \in SUBSET Keys
      /\ asked = [keys |-> scene.covering, frame |-> bound] /\ reply = NoReply
      /\ Cardinality(scene.covering) <= Capacity => scene.covering \subseteq DOMAIN chunks
  <2>1. walk # NoWalk
    BY <1>1, SentinelsAreNoValues
  <2>2. bound \in Frames /\ scene.covering \in SUBSET Keys
    BY <2>1, CacheFacts, RegionsAssumption DEF StoreInv, WalkIsNewest, Scenes
  <2>3. asked = [keys |-> scene.covering, frame |-> bound] /\ reply = NoReply
    BY <2>1 DEF StoreInv, WalkIsAsked
  <2>4. Cardinality(scene.covering) <= Capacity => Newest(Cache, scene.covering)
    BY <1>1, <2>1 DEF StoreInv, WalkIsNewest
  <2>5. \A keys : Newest(Cache, keys) => keys \subseteq DOMAIN chunks
    BY CacheFacts DEF Newest
  <2> QED
    BY <2>2, <2>3, <2>4, <2>5
<1>3. DOMAIN chunks \subseteq Keys /\ \A k \in DOMAIN chunks : chunks[k] = Resolved(scene, k, bound)
  <2>1. chunks \in Tier /\ \A k \in DOMAIN chunks : chunks[k] = Truth(scene, bound)[k]
    BY CacheFacts DEF CacheSound, Caches
  <2>2. DOMAIN chunks \subseteq Keys
    BY <2>1, TierSize
  <2> QED
    BY <2>1, <2>2 DEF Truth
<1> DEFINE keys == scene.covering \cap DOMAIN chunks
<1>4. keys \in SUBSET Keys /\ reply' = [k \in keys |-> Resolved(scene, k, bound)]
  BY <1>1, <1>3
<1>5. StoreInv'
  <2>1. Cache' = Cache /\ scene' = scene /\ walk' = NoWalk
    BY <1>1 DEF Cache
  <2>2. scene \in Scenes /\ Sound(Cache, scene)
    BY DEF StoreInv
  <2>3. WalkIsNewest' /\ walk' \in (SUBSET Keys) \cup {NoWalk}
    BY <2>1 DEF WalkIsNewest
  <2>4. asked' \in Asks \cup {NoAsk} /\ WalkIsAsked'
    BY <1>1, <2>1 DEF StoreInv, WalkIsAsked
  <2> QED
    BY <2>1, <2>2, <2>3, <2>4 DEF StoreInv
<1>6. Promise!Answer
  <2>1. asked # NoAsk /\ asked.keys = scene.covering /\ asked.frame = bound
    BY <1>2, SentinelsAreNoValues
  <2>2. Cardinality(scene.covering) <= Capacity => keys = scene.covering
    BY <1>2
  <2>3. keys \subseteq asked.keys
    BY <2>1
  <2>4. Promise!Given(asked, keys)
    BY <1>4, <2>1, <2>2, <2>3 DEF Promise!Given, Fits
  <2> QED
    BY <1>1, <1>2, <1>4, <2>1, <2>4 DEF Promise!Answer
<1> QED
  BY <1>5, <1>6 DEF Promise!Next

(* An edit, with the invalidation its caller makes.                        *)
LEMMA EditStep ==
  ASSUME StoreInv,
         \/ \E touched \in Regions, density \in Densities : EditRegion(touched, density)
         \/ \E key \in Keys : EditChunk(key)
         \/ EditAll
  PROVE  StoreInv' /\ Promise!Next
<1>1. /\ scene \in Scenes /\ Sound(Cache, scene) /\ Cache.alive
      /\ \E truth : CacheSound(Cache, truth)
  BY CacheFacts DEF StoreInv
<1>2. SUFFICES ASSUME scene' \in Scenes, NEW c, Becomes(c), Sound(c, scene'),
                      Idle, asked' = NoAsk, reply' = NoReply, walk' = walk
               PROVE  StoreInv' /\ Promise!Next
  <2>1. ASSUME NEW touched, NEW density, EditRegion(touched, density)
        PROVE  /\ scene' \in Scenes /\ Idle /\ asked' = NoAsk /\ reply' = NoReply /\ walk' = walk
               /\ \E c : Becomes(c) /\ Sound(c, scene')
    <3>1. \A k \in Keys \ touched : scene'.contents[k] = scene.contents[k]
      BY <2>1 DEF EditRegion
    <3>2. PICK c \in InvalidatedAabb(Cache, touched, density) : Becomes(c)
      BY <2>1 DEF EditRegion
    <3>3. Sound(c, scene')
      BY <1>1, <3>1, <3>2, InvalidatedIsSound
    <3> QED
      BY <2>1, <3>2, <3>3 DEF EditRegion
  <2>2. ASSUME NEW key \in Keys, EditChunk(key)
        PROVE  /\ scene' \in Scenes /\ Idle /\ asked' = NoAsk /\ reply' = NoReply /\ walk' = walk
               /\ \E c : Becomes(c) /\ Sound(c, scene')
    <3>1. PICK content \in Contents : scene' = [scene EXCEPT !.contents[key] = content]
      BY <2>2 DEF EditChunk
    <3>2. /\ scene' \in Scenes
          /\ \A k \in Keys \ {key} : scene'.contents[k] = scene.contents[k]
      BY <1>1, <2>2, <3>1 DEF Scenes
    <3>3. PICK c \in Evicted(Cache, {key}) : Becomes(c)
      BY <2>2 DEF EditChunk
    <3>4. Sound(c, scene')
      BY <1>1, <3>2, <3>3, InvalidatedIsSound
    <3> QED
      BY <2>2, <3>2, <3>3, <3>4 DEF EditChunk
  <2>3. ASSUME EditAll
        PROVE  /\ scene' \in Scenes /\ Idle /\ asked' = NoAsk /\ reply' = NoReply /\ walk' = walk
               /\ \E c : Becomes(c) /\ Sound(c, scene')
    <3>1. PICK c \in Cleared(Cache) : Becomes(c)
      BY <2>3 DEF EditAll
    <3>2. Sound(c, scene')
      BY <1>1, <3>1, ClearedIsSound
    <3> QED
      BY <2>3, <3>1, <3>2 DEF EditAll
  <2> QED
    BY <1>2, <2>1, <2>2, <2>3
<1>3. Sound(Cache, scene)'
  BY <1>2, BecomesIsSound
<1>4. StoreInv'
  BY <1>2, <1>3 DEF StoreInv, WalkIsNewest, WalkIsAsked, Idle
<1> QED
  BY <1>2, <1>4 DEF Promise!Next, Promise!Edit

(* The process ends and another one opens the store.                       *)
LEMMA CrashStep ==
  ASSUME StoreInv, Crash
  PROVE  StoreInv' /\ Promise!Next
<1>1. /\ Becomes(Fresh(disk.files)) /\ walk' = NoWalk /\ asked' = NoAsk
      /\ reply' = NoReply /\ scene' = scene
  BY DEF Crash
<1>2. Sound(Fresh(disk.files), scene')
  BY CacheFacts, FreshIsSound
<1>3. Sound(Cache, scene)'
  BY <1>1, <1>2, BecomesIsSound
<1>4. StoreInv'
  <2>1. scene' \in Scenes
    BY <1>1 DEF StoreInv
  <2>2. WalkIsNewest' /\ WalkIsAsked' /\ walk' \in (SUBSET Keys) \cup {NoWalk}
    BY <1>1 DEF WalkIsNewest, WalkIsAsked
  <2> QED
    BY <1>1, <1>3, <2>1, <2>2 DEF StoreInv
<1> QED
  BY <1>1, <1>4 DEF Promise!Next, Promise!Forget

(* The store opens empty, over a directory without a file of its own.      *)
LEMMA InitIsSound ==
  ASSUME Init PROVE StoreInv
<1> DEFINE files == [k \in Keys |-> Nothing]
<1>1. files \in Files
  BY DEF Files
<1> HIDE DEF files
<1>2. /\ scene \in Scenes /\ chunks = << >> /\ recent = {} /\ disk = OpenedOver(files)
      /\ bound = NoFrame /\ walk = NoWalk /\ asked = NoAsk
  BY DEF Init, files
<1>3. Sound(Fresh(files), scene)
  BY <1>1, FreshIsSound
<1> DEFINE f == Fresh(files)
<1>4. /\ Cache.chunks = f.chunks /\ Cache.recent = f.recent /\ Cache.disk = f.disk
      /\ Cache.bound = f.bound /\ Cache.alive = TRUE /\ Cache \in Caches
  <2>1. /\ f.chunks = << >> /\ f.recent = {} /\ f.disk = OpenedOver(files) /\ f.bound = NoFrame
    BY DEF Fresh
  <2>2. f.disk \in Disks
    BY <1>3 DEF Sound, CacheSound, DiskSound
  <2> HIDE DEF f
  <2> QED
    BY <1>2, <2>1, <2>2, EmptyTier DEF Cache, Caches
<1> HIDE DEF f
<1>5. Sound(Cache, scene)
  BY <1>3, <1>4 DEF Sound, CacheSound, Bare, f
<1>6. WalkIsNewest /\ WalkIsAsked /\ walk \in (SUBSET Keys) \cup {NoWalk}
  BY <1>2 DEF WalkIsNewest, WalkIsAsked
<1> QED
  BY <1>2, <1>5, <1>6 DEF StoreInv

(* Every step keeps the invariant and is a step of Resolver, or none.      *)
LEMMA StepIsSound ==
  ASSUME StoreInv, [Next]_vars
  PROVE  StoreInv' /\ [Promise!Next]_<<scene, asked, reply>>
<1>1. CASE UNCHANGED vars
  <2>1. Cache' = Cache /\ UNCHANGED <<scene, asked, reply, walk, bound>>
    BY <1>1 DEF vars, Cache
  <2> QED
    BY <2>1 DEF StoreInv, WalkIsNewest, WalkIsAsked
<1>2. CASE \E key \in Keys, density \in Densities : ReadChunk(key, density)
  BY <1>2, ReadStep
<1>3. CASE \E density \in Densities : BindRegion(density)
  BY <1>3, BindStep
<1>4. CASE VisitChunk
  BY <1>4, VisitStep
<1>5. CASE GatherRegion
  BY <1>5, GatherStep
<1>6. CASE \/ \E touched \in Regions, density \in Densities : EditRegion(touched, density)
           \/ \E key \in Keys : EditChunk(key)
           \/ EditAll
  BY <1>6, EditStep
<1>7. CASE Crash
  BY <1>7, CrashStep
<1> QED
  BY <1>1, <1>2, <1>3, <1>4, <1>5, <1>6, <1>7 DEF Next

(* The invariant of every reachable store.                                 *)
LEMMA StoreInvHolds == Spec => []StoreInv
<1>1. Init => StoreInv
  BY InitIsSound
<1>2. StoreInv /\ [Next]_vars => StoreInv'
  BY StepIsSound
<1> QED
  BY <1>1, <1>2, PTL DEF Spec

(* The two tiers are maps of chunks, each with a strict order of use of    *)
(* all it holds, over well-formed files.                                   *)
THEOREM TypesAreKept == Spec => []TypeOK
<1>1. StoreInv => TypeOK
  <2> SUFFICES ASSUME StoreInv PROVE TypeOK
    OBVIOUS
  <2>1. /\ CacheSound(Cache, Truth(scene, bound)) /\ bound \in Frames \cup {NoFrame}
        /\ Cache.chunks = chunks /\ Cache.disk = disk /\ Cache \in Caches
    BY CacheFacts
  <2>2. Cache.recent = recent
    BY DEF Cache
  <2>3. chunks \in Tier /\ Orders(recent, DOMAIN chunks) /\ DiskSound(disk, Truth(scene, bound))
    BY <2>1, <2>2 DEF CacheSound, Caches
  <2>4. /\ disk.resident \in Tier /\ Orders(disk.recent, DOMAIN disk.resident)
        /\ disk.on_disk \subseteq Keys /\ disk.files \in [Keys -> Chunk \cup {Nothing, Garbled}]
    BY <2>3 DEF DiskSound, Disks, Files
  <2>5. /\ scene \in Scenes /\ walk \in (SUBSET Keys) \cup {NoWalk}
        /\ asked \in Asks \cup {NoAsk}
    BY DEF StoreInv
  <2> QED
    BY <2>1, <2>3, <2>4, <2>5 DEF TypeOK, Asks
<1> QED
  BY <1>1, StoreInvHolds, PTL

(* No tier holds a chunk of an earlier scene or of another frame, whatever *)
(* was edited, rebound, spilled, half written or left behind.              *)
THEOREM NothingIsStale == Spec => []NoStaleChunk
<1>1. StoreInv => NoStaleChunk
  <2> SUFFICES ASSUME StoreInv PROVE NoStaleChunk
    OBVIOUS
  <2>1. /\ chunks \in Tier /\ \A k \in DOMAIN chunks : chunks[k] = Truth(scene, bound)[k]
        /\ DiskSound(disk, Truth(scene, bound))
    BY CacheFacts DEF CacheSound, Caches
  <2>2. /\ disk \in Disks /\ \A k \in Held(disk) : ChunkOf(disk, k) = Truth(scene, bound)[k]
    BY <2>1 DEF DiskSound
  <2>3. DOMAIN chunks \subseteq Keys /\ Held(disk) \subseteq Keys
    BY <2>1, <2>2, TierSize DEF Held, Disks
  <2> QED
    BY <2>1, <2>2, <2>3 DEF NoStaleChunk, Truth
<1> QED
  BY <1>1, StoreInvHolds, PTL

(* No key is both resident in the spill store and listed as a file, and    *)
(* neither resident set exceeds the cap.                                   *)
THEOREM TiersAreBounded == Spec => []TiersStayBounded
<1>1. StoreInv => TiersStayBounded
  BY CacheFacts DEF CacheSound, DiskSound, TiersStayBounded
<1> QED
  BY <1>1, StoreInvHolds, PTL

(* A region that fits under the cap is resident as a whole when it is      *)
(* gathered.                                                               *)
THEOREM SmallRegionsAreWhole == Spec => []SmallRegionIsWhole
<1>1. StoreInv => SmallRegionIsWhole
  <2> SUFFICES ASSUME StoreInv, walk = {}, Cardinality(scene.covering) <= Capacity
               PROVE  scene.covering \subseteq DOMAIN chunks
    BY DEF SmallRegionIsWhole, Fits
  <2>1. walk # NoWalk
    BY SentinelsAreNoValues
  <2>2. Newest(Cache, scene.covering \ walk)
    BY <2>1 DEF StoreInv, WalkIsNewest
  <2> QED
    BY <2>2, CacheFacts DEF Newest
<1> QED
  BY <1>1, StoreInvHolds, PTL

(* The store implements Resolver: a reader is handed what the scene        *)
(* resolves to now, in the frame it asked for and whole where it fits, as  *)
(* if nothing were kept, rebound, spilled or read back.                    *)
THEOREM StoreServesTheScene == Spec => ServesTheScene
<1>1. Init => Promise!Init
  BY DEF Init, Promise!Init
<1>2. StoreInv /\ [Next]_vars => [Promise!Next]_<<scene, asked, reply>>
  BY StepIsSound
<1> QED
  BY <1>1, <1>2, StoreInvHolds, PTL DEF Spec, ServesTheScene, Promise!Spec
=============================================================================
