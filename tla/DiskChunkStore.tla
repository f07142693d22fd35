--------------------------- MODULE DiskChunkStore ---------------------------
(***************************************************************************)
(* The spill store of crates/evaluation/src/disk_chunk_store.rs: at most   *)
(* Capacity chunks in memory, the rest in one file each.                   *)
(*                                                                         *)
(* A store is a record; an operation is the set of outcomes a call can     *)
(* have, one where every file operation works and one for each that fails, *)
(* with what the failed call leaves behind.  The two HashMaps keyed alike  *)
(* (chunk and last_used tick) are the function resident and the set recent *)
(* of the pairs <<a, b>> of its keys with a used before b: of the ticks    *)
(* only their order is read.  The evictions and disk_reloads counters are  *)
(* left out.                                                               *)
(***************************************************************************)
EXTENDS Integers, Sequences, FiniteSets

CONSTANTS
  Keys,       \* ChunkCacheKey
  Capacity,   \* most chunks resident at once
  DiskFails,  \* whether a file operation can fail
  Nothing,    \* no file, no chunk: None
  Garbled     \* a file a failed write left behind

ASSUME CapacityAssumption == Capacity \in Nat \ {0}
ASSUME DiskFailsAssumption == DiskFails \in BOOLEAN
ASSUME KeysAreFinite == IsFiniteSet(Keys)

(* new: the directory may hold the files of an earlier process; none of    *)
(* them is listed in on_disk.                                              *)
OpenedOver(files) ==
  [resident |-> << >>, recent |-> {}, on_disk |-> {}, files |-> files]

Held(disk) == DOMAIN disk.resident \cup disk.on_disk

Without(map, gone) == [k \in DOMAIN map \ gone |-> map[k]]
With(map, key, chunk) ==
  [k \in DOMAIN map \cup {key} |-> IF k = key THEN chunk ELSE map[k]]
Dropped(recent, gone) == {used \in recent : used[1] \notin gone /\ used[2] \notin gone}
Touched(recent, map, key) == Dropped(recent, {key}) \cup ((DOMAIN map \ {key}) \X {key})
LeastRecent(recent, map) == {k \in DOMAIN map : \A other \in DOMAIN map : <<other, k>> \notin recent}

Outcome(disk, ok, chunk) == [disk |-> disk, ok |-> ok, chunk |-> chunk]
Done(disk) == {Outcome(disk, TRUE, Nothing)}
Failed(disk) == IF DiskFails THEN {Outcome(disk, FALSE, Nothing)} ELSE {}

(* remove_file_if_present: a file that is not there is no error.           *)
RemoveFile(disk, key) ==
  Done([disk EXCEPT !.files[key] = Nothing]) \cup Failed(disk)

(* write_chunk_file truncates before it writes.                            *)
WriteFile(disk, key, chunk) ==
  Done([disk EXCEPT !.files[key] = chunk]) \cup Failed(disk)
    \cup Failed([disk EXCEPT !.files[key] = Garbled])

Delisted(disk, key) == [disk EXCEPT !.on_disk = @ \ {key}]

(* The victim leaves memory before its file is written and is listed after. *)
EvictLeastRecentlyUsed(disk) ==
  IF disk.resident = << >> THEN Done(disk)
  ELSE UNION {
         LET evicted == [disk EXCEPT !.resident = Without(@, {victim}),
                                     !.recent = Dropped(@, {victim})]
         IN  { IF o.ok THEN [o EXCEPT !.disk.on_disk = @ \cup {victim}] ELSE o :
                 o \in WriteFile(evicted, victim, disk.resident[victim]) } :
         victim \in LeastRecent(disk.recent, disk.resident) }

MadeRoom(disk) ==
  IF Cardinality(DOMAIN disk.resident) >= Capacity
  THEN EvictLeastRecentlyUsed(disk) ELSE Done(disk)

Inserted(disk, key, chunk) ==
  [disk EXCEPT !.resident = With(@, key, chunk), !.recent = Touched(@, disk.resident, key)]

ForgottenNever(disk, key) == Done(disk)
Forgotten(disk, key) ==
  IF key \in disk.on_disk THEN RemoveFile(Delisted(disk, key), key) ELSE Done(disk)

Put(disk, key, chunk) ==
  UNION { IF ~f.ok THEN {f}
          ELSE { IF r.ok THEN Outcome(Inserted(r.disk, key, chunk), TRUE, chunk)
                 ELSE r :
                   r \in IF key \in DOMAIN f.disk.resident THEN Done(f.disk)
                         ELSE MadeRoom(f.disk) } :
          f \in Forgotten(disk, key) }

(* The file is deleted after the room is made: a reload that fails half    *)
(* way forgets the chunk or leaves it where it was.                        *)
Reload(disk, key) ==
  UNION { IF ~r.ok THEN {r}
          ELSE { IF f.ok
                 THEN Outcome(Inserted(f.disk, key, disk.files[key]), TRUE, disk.files[key])
                 ELSE f : f \in RemoveFile(Delisted(r.disk, key), key) } :
          r \in MadeRoom(disk) }

Get(disk, key) ==
  CASE key \in DOMAIN disk.resident ->
         {Outcome([disk EXCEPT !.recent = Touched(@, disk.resident, key)], TRUE,
                  disk.resident[key])}
    [] key \in disk.on_disk \ DOMAIN disk.resident ->
         Reload(disk, key) \cup Failed(disk)
    [] OTHER -> Done(disk)

(* remove, key after key, and clear, which has emptied on_disk before it   *)
(* deletes: both stop at the first file that does not go.  The caller ends *)
(* with a failed call, so of that one only the files are kept exactly.     *)
FilesGone(files, gone) == [k \in DOMAIN files |-> IF k \in gone THEN Nothing ELSE files[k]]

RemoveResident(disk, gone) ==
  Done([disk EXCEPT !.resident = Without(@, gone), !.recent = Dropped(@, gone)])
RemoveAll(disk, gone) ==
  LET listed == disk.on_disk \cap gone
      left == [disk EXCEPT !.resident = Without(@, gone), !.recent = Dropped(@, gone),
                           !.on_disk = @ \ gone]
  IN  Done([left EXCEPT !.files = FilesGone(@, listed)])
        \cup UNION { Failed([left EXCEPT !.files = FilesGone(@, part)]) :
                       part \in (SUBSET listed) \ {listed} }

Clear(disk) == RemoveAll(disk, Held(disk))

(* The chunk a call for the key would get if nothing failed.               *)
ChunkOf(disk, key) ==
  IF key \in DOMAIN disk.resident THEN disk.resident[key] ELSE disk.files[key]
=============================================================================
