----------------------------- MODULE ShellJobs -----------------------------
(***************************************************************************)
(* The jobs a window keeps in the background beside the display: the .vox  *)
(* export and the close it may hold up (src/windowed/export.rs, events.rs, *)
(* workers.rs, the write of crates/interchange/src/vox_export/mod.rs), the *)
(* widest-run readout (the diameter worker) and the scan of a block folder *)
(* (crates/work/src/workers/scan.rs).                                      *)
(*                                                                         *)
(* A redraw is one step of the event-loop thread, from the export poll to  *)
(* what the user does in the panel; a close request is another.  The three *)
(* threads run beside it, the export's one file operation at a time, since *)
(* the process may end between any two.                                    *)
(***************************************************************************)
EXTENDS Integers, Sequences, FiniteSets

CONSTANTS
  Groups,                 \* blocks a folder holds
  THUMBNAILS_PER_FRAME,
  MayPanic,               \* whether the contained export can panic
  MaxMoves, MaxExports, MaxFolders,  \* bounds: edits and scrubs, exports, folders
  Unmeasured,             \* the impossible band (u32::MAX, u32::MAX)
  None

ASSUME JobsAssumption ==
  /\ Groups \in Nat /\ THUMBNAILS_PER_FRAME \in Nat \ {0}
  /\ MayPanic \in BOOLEAN
  /\ {MaxMoves, MaxExports, MaxFolders} \subseteq Nat

(* What the worker answers of an export: its serial and whether the chosen *)
(* file holds it.  None stands for an empty place.                         *)
Serials == 1 .. MaxExports
Answers == [serial : Serials, ok : BOOLEAN]
ASSUME NoneIsNoValue == None \notin Serials /\ None \notin Answers

VARIABLES
  exit,     \* "no", or how the process ended
  shown,    \* the surface can be presented (not minimized, not occluded)
  gauge,    \* the readout: scene, band and the diameter worker's three places
  export,   \* the export: the shell's flags and the worker's state
  disk,     \* the chosen file and the temporary sibling of each export
  scan      \* the folder scan: handle, channel, pending groups, palette

vars == <<exit, shown, gauge, export, disk, scan>>
Running == exit = "no"

(* What the chosen file holds: all or a part of the nth export, or (0) what *)
(* was there before.                                                       *)
Whole(n) == [of |-> n, whole |-> TRUE]
Torn(n) == [of |-> n, whole |-> FALSE]

Init ==
  /\ exit = "no"
  /\ shown \in BOOLEAN
  /\ gauge = [scene |-> 0, built |-> TRUE, band |-> 0, measured_band |-> Unmeasured,
              measured |-> None, generation |-> 0,
              asked |-> None, building |-> None, answer |-> None]
  /\ export = [outstanding |-> FALSE, deferred |-> FALSE, exports |-> 0, settled |-> {},
               asked |-> None, writing |-> None, step |-> "idle", answer |-> None]
  /\ disk = [file |-> Whole(0), temps |-> [n \in 1 .. MaxExports |-> "none"]]
  /\ scan = [folder |-> 0, handle |-> TRUE, sent |-> 0, channel |-> << >>,
             pending |-> << >>, tiles |-> {}, total |-> None, settled |-> None]

-----------------------------------------------------------------------------
(* The export worker.  Its request channel is drained to the newest.       *)

ExportTake ==
  /\ export.step = "idle" /\ export.asked # None
  /\ export' = [export EXCEPT !.asked = None, !.writing = export.asked, !.step = "build"]
  /\ UNCHANGED disk

Answered(ok) ==
  [export EXCEPT !.step = "idle", !.writing = None,
                 !.answer = [serial |-> export.writing, ok |-> ok]]

ExportPanic ==
  /\ MayPanic /\ export.step # "idle"
  /\ export' = Answered(FALSE)
  /\ UNCHANGED disk

(* Resolve, serialize and write the sibling; what a failed write leaves of *)
(* it is removed, and nobody reads what an end of the process leaves.      *)
WriteTemp ==
  /\ export.step = "build"
  /\ \/ /\ export' = [export EXCEPT !.step = "rename"]
        /\ disk' = [disk EXCEPT !.temps[export.writing] = "whole"]
     \/ /\ export' = Answered(FALSE)
        /\ UNCHANGED disk

Rename ==
  /\ export.step = "rename"
  /\ \/ /\ export' = Answered(TRUE)
        /\ disk' = [file |-> Whole(export.writing),
                    temps |-> [disk.temps EXCEPT ![export.writing] = "none"]]
     \/ /\ export' = [export EXCEPT !.step = "copy"]
        /\ UNCHANGED disk

(* The fallback overwrites the chosen file in place.                       *)
Copy ==
  /\ export.step = "copy"
  /\ \/ /\ export' = [export EXCEPT !.step = "copying"]
        /\ disk' = [disk EXCEPT !.file = Torn(export.writing)]
     \/ /\ export' = Answered(FALSE)
        /\ UNCHANGED disk

(* Only when both moves failed is the sibling kept.                        *)
TempNeverKept == "none"
TempAfterFailure == "whole"
FinishCopy ==
  /\ export.step = "copying"
  /\ \/ /\ export' = Answered(TRUE)
        /\ \E temp \in {"none", "whole"} :
             disk' = [file |-> Whole(export.writing),
                      temps |-> [disk.temps EXCEPT ![export.writing] = temp]]
     \/ /\ export' = Answered(FALSE)
        /\ disk' = [disk EXCEPT !.temps[export.writing] = TempAfterFailure]

ExportWorker ==
  /\ Running
  /\ ExportTake \/ ExportPanic \/ WriteTemp \/ Rename \/ Copy \/ FinishCopy
  /\ UNCHANGED <<exit, shown, gauge, scan>>

-----------------------------------------------------------------------------
(* The diameter worker and the scan thread.                                *)

MeasureTake ==
  /\ gauge.building = None /\ gauge.asked # None
  /\ gauge' = [gauge EXCEPT !.building = gauge.asked, !.asked = None]

MeasureAnswer ==
  /\ gauge.building # None
  /\ gauge' = [gauge EXCEPT !.answer = gauge.building, !.building = None]

DiameterWorker ==
  /\ Running
  /\ MeasureTake \/ MeasureAnswer
  /\ UNCHANGED <<exit, shown, export, disk, scan>>

Done == [done |-> TRUE, group |-> 0]
Group(n) == [done |-> FALSE, group |-> <<scan.folder, n>>]

(* run_scan over the channel of the handle the shell holds; the thread of  *)
(* a handle that was replaced finds its receiver gone and stops.           *)
ScanWorker ==
  /\ Running
  /\ scan.handle /\ scan.sent <= Groups
  /\ scan' = [scan EXCEPT !.sent = @ + 1,
                !.channel = Append(@, IF scan.sent = Groups THEN Done ELSE Group(scan.sent + 1))]
  /\ UNCHANGED <<exit, shown, gauge, export, disk>>

-----------------------------------------------------------------------------
(* The frame: its polls, in their order, and what the panel hands back.    *)

(* poll_vox_export_worker: a failed export cancels a close that waited.    *)
KeptAnyDeferral(ok) == export.deferred
KeptDeferral(ok) == export.deferred /\ ok
PolledExport ==
  IF export.answer = None THEN export
  ELSE [export EXCEPT !.outstanding = FALSE, !.answer = None,
                      !.settled = @ \cup {export.answer.serial},
                      !.deferred = KeptDeferral(export.answer.ok)]

PolledGauge ==
  IF gauge.answer = None THEN gauge
  ELSE [gauge EXCEPT !.answer = None,
          !.measured = IF gauge.answer.generation = gauge.generation
                       THEN gauge.answer.of ELSE @]

(* The measurement of a band or a scene that was not dispatched yet.       *)
DispatchedGauge(g) ==
  IF g.band = g.measured_band THEN g
  ELSE [g EXCEPT !.generation = @ + 1, !.measured_band = g.band,
          !.asked = [generation |-> g.generation + 1, of |-> <<g.scene, g.band>>]]

(* poll_scan: drain, at most THUMBNAILS_PER_FRAME tiles, the status line.  *)
Drained ==
  LET groups == SelectSeq(scan.channel, LAMBDA m : ~m.done)
      ended == \E i \in DOMAIN scan.channel : scan.channel[i].done
  IN  [scan EXCEPT !.channel = << >>, !.handle = @ /\ ~ended,
                   !.pending = @ \o [i \in DOMAIN groups |-> groups[i].group],
                   !.total = IF ended THEN Groups ELSE @]

Tiled(s) ==
  LET taken == IF Len(s.pending) < THUMBNAILS_PER_FRAME THEN Len(s.pending)
               ELSE THUMBNAILS_PER_FRAME
  IN  [s EXCEPT !.pending = SubSeq(@, taken + 1, Len(@)),
                !.tiles = @ \cup {s.pending[i] : i \in 1 .. taken}]

Reported(s) ==
  IF s.handle \/ s.pending # << >> THEN [s EXCEPT !.settled = None]
  ELSE IF s.total # None THEN [s EXCEPT !.settled = s.total, !.total = None] ELSE s

PolledScan == Reported(Tiled(Drained))

(* The user moves the band, edits the scene - the rebuild may refuse it    *)
(* for its density, and then asks for no measurement - exports, or picks a *)
(* folder.                                                                 *)
Moved(g) == g.scene + g.band
Scrubbed(g) == IF Moved(g) = MaxMoves THEN {} ELSE {[g EXCEPT !.band = @ + 1]}
EditedUnmeasured(g) ==
  IF Moved(g) = MaxMoves THEN {}
  ELSE { [g EXCEPT !.scene = @ + 1, !.built = built] : built \in BOOLEAN }
Edited(g) ==
  IF Moved(g) = MaxMoves THEN {}
  ELSE { [g EXCEPT !.scene = @ + 1, !.built = built,
                   !.measured_band = IF built THEN Unmeasured ELSE @] : built \in BOOLEAN }

ExportVoxReentrant(e) ==
  IF e.exports = MaxExports THEN {}
  ELSE { [e EXCEPT !.outstanding = TRUE, !.exports = @ + 1, !.asked = e.exports + 1] }
ExportVox(e) ==
  IF e.outstanding \/ e.exports = MaxExports THEN {}
  ELSE { [e EXCEPT !.outstanding = TRUE, !.exports = @ + 1, !.asked = e.exports + 1] }

ConnectKeepsPending(s) ==
  IF s.folder = MaxFolders THEN {}
  ELSE { [s EXCEPT !.folder = @ + 1, !.handle = TRUE, !.sent = 0, !.channel = << >>,
                   !.tiles = {}, !.total = None, !.settled = None] }
ConnectFolder(s) ==
  IF s.folder = MaxFolders THEN {}
  ELSE { [s EXCEPT !.folder = @ + 1, !.handle = TRUE, !.sent = 0, !.channel = << >>,
                   !.pending = << >>, !.tiles = {}, !.total = None, !.settled = None] }

Panel(g, e, s) ==
  \/ gauge' = g /\ export' = e /\ scan' = s
  \/ gauge' \in Scrubbed(g) \cup Edited(g) /\ export' = e /\ scan' = s
  \/ export' \in ExportVox(e) /\ gauge' = g /\ scan' = s
  \/ scan' \in ConnectFolder(s) /\ gauge' = g /\ export' = e

Render(e) ==
  IF shown THEN Panel(DispatchedGauge(PolledGauge), e, PolledScan)
  ELSE export' = e /\ UNCHANGED <<gauge, scan>>

(* The export is polled and the waiting close honored before render, which *)
(* does nothing at all when the surface cannot be presented.               *)
RedrawWhenShown ==
  /\ Running
  /\ LET e == IF shown THEN PolledExport ELSE export
     IN  IF e.deferred /\ ~e.outstanding
         THEN exit' = "clean" /\ export' = e /\ UNCHANGED <<gauge, scan>>
         ELSE Render(e) /\ UNCHANGED exit
  /\ UNCHANGED <<shown, disk>>
RedrawRequested ==
  /\ Running
  /\ LET e == PolledExport
     IN  IF e.deferred /\ ~e.outstanding
         THEN exit' = "clean" /\ export' = e /\ UNCHANGED <<gauge, scan>>
         ELSE Render(e) /\ UNCHANGED exit
  /\ UNCHANGED <<shown, disk>>

(* The first close waits for an export, a second one does not.             *)
CloseRequested ==
  /\ Running
  /\ IF export.outstanding /\ ~export.deferred
     THEN export' = [export EXCEPT !.deferred = TRUE] /\ UNCHANGED exit
     ELSE exit' = (IF export.deferred THEN "insisted" ELSE "clean") /\ UNCHANGED export
  /\ UNCHANGED <<shown, gauge, disk, scan>>

Occlude ==
  /\ Running
  /\ shown' = ~shown
  /\ UNCHANGED <<exit, gauge, export, disk, scan>>

Next ==
  ExportWorker \/ DiameterWorker \/ ScanWorker \/ RedrawRequested \/ CloseRequested \/ Occlude

Spec == Init /\ [][Next]_vars

(* Frames keep coming (about_to_wait asks for one each time) and threads   *)
(* are scheduled; the user is under no obligation.                         *)
FairSpec ==
  Spec /\ WF_vars(RedrawRequested) /\ WF_vars(ExportWorker)
       /\ WF_vars(DiameterWorker) /\ WF_vars(ScanWorker)

(* An export is a file the user chose: whatever the worker drains, each    *)
(* one accepted is waiting, being written, answered or settled.            *)
NoExportIsDropped ==
  Running =>
    \A n \in (1 .. export.exports) \ export.settled :
      \/ n \in {export.asked, export.writing}
      \/ export.answer # None /\ export.answer.serial = n

(* "You won't silently lose the file": a close that did not insist ends    *)
(* with every export settled, and one that waited with the file in place.  *)
CleanExitLosesNothing ==
  exit = "clean" =>
    /\ export.settled = 1 .. export.exports
    /\ export.deferred => disk.file = Whole(export.exports)

(* However the write failed and wherever the process ended: a chosen file  *)
(* that holds half an export has the whole of it beside it.                *)
TornIsRecoverable == ~disk.file.whole => disk.temps[disk.file.of] = "whole"

(* "The final path therefore only ever holds a COMPLETE export", a process *)
(* that ended mid-write included.                                          *)
FinalPathIsComplete == ~Running => disk.file.whole

(* A close that waits ends, with the window minimized as well: the process *)
(* exits or the user is told that the export failed.                       *)
DeferredCloseEnds == export.deferred ~> ~Running \/ ~export.deferred

(* Once the window stays presentable, the readout comes to be the one of   *)
(* the scene and the band on show, unless the scene was refused.           *)
ReadoutSettles ==
  <>[]shown => <>[](Running /\ gauge.built => gauge.measured = <<gauge.scene, gauge.band>>)

(* And the palette comes to hold the blocks of the folder picked last, all *)
(* and only those, with the count the status line settles on.              *)
ScanSettles ==
  <>[]shown =>
    <>[](Running => /\ scan.settled = Cardinality(scan.tiles)
                    /\ scan.tiles = {<<scan.folder, n>> : n \in 1 .. Groups})
=============================================================================
