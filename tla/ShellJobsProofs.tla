-------------------------- MODULE ShellJobsProofs --------------------------
(***************************************************************************)
(* Proofs about the .vox export and the close it holds up, for every       *)
(* number of exports, edits and folders, with and without panics.  The     *)
(* readout and the scan do not enter: no step of theirs touches an export. *)
(*                                                                         *)
(* The three invariants of the runs follow from where an export can be:    *)
(* none is in flight, or exactly the newest one is, in one place, and what *)
(* the worker has said and left on the disk is true of it.                 *)
(***************************************************************************)
EXTENDS ShellJobs, TLAPS

Steps == {"idle", "build", "rename", "copy", "copying"}
Exports ==
  [outstanding : BOOLEAN, deferred : BOOLEAN, exports : 0 .. MaxExports,
   settled : SUBSET Serials, asked : Serials \cup {None}, writing : Serials \cup {None},
   step : Steps, answer : Answers \cup {None}]
Disks ==
  [file : [of : 0 .. MaxExports, whole : BOOLEAN],
   temps : [Serials -> {"none", "whole"}]]

(* Every export but the newest is settled, and that one is settled or in   *)
(* exactly one of the three places.                                        *)
Settled(e) ==
  /\ ~e.outstanding
  /\ e.settled = 1 .. e.exports
  /\ e.asked = None /\ e.writing = None /\ e.answer = None
InFlight(e) ==
  /\ e.outstanding /\ e.exports \in Serials
  /\ e.settled = 1 .. e.exports - 1
  /\ \/ e.asked = e.exports /\ e.writing = None /\ e.answer = None
     \/ e.asked = None /\ e.writing = e.exports /\ e.answer = None
     \/ e.asked = None /\ e.writing = None /\ e.answer # None /\ e.answer.serial = e.exports
OneInFlight(e) ==
  /\ (e.step = "idle") = (e.writing = None)
  /\ Settled(e) \/ InFlight(e)

(* A good answer tells what the chosen file holds until it is read.        *)
AnswerIsTrue(e, d) == e.answer # None /\ e.answer.ok => d.file = Whole(e.answer.serial)

(* The sibling is there from its write to its move.                        *)
SiblingIsThere(e, d) ==
  e.step \in {"rename", "copy", "copying"} => d.temps[e.writing] = "whole"

(* Only a close that has an export to wait for waits.                      *)
DeferredWaits(e) == e.deferred => e.outstanding

Sound(e, d) ==
  /\ e \in Exports /\ d \in Disks
  /\ OneInFlight(e) /\ AnswerIsTrue(e, d) /\ SiblingIsThere(e, d)

ShellInv ==
  /\ Sound(export, disk) /\ TornIsRecoverable /\ (disk.file.of = 0 => disk.file.whole)
  /\ Running => DeferredWaits(export)
  /\ CleanExitLosesNothing

(***************************************************************************)
(* The export worker.                                                      *)
(***************************************************************************)

(* An empty place holds no serial and no answer.                           *)
LEMMA NoneIsNothing ==
  /\ \A n \in Serials : n # None
  /\ \A serial \in Serials, ok \in BOOLEAN : [serial |-> serial, ok |-> ok] # None
BY NoneIsNoValue DEF Answers

(* What the worker does between a request and its answer keeps the export  *)
(* in its one place (vox_export.rs, write_vox_file).                       *)
LEMMA WorkerIsSound ==
  ASSUME ShellInv, ExportWorker
  PROVE  Sound(export', disk')
<1> DEFINE w == export.writing
<1>1. /\ Sound(export, disk) /\ UNCHANGED exit
      /\ ExportTake \/ ExportPanic \/ WriteTemp \/ Rename \/ Copy \/ FinishCopy
  BY DEF ShellInv, ExportWorker
<1>2. /\ export \in Exports /\ disk \in Disks /\ OneInFlight(export)
      /\ AnswerIsTrue(export, disk) /\ SiblingIsThere(export, disk)
  BY <1>1 DEF Sound
<1>3. CASE ExportTake
  BY <1>2, <1>3, NoneIsNothing
  DEF ExportTake, Sound, Exports, Steps, OneInFlight, Settled, InFlight, AnswerIsTrue, SiblingIsThere
<1>4. ASSUME export.step # "idle"
      PROVE  /\ w \in Serials /\ w = export.exports
             /\ InFlight(export) /\ export.asked = None /\ export.answer = None
  BY <1>2, <1>4 DEF Exports, OneInFlight, Settled, InFlight
<1>5. ASSUME export.step # "idle", NEW ok \in BOOLEAN, export' = Answered(ok), disk' \in Disks,
             ok => disk'.file = Whole(w)
      PROVE  Sound(export', disk')
  BY <1>2, <1>4, <1>5, NoneIsNothing
  DEF Answered, Sound, Exports, Steps, Answers, OneInFlight, InFlight, AnswerIsTrue, SiblingIsThere
<1>6. ASSUME export.step # "idle", NEW step \in Steps \ {"idle"},
             export' = [export EXCEPT !.step = step], disk' \in Disks,
             step # "build" => disk'.temps[w] = "whole"
      PROVE  Sound(export', disk')
  BY <1>2, <1>4, <1>6
  DEF Sound, Exports, Steps, OneInFlight, InFlight, AnswerIsTrue, SiblingIsThere
<1>7. CASE ExportPanic
  BY <1>2, <1>5, <1>7 DEF ExportPanic
<1>8. CASE WriteTemp
  <2>1. w \in Serials
    BY <1>4, <1>8 DEF WriteTemp
  <2>2. [disk EXCEPT !.temps[w] = "whole"] \in Disks
    BY <1>2, <2>1 DEF Disks
  <2>3. [disk EXCEPT !.temps[w] = "whole"].temps[w] = "whole"
    BY <1>2, <2>1 DEF Disks
  <2> QED
    BY <1>2, <1>5, <1>6, <1>8, <2>2, <2>3 DEF WriteTemp, Steps
<1>9. ASSUME w \in Serials, NEW temp \in {"none", "whole"}, NEW n \in Serials,
             NEW whole \in BOOLEAN
      PROVE  /\ [file |-> [of |-> n, whole |-> whole],
                 temps |-> [disk.temps EXCEPT ![w] = temp]] \in Disks
             /\ [disk EXCEPT !.temps[w] = temp] \in Disks
             /\ [disk EXCEPT !.file = [of |-> n, whole |-> whole]] \in Disks
  <2>1. Serials \subseteq 0 .. MaxExports
    BY DEF Serials
  <2>2. [of |-> n, whole |-> whole] \in [of : 0 .. MaxExports, whole : BOOLEAN]
    BY <1>9, <2>1
  <2>3. [disk.temps EXCEPT ![w] = temp] \in [Serials -> {"none", "whole"}]
    BY <1>2, <1>9 DEF Disks
  <2> QED
    BY <1>2, <2>2, <2>3 DEF Disks
<1>10. CASE Rename
  <2>1. w \in Serials /\ disk.temps[w] = "whole"
    BY <1>2, <1>4, <1>10 DEF Rename, SiblingIsThere
  <2>2. CASE /\ export' = Answered(TRUE)
             /\ disk' = [file |-> Whole(w), temps |-> [disk.temps EXCEPT ![w] = "none"]]
    <3>1. disk' \in Disks /\ disk'.file = Whole(w)
      BY <1>9, <2>1, <2>2 DEF Whole
    <3> QED
      BY <1>5, <1>10, <2>2, <3>1 DEF Rename
  <2>3. CASE export' = [export EXCEPT !.step = "copy"] /\ UNCHANGED disk
    BY <1>2, <1>6, <1>10, <2>1, <2>3 DEF Rename, Steps
  <2> QED
    BY <1>10, <2>2, <2>3 DEF Rename
<1>11. CASE Copy
  <2>1. w \in Serials /\ disk.temps[w] = "whole"
    BY <1>2, <1>4, <1>11 DEF Copy, SiblingIsThere
  <2>2. /\ [disk EXCEPT !.file = Torn(w)] \in Disks
        /\ [disk EXCEPT !.file = Torn(w)].temps[w] = "whole"
    BY <1>2, <1>9, <2>1 DEF Torn, Disks
  <2> QED
    BY <1>2, <1>5, <1>6, <1>11, <2>1, <2>2 DEF Copy, Steps
<1>12. CASE FinishCopy
  <2>1. w \in Serials
    BY <1>4, <1>12 DEF FinishCopy
  <2>2. ASSUME NEW temp \in {"none", "whole"}, export' = Answered(TRUE),
               disk' = [file |-> Whole(w), temps |-> [disk.temps EXCEPT ![w] = temp]]
        PROVE  Sound(export', disk')
    <3>1. disk' \in Disks /\ disk'.file = Whole(w)
      BY <1>9, <2>1, <2>2 DEF Whole
    <3> QED
      BY <1>5, <1>12, <2>2, <3>1 DEF FinishCopy
  <2>3. ASSUME export' = Answered(FALSE), disk' = [disk EXCEPT !.temps[w] = "whole"]
        PROVE  Sound(export', disk')
    <3>1. disk' \in Disks
      BY <1>9, <2>1, <2>3
    <3> QED
      BY <1>5, <1>12, <2>3, <3>1 DEF FinishCopy
  <2> QED
    BY <1>12, <2>2, <2>3 DEF FinishCopy, TempAfterFailure
<1> QED
  BY <1>1, <1>3, <1>7, <1>8, <1>10, <1>11, <1>12

(* Whatever the worker does to the chosen file or to its sibling, a half   *)
(* overwritten file keeps the whole export beside it.                      *)
LEMMA WorkerKeepsTheSibling ==
  ASSUME ShellInv, ExportWorker
  PROVE  (TornIsRecoverable /\ (disk.file.of = 0 => disk.file.whole))'
<1> DEFINE w == export.writing
<1>1. /\ Sound(export, disk) /\ TornIsRecoverable /\ (disk.file.of = 0 => disk.file.whole)
      /\ ExportTake \/ ExportPanic \/ WriteTemp \/ Rename \/ Copy \/ FinishCopy
  BY DEF ShellInv, ExportWorker
<1>2. export \in Exports /\ disk \in Disks /\ OneInFlight(export) /\ SiblingIsThere(export, disk)
  BY <1>1 DEF Sound
<1>3. CASE UNCHANGED disk
  BY <1>1, <1>3 DEF TornIsRecoverable
<1>4. ASSUME export.step # "idle" PROVE w \in Serials /\ w # 0
  BY <1>2, <1>4 DEF Exports, OneInFlight, Settled, InFlight, Serials
<1>5. CASE disk' = [disk EXCEPT !.temps[w] = "whole"] /\ w \in Serials
  <2>1. disk'.file = disk.file
    BY <1>2, <1>5 DEF Disks
  <2>2. \A n \in Serials : disk.temps[n] = "whole" => disk'.temps[n] = "whole"
    BY <1>2, <1>5 DEF Disks
  <2>3. disk.file.of = 0 \/ disk.file.of \in Serials
    BY <1>2 DEF Disks, Serials
  <2> QED
    BY <1>1, <2>1, <2>2, <2>3 DEF TornIsRecoverable
<1>6. CASE disk'.file = Whole(w) /\ w # 0
  BY <1>6 DEF TornIsRecoverable, Whole
<1>7. CASE Copy
  <2>1. w \in Serials /\ w # 0 /\ disk.temps[w] = "whole"
    BY <1>2, <1>4, <1>7 DEF Copy, SiblingIsThere
  <2>2. CASE disk' = [disk EXCEPT !.file = Torn(w)]
    <3>1. disk'.file = Torn(w) /\ disk'.temps = disk.temps
      BY <1>2, <2>2 DEF Disks
    <3> QED
      BY <2>1, <3>1 DEF TornIsRecoverable, Torn
  <2> QED
    BY <1>3, <1>7, <2>2 DEF Copy
<1>8. CASE Rename \/ FinishCopy
  <2>1. w \in Serials /\ w # 0
    BY <1>4, <1>8 DEF Rename, FinishCopy
  <2>2. CASE UNCHANGED disk
    BY <1>3, <2>2
  <2>3. CASE disk' = [disk EXCEPT !.temps[w] = "whole"]
    BY <1>5, <2>1, <2>3
  <2>4. ASSUME NEW temp, disk' = [file |-> Whole(w), temps |-> [disk.temps EXCEPT ![w] = temp]]
        PROVE  disk'.file = Whole(w)
    BY <2>4
  <2> QED
    BY <1>6, <1>8, <2>1, <2>2, <2>3, <2>4 DEF Rename, FinishCopy, TempAfterFailure
<1>9. CASE ExportTake \/ ExportPanic \/ WriteTemp
  <2>1. WriteTemp => w \in Serials
    BY <1>4 DEF WriteTemp
  <2> QED
    BY <1>3, <1>5, <1>9, <2>1 DEF ExportTake, ExportPanic, WriteTemp
<1> QED
  BY <1>1, <1>7, <1>8, <1>9

(***************************************************************************)
(* The frame.                                                              *)
(***************************************************************************)

(* Reading the answer settles the newest export, and a close goes on       *)
(* waiting only for an export that is in flight or in the file             *)
(* (poll_vox_export_worker).                                               *)
LEMMA PollIsSound ==
  ASSUME ShellInv, Running
  PROVE  /\ Sound(PolledExport, disk)
         /\ PolledExport.deferred /\ ~PolledExport.outstanding =>
              /\ PolledExport.settled = 1 .. PolledExport.exports
              /\ disk.file = Whole(PolledExport.exports)
<1>1. /\ export \in Exports /\ disk \in Disks /\ OneInFlight(export)
      /\ AnswerIsTrue(export, disk) /\ SiblingIsThere(export, disk)
      /\ DeferredWaits(export)
  BY DEF ShellInv, Sound
<1>2. CASE export.answer = None
  BY <1>1, <1>2 DEF PolledExport, DeferredWaits, Sound
<1>3. CASE export.answer # None
  <2> DEFINE e == PolledExport
  <2>1. /\ export.answer \in Answers /\ export.answer.serial = export.exports
        /\ InFlight(export) /\ export.asked = None /\ export.writing = None
        /\ export.step = "idle"
    BY <1>1, <1>3 DEF Exports, OneInFlight, Settled, InFlight
  <2>2. /\ e.outstanding = FALSE /\ e.answer = None /\ e.exports = export.exports
        /\ e.asked = None /\ e.writing = None /\ e.step = "idle"
        /\ e.settled = export.settled \cup {export.exports}
        /\ e.deferred = (export.deferred /\ export.answer.ok)
    BY <1>1, <1>3, <2>1 DEF PolledExport, KeptDeferral, Exports
  <2>3. e \in Exports
    BY <1>1, <1>3, <2>1 DEF PolledExport, KeptDeferral, Exports, Answers
  <2>4. e.settled = 1 .. e.exports
    BY <2>1, <2>2 DEF InFlight, Serials
  <2>5. Sound(e, disk)
    BY <1>1, <2>2, <2>3, <2>4
    DEF Sound, OneInFlight, Settled, AnswerIsTrue, SiblingIsThere
  <2>6. e.deferred => disk.file = Whole(e.exports)
    BY <1>1, <1>3, <2>1, <2>2 DEF AnswerIsTrue
  <2> QED
    BY <2>4, <2>5, <2>6
<1> QED
  BY <1>2, <1>3

(* A new export is accepted only when none is in flight (export_vox).      *)
LEMMA ExportVoxIsSound ==
  ASSUME NEW e, Sound(e, disk), NEW f \in ExportVox(e)
  PROVE  Sound(f, disk) /\ f.outstanding
<1>1. /\ e \in Exports /\ disk \in Disks /\ Settled(e) /\ e.step = "idle"
      /\ e.exports # MaxExports
      /\ f = [e EXCEPT !.outstanding = TRUE, !.exports = @ + 1, !.asked = e.exports + 1]
  BY DEF Sound, OneInFlight, ExportVox, Settled, InFlight
<1>2. /\ f.outstanding /\ f.exports = e.exports + 1 /\ f.asked = e.exports + 1
      /\ f.writing = None /\ f.answer = None /\ f.step = "idle"
      /\ f.settled = 1 .. e.exports
  BY <1>1 DEF Exports, Settled
<1>3. /\ e.exports + 1 \in Serials /\ e.exports + 1 \in 0 .. MaxExports
      /\ e.exports + 1 - 1 = e.exports
  BY <1>1, JobsAssumption DEF Exports, Serials
<1>4. f \in Exports
  BY <1>1, <1>3 DEF Exports
<1>5. f.exports - 1 = e.exports /\ f.settled = 1 .. f.exports - 1
  <2>1. e.exports \in Nat
    BY <1>1, JobsAssumption DEF Exports
  <2>2. f.exports - 1 = e.exports
    BY <1>2, <2>1
  <2> QED
    BY <1>2, <2>2, Zenon
<1>6. InFlight(f)
  BY <1>2, <1>3, <1>5 DEF InFlight
<1>7. AnswerIsTrue(f, disk) /\ SiblingIsThere(f, disk) /\ (f.step = "idle") = (f.writing = None)
  BY <1>2 DEF AnswerIsTrue, SiblingIsThere
<1>8. OneInFlight(f)
  BY <1>6, <1>7 DEF OneInFlight
<1>9. Sound(f, disk)
  BY <1>1, <1>4, <1>7, <1>8 DEF Sound
<1> QED
  BY <1>2, <1>9

(***************************************************************************)
(* Every step.                                                             *)
(***************************************************************************)

(* A window opens with nothing in flight over whatever the file was.       *)
LEMMA InitKeepsShellInv ==
  ASSUME Init PROVE ShellInv
<1>1. export \in Exports /\ disk \in Disks
  BY JobsAssumption DEF Init, Exports, Disks, Steps, Whole, Serials
<1>2. Sound(export, disk)
  BY <1>1 DEF Init, Sound, OneInFlight, Settled, AnswerIsTrue, SiblingIsThere
<1> QED
  BY <1>2 DEF Init, ShellInv, TornIsRecoverable, Running, DeferredWaits, CleanExitLosesNothing, Whole

(* The invariant is inductive: one case per actor.                         *)
LEMMA StepKeepsShellInv ==
  ASSUME ShellInv, [Next]_vars PROVE ShellInv'
<1>1. CASE UNCHANGED <<exit, export, disk>>
  BY <1>1 DEF ShellInv, TornIsRecoverable, Running, CleanExitLosesNothing
<1>2. CASE ExportWorker
  <2>1. Sound(export', disk') /\ (TornIsRecoverable /\ (disk.file.of = 0 => disk.file.whole))'
    BY <1>2, WorkerIsSound, WorkerKeepsTheSibling
  <2>2. Running /\ Running'
    BY <1>2 DEF ExportWorker, Running
  <2>3. DeferredWaits(export)'
    <3>1. export \in Exports /\ DeferredWaits(export)
      BY <2>2 DEF ShellInv, Sound
    <3>2. export'.deferred = export.deferred /\ export'.outstanding = export.outstanding
      BY <1>2, <3>1 DEF ExportWorker, ExportTake, ExportPanic, WriteTemp, Rename, Copy,
         FinishCopy, Answered, Exports
    <3> QED
      BY <3>1, <3>2 DEF DeferredWaits
  <2> QED
    BY <2>1, <2>2, <2>3 DEF ShellInv, Running, CleanExitLosesNothing
<1>3. CASE RedrawRequested
  <2> DEFINE e == PolledExport
  <2>1. /\ Running /\ UNCHANGED disk
        /\ \/ e.deferred /\ ~e.outstanding /\ exit' = "clean" /\ export' = e
           \/ (e.deferred => e.outstanding) /\ Render(e) /\ UNCHANGED exit
    BY <1>3 DEF RedrawRequested
  <2>2. /\ Sound(e, disk)
        /\ e.deferred /\ ~e.outstanding =>
             e.settled = 1 .. e.exports /\ disk.file = Whole(e.exports)
    BY <2>1, PollIsSound
  <2>3. (TornIsRecoverable /\ (disk.file.of = 0 => disk.file.whole))'
    BY <2>1 DEF ShellInv, TornIsRecoverable
  <2> HIDE DEF e
  <2>4. CASE e.deferred /\ ~e.outstanding /\ exit' = "clean" /\ export' = e
    BY <2>1, <2>2, <2>3, <2>4 DEF ShellInv, Running, CleanExitLosesNothing
  <2>5. CASE (e.deferred => e.outstanding) /\ Render(e) /\ UNCHANGED exit
    <3>1. export' = e \/ export' \in ExportVox(e)
      BY <2>5 DEF Render, Panel
    <3>2. Sound(export', disk) /\ DeferredWaits(export')
      BY <2>2, <2>5, <3>1, ExportVoxIsSound DEF DeferredWaits
    <3> QED
      BY <2>1, <2>3, <2>5, <3>2 DEF ShellInv, Running, CleanExitLosesNothing
  <2> QED
    BY <2>1, <2>4, <2>5
<1>4. CASE CloseRequested
  <2>1. /\ Running /\ UNCHANGED disk /\ Sound(export, disk) /\ DeferredWaits(export)
        /\ \/ /\ export.outstanding /\ ~export.deferred
              /\ export' = [export EXCEPT !.deferred = TRUE] /\ UNCHANGED exit
           \/ /\ ~(export.outstanding /\ ~export.deferred)
              /\ exit' = (IF export.deferred THEN "insisted" ELSE "clean") /\ UNCHANGED export
    BY <1>4 DEF CloseRequested, ShellInv
  <2>2. (TornIsRecoverable /\ (disk.file.of = 0 => disk.file.whole))'
    BY <2>1 DEF ShellInv, TornIsRecoverable
  <2>3. CASE /\ export.outstanding /\ ~export.deferred
             /\ export' = [export EXCEPT !.deferred = TRUE] /\ UNCHANGED exit
    <3>1. Sound(export', disk') /\ DeferredWaits(export')
      BY <2>1, <2>3
      DEF Sound, Exports, OneInFlight, Settled, InFlight, AnswerIsTrue, SiblingIsThere, DeferredWaits
    <3> QED
      BY <2>1, <2>2, <2>3, <3>1 DEF ShellInv, Running, CleanExitLosesNothing
  <2>4. CASE /\ ~(export.outstanding /\ ~export.deferred)
             /\ exit' = (IF export.deferred THEN "insisted" ELSE "clean") /\ UNCHANGED export
    <3>1. exit' = "clean" => ~export.deferred /\ Settled(export)
      BY <2>1, <2>4 DEF Sound, OneInFlight, InFlight
    <3> QED
      BY <2>1, <2>2, <2>4, <3>1 DEF ShellInv, Running, CleanExitLosesNothing, Settled
  <2> QED
    BY <2>1, <2>3, <2>4
<1> QED
  BY <1>1, <1>2, <1>3, <1>4
  DEF Next, vars, DiameterWorker, ScanWorker, Occlude

(* What holds of every reachable window.                                   *)
LEMMA ShellInvHolds == Spec => []ShellInv
<1>1. Init => ShellInv
  BY InitKeepsShellInv
<1>2. ShellInv /\ [Next]_vars => ShellInv'
  BY StepKeepsShellInv
<1> QED
  BY <1>1, <1>2, PTL DEF Spec

(* While the process runs, an accepted export is waiting, being written,   *)
(* answered or settled: no request is lost to a drained channel, a panic   *)
(* or a closing window.                                                    *)
THEOREM ExportsAreKept == Spec => []NoExportIsDropped
<1>1. ShellInv => NoExportIsDropped
  <2> SUFFICES ASSUME ShellInv PROVE NoExportIsDropped
    OBVIOUS
  <2>1. export \in Exports /\ OneInFlight(export)
    BY DEF ShellInv, Sound
  <2>2. CASE Settled(export)
    BY <2>2 DEF Settled, NoExportIsDropped
  <2>3. CASE InFlight(export)
    <3>1. (1 .. export.exports) \ export.settled = {export.exports}
      BY <2>3 DEF InFlight, Serials
    <3> QED
      BY <2>3, <3>1 DEF InFlight, NoExportIsDropped
  <2> QED
    BY <2>1, <2>2, <2>3 DEF OneInFlight
<1> QED
  BY <1>1, ShellInvHolds, PTL

(* A close that did not insist ends with every export settled, and one     *)
(* that waited with the newest of them in the chosen file.                 *)
THEOREM CleanExitIsSafe == Spec => []CleanExitLosesNothing
<1>1. ShellInv => CleanExitLosesNothing
  BY DEF ShellInv
<1> QED
  BY <1>1, ShellInvHolds, PTL

(* A chosen file that holds half an export has the whole of it beside it,  *)
(* at every point of the write and after any end of the process.           *)
THEOREM TornFileIsRecoverable == Spec => []TornIsRecoverable
<1>1. ShellInv => TornIsRecoverable
  BY DEF ShellInv
<1> QED
  BY <1>1, ShellInvHolds, PTL
=============================================================================
