------------------------------- MODULE Routing -------------------------------
(***************************************************************************)
(* The routing policy of the display: for one edit, is a derived artifact  *)
(* (the cuboid mesh, the brick field) patched in place, rebuilt whole on   *)
(* the main thread, or rebuilt whole by a worker?  Pure functions, as in   *)
(* the source; the machine that obeys them is DisplayOrchestrator.         *)
(***************************************************************************)
EXTENDS Integers

(* An edit is a set of dirty chunks, whose number does not matter, or a    *)
(* whole covering set, whose size does.                                    *)
Incremental == [kind |-> "Incremental"]
Wholesale(chunk_count) == [kind |-> "Wholesale", chunk_count |-> chunk_count]

InlineRoutes == {"InlineIncremental", "WholesaleInline"}

(* What the policy knows of the resident copy of an artifact.              *)
ArtifactState(current, outstanding, patchable, supersedes) ==
  [current |-> current, outstanding |-> outstanding, patchable |-> patchable,
   inline_install_supersedes_in_flight |-> supersedes]

(* A plausible slip, for the mutation run: the policy forgets that a build *)
(* is in flight.                                                           *)
RouteIgnoringFlight(state, edit, threshold) ==
  IF edit.kind = "Incremental" /\ state.current /\ state.patchable
  THEN "InlineIncremental"
  ELSE IF edit.kind = "Incremental" \/ edit.chunk_count > threshold
       THEN "WholesaleAsync"
       ELSE "WholesaleInline"

(* The one shared policy, and in it the interlock: what is stale or about  *)
(* to be replaced is never patched, and goes to the worker unless an       *)
(* inline install is known to supersede the build in flight.               *)
RouteDerivedArtifact(state, edit, threshold) ==
  LET patch == /\ edit.kind = "Incremental"
               /\ ~state.outstanding
               /\ state.current
               /\ state.patchable
      interlocked == /\ state.outstanding \/ ~state.current
                     /\ ~state.inline_install_supersedes_in_flight
      exceeds == \/ edit.kind = "Incremental"
                 \/ edit.chunk_count > threshold
  IN  IF patch THEN "InlineIncremental"
      ELSE IF interlocked \/ exceeds THEN "WholesaleAsync" ELSE "WholesaleInline"

(* The mesh: skipped while the brick display stands in for it, else built  *)
(* with its staleness folded in.                                           *)
RouteMeshBuild(brick_display_engaged, mesh_stale, async_outstanding, edit, threshold) ==
  IF brick_display_engaged
  THEN "Skip"
  ELSE RouteDerivedArtifact(ArtifactState(~mesh_stale, async_outstanding, TRUE, FALSE),
                            edit, threshold)

(* The brick field: patched only onto a resident mirror with nothing in    *)
(* flight; otherwise a wholesale of the covering set, which may install    *)
(* inline over a build in flight.                                          *)
RouteBrickRebuild(async_outstanding, incremental, mirror_resident, chunk_count, threshold) ==
  RouteDerivedArtifact(
    ArtifactState(TRUE, async_outstanding, mirror_resident, TRUE),
    IF incremental /\ mirror_resident /\ ~async_outstanding
    THEN Incremental ELSE Wholesale(chunk_count),
    threshold)

(* Two slips in the handover: clear at once, as before handovers could be  *)
(* deferred; and defer although the mesh is already there.                 *)
HandoverAtOnce(reinstalled, mesh_current, would_draw, live) ==
  IF reinstalled THEN "KeepAsDisplay" ELSE "ClearNow"

HandoverAlwaysDeferred(reinstalled, mesh_current, would_draw, live) ==
  IF reinstalled THEN "KeepAsDisplay"
  ELSE IF ~would_draw \/ ~live THEN "ClearNow"
  ELSE "DeferUntilInstall"

(* What becomes of the live brick field once the mesh route is known.      *)
Handover(reinstalled, mesh_current, would_draw, live) ==
  IF reinstalled THEN "KeepAsDisplay"
  ELSE IF mesh_current \/ ~would_draw \/ ~live THEN "ClearNow"
  ELSE "DeferUntilInstall"

(* May the renderer's field be patched, or must it be installed afresh?    *)
PatchInPlace(has_update, live, pending_replacement) ==
  has_update /\ live /\ ~pending_replacement
=============================================================================
