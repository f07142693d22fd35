---------------------------- MODULE MCShellJobs ----------------------------
(* A window with one edit, one scrub, two exports and one folder to pick.  *)
EXTENDS ShellJobs
=============================================================================
