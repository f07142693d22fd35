----------------------------- MODULE MCSupersede -----------------------------
(* Small instances of the supersede protocol; the configuration gives the  *)
(* constants their values.                                                 *)
EXTENDS Supersede
=============================================================================
