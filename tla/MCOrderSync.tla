---------------------------- MODULE MCOrderSync ----------------------------
(***************************************************************************)
(* Small instances of OrderSync.  The path keeps one code of each kind:    *)
(* cancellable with and without an announcement, and the end.              *)
(***************************************************************************)
EXTENDS OrderSync

MCPath == <<20, 25, 60, 70>>
=============================================================================
