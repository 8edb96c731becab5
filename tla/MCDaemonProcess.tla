-------------------------- MODULE MCDaemonProcess --------------------------
(***************************************************************************)
(* Small instances of DaemonProcess: two mapping files, the global list,   *)
(* two terminals, three pids.                                              *)
(***************************************************************************)
EXTENDS DaemonProcess, TLC

Interchangeable == Permutations(Pids) \cup Permutations(Shells)
=============================================================================
