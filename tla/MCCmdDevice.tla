---------------------------- MODULE MCCmdDevice ----------------------------
(***************************************************************************)
(* Small instances of CmdDevice for TLC.                                   *)
(***************************************************************************)
EXTENDS CmdDevice, TLC

\* No definition of CmdDevice tells one device from another.
Symmetric == Permutations(Devices)
=============================================================================
