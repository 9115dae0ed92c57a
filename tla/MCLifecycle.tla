---------------------------- MODULE MCLifecycle ----------------------------
(***************************************************************************)
(* RobotLifecycle for TLC.  The constants are given in the .cfg files.     *)
(***************************************************************************)
EXTENDS RobotLifecycle, TLC

CONSTANTS h1, h2, sa1, sa2, g1, g2, r1, r2
=============================================================================
