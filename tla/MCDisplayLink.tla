---------------------------- MODULE MCDisplayLink ----------------------------
(***************************************************************************)
(* Instances of DisplayLink for TLC.  One phone beside the destination 0,  *)
(* which the server reads as everybody, makes a confirmation go astray.    *)
(***************************************************************************)
EXTENDS DisplayLink

CONSTANT P1
=============================================================================
