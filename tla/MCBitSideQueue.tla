--------------------------- MODULE MCBitSideQueue ----------------------------
(***************************************************************************)
(* Instance of BitSideQueue for TLC.  No counter needs a bound: cells are  *)
(* reused, so the state space is finite and the run is unbounded in        *)
(* length.  The cells and producers are not declared symmetric, because    *)
(* the run checks a liveness property.                                     *)
(***************************************************************************)
EXTENDS BitSideQueue, TLC
=============================================================================
