--------------------------- MODULE MCRfidRegistry ----------------------------
(***************************************************************************)
(* Instance of RfidRegistry for TLC.  The descriptors are numbers because  *)
(* the walks are in their order; the devices are interchangeable.          *)
(***************************************************************************)
EXTENDS RfidRegistry, TLC

Symmetry == Permutations(Device)
=============================================================================
