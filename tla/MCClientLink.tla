---------------------------- MODULE MCClientLink -----------------------------
(***************************************************************************)
(* Two activities of one process, frames of two parts.                     *)
(***************************************************************************)
EXTENDS ClientLink
=============================================================================
