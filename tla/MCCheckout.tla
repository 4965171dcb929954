------------------------------ MODULE MCCheckout ------------------------------
(***************************************************************************)
(* Instances of Checkout for TLC.  The numbers are descriptors as the      *)
(* server would have them; one good costs nothing.                         *)
(***************************************************************************)
EXTENDS Checkout, TLC

CONSTANTS Cup, Gift
MCTag == {Cup, Gift}
MCPrice == (Cup :> 3) @@ (Gift :> 0)
=============================================================================
