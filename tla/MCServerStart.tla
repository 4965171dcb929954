---------------------------- MODULE MCServerStart ----------------------------
(***************************************************************************)
(* Two readers, of which one may come while the other is being accepted,   *)
(* and a display.                                                          *)
(***************************************************************************)
EXTENDS ServerStart, TLC

CONSTANTS R1, R2, D1

TwoReadersOneDisplay == R1 :> "rfid" @@ R2 :> "rfid" @@ D1 :> "user"
=============================================================================
