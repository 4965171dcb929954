--------------------------- MODULE MCServerControl ---------------------------
(***************************************************************************)
(* Instances of ServerControl for TLC: two tills, or one.                  *)
(***************************************************************************)
EXTENDS ServerControl, TLC

CONSTANTS T1, T2, R1, R2, D1, D2

TwoReaderAt  == T1 :> R1 @@ T2 :> R2
TwoDisplayAt == T1 :> D1 @@ T2 :> D2
OneReaderAt  == T1 :> R1
OneDisplayAt == T1 :> D1

(* The messages of each instance.                                          *)
AllKinds == {"NETINFO", "EPC_DATA", "EPC_AUTO", "AUTO_STOP", "HEARTBEAT", "DISPLAYS_DEV",
              "NONE", "VIDEO", "COMM_EPC_AUTO", "COMM_EPC_AUTO_STOP", "REQUEST_TO_PAY",
              "CONFIRM_PAY_MENT"}
PayKinds == {"NETINFO", "DISPLAYS_DEV", "REQUEST_TO_PAY", "CONFIRM_PAY_MENT"}
=============================================================================
