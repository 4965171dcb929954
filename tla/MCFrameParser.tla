---------------------------- MODULE MCFrameParser ----------------------------
(***************************************************************************)
(* Instance of FrameParser for TLC: frames of every payload from none to   *)
(* two buffers' worth, frames without payload at the beginning, in the     *)
(* middle, twice in a row and at the end.                                  *)
(***************************************************************************)
EXTENDS FrameParser

Payloads == <<0, 2, 0, 0, 8, 1, 0>>
MCStart ==
  LET start[f \in 0 .. Len(Payloads)] ==
        IF f = 0 THEN 0 ELSE start[f - 1] + SOCKET_DATA_CONNECT_FLAG + Payloads[f]
  IN  start
=============================================================================
