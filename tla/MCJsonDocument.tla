--------------------------- MODULE MCJsonDocument ----------------------------
(***************************************************************************)
(* Texts with every character that needs care, alone and next to another.  *)
(***************************************************************************)
EXTENDS JsonDocument

TwoKeys == {<<"k">>, <<"k", "n">>}
Tricky == {<<>>, <<"a", " ">>, <<Backslash>>, <<Backslash, Quote, "]">>,
           <<Quote, Backslash>>, <<"\n", "n">>}
Numbers == {7, 120}
Characters == STRING
=============================================================================
