------------------------------- MODULE BillBook -------------------------------
(***************************************************************************)
(* What a till promises about money: goods go on one open bill; to clear   *)
(* the bill forgets it; a request to pay closes it, and what is due for it *)
(* is confirmed later, once, and in the order of the requests, whatever    *)
(* has been put on the next bill meanwhile.                                *)
(***************************************************************************)
EXTENDS Integers, Sequences

CONSTANTS Goods, Price, Asker

VARIABLES
  bill,      (* the goods on the open bill, in order                        *)
  due        (* the closed bills that are not yet confirmed                 *)

vars == <<bill, due>>

Sum(goods) ==
  LET Upto[i \in 0 .. Len(goods)] == IF i = 0 THEN 0 ELSE Upto[i - 1] + Price[goods[i]]
  IN  Upto[Len(goods)]

Init == bill = <<>> /\ due = <<>>

Add(g) == bill' = Append(bill, g) /\ UNCHANGED due

Clear == bill' = <<>> /\ UNCHANGED due

Pay(a) ==
  /\ due' = Append(due, [asker |-> a, amount |-> Sum(bill)])
  /\ bill' = <<>>

Confirm ==
  /\ due # <<>>
  /\ due' = Tail(due)
  /\ UNCHANGED bill

Next == (\E g \in Goods : Add(g)) \/ Clear \/ (\E a \in Asker : Pay(a)) \/ Confirm

Spec == Init /\ [][Next]_vars
=============================================================================
