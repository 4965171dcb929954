---------------------------- MODULE MCGoodsStore -----------------------------
(***************************************************************************)
(* Two tags of different length that both read as the number 1, a name     *)
(* with a mark, one that can only be loaded, one that is written in        *)
(* another case than the question, a price beyond int, and questions with  *)
(* one to five criteria, of which some cannot be said.                     *)
(***************************************************************************)
EXTENDS GoodsStore

Goods1(name, id, property, sic, cost) ==
  [goodsType |-> 1, goodsName |-> name, goodsID |-> id, putInTime |-> <<"2", "0">>,
   goodsProperty |-> property, goodsSIC |-> sic, cost |-> cost, costoff |-> 96]

Rows3 == {Goods1(<<"A">>, 1, 2, <<"1">>, 12),
          Goods1(<<"a">>, 2, 3, <<"1", "-">>, 5),
          Goods1(<<"b", ">">>, 1, 1, <<"2", "-">>, 12),
          Goods1(<<"b", Backslash>>, 3, 30, <<"2", "-">>, 12)}
Tags3 == {<<"1">>, <<"1", "-">>, <<"2", "-">>}

Criteria(col) ==
  {NoCriterion} \union
  CASE col = "cost"      -> {Criterion("RANGE", 5, 5), Criterion("RANGE", 5, 12)}
    [] col = "goodsID"   -> {Criterion("RANGE", 2, 3)}
    [] col = "goodsName" -> {Criterion("FUZZY", <<"a">>, 0), Criterion("EXACT", <<"a", " ">>, 0),
                              Criterion("FUZZY", <<".">>, 0), Criterion("EXACT", <<"'">>, 0)}
    [] col = "goodsSIC"  -> {Criterion("EXACT", <<"2", "-">>, 0)}
    [] col = "putInTime" -> {Criterion("BETWEEN", <<"1", "9">>, <<"2", "1">>)}
    [] OTHER -> {}
Columns == {ColumnOrder[i] : i \in DOMAIN ColumnOrder}
Questions ==
  {[col \in Columns |->
      CASE col = "cost" -> c [] col = "goodsID" -> i [] col = "goodsName" -> n
        [] col = "goodsSIC" -> s [] col = "putInTime" -> t [] OTHER -> NoCriterion] :
     c \in Criteria("cost"), i \in Criteria("goodsID"), n \in Criteria("goodsName"),
     s \in Criteria("goodsSIC"), t \in Criteria("putInTime")}
Characters == STRING
LowerCase(c) == IF c = "A" THEN "a" ELSE c
=============================================================================
