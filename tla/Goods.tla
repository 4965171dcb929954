-------------------------------- MODULE Goods --------------------------------
(***************************************************************************)
(* From a tag to the price on the screen: the control thread asks for the  *)
(* goods with a tag (ServerControl.cpp), the database library turns the    *)
(* question into a query and its rows into a document (mysqllib/api/       *)
(* MariaDBLibInterface.cpp), and the display cuts the document into fields *)
(* and computes the price (DisplaysAndroid CInterface.java).               *)
(*                                                                         *)
(* The functions of this module are pure; module GoodsStore runs them on a *)
(* table behind a connection.  A row is a record of the eight columns.     *)
(***************************************************************************)
EXTENDS Json

CONSTANTS IntLimit, (* 2^31, the first number that is no int                *)
          Fold(_)   (* what the collation of a column compares of a letter  *)

ASSUME LimitAssumption == IntLimit \in Nat \ {0} /\ IntLimit - 1 <= 2147483647

NumberColumn == {"goodsType", "goodsID", "goodsProperty", "cost", "costoff"}
TextColumn   == {"goodsName", "goodsSIC"}
AllColumn    == NumberColumn \union TextColumn \union {"putInTime"}

(* The names of the keys of a question, and of the columns.                *)
K(name) == <<name>>

(* Each of these names is one character of a text.                         *)
ASSUME NameAssumption ==
  AllColumn \union
  {"bGoodsType", "bGoodsID", "bGoodsProperty", "bCost", "bCostoff", "bPutInTime",
   "iGoodsName", "iGoodsSIC", "From", "To", "val", "count", "target", "candidate", ">"}
    \subseteq Char

(* The elements of s that stand at the places in "which", in their order.  *)
InOrder(s, which) ==
  LET upTo[i \in 0 .. Len(s)] ==
        IF i = 0 THEN <<>>
        ELSE upTo[i - 1] \o (IF i \in which THEN <<s[i]>> ELSE <<>>)
  IN  upTo[Len(s)]

-----------------------------------------------------------------------------
(* The question.                                                           *)

NOCHECK     == 0
FUZZY_CHECK == 1
EXACT_CHECK == 2

(* createJsonDate: every criterion is there and none is asked for.         *)
BoolKey(col) == CASE col = "goodsType" -> "bGoodsType"
                  [] col = "goodsID" -> "bGoodsID"
                  [] col = "goodsProperty" -> "bGoodsProperty"
                  [] col = "cost" -> "bCost"
                  [] col = "costoff" -> "bCostoff"
                  [] col = "putInTime" -> "bPutInTime"
CheckKey(col) == IF col = "goodsName" THEN "iGoodsName" ELSE "iGoodsSIC"
FromKey(col) == <<col, "From">>
ToKey(col)   == <<col, "To">>

AddRange(v, col) ==
  AddPropertyInt(AddPropertyInt(
    AddProperty(v, K(BoolKey(col)), <<"false">>, TRUE), FromKey(col), 0), ToKey(col), 0)
AddCheck(v, col) ==
  AddProperty(AddPropertyInt(v, K(CheckKey(col)), NOCHECK), FromKey(col), <<>>, TRUE)
AddTime(v) ==
  AddProperty(AddProperty(AddProperty(v, K("bPutInTime"), <<"false">>, TRUE),
    FromKey("putInTime"), <<>>, TRUE), ToKey("putInTime"), <<>>, TRUE)

CreateJsonDate(v) ==
  AddCheck(AddRange(AddRange(AddRange(AddTime(AddCheck(AddRange(AddRange(v,
    "goodsProperty"), "goodsType"), "goodsName")), "goodsID"), "costoff"), "cost"),
    "goodsSIC")

NoQuestion == CreateJsonDate(Object(<<>>, <<>>))

(* The question of the control thread when a reader reports a tag.         *)
TagQuestion(tag) ==
  Assign(Assign(NoQuestion, K("iGoodsSIC"), SetInt(EXACT_CHECK)),
         FromKey("goodsSIC"), SetStr(tag, FALSE))

-----------------------------------------------------------------------------
(* setCheckItems: what a question asks of every column.                    *)

Criterion(mode, from, to) == [mode |-> mode, from |-> from, to |-> to]
NoCriterion == Criterion("NOCHECK", 0, 0)

RangeItem(q, col) ==
  IF ToBool(At(q, K(BoolKey(col))))
    THEN Criterion("RANGE", ToInt(At(q, FromKey(col))), ToInt(At(q, ToKey(col))))
    ELSE NoCriterion

TimeItem(q) ==
  LET from == At(q, FromKey("putInTime"))
      to   == At(q, ToKey("putInTime"))
  IN  IF ToBool(At(q, K("bPutInTime"))) /\ from.type = "STRING" /\ to.type = "STRING"
        THEN Criterion("BETWEEN", ToStr(from), ToStr(to))
        ELSE NoCriterion

(* Whether a text is searched for as a beginning: for the name the number  *)
(* beside it says so; for the tag, line 143 reads the tag itself as that   *)
(* number.                                                                 *)
TextItem(q, col) ==
  LET text  == At(q, FromKey(col))
      which == IF col = "goodsName" THEN At(q, K(CheckKey(col))) ELSE text
  IN  IF ToInt(At(q, K(CheckKey(col)))) = NOCHECK \/ text.type # "STRING"
        THEN NoCriterion
        ELSE Criterion(IF ToInt(which) = FUZZY_CHECK THEN "FUZZY" ELSE "EXACT",
                       ToStr(text), 0)

SetCheckItems(q) ==
  [col \in AllColumn |->
     IF col \in NumberColumn THEN RangeItem(q, col)
     ELSE IF col \in TextColumn THEN TextItem(q, col)
     ELSE TimeItem(q)]

-----------------------------------------------------------------------------
(* getCheckItems: the conditions, in the order in which they are written,  *)
(* each behind "where" or "and".                                           *)

ColumnOrder == <<"goodsType", "goodsName", "goodsID", "putInTime",
                 "goodsProperty", "goodsSIC", "cost", "costoff">>

Condition(items, col) ==
  IF items[col].mode = "RANGE" /\ items[col].from = items[col].to
    THEN Criterion("EQUAL", items[col].from, 0)
    ELSE items[col]

Asked(items) ==
  InOrder(ColumnOrder, {i \in DOMAIN ColumnOrder : items[ColumnOrder[i]].mode # "NOCHECK"})

(* Variant: every condition is written behind "where".                     *)
GetCheckItems_Where(items) ==
  LET asked == Asked(items)
  IN  [i \in DOMAIN asked |->
         [word |-> "where", col |-> asked[i], cond |-> Condition(items, asked[i])]]

GetCheckItems(items) ==
  LET asked == Asked(items)
  IN  [i \in DOMAIN asked |->
         [word |-> IF i = 1 THEN "where" ELSE "and",
          col |-> asked[i], cond |-> Condition(items, asked[i])]]

(* What MariaDB makes of it: the rows that fulfil all conditions, in the   *)
(* order of the table, or an error.                                        *)

(* A text is put between two apostrophes as it is.  It stays in them, and  *)
(* its condition in the 254 characters there are for one, if it is not     *)
(* longer than a column and has no mark of a literal in it.                *)
ColumnWidth == 64
Literal(t) == Len(t) <= ColumnWidth /\ \A i \in DOMAIN t : t[i] \notin {"'", Backslash}

TextsOf(cond) ==
  CASE cond.mode \in {"EXACT", "FUZZY"} -> {cond.from}
    [] cond.mode = "BETWEEN"            -> {cond.from, cond.to}
    [] OTHER                            -> {}

(* = compares as the collation does, and takes no notice of blanks at the  *)
(* end.                                                                    *)
Unpadded(t) == SubSeq(t, 1, Max({0} \union {i \in DOMAIN t : t[i] # " "}))
Folded(t)   == LET u == Unpadded(t) IN [i \in DOMAIN u |-> Fold(u[i])]
SameText(x, y) == Folded(x) = Folded(y)

(* REGEXP BINARY '^%s.*' compares character by character, as long as none  *)
(* of them has a meaning of its own in a pattern.                          *)
PatternMark == {".", "*", "+", "?", "[", "]", "(", ")", "{", "}", "|", "^", "$"}
NoPattern(t) == \A i \in DOMAIN t : t[i] \notin PatternMark
StartsWith(t, beginning) ==
  Len(beginning) <= Len(t) /\ SubSeq(t, 1, Len(beginning)) = beginning

(* Nothing is said of what other patterns match.                           *)
Holds(cond, x) ==
  CASE cond.mode = "EQUAL"   -> x = cond.from
    [] cond.mode = "RANGE"   -> cond.from <= x /\ x <= cond.to
    [] cond.mode = "BETWEEN" -> Atoi(cond.from) <= Atoi(x) /\ Atoi(x) <= Atoi(cond.to)
    [] cond.mode = "EXACT"   -> SameText(x, cond.from)
    [] cond.mode = "FUZZY" /\ NoPattern(cond.from) -> StartsWith(x, cond.from)

WellFormed(clauses) ==
  \A i \in DOMAIN clauses :
    /\ clauses[i].word = IF i = 1 THEN "where" ELSE "and"
    /\ \A t \in TextsOf(clauses[i].cond) : Literal(t)

Select(table, clauses) ==
  InOrder(table, {r \in DOMAIN table :
    \A i \in DOMAIN clauses : Holds(clauses[i].cond, table[r][clauses[i].col])})

-----------------------------------------------------------------------------
(* The answer of SelectItemsFromTable.                                     *)

Column(row, col) ==
  IF col \in NumberColumn THEN Digits(row[col]) ELSE row[col]

(* Variant: cost and reduction change places.                              *)
ItemText_Swapped(row) ==
  LET c(col) == Column(row, col) IN
  c("goodsType") \o <<">">> \o c("goodsName") \o <<">">> \o c("goodsID")
    \o <<">">> \o c("putInTime") \o <<">">> \o c("goodsProperty")
    \o <<">">> \o c("goodsSIC") \o <<">">> \o c("costoff") \o <<">">> \o c("cost")

ItemText(row) ==
  LET c(col) == Column(row, col) IN
  c("goodsType") \o <<">">> \o c("goodsName") \o <<">">> \o c("goodsID")
    \o <<">">> \o c("putInTime") \o <<">">> \o c("goodsProperty")
    \o <<">">> \o c("goodsSIC") \o <<">">> \o c("cost") \o <<">">> \o c("costoff")

Candidate(row) ==
  Assign(Object(<<K("val")>>, <<Null>>), K("val"), SetStr(ItemText(row), FALSE))

Answer(rows) ==
  LET candidates[i \in 0 .. Len(rows)] ==
        IF i = 0 THEN Array(<<>>) ELSE AddValJson(candidates[i - 1], Candidate(rows[i]))
      settings == Object(<<K("count"), K("target"), K("candidate")>>,
                         <<SetInt(Len(rows)), Null, candidates[Len(rows)]>>)
  IN  CStr(AddValJson(Array(<<>>), settings))

-----------------------------------------------------------------------------
(* getInsertValue: the row that a document describes; every value is a     *)
(* text there, and a missing one leaves the command empty.                 *)

CanInsert(q) == \A col \in AllColumn : At(q, K(col)).type = "STRING"

InsertValue(q) ==
  [col \in AllColumn |->
     LET text == ToStr(At(q, K(col)))
     IN  IF col \in NumberColumn THEN Atoi(text) ELSE text]

-----------------------------------------------------------------------------
(* NotifyForSystemString of the display.                                   *)

(* String.split: the pieces between the marks, without empty ones at the   *)
(* end.                                                                    *)
PieceEnd(t, mark, i) == Min({j \in i .. Len(t) : t[j] = mark} \union {Len(t) + 1}) - 1

Pieces(t, mark) ==
  LET from[i \in Nat] ==
        IF i > Len(t) THEN <<>>
        ELSE <<SubSeq(t, i, PieceEnd(t, mark, i))>> \o from[PieceEnd(t, mark, i) + 2]
  IN  from[1]

Split(t, mark) ==
  LET pieces == Pieces(t, mark)
      last   == Max({0} \union {i \in DOMAIN pieces : pieces[i] # <<>>})
  IN  SubSeq(pieces, 1, last)

(* int has 2 * IntLimit values; a product beyond wraps around, and the     *)
(* division rounds towards zero.                                           *)
Wrap(n) == ((n + IntLimit) % (2 * IntLimit)) - IntLimit
Percent(n) == IF n < 0 THEN -((-n) \div 100) ELSE n \div 100

(* What the display shows: the goods' name, price, number (the column      *)
(* goodsProperty) and reduction, and what they cost together; the text     *)
(* itself when it has less than eight fields.                              *)
Shown(name, price, number, costoff, cost) ==
  [name |-> name, price |-> price, number |-> number, costoff |-> costoff,
   cost |-> cost]

NotifyForSystemString(text) ==
  LET buf     == Split(text, ">")
      off     == Split(buf[8], Quote)
      price   == Atoi(buf[7])
      number  == Atoi(buf[5])
      costoff == IF off = <<>> THEN 100 ELSE Atoi(off[1])
  IN  IF Len(buf) <= 7 THEN Shown(text, 0, 0, 0, 0)
      ELSE Shown(buf[2], price, number, costoff,
                 Percent(Wrap(price * number * costoff)))
=============================================================================
