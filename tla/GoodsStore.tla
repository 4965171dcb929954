----------------------------- MODULE GoodsStore ------------------------------
(***************************************************************************)
(* The table of the goods behind its connection: mysqllib/mysqllib/        *)
(* MysqlDB.cpp (module ResultSet) under the calls of                       *)
(* MariaDBLibInterface.cpp, which the control thread makes one after       *)
(* another.                                                                *)
(*                                                                         *)
(* The columns are those of dwm.sql: a text has at most 64 characters and  *)
(* comes back without blanks at its end, the column costoff has two        *)
(* characters, so that a reduction is below 100; NULL in a column is not   *)
(* considered.                                                             *)
(***************************************************************************)
EXTENDS Goods, ResultSet

CONSTANTS Row,       (* rows that somebody may insert, or that are there    *)
          Tag,       (* tags that readers report                            *)
          Question,  (* other questions: a criterion for every column       *)
          TimeWidth, (* digits of a time                                    *)
          MaxRows    (* bound: rows in the table                            *)

(* A text in which nothing is a mark or a quote.                           *)
NoMarks(t) == \A i \in DOMAIN t : t[i] \notin {">", Quote}

(* A time is written in one form only, so that an earlier one is a smaller *)
(* text and a smaller number.                                              *)
IsTime(t) == t \in [1 .. TimeWidth -> Digit]

(* Numbers are of type int, texts are as they come back from a column, and *)
(* tags have no marks in them.                                             *)
ASSUME RowAssumption ==
  \A row \in Row :
    /\ row = [col \in AllColumn |-> row[col]]
    /\ \A col \in NumberColumn : row[col] \in Nat /\ row[col] < IntLimit
    /\ \A col \in AllColumn \ NumberColumn : row[col] \in Chars
    /\ \A col \in TextColumn :
         Len(row[col]) <= ColumnWidth /\ Unpadded(row[col]) = row[col]
    /\ IsTime(row.putInTime) /\ NoMarks(row.putInTime) /\ NoMarks(row.goodsSIC)
    /\ row.costoff < 100

(* Nothing in a tag has a meaning in a document, a literal or a pattern;   *)
(* readers write tags in one spelling, which is that of the table.         *)
ASSUME TagAssumption ==
  Tag \subseteq {t \in Chars : EncodeCheck(t) = -1 /\ Literal(t) /\ NoPattern(t)}
ASSUME SpellingAssumption ==
  \A row \in Row, tag \in Tag : SameText(row.goodsSIC, tag) => row.goodsSIC = tag

(* A number is asked for as a range, a time too, a name or a tag as what   *)
(* it is or begins with; for the tag, itself decides which (TextItem).     *)
Askable(col, c) ==
  \/ c.mode = "NOCHECK"
  \/ /\ col \in NumberColumn /\ c.mode = "RANGE"
     /\ c.from \in Nat /\ c.from < IntLimit /\ c.to \in Nat /\ c.to < IntLimit
  \/ /\ col = "putInTime" /\ c.mode = "BETWEEN"
     /\ c.from \in Chars /\ c.to \in Chars /\ IsTime(c.from) /\ IsTime(c.to)
  \/ col = "goodsName" /\ c.mode \in {"FUZZY", "EXACT"} /\ c.from \in Chars
  \/ /\ col = "goodsSIC" /\ c.from \in Chars /\ EncodeCheck(c.from) = -1
     /\ c.mode = IF Atoi(c.from) = FUZZY_CHECK THEN "FUZZY" ELSE "EXACT"
ASSUME QuestionAssumption ==
  \A question \in Question :
    DOMAIN question = AllColumn /\ \A col \in AllColumn : Askable(col, question[col])

(* The document of goods, in an answer: its list, it, the list of the      *)
(* candidates, one of them, its text.                                      *)
ASSUME DeepAssumption == MaxDepth >= 5

VARIABLES
  table,    (* current_goods_table                                          *)
  screen,   (* what the display shows                                       *)
  due       (* history: what it should show                                 *)

storeVars == <<table, db, screen, due>>

Blank == Shown(<<>>, 0, 0, 0, 0)

(* The table was loaded by the dump or by another program.                 *)
StoreInit ==
  /\ DbInit
  /\ table \in {<<>>} \union {<<row>> : row \in Row}
  /\ screen = Blank
  /\ due = Blank

-----------------------------------------------------------------------------
(* InsertValueIntoTable, with the document of a row of which one value may *)
(* be missing.  The texts of the row become literals as they are.          *)
Writable(row) == \A col \in AllColumn \ NumberColumn : Literal(row[col])

RowDocument(row, missing) ==
  LET upTo[i \in 0 .. Len(ColumnOrder)] ==
        IF i = 0 THEN Object(<<>>, <<>>)
        ELSE IF ColumnOrder[i] = missing THEN upTo[i - 1]
        ELSE AddProperty(upTo[i - 1], K(ColumnOrder[i]), Column(row, ColumnOrder[i]), TRUE)
  IN  upTo[Len(ColumnOrder)]

InsertValueIntoTable ==
  \E row \in Row, missing \in {"none"} \union NumberColumn, ok \in BOOLEAN :
  \E q \in {RowDocument(row, missing)} :
    /\ Len(table) < MaxRows
    /\ Writable(row)
    /\ ok => CanInsert(q)
    /\ SQLExec(ok, "null")
    /\ table' = IF ok THEN Append(table, InsertValue(q)) ELSE table
    /\ UNCHANGED <<screen, due>>

DeleteValueFromTable ==
  \E row \in Row, ok \in BOOLEAN :
    /\ SQLExec(ok, "null")
    /\ table' = IF ok
                 THEN InOrder(table, {i \in DOMAIN table : table[i].goodsID # row.goodsID})
                 ELSE table
    /\ UNCHANGED <<screen, due>>

-----------------------------------------------------------------------------
(* A reader reports a tag.                                                 *)

Rows(q) == Select(table, GetCheckItems(SetCheckItems(q)))

(* The row whose price is due: the first with this tag.                    *)
WithTag(tag) == InOrder(table, {i \in DOMAIN table : table[i].goodsSIC = tag})
Price(row) == row.cost * row.goodsProperty * row.costoff
Due(row) ==
  Shown(row.goodsName, row.cost, row.goodsProperty, row.costoff, Price(row) \div 100)

(* What the way to the screen cannot carry: a mark or quote in the name, a *)
(* price beyond int, and a tag that reads as the number 1, which finds the *)
(* longer tags too.                                                        *)
Carried(tag) ==
  /\ \A i \in DOMAIN table :
       NoMarks(table[i].goodsName) /\ Price(table[i]) < IntLimit
  /\ Atoi(tag) = FUZZY_CHECK =>
       \A i \in DOMAIN table : Len(table[i].goodsSIC) = Len(tag)

(* SelectItemsFromTable, then GetDeviceInfo, then the display: nothing is  *)
(* shown when a query fails or the first finds nothing.  Of the two        *)
(* queries, the last one made decides what the connection's variables are, *)
(* and the second is made only behind one that was answered.               *)
ReportTag ==
  \E tag \in Tag, ok \in BOOLEAN :
  \E rows \in {Rows(TagQuestion(tag))} :
    LET shows == ok /\ rows # <<>> IN
    /\ SQLExec(ok, "held")
    /\ screen' = IF shows THEN NotifyForSystemString(Answer(rows)) ELSE screen
    /\ due' = IF ~shows THEN due
              ELSE IF Carried(tag) THEN Due(WithTag(tag)[1]) ELSE screen'
    /\ UNCHANGED table

(* What happens to the connection beside the queries.                      *)
Connection == (DbConnect \/ DbLose \/ CheckConnect) /\ UNCHANGED <<table, screen, due>>

StoreNext ==
  \/ Connection
  \/ InsertValueIntoTable \/ DeleteValueFromTable \/ ReportTag

StoreSpec == StoreInit /\ [][StoreNext]_storeVars

-----------------------------------------------------------------------------
(* Properties.                                                             *)

(* The price of the goods with the tag that was reported is the price on   *)
(* the screen, although it went through a question, a query, a document    *)
(* and a text that is cut at marks; the exceptions are those of Carried.   *)
PriceShown == screen = due

(* What a question can say: a number has at most nine digits in a document *)
(* (SetInt), and a text is not escaped on its way into the query, neither  *)
(* as a literal nor as a pattern.                                          *)
NineDigits == 999999999
Sayable(c) ==
  /\ c.mode = "RANGE" => c.from <= NineDigits /\ c.to <= NineDigits
  /\ \A t \in TextsOf(c) : Literal(t)
  /\ c.mode = "FUZZY" => NoPattern(c.from)
Said(question) == \A col \in AllColumn : Sayable(question[col])

(* A question that can be said finds the rows that fulfil each of its      *)
(* criteria and no other, in any combination of criteria, although every   *)
(* criterion writes its own part of the query, and the query is well       *)
(* formed.                                                                 *)
Ask(v, col, c) ==
  LET asked == Assign(v, K(BoolKey(col)), Value("BOOL", <<"true">>, <<>>, <<>>)) IN
  CASE c.mode = "NOCHECK" -> v
    [] c.mode = "RANGE" ->
         Assign(Assign(asked, FromKey(col), SetInt(c.from)), ToKey(col), SetInt(c.to))
    [] c.mode = "BETWEEN" ->
         Assign(Assign(asked, FromKey(col), SetStr(c.from, TRUE)),
                ToKey(col), SetStr(c.to, TRUE))
    [] c.mode \in {"FUZZY", "EXACT"} ->
         Assign(Assign(v, K(CheckKey(col)),
                       SetInt(IF c.mode = "FUZZY" THEN FUZZY_CHECK ELSE EXACT_CHECK)),
                FromKey(col), SetStr(c.from, TRUE))
AskAll(question) ==
  LET upTo[i \in 0 .. Len(ColumnOrder)] ==
        IF i = 0 THEN NoQuestion
        ELSE Ask(upTo[i - 1], ColumnOrder[i], question[ColumnOrder[i]])
  IN  upTo[Len(ColumnOrder)]
Clauses == [question \in Question |-> GetCheckItems(SetCheckItems(AskAll(question)))]

FindsWhatIsAsked ==
  \A question \in Question : Said(question) =>
    /\ WellFormed(Clauses[question])
    /\ Select(table, Clauses[question]) =
         InOrder(table, {i \in DOMAIN table :
           \A col \in DOMAIN question :
             question[col].mode # "NOCHECK" => Holds(question[col], table[i][col])})
=============================================================================
