------------------------------ MODULE ResultSet -------------------------------
(***************************************************************************)
(* The connection to the database and the result of its last query:        *)
(* mysqllib/mysqllib/MysqlDB.cpp, under any queries.  Module GoodsStore    *)
(* puts a table and the calls of the control thread around it.             *)
(***************************************************************************)

VARIABLES
  conn,     (* the connection: "none", "up", "lost" (for good)              *)
  errno,    (* Mysql.net.last_errno of the last call that sets it           *)
  pResult,  (* the result of the last query: "null", "held", "dangling"     *)
  pinged,   (* history: CheckConnect failed while a result was held         *)
  freed     (* history: a result was freed twice                            *)

db == <<conn, errno, pResult, pinged, freed>>

DbInit ==
  /\ conn = "none"
  /\ errno = FALSE
  /\ pResult = "null"
  /\ pinged = FALSE
  /\ freed = FALSE

(* ConnectToMariaDB, which the start of the server calls once.             *)
DbConnect ==
  /\ conn = "none"
  /\ \E ok \in BOOLEAN :
       /\ conn' = IF ok THEN "up" ELSE "lost"
       /\ errno' = ~ok
  /\ UNCHANGED <<pResult, pinged, freed>>

(* The network or the server goes away; nothing connects again.            *)
DbLose ==
  /\ conn = "up"
  /\ conn' = "lost"
  /\ UNCHANGED <<errno, pResult, pinged, freed>>

(* SQLClose fails, after it freed the result, when an error is pending.    *)
CloseFails == pResult # "null" /\ errno

(* Variant: SQLClose frees the result and keeps the pointer to it.         *)
SQLExec_KeepPointer(ok, result) ==
  /\ ok => conn = "up"
  /\ errno' = ~ok
  /\ pResult' = IF ok THEN result ELSE IF pResult = "null" THEN "null" ELSE "dangling"
  /\ freed' = (freed \/ pResult = "dangling")
  /\ UNCHANGED <<conn, pinged>>

(* SQLExec of one query, answered or not; "result" says whether it has     *)
(* rows.  SQLClose comes first, and a query that is not answered leaves    *)
(* no result behind.                                                       *)
SQLExec(ok, result) ==
  IF CloseFails
    THEN /\ ~ok
         /\ pResult' = "dangling"
         /\ freed' = (freed \/ pResult = "dangling")
         /\ UNCHANGED <<conn, errno, pinged>>
    ELSE /\ ok => conn = "up"
         /\ errno' = ~ok
         /\ pResult' = IF ok THEN result ELSE "null"
         /\ UNCHANGED <<conn, pinged, freed>>

(* mysql_ping, for which nothing in the repository asks.                   *)
CheckConnect ==
  /\ conn # "none"
  /\ errno' = (conn = "lost")
  /\ pinged' = (pinged \/ (conn = "lost" /\ pResult # "null"))
  /\ UNCHANGED <<conn, pResult, freed>>

DbNext ==
  \/ DbConnect \/ DbLose \/ CheckConnect
  \/ \E ok \in BOOLEAN, result \in {"null", "held"} : SQLExec(ok, result)

DbSpec == DbInit /\ [][DbNext]_db

(* A result is freed once: SQLClose keeps a pointer to a freed result only *)
(* when an error came up while a result was held, which takes a ping that  *)
(* failed; queries that fail do not lead there.                            *)
FreedOnce == (freed \/ pResult = "dangling") => pinged
=============================================================================
